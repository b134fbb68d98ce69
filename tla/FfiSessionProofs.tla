-------------------------- MODULE FfiSessionProofs --------------------------
(***************************************************************************)
(* Proofs about FfiSession, for any sessions, results, nesting of          *)
(* subtransactions and bounds: what the transaction callbacks keep of the  *)
(* work of the sessions.                                                   *)
(***************************************************************************)
EXTENDS FfiSession, FiniteSetTheorems, SequenceTheorems, TLAPS

Modes == {"idle", "run", "release_sub", "abort_sub", "commit", "abort", "exit"}
Sub == [id : Nat, txn : Nat, level : Nat]
Place == [txn : Nat, subs : Seq(Sub)]
Change == [s : Sessions, n : Nat, at : Place, readonly : BOOLEAN]
Handle == [stmt : Nat, row : Nat, data : {NULL, "a", "b"}]
Slot == [null : BOOLEAN, lob : Handle, tnull : BOOLEAN, len : Nat]

Session ==
  [phase : {"none", "open", "gone"}, at : Place, readonly : BOOLEAN, xact : 0..1,
   sql : BOOLEAN, result : Results \cup {NULL}, next : Nat, import : Nat \cup {NULL},
   importNext : Nat, lobs : SUBSET Handle, stmt : Nat, last_batch : BOOLEAN,
   current_row : 0..Prefetch, buf : [Slots -> Slot]]

\* A savepoint, once set, marks the empty transaction in which the session was got.
Transaction ==
  [live : BOOLEAN, log : Seq(Change), sp : [2..MaxLevel -> {NoSavepoint, 0}]]

PgState ==
  [mode : Modes, txn : Nat, subs : Seq(Sub), begun : Nat, pending : SUBSET Sessions,
   stmts : Nat, outcome : {"none", "commit", "abort"}]

Types ==
  /\ callbacks \in BOOLEAN
  /\ sess \in [Sessions -> Session]
  /\ orcl \in [Sessions -> Transaction]
  /\ pg \in PgState
  /\ pg.pending \subseteq Registered
  /\ done \in SUBSET Change /\ IsFiniteSet(done)
  /\ committed \subseteq done
  /\ aborted \in SUBSET Sub

----------------------------------------------------------------------------
\* The inductive invariant

ReadWrite(s) == sess[s].phase = "open" /\ ~sess[s].readonly

\* The open subtransactions, one per level, and the modes they and the callbacks allow.
SubsView ==
  /\ \A i \in 1..Len(pg.subs) : /\ pg.subs[i].id <= pg.begun /\ pg.subs[i].level = i + 1
                                /\ pg.subs[i].txn = pg.txn
  /\ pg.subs # <<>> => Level <= MaxLevel
  /\ pg.mode \in {"idle", "commit", "exit"} => pg.subs = <<>>
  /\ pg.mode \in {"release_sub", "abort_sub"} => pg.subs # <<>>
  /\ pg.mode \in {"idle", "exit"} => pg.pending = {}

\* Subtransactions that ended, and those in which work was done, are past ones.
HistoryView ==
  /\ \A a \in aborted : a.id <= pg.begun /\ a \notin Range(pg.subs)
  /\ \A c \in done : /\ c.at.txn <= pg.txn /\ sess[c.s].phase # "none"
                     /\ \A b \in Range(c.at.subs) : b.id <= pg.begun
  /\ \A c \in committed : /\ Range(c.at.subs) \cap aborted = {}
                          /\ Range(c.at.subs) \cap Range(pg.subs) = {}

\* The uncommitted work of a session was done where PostgreSQL got the session.
LogView ==
  \A s \in Sessions :
    /\ \A c \in Range(orcl[s].log) :
         c \in done /\ c.s = s /\ c.at = sess[s].at /\ c.readonly = sess[s].readonly
    /\ orcl[s].log # <<>> => sess[s].phase = "open"
    /\ orcl[s].log # <<>> /\ ~sess[s].readonly => Range(sess[s].at.subs) \cap aborted = {}
    /\ \A n \in 2..MaxLevel : orcl[s].sp[n] # NoSavepoint => n <= Len(sess[s].at.subs) + 1

\* xact_level tells whether the session can have uncommitted work.
XactView ==
  /\ \A s \in Sessions :
       /\ sess[s].at.txn <= pg.txn
       /\ sess[s].xact = 0 /\ ~sess[s].readonly => orcl[s].log = <<>>
       /\ sess[s].phase = "open" /\ sess[s].at.txn = pg.txn
            /\ pg.mode \in {"run", "release_sub", "abort_sub"} => sess[s].xact = 1
       /\ pg.mode \in {"idle", "exit"} /\ ReadWrite(s) => sess[s].xact = 0
       /\ pg.mode \in {"commit", "abort"} /\ s \notin pg.pending /\ ReadWrite(s) =>
            sess[s].xact = 0
       /\ pg.mode = "abort_sub" /\ s \notin pg.pending => orcl[s].log = <<>>

\* Work that PostgreSQL may still commit: where it is, or why it is lost.
Kept(c) ==
  \/ c \in committed
  \/ c \in Range(orcl[c.s].log)
  \/ \E a \in aborted : a.txn = c.at.txn /\ a.level <= Len(c.at.subs) + 1
  \/ ~orcl[c.s].live /\ ReadWrite(c.s) /\ sess[c.s].xact = 1
  \/ pg.mode = "abort_sub" /\ Level <= Len(c.at.subs) + 1

MayCommit == \/ pg.mode \in {"run", "release_sub", "abort_sub", "commit"}
             \/ pg.mode = "idle" /\ pg.outcome = "commit"

KeptView ==
  MayCommit => \A c \in done : c.at.txn = pg.txn /\ ~c.readonly => Kept(c)

FfiInv == Types /\ SubsView /\ HistoryView /\ LogView /\ XactView /\ KeptView

----------------------------------------------------------------------------
\* Lemmas about the definitions of FfiSession

(***************************************************************************)
(* Appending to a sequence keeps its elements and adds those of the other. *)
(***************************************************************************)
LEMMA ConcatRange ==
  ASSUME NEW S, NEW p \in Seq(S), NEW q \in Seq(S)
  PROVE  p \o q \in Seq(S) /\ Range(p \o q) = Range(p) \cup Range(q)
<1>1. p \o q \in Seq(S) /\ Len(p \o q) = Len(p) + Len(q)
  OBVIOUS
<1>2. ASSUME NEW x \in Range(p \o q) PROVE x \in Range(p) \cup Range(q)
  <2>1. PICK i \in 1..(Len(p) + Len(q)) : x = (p \o q)[i]
    BY <1>1, <1>2 DEF Range
  <2>2. CASE i <= Len(p)
    BY <2>1, <2>2 DEF Range
  <2>3. CASE i > Len(p)
    <3>1. x = q[i - Len(p)] /\ i - Len(p) \in 1..Len(q)
      BY <2>1, <2>3
    <3> QED BY <3>1 DEF Range
  <2> QED BY <2>1, <2>2, <2>3
<1>3. ASSUME NEW i \in 1..Len(p) PROVE p[i] \in Range(p \o q)
  <2>1. (p \o q)[i] = p[i] /\ i \in 1..Len(p \o q)
    BY <1>1, <1>3
  <2> QED BY <1>1, <2>1 DEF Range
<1>4. ASSUME NEW i \in 1..Len(q) PROVE q[i] \in Range(p \o q)
  <2>1. (p \o q)[Len(p) + i] = q[i] /\ Len(p) + i \in 1..Len(p \o q)
    BY <1>1, <1>4
  <2> QED BY <1>1, <2>1 DEF Range
<1>5. \A x \in Range(p) \cup Range(q) : x \in Range(p \o q)
  <2>1. \A x \in Range(p) : x \in Range(p \o q)
    BY <1>3 DEF Range
  <2>2. \A x \in Range(q) : x \in Range(p \o q)
    BY <1>4 DEF Range
  <2> QED BY <2>1, <2>2
<1>6. \A x \in Range(p \o q) : x \in Range(p) \cup Range(q)
  BY <1>2
<1> QED BY <1>1, <1>5, <1>6

\* The session uses its connection, which changes something, or fails.
Worked(s) ==
  \E new \in SUBSET Change :
    /\ IsFiniteSet(new)
    /\ \A c \in new : c.s = s /\ c.at = Here /\ c.readonly = sess[s].readonly
    /\ done' = done \cup new
    /\ orcl' \in [Sessions -> Transaction]
    /\ \A t \in Sessions \ {s} : orcl'[t] = orcl[t]
    /\ orcl'[s].live = orcl[s].live /\ orcl'[s].sp = orcl[s].sp
    /\ Range(orcl'[s].log) = Range(orcl[s].log) \cup new
    /\ orcl'[s].log = <<>> => orcl[s].log = <<>>

Lost(s) ==
  /\ orcl' \in [Sessions -> Transaction]
  /\ \A t \in Sessions \ {s} : orcl'[t] = orcl[t]
  /\ orcl'[s] = orcl[s] \/ orcl'[s] = FreshTransaction(FALSE)

\* What the steps that are not about transactions leave of the sessions and of PostgreSQL.
SameSession(r, q) ==
  r.phase = q.phase /\ r.at = q.at /\ r.readonly = q.readonly /\ r.xact = q.xact

SessionsStay ==
  /\ sess' \in [Sessions -> Session]
  /\ \A t \in Sessions : SameSession(sess'[t], sess[t])

PgStays ==
  /\ pg' \in PgState
  /\ pg'.subs = pg.subs /\ pg'.txn = pg.txn /\ pg'.begun = pg.begun
  /\ pg'.outcome = pg.outcome
  /\ \/ pg'.mode = pg.mode /\ pg'.pending = pg.pending
     \/ /\ pg'.mode = IF pg.mode = "run" /\ pg.subs # <<>> THEN "abort_sub" ELSE "abort"
        /\ pg'.pending = Registered

UseStep(s) ==
  /\ SessionsStay /\ PgStays
  /\ callbacks' \in BOOLEAN /\ UNCHANGED <<committed, aborted>>
  /\ \/ Usable(s) /\ Worked(s)
     \/ done' = done /\ Lost(s)

(***************************************************************************)
(* A session uses its connection: the changes are of this session, made    *)
(* here, and are added to its transaction and to the history.              *)
(***************************************************************************)
LEMMA ChangedLemma ==
  ASSUME Types, NEW s \in Sessions, NEW k \in 0..2, Changed(s, k)
  PROVE  Worked(s)
<1> DEFINE q == Changes(s, k)
           new == Range(q)
<1>1. Cardinality(done) \in Nat
  BY FS_CardinalityType DEF Types
<1>2. Here \in Place
  BY DEF Types, Here, Place, PgState
<1>3. q \in [1..k -> Change]
  BY <1>1, <1>2 DEF Changes, Change, Types, Session
<1>4. q \in Seq(Change)
  BY <1>3
<1>5. \A c \in new : c.s = s /\ c.at = Here /\ c.readonly = sess[s].readonly
  BY <1>3 DEF Changes, Range
<1>6. IsFiniteSet(new)
  <2>1. DOMAIN q = 1..k
    BY <1>3
  <2>2. new \subseteq {q[1], q[2]}
    BY <2>1 DEF Range
  <2>3. IsFiniteSet({} \cup {q[1]})
    BY FS_EmptySet, FS_AddElement
  <2>4. IsFiniteSet(({} \cup {q[1]}) \cup {q[2]})
    BY <2>3, FS_AddElement
  <2>5. new \in SUBSET (({} \cup {q[1]}) \cup {q[2]})
    BY <2>2
  <2> HIDE DEF new
  <2> QED BY <2>4, <2>5, FS_Subset
<1>7. new \in SUBSET Change
  BY <1>3 DEF Range
<1> DEFINE log == orcl[s].log
<1>8. log \in Seq(Change)
  BY DEF Types, Transaction
<1> HIDE DEF q
<1>9. log \o q \in Seq(Change) /\ Range(log \o q) = Range(log) \cup new
  BY <1>4, <1>8, ConcatRange
<1>10. log \o q = <<>> => log = <<>>
  BY <1>4, <1>8
<1>11. orcl' = [orcl EXCEPT ![s].log = log \o q] /\ done' = done \cup new
  BY DEF Changed, q
<1>12. /\ orcl' \in [Sessions -> Transaction]
       /\ \A t \in Sessions \ {s} : orcl'[t] = orcl[t]
       /\ orcl'[s].live = orcl[s].live /\ orcl'[s].sp = orcl[s].sp
       /\ orcl'[s].log = log \o q
  BY <1>9, <1>11 DEF Types, Transaction
<1>13. orcl'[s].log = <<>> => orcl[s].log = <<>>
  BY <1>10, <1>12
<1> HIDE DEF new
<1> QED BY <1>5, <1>6, <1>7, <1>9, <1>11, <1>12, <1>13 DEF Worked

LEMMA Buffers == Prefetch \in Nat \ {0} /\ ValSize \in Nat \ {0}
BY FfiConstants

(***************************************************************************)
(* A raised error starts the abort of the subtransaction or transaction,   *)
(* with a callback for every registered session.                           *)
(***************************************************************************)
LEMMA RaisedLemma ==
  ASSUME Types
  PROVE  /\ Raised \in PgState
         /\ Raised.pending = Registered
         /\ Raised.subs = pg.subs /\ Raised.txn = pg.txn /\ Raised.begun = pg.begun
         /\ Raised.mode = IF pg.mode = "run" /\ pg.subs # <<>> THEN "abort_sub" ELSE "abort"
<1>1. pg \in PgState /\ Registered \in SUBSET Sessions
  BY DEF Types, Registered
<1>2. Level > 1 <=> pg.subs # <<>>
  BY <1>1 DEF PgState, Level
<1> DEFINE m == IF Running /\ Level > 1 THEN "abort_sub" ELSE "abort"
<1>3. m \in Modes /\ m = IF pg.mode = "run" /\ pg.subs # <<>> THEN "abort_sub" ELSE "abort"
  BY <1>2 DEF Modes, Running
<1>4. Raised = [pg EXCEPT !.mode = m, !.pending = Registered]
  BY DEF Raised
<1> HIDE DEF m
<1> QED BY <1>1, <1>3, <1>4 DEF PgState

(***************************************************************************)
(* Closing a statement changes no more than the statement.                 *)
(***************************************************************************)
LEMMA ClosedLemma ==
  ASSUME Types, NEW s \in Sessions
  PROVE  /\ Closed(sess[s]) \in Session
         /\ Closed(sess[s]).phase = sess[s].phase /\ Closed(sess[s]).at = sess[s].at
         /\ Closed(sess[s]).readonly = sess[s].readonly
         /\ Closed(sess[s]).xact = sess[s].xact
<1>1. sess[s] \in Session /\ 0 \in 0..Prefetch
  BY Buffers DEF Types
<1> QED BY <1>1 DEF Session, Closed

(***************************************************************************)
(* A new session and a new transaction have their types.                   *)
(***************************************************************************)
LEMMA NewLemma ==
  /\ \A phase \in {"none", "open", "gone"}, at \in Place, ro \in BOOLEAN :
       NewSession(phase, at, ro) \in Session
  /\ \A live \in BOOLEAN : FreshTransaction(live) \in Transaction
  /\ Nowhere \in Place
<1>1. EmptySlot \in Slot
  BY DEF EmptySlot, Slot, NoHandle, Handle
<1>2. ASSUME NEW phase \in {"none", "open", "gone"}, NEW at \in Place, NEW ro \in BOOLEAN
      PROVE  NewSession(phase, at, ro) \in Session
  BY <1>1, FfiConstants DEF NewSession, Session
<1>3. \A live \in BOOLEAN : FreshTransaction(live) \in Transaction
  BY DEF FreshTransaction, Transaction, NoSavepoint
<1>4. Nowhere \in Place
  BY DEF Nowhere, Place
<1> QED BY <1>2, <1>3, <1>4

(***************************************************************************)
(* A failed call leaves the transaction as it is or loses it with the      *)
(* connection.                                                             *)
(***************************************************************************)
LEMMA FailedLemma ==
  ASSUME Types, NEW s \in Sessions, Failed(s)
  PROVE  /\ orcl' \in [Sessions -> Transaction]
         /\ \A t \in Sessions \ {s} : orcl'[t] = orcl[t]
         /\ orcl'[s] = orcl[s] \/ orcl'[s] = FreshTransaction(FALSE)
BY NewLemma DEF Types, Failed

(***************************************************************************)
(* ROLLBACK TO a savepoint of a session undoes all of its transaction.     *)
(***************************************************************************)
RolledBack(o, old) ==
  /\ o \in Transaction /\ o.log = <<>> /\ o.live = old.live
  /\ \A m \in 2..MaxLevel : o.sp[m] # NoSavepoint => old.sp[m] # NoSavepoint

LEMMA RollbackLemma ==
  ASSUME NEW o \in Transaction, NEW n \in 2..MaxLevel, o.sp[n] # NoSavepoint
  PROVE  RolledBack(RollbackTo(o, n), o)
<1> DEFINE sp == [m \in DOMAIN o.sp |-> IF m > n THEN NoSavepoint ELSE o.sp[m]]
<1>1. o.sp[n] = 0 /\ o.log \in Seq(Change)
  BY DEF Transaction
<1>2. SubSeq(o.log, 1, 0) = <<>> /\ <<>> \in Seq(Change)
  BY <1>1
<1>3. o.sp \in [2..MaxLevel -> {NoSavepoint, 0}]
  BY DEF Transaction
<1>4. /\ sp \in [2..MaxLevel -> {NoSavepoint, 0}]
      /\ \A m \in 2..MaxLevel : sp[m] # NoSavepoint => o.sp[m] # NoSavepoint
  <2> DEFINE f == o.sp
  <2>1. f \in [2..MaxLevel -> {NoSavepoint, 0}] /\ DOMAIN f = 2..MaxLevel
    BY <1>3
  <2>2. sp = [m \in 2..MaxLevel |-> IF m > n THEN NoSavepoint ELSE f[m]]
    BY <2>1
  <2> HIDE DEF f, sp
  <2> QED BY <2>1, <2>2 DEF f
<1>5. RollbackTo(o, n) = [o EXCEPT !.log = <<>>, !.sp = sp]
  BY <1>1, <1>2 DEF RollbackTo
<1> HIDE DEF sp
<1> QED BY <1>2, <1>4, <1>5 DEF Transaction, RolledBack

LEMMA InitTypes == FfiInit => Types
<1> SUFFICES ASSUME FfiInit PROVE Types
  OBVIOUS
<1>1. sess \in [Sessions -> Session] /\ orcl \in [Sessions -> Transaction]
  BY NewLemma DEF FfiInit
<1>2. pg \in PgState /\ pg.pending = {}
  BY DEF FfiInit, PgState, Modes
<1> QED BY <1>1, <1>2, FS_EmptySet DEF FfiInit, Types

----------------------------------------------------------------------------
\* Type correctness

(***************************************************************************)
(* A row copied into its slot keeps the types of the session.              *)
(***************************************************************************)
LEMMA FetchTypes ==
  ASSUME NEW S \in Session, S.result # NULL, S.next < Len(S.result)
  PROVE  /\ FetchRow(S) \in Session
         /\ FetchRow(S).phase = S.phase /\ FetchRow(S).at = S.at
         /\ FetchRow(S).readonly = S.readonly /\ FetchRow(S).xact = S.xact
<1> DEFINE Row == [lob : {NULL, "a", "b"}, txt : {NULL} \cup Nat]
           row == S.result[S.next + 1]
           slot == SlotOf(S.next)
           handle == [stmt |-> S.stmt, row |-> S.next + 1, data |-> row.lob]
           b == [S.buf EXCEPT ![slot] = CopyValue(S.buf[slot], row, handle)]
           l == S.lobs \cup (IF row.lob = NULL THEN {} ELSE {handle})
           e == (S.next + 1 >= Len(S.result))
<1>1. S.result \in Results /\ S.next \in Nat /\ S.stmt \in Nat
  BY DEF Session
<1>2. S.result \in Seq(Row)
  BY <1>1, FfiConstants
<1>3. row \in Row
  <2> HIDE DEF Row
  <2>1. S.next + 1 \in 1..Len(S.result)
    BY <1>1, <1>2
  <2> QED BY <1>2, <2>1
<1>4. handle \in Handle
  BY <1>1, <1>3 DEF Handle
<1>5. slot \in Slots /\ slot + 1 \in 0..Prefetch
  BY <1>1, Buffers DEF SlotOf, Slots
<1>6. S.buf \in [Slots -> Slot] /\ S.lobs \in SUBSET Handle
  BY DEF Session
<1> HIDE DEF handle, row, slot
<1>7. CopyValue(S.buf[slot], row, handle) \in Slot
  <2>1. S.buf[slot] \in Slot
    BY <1>5, <1>6
  <2>2. (CASE row.txt = NULL -> 0 [] row.txt # NULL /\ row.txt < ValSize -> row.txt
             [] OTHER -> ValSize - 1) \in Nat
    BY <1>3, Buffers
  <2> QED BY <1>4, <2>1, <2>2 DEF CopyValue, Slot
<1>8. b \in [Slots -> Slot] /\ l \in SUBSET Handle /\ e \in BOOLEAN
  BY <1>4, <1>5, <1>6, <1>7
<1>9. FetchRow(S) = [S EXCEPT !.buf = b, !.lobs = l, !.next = S.next + 1,
                              !.current_row = slot + 1, !.last_batch = e]
  BY Zenon DEF FetchRow, handle, row, slot
<1> HIDE DEF b, l, e
<1>10. S.next + 1 \in Nat
  BY <1>1
<1> DEFINE n == S.next + 1
           c == slot + 1
<1> HIDE DEF n, c
<1>11. n \in Nat /\ c \in 0..Prefetch
  BY <1>5, <1>10 DEF n, c
<1>12. FetchRow(S) = [S EXCEPT !.buf = b, !.lobs = l, !.next = n,
                               !.current_row = c, !.last_batch = e]
  BY <1>9 DEF n, c
<1>13. [S EXCEPT !.buf = b, !.lobs = l, !.next = n,
                 !.current_row = c, !.last_batch = e] \in Session
  BY <1>8, <1>11 DEF Session
<1> QED BY <1>12, <1>13 DEF Session

----------------------------------------------------------------------------
\* Steps that use a session, and may raise

LEMMA UseTypes ==
  ASSUME FfiInv, NEW s \in Sessions, UseStep(s)
  PROVE  Types' /\ Registered' = Registered /\ done \subseteq done'
<1>1. Registered' = Registered
  BY DEF UseStep, SessionsStay, SameSession, Registered
<1>2. done' \in SUBSET Change /\ IsFiniteSet(done') /\ done \subseteq done'
  BY FS_Union DEF FfiInv, Types, UseStep, Worked
<1>3. orcl' \in [Sessions -> Transaction]
  BY DEF UseStep, Worked, Lost
<1>4. pg' \in PgState /\ pg'.pending \subseteq Registered
  BY DEF FfiInv, Types, UseStep, PgStays
<1> QED BY <1>1, <1>2, <1>3, <1>4 DEF FfiInv, Types, UseStep, SessionsStay

LEMMA UseSubs ==
  ASSUME FfiInv, NEW s \in Sessions, UseStep(s)
  PROVE  SubsView'
BY DEF FfiInv, SubsView, UseStep, PgStays, Level

LEMMA UseHistory ==
  ASSUME FfiInv, NEW s \in Sessions, UseStep(s)
  PROVE  HistoryView'
<1>1. pg'.subs = pg.subs /\ pg'.txn = pg.txn /\ pg'.begun = pg.begun
  BY DEF UseStep, PgStays
<1>2. \A c \in done : sess'[c.s].phase # "none"
  BY DEF FfiInv, Types, Change, HistoryView, UseStep, SessionsStay, SameSession
<1>3. \A b \in Range(pg.subs) : b.id <= pg.begun
  <2>1. pg.subs \in Seq(Sub)
    BY DEF FfiInv, Types, PgState
  <2> QED BY <2>1 DEF FfiInv, SubsView, Range
<1>4. Usable(s) => /\ Here.txn <= pg.txn /\ sess'[s].phase # "none"
                   /\ \A b \in Range(Here.subs) : b.id <= pg.begun
  BY <1>3 DEF FfiInv, Types, PgState, Usable, Here, UseStep, SessionsStay, SameSession
<1>5. \A c \in done' : /\ c.at.txn <= pg.txn /\ sess'[c.s].phase # "none"
                        /\ \A b \in Range(c.at.subs) : b.id <= pg.begun
  BY <1>2, <1>4 DEF FfiInv, HistoryView, UseStep, Worked
<1> QED BY <1>1, <1>5 DEF FfiInv, HistoryView, UseStep

LEMMA UseLog ==
  ASSUME FfiInv, NEW s \in Sessions, UseStep(s)
  PROVE  LogView'
<1> SUFFICES ASSUME NEW t \in Sessions
             PROVE  /\ \A c \in Range(orcl'[t].log) : /\ c \in done' /\ c.s = t
                                                     /\ c.at = sess'[t].at
                                                     /\ c.readonly = sess'[t].readonly
                    /\ orcl'[t].log # <<>> => sess'[t].phase = "open"
                    /\ orcl'[t].log # <<>> /\ ~sess'[t].readonly =>
                         Range(sess'[t].at.subs) \cap aborted' = {}
                    /\ \A n \in 2..MaxLevel :
                         orcl'[t].sp[n] # NoSavepoint => n <= Len(sess'[t].at.subs) + 1
  BY DEF LogView
<1>1. SameSession(sess'[t], sess[t]) /\ aborted' = aborted /\ done \subseteq done'
  BY UseTypes DEF UseStep, SessionsStay
<1>2. CASE orcl'[t] = orcl[t]
  BY <1>1, <1>2 DEF FfiInv, LogView, SameSession
<1>3. CASE orcl'[t] = FreshTransaction(FALSE)
  BY <1>3 DEF FreshTransaction, Range
<1>4. CASE t = s /\ Usable(s) /\ Worked(s)
  <2>1. sess[s].at = Here /\ sess[s].phase = "open"
    BY <1>4 DEF Usable
  <2>2. Range(Here.subs) \cap aborted = {}
    BY DEF FfiInv, HistoryView, Here
  <2>3. \A c \in Range(orcl'[s].log) : /\ c \in done' /\ c.s = s /\ c.at = sess[s].at
                                       /\ c.readonly = sess[s].readonly
    BY <1>4, <2>1 DEF FfiInv, LogView, Worked
  <2>4. \A n \in 2..MaxLevel : orcl'[s].sp[n] # NoSavepoint => n <= Len(sess[s].at.subs) + 1
    BY <1>4 DEF FfiInv, LogView, Worked
  <2> QED BY <1>1, <1>4, <2>1, <2>2, <2>3, <2>4 DEF SameSession
<1> QED BY <1>2, <1>3, <1>4 DEF UseStep, Worked, Lost

LEMMA UseXact ==
  ASSUME FfiInv, NEW s \in Sessions, UseStep(s)
  PROVE  XactView'
<1> SUFFICES ASSUME NEW t \in Sessions
             PROVE  /\ sess'[t].at.txn <= pg'.txn
                    /\ sess'[t].xact = 0 /\ ~sess'[t].readonly => orcl'[t].log = <<>>
                    /\ sess'[t].phase = "open" /\ sess'[t].at.txn = pg'.txn
                         /\ pg'.mode \in {"run", "release_sub", "abort_sub"} => sess'[t].xact = 1
                    /\ pg'.mode \in {"idle", "exit"} /\ ReadWrite(t)' => sess'[t].xact = 0
                    /\ pg'.mode \in {"commit", "abort"} /\ t \notin pg'.pending /\ ReadWrite(t)'
                         => sess'[t].xact = 0
                    /\ pg'.mode = "abort_sub" /\ t \notin pg'.pending => orcl'[t].log = <<>>
  BY DEF XactView
<1>1. SameSession(sess'[t], sess[t]) /\ PgStays
  BY DEF UseStep, SessionsStay
<1>2. /\ sess[t].at.txn <= pg.txn
      /\ sess[t].xact = 0 /\ ~sess[t].readonly => orcl[t].log = <<>>
      /\ sess[t].phase = "open" /\ sess[t].at.txn = pg.txn
           /\ pg.mode \in {"run", "release_sub", "abort_sub"} => sess[t].xact = 1
      /\ pg.mode \in {"idle", "exit"} /\ ReadWrite(t) => sess[t].xact = 0
      /\ pg.mode \in {"commit", "abort"} /\ t \notin pg.pending /\ ReadWrite(t) =>
           sess[t].xact = 0
      /\ pg.mode = "abort_sub" /\ t \notin pg.pending => orcl[t].log = <<>>
      /\ orcl[t].log # <<>> => sess[t].phase = "open"
  BY DEF FfiInv, XactView, LogView
<1>3. \/ orcl'[t] = orcl[t] \/ orcl'[t].log = <<>>
      \/ t = s /\ Usable(s)
  BY DEF UseStep, Worked, Lost, FreshTransaction
<1>4. Usable(s) => pg.mode = "run" /\ sess[s].phase = "open" /\ sess[s].at.txn = pg.txn
  BY DEF Usable, Running, Here
<1>5. t \in Registered <=> sess[t].phase = "open"
  BY DEF Registered
<1>6. ReadWrite(t)' <=> ReadWrite(t)
  BY <1>1 DEF ReadWrite, SameSession
<1> QED BY <1>1, <1>2, <1>3, <1>4, <1>5, <1>6 DEF SameSession, PgStays, ReadWrite

LEMMA UseKept ==
  ASSUME FfiInv, NEW s \in Sessions, UseStep(s)
  PROVE  KeptView'
<1> SUFFICES ASSUME MayCommit', NEW c \in done', c.at.txn = pg'.txn, ~c.readonly
             PROVE  Kept(c)'
  BY DEF KeptView
<1>1. PgStays /\ committed' = committed /\ aborted' = aborted
  BY DEF UseStep
<1>2. MayCommit /\ pg.txn = pg'.txn
  BY <1>1 DEF MayCommit, PgStays
<1>3. ASSUME c \in done PROVE Kept(c)'
  <2>1. c.s \in Sessions /\ Kept(c)
    BY <1>2, <1>3 DEF FfiInv, Types, Change, KeptView
  <2>2. SameSession(sess'[c.s], sess[c.s])
    BY <2>1 DEF UseStep, SessionsStay
  <2>3. CASE c \in Range(orcl[c.s].log)
    <3>1. ReadWrite(c.s) /\ sess[c.s].xact = 1
      <4>1. orcl[c.s].log # <<>> /\ c.readonly = sess[c.s].readonly
        BY <2>1, <2>3 DEF FfiInv, LogView, Range
      <4>2. sess[c.s].xact \in 0..1
        BY <2>1 DEF FfiInv, Types, Session
      <4> QED BY <2>1, <4>1, <4>2 DEF FfiInv, LogView, XactView, ReadWrite
    <3>2. c \in Range(orcl'[c.s].log) \/ ~orcl'[c.s].live
      BY <2>1, <2>3 DEF UseStep, Worked, Lost, FreshTransaction
    <3> QED BY <2>2, <3>1, <3>2 DEF Kept, SameSession, ReadWrite
  <2>4. CASE ~orcl[c.s].live /\ ReadWrite(c.s) /\ sess[c.s].xact = 1
    <3>1. ~orcl'[c.s].live
      BY <2>1, <2>4 DEF UseStep, Worked, Lost, FreshTransaction
    <3> QED BY <2>2, <2>4, <3>1 DEF Kept, SameSession, ReadWrite
  <2>5. CASE pg.mode = "abort_sub" /\ Level <= Len(c.at.subs) + 1
    BY <1>1, <2>5 DEF PgStays, MayCommit, Kept, Level
  <2>6. CASE \/ c \in committed
            \/ \E a \in aborted : a.txn = c.at.txn /\ a.level <= Len(c.at.subs) + 1
    BY <1>1, <2>6 DEF Kept
  <2> QED BY <2>1, <2>3, <2>4, <2>5, <2>6 DEF Kept
<1>4. ASSUME c \notin done PROVE Kept(c)'
  BY <1>4 DEF UseStep, Worked, Kept
<1> QED BY <1>3, <1>4

(***************************************************************************)
(* A session that is used, or whose call fails, keeps the invariant.       *)
(***************************************************************************)
LEMMA UseStepInv ==
  ASSUME FfiInv, NEW s \in Sessions, UseStep(s)
  PROVE  FfiInv'
BY UseTypes, UseSubs, UseHistory, UseLog, UseXact, UseKept DEF FfiInv

LEMMA PgUses ==
  ASSUME FfiInv, pg' = pg \/ pg' = Raised \/ pg' = [pg EXCEPT !.stmts = @ + 1]
  PROVE  PgStays
<1>1. pg \in PgState
  BY DEF FfiInv, Types
<1>2. CASE pg' = pg
  BY <1>1, <1>2 DEF PgStays
<1>3. CASE pg' = Raised
  <2>1. Raised.outcome = pg.outcome
    BY <1>1 DEF Raised, PgState
  <2> QED BY <1>3, <2>1, RaisedLemma DEF PgStays, FfiInv
<1>4. CASE pg' = [pg EXCEPT !.stmts = @ + 1]
  BY <1>1, <1>4 DEF PgStays, PgState
<1> QED BY <1>2, <1>3, <1>4

LEMMA SessUses ==
  ASSUME FfiInv, NEW s \in Sessions, NEW r \in Session,
         SameSession(r, sess[s]), sess' = [sess EXCEPT ![s] = r]
  PROVE  SessionsStay
BY DEF FfiInv, Types, SessionsStay, SameSession

LEMMA SameSess ==
  ASSUME FfiInv, sess' = sess
  PROVE  SessionsStay
BY DEF FfiInv, Types, SessionsStay, SameSession

LEMMA NothingLost ==
  ASSUME FfiInv, NEW s \in Sessions, orcl' = orcl \/ Failed(s)
  PROVE  Lost(s)
BY FailedLemma DEF FfiInv, Types, Lost

(***************************************************************************)
(* The functions PostgreSQL calls for a statement use a session.           *)
(***************************************************************************)
LEMMA CloseStatementUses ==
  ASSUME FfiInv, NEW s \in Sessions, CloseStatement(s)
  PROVE  UseStep(s)
<1>1. SessionsStay
  BY ClosedLemma, SessUses DEF CloseStatement, FfiInv, SameSession
<1> QED BY <1>1, PgUses, NothingLost DEF CloseStatement, UseStep, FfiInv, Types

LEMMA PrepareQueryUses ==
  ASSUME FfiInv, NEW s \in Sessions, PrepareQuery(s)
  PROVE  UseStep(s)
<1> DEFINE r == [Closed(sess[s]) EXCEPT !.sql = TRUE, !.stmt = pg.stmts + 1]
<1>1. pg.stmts + 1 \in Nat
  BY DEF FfiInv, Types, PgState
<1>2. Closed(sess[s]) \in Session /\ SameSession(Closed(sess[s]), sess[s])
  BY ClosedLemma DEF FfiInv, SameSession
<1>3. r \in Session /\ SameSession(r, sess[s])
  BY <1>1, <1>2 DEF Session, SameSession
<1>4. sess' = [sess EXCEPT ![s] = r]
  BY DEF PrepareQuery, FfiInv, Types
<1> HIDE DEF r
<1>5. SessionsStay
  BY <1>3, <1>4, SessUses
<1> QED BY <1>5, PgUses, NothingLost DEF PrepareQuery, UseStep, FfiInv, Types

LEMMA ExecuteQueryUses ==
  ASSUME FfiInv, NEW s \in Sessions, NEW r \in Results, NEW c \in BOOLEAN, NEW t \in BOOLEAN,
         ExecuteQuery(s, r, c, t)
  PROVE  UseStep(s)
<1> DEFINE q == [sess[s] EXCEPT !.result = r, !.next = 0, !.current_row = 0]
<1>1. sess[s] \in Session /\ 0 \in 0..Prefetch
  BY Buffers DEF FfiInv, Types
<1>2. q \in Session /\ SameSession(q, sess[s])
  BY <1>1 DEF Session, SameSession
<1>3. sess' = [sess EXCEPT ![s] = q]
  BY DEF ExecuteQuery, FfiInv, Types
<1> HIDE DEF q
<1>4. SessionsStay
  BY <1>2, <1>3, SessUses
<1> DEFINE k == CASE ~c -> 0 [] c /\ t -> 2 [] OTHER -> 1
<1>5. k \in 0..2 /\ Changed(s, k)
  BY DEF ExecuteQuery
<1> HIDE DEF k
<1>6. Worked(s)
  BY <1>5, ChangedLemma DEF FfiInv
<1> QED BY <1>4, <1>6, PgUses DEF ExecuteQuery, UseStep, FfiInv, Types

LEMMA CallsUse ==
  ASSUME FfiInv, NEW s \in Sessions,
         ExecuteCall(s) \/ Describe(s) \/ Explain(s) \/ ExecutionFails(s)
  PROVE  UseStep(s)
<1>1. Changed(s, 1) => Worked(s)
  BY ChangedLemma DEF FfiInv
<1>2. SessionsStay
  BY SameSess DEF ExecuteCall, Describe, Explain, ExecutionFails
<1>3. CASE ExecuteCall(s)
  BY <1>1, <1>2, <1>3, PgUses DEF ExecuteCall, UseStep, FfiInv, Types
<1>4. CASE Describe(s)
  BY <1>2, <1>4, PgUses, NothingLost DEF Describe, UseStep, FfiInv, Types
<1>5. CASE Explain(s)
  <2>1. Usable(s) /\ PgStays /\ callbacks' \in BOOLEAN /\ UNCHANGED <<committed, aborted>>
    BY <1>5, PgUses DEF Explain, FfiInv, Types
  <2>2. Worked(s) \/ (done' = done /\ Lost(s))
    BY <1>1, <1>5, NothingLost DEF Explain
  <2> QED BY <1>2, <2>1, <2>2 DEF UseStep
<1>6. CASE ExecutionFails(s)
  BY <1>2, <1>6, PgUses, NothingLost DEF ExecutionFails, UseStep, FfiInv, Types
<1> QED BY <1>3, <1>4, <1>5, <1>6

LEMMA FetchNextUses ==
  ASSUME FfiInv, NEW s \in Sessions, FetchNext(s)
  PROVE  UseStep(s)
<1> DEFINE S == sess[s]
<1>1. S \in Session
  BY DEF FfiInv, Types
<1>2. CASE sess' = [sess EXCEPT ![s].last_batch = TRUE]
  <2> DEFINE q == [S EXCEPT !.last_batch = TRUE]
  <2>1. q \in Session /\ SameSession(q, S)
    BY <1>1 DEF Session, SameSession
  <2>2. sess' = [sess EXCEPT ![s] = q]
    BY <1>2 DEF FfiInv, Types
  <2> HIDE DEF q
  <2> QED BY <2>1, <2>2, SessUses, PgUses, NothingLost
          DEF FetchNext, UseStep, FfiInv, Types
<1>3. CASE S.next < Len(S.result) /\ sess' = [sess EXCEPT ![s] = FetchRow(S)]
  <2>1. S.result # NULL
    BY DEF FetchNext
  <2>2. FetchRow(S) \in Session /\ SameSession(FetchRow(S), S)
    BY <1>1, <1>3, <2>1, FetchTypes DEF SameSession
  <2> QED BY <1>3, <2>2, SessUses, PgUses, NothingLost
          DEF FetchNext, UseStep, FfiInv, Types
<1> QED BY <1>2, <1>3 DEF FetchNext

LEMMA ImportUses ==
  ASSUME FfiInv, NEW s \in Sessions, NEW n \in Imports, GetImportColumn(s, n)
  PROVE  UseStep(s)
<1> DEFINE S == sess[s]
           i == IF S.import = NULL THEN n ELSE S.import
           q == IF S.importNext >= i THEN [S EXCEPT !.import = NULL, !.importNext = 0]
                ELSE [S EXCEPT !.import = i, !.importNext = S.importNext + 1]
<1>1. S \in Session
  BY DEF FfiInv, Types
<1>2. i \in Nat \cup {NULL} /\ S.importNext + 1 \in Nat
  BY <1>1, FfiConstants DEF Session
<1>3. q \in Session /\ SameSession(q, S)
  <2> HIDE DEF i
  <2> QED BY <1>1, <1>2 DEF Session, SameSession
<1>4. sess' = [sess EXCEPT ![s] = q]
  BY DEF GetImportColumn, FfiInv, Types
<1>5. pg' = pg \/ pg' = [pg EXCEPT !.stmts = @ + 1]
  BY DEF GetImportColumn
<1> HIDE DEF q, S
<1> QED BY <1>3, <1>4, <1>5, SessUses, PgUses, NothingLost
        DEF GetImportColumn, UseStep, FfiInv, Types, S

----------------------------------------------------------------------------
\* Steps of PostgreSQL

LEMMA RegisterInv ==
  ASSUME FfiInv, NEW t \in CallbackTables, RegisterCallbacks(t)
  PROVE  FfiInv'
<1>1. callbacks' \in BOOLEAN /\ UNCHANGED <<sess, orcl, pg, done, committed, aborted>>
  BY DEF RegisterCallbacks
<1> QED BY <1>1 DEF FfiInv, Types, Registered, SubsView, HistoryView, LogView, XactView, KeptView,
                    MayCommit, Kept, ReadWrite, Level

LEMMA BeginTransactionInv ==
  ASSUME FfiInv, BeginTransaction
  PROVE  FfiInv'
<1>1. /\ pg \in PgState /\ pg.mode = "idle"
      /\ pg' = [pg EXCEPT !.mode = "run", !.txn = @ + 1, !.outcome = "none"]
      /\ UNCHANGED <<callbacks, sess, orcl, done, committed, aborted>>
  BY DEF FfiInv, Types, BeginTransaction
<1>2. /\ pg' \in PgState /\ pg'.mode = "run" /\ pg'.txn = pg.txn + 1 /\ pg'.subs = pg.subs
      /\ pg'.begun = pg.begun /\ pg'.pending = pg.pending /\ pg'.outcome = "none"
  <2> DEFINE n == pg.txn + 1
  <2>1. n \in Nat
    BY <1>1 DEF PgState
  <2>2. pg' = [pg EXCEPT !.mode = "run", !.txn = n, !.outcome = "none"]
    BY <1>1
  <2>3. n = pg.txn + 1
    OBVIOUS
  <2> HIDE DEF n
  <2>4. pg' \in PgState
    BY <1>1, <2>1, <2>2 DEF PgState, Modes
  <2> QED BY <1>1, <2>2, <2>3, <2>4 DEF PgState
<1>3. pg.subs = <<>> /\ pg.txn \in Nat
  BY <1>1 DEF FfiInv, SubsView, PgState
<1>4. Types'
  BY <1>1, <1>2 DEF FfiInv, Types, Registered
<1>5. SubsView'
  BY <1>2, <1>3 DEF SubsView
<1>6. HistoryView'
  <2>1. \A c \in done : c.at.txn \in Nat
    BY DEF FfiInv, Types, Change, Place
  <2> QED BY <1>1, <1>2, <1>3, <2>1 DEF FfiInv, HistoryView
<1>7. LogView'
  BY <1>1 DEF FfiInv, LogView
<1>8. XactView'
  <2>1. \A t \in Sessions : sess[t].at.txn \in Nat
    BY DEF FfiInv, Types, Session, Place
  <2> QED BY <1>1, <1>2, <1>3, <2>1 DEF FfiInv, XactView, ReadWrite
<1>9. KeptView'
  <2>1. \A c \in done : c.at.txn \in Nat /\ c.at.txn <= pg.txn
    BY DEF FfiInv, Types, Change, Place, HistoryView
  <2> QED BY <1>1, <1>2, <1>3, <2>1 DEF KeptView
<1> QED BY <1>4, <1>5, <1>6, <1>7, <1>8, <1>9 DEF FfiInv

LEMMA BeginSubtransactionInv ==
  ASSUME FfiInv, BeginSubtransaction
  PROVE  FfiInv'
<1> DEFINE new == [id |-> pg.begun + 1, txn |-> pg.txn, level |-> Level + 1]
<1>1. /\ pg \in PgState /\ pg.mode = "run" /\ Level < MaxLevel
      /\ pg' = [pg EXCEPT !.begun = pg.begun + 1, !.subs = Append(pg.subs, new)]
      /\ UNCHANGED <<callbacks, sess, orcl, done, committed, aborted>>
  BY DEF FfiInv, Types, BeginSubtransaction, Running
<1>2. pg.subs \in Seq(Sub) /\ pg.begun \in Nat /\ Level = Len(pg.subs) + 1
  BY <1>1 DEF PgState, Level
<1>3. new \in Sub
  BY <1>1, <1>2 DEF PgState, Sub
<1> DEFINE subs == Append(pg.subs, new)
<1>4. subs \in Seq(Sub) /\ subs # <<>> /\ Len(subs) = Len(pg.subs) + 1
  BY <1>2, <1>3
<1>5. /\ \A i \in 1..Len(pg.subs) : subs[i] = pg.subs[i]
      /\ subs[Len(subs)] = new
  BY <1>2, <1>3
<1>6. \A b \in Range(subs) : b \in Range(pg.subs) \/ b = new
  <2>1. \A i \in 1..Len(subs) : i \in 1..Len(pg.subs) \/ i = Len(subs)
    BY <1>2, <1>4
  <2> HIDE DEF subs, new
  <2> QED BY <1>2, <1>4, <1>5, <2>1 DEF Range
<1>7. new.id = pg.begun + 1 /\ new.txn = pg.txn /\ new.level = Level + 1
  OBVIOUS
<1> DEFINE begun == pg.begun + 1
<1>15. begun \in Nat /\ begun = pg.begun + 1
  BY <1>2
<1>16. pg' = [pg EXCEPT !.begun = begun, !.subs = subs]
  BY <1>1
<1> HIDE DEF subs, new, begun
<1>8. /\ pg' \in PgState /\ pg'.mode = "run" /\ pg'.txn = pg.txn /\ pg'.subs = subs
      /\ pg'.begun = pg.begun + 1 /\ pg'.pending = pg.pending /\ pg'.outcome = pg.outcome
  BY <1>1, <1>4, <1>15, <1>16 DEF PgState
<1>9. Types'
  BY <1>1, <1>8 DEF FfiInv, Types, Registered
<1>10. SubsView'
  <2>1. \A i \in 1..Len(subs) : subs[i].id <= pg'.begun /\ subs[i].level = i + 1
                               /\ subs[i].txn = pg'.txn
    <3> SUFFICES ASSUME NEW i \in 1..Len(subs)
                 PROVE  subs[i].id <= pg'.begun /\ subs[i].level = i + 1 /\ subs[i].txn = pg'.txn
      OBVIOUS
    <3>1. CASE i <= Len(pg.subs)
      <4>1. i \in 1..Len(pg.subs) /\ subs[i] = pg.subs[i] /\ pg.subs[i] \in Sub
        BY <1>2, <1>5, <3>1
      <4>2. pg.subs[i].id <= pg.begun /\ pg.subs[i].level = i + 1 /\ pg.subs[i].txn = pg.txn
        BY <4>1 DEF FfiInv, SubsView
      <4>3. pg.subs[i].id \in Nat
        BY <4>1 DEF Sub
      <4>4. pg.subs[i].id <= pg.begun + 1
        BY <1>2, <4>2, <4>3
      <4> QED BY <1>8, <4>1, <4>2, <4>4
    <3>2. CASE i = Len(subs)
      BY <1>2, <1>4, <1>5, <1>7, <1>8, <3>2
    <3> QED BY <1>2, <1>4, <3>1, <3>2
  <2>2. Len(pg'.subs) + 1 <= MaxLevel
    BY <1>1, <1>2, <1>4, <1>8, FfiConstants
  <2> QED BY <1>4, <1>8, <2>1, <2>2 DEF SubsView, Level
<1>11. HistoryView'
  <2>1. \A a \in aborted : a.id \in Nat /\ a.id <= pg.begun /\ a \notin Range(subs)
    BY <1>2, <1>6, <1>7 DEF FfiInv, Types, Sub, HistoryView
  <2>2. \A c \in done : \A b \in Range(c.at.subs) : b.id \in Nat /\ b.id <= pg.begun
    <3>1. \A c \in done : c.at.subs \in Seq(Sub)
      BY DEF FfiInv, Types, Change, Place
    <3>2. \A c \in done : \A b \in Range(c.at.subs) : b \in Sub
      BY <3>1 DEF Range
    <3> QED BY <3>2 DEF FfiInv, HistoryView, Sub
  <2>3. \A c \in committed : Range(c.at.subs) \cap Range(subs) = {}
    <3>1. \A c \in committed : new \notin Range(c.at.subs)
      BY <1>2, <1>7, <2>2 DEF FfiInv, Types
    <3> QED BY <1>6, <3>1 DEF FfiInv, HistoryView
  <2>4. \A n \in Nat : n <= pg.begun => n <= pg'.begun
    BY <1>2, <1>8
  <2>5. \A c \in done : c.at.txn <= pg'.txn /\ sess[c.s].phase # "none"
    BY <1>8 DEF FfiInv, HistoryView
  <2>6. \A c \in committed : Range(c.at.subs) \cap aborted = {}
    BY DEF FfiInv, HistoryView
  <2> QED BY <1>1, <1>8, <2>1, <2>2, <2>3, <2>4, <2>5, <2>6 DEF HistoryView
<1>12. LogView'
  BY <1>1 DEF FfiInv, LogView
<1>13. XactView'
  BY <1>1, <1>8 DEF FfiInv, XactView, ReadWrite
<1>14. KeptView'
  BY <1>1, <1>8 DEF FfiInv, KeptView, MayCommit, Kept, ReadWrite
<1> QED BY <1>9, <1>10, <1>11, <1>12, <1>13, <1>14 DEF FfiInv

LEMMA StartEndInv ==
  ASSUME FfiInv, NEW m \in {"release_sub", "abort_sub", "commit", "abort"}, StartEnd(m)
  PROVE  FfiInv'
<1>1. /\ pg \in PgState /\ pg.mode = "run" /\ Registered \in SUBSET Sessions
      /\ pg' = [pg EXCEPT !.mode = m, !.pending = Registered]
      /\ m \in {"release_sub", "abort_sub"} => Level > 1
      /\ m = "commit" => Level = 1
      /\ UNCHANGED <<callbacks, sess, orcl, done, committed, aborted>>
  BY DEF FfiInv, Types, StartEnd, Running, Registered
<1>2. /\ pg' \in PgState /\ pg'.mode = m /\ pg'.txn = pg.txn /\ pg'.subs = pg.subs
      /\ pg'.begun = pg.begun /\ pg'.pending = Registered /\ pg'.outcome = pg.outcome
  BY <1>1 DEF PgState, Modes
<1>3. /\ m \in {"release_sub", "abort_sub"} => pg.subs # <<>>
      /\ m = "commit" => pg.subs = <<>>
  BY <1>1 DEF PgState, Level
<1>4. \A t \in Sessions : t \in Registered <=> sess[t].phase = "open"
  BY DEF Registered
<1>5. Types'
  BY <1>1, <1>2 DEF FfiInv, Types, Registered
<1>6. SubsView'
  BY <1>2, <1>3 DEF FfiInv, SubsView, Level
<1>7. HistoryView'
  BY <1>1, <1>2 DEF FfiInv, HistoryView
<1>8. LogView'
  BY <1>1 DEF FfiInv, LogView
<1>9. XactView'
  BY <1>1, <1>2, <1>4 DEF FfiInv, XactView, ReadWrite, LogView
<1>10. KeptView'
  BY <1>1, <1>2 DEF FfiInv, KeptView, MayCommit, Kept, ReadWrite
<1> QED BY <1>5, <1>6, <1>7, <1>8, <1>9, <1>10 DEF FfiInv

(***************************************************************************)
(* The innermost subtransaction ends: those that stay open are the others. *)
(***************************************************************************)
LEMMA PopLemma ==
  ASSUME NEW subs \in Seq(Sub), subs # <<>>,
         \A i \in 1..Len(subs) : subs[i].level = i + 1
  PROVE  /\ SubSeq(subs, 1, Len(subs) - 1) \in Seq(Sub)
         /\ Len(SubSeq(subs, 1, Len(subs) - 1)) = Len(subs) - 1
         /\ \A i \in 1..(Len(subs) - 1) : SubSeq(subs, 1, Len(subs) - 1)[i] = subs[i]
         /\ Range(SubSeq(subs, 1, Len(subs) - 1)) \subseteq Range(subs)
         /\ subs[Len(subs)] \in Range(subs)
         /\ subs[Len(subs)] \notin Range(SubSeq(subs, 1, Len(subs) - 1))
<1> DEFINE n == Len(subs)
           pop == SubSeq(subs, 1, n - 1)
<1>1. n \in Nat /\ n >= 1
  OBVIOUS
<1>2. pop \in Seq(Sub) /\ Len(pop) = n - 1 /\ \A i \in 1..(n - 1) : pop[i] = subs[i]
  <2> DEFINE m == n - 1
  <2>1. m \in Int /\ m >= 0 /\ 1 \in Int /\ \A i \in 1..m : subs[i] \in Sub
    BY <1>1
  <2> HIDE DEF m
  <2>2. /\ SubSeq(subs, 1, m) \in Seq(Sub)
        /\ Len(SubSeq(subs, 1, m)) = IF 1 <= m THEN m - 1 + 1 ELSE 0
        /\ \A i \in 1..(m - 1 + 1) : SubSeq(subs, 1, m)[i] = subs[1 + i - 1]
    BY <2>1, SubSeqProperties
  <2>3. m - 1 + 1 = m /\ \A i \in 1..m : 1 + i - 1 = i
    BY <2>1
  <2>4. Len(SubSeq(subs, 1, m)) = m
    BY <2>1, <2>2
  <2>5. \A i \in 1..m : SubSeq(subs, 1, m)[i] = subs[i]
    BY <2>2, <2>3
  <2> QED BY <2>2, <2>4, <2>5 DEF m
<1>3. subs[n].level = n + 1 /\ n \in DOMAIN subs
  BY <1>1
<1> HIDE DEF pop
<1>4. \A x \in Range(pop) : \E i \in 1..(n - 1) : x = subs[i]
  BY <1>2 DEF Range
<1>5. Range(pop) \subseteq Range(subs)
  <2>1. 1..(n - 1) \subseteq DOMAIN subs
    BY <1>1
  <2> QED BY <1>4, <2>1 DEF Range
<1>6. subs[n] \notin Range(pop)
  <2>1. \A i \in 1..(n - 1) : subs[i].level # subs[n].level
    BY <1>1, <1>3
  <2> QED BY <1>4, <2>1
<1>7. subs[n] \in Range(subs)
  BY <1>3 DEF Range
<1> QED BY <1>2, <1>5, <1>6, <1>7 DEF pop

LEMMA FinishSubInv ==
  ASSUME FfiInv, FinishEnd, pg.mode \in {"release_sub", "abort_sub"}
  PROVE  FfiInv'
<1> DEFINE n == Len(pg.subs)
           last == pg.subs[n]
           pop == SubSeq(pg.subs, 1, n - 1)
<1>1. /\ pg \in PgState /\ pg.pending = {}
      /\ pg' = [pg EXCEPT !.mode = "run", !.subs = pop]
      /\ aborted' = aborted \cup IF pg.mode = "abort_sub" THEN {last} ELSE {}
      /\ UNCHANGED <<callbacks, sess, orcl, done, committed>>
  BY DEF FfiInv, Types, FinishEnd
<1>2. pg.subs \in Seq(Sub) /\ pg.subs # <<>>
  BY <1>1 DEF PgState, FfiInv, SubsView
<1>3. \A i \in 1..Len(pg.subs) : /\ pg.subs[i].id <= pg.begun /\ pg.subs[i].level = i + 1
                                 /\ pg.subs[i].txn = pg.txn
  BY DEF FfiInv, SubsView
<1>4. /\ pop \in Seq(Sub) /\ Len(pop) = n - 1 /\ \A i \in 1..(n - 1) : pop[i] = pg.subs[i]
      /\ Range(pop) \subseteq Range(pg.subs)
      /\ last \in Range(pg.subs) /\ last \notin Range(pop)
  BY <1>2, <1>3, PopLemma
<1>5. n \in Nat /\ n >= 1 /\ Level = n + 1
  BY <1>2 DEF Level
<1>6. last \in Sub /\ last.id <= pg.begun /\ last.level = Level /\ last.txn = pg.txn
  BY <1>2, <1>3, <1>5
<1> HIDE DEF pop, last
<1>7. /\ pg' \in PgState /\ pg'.mode = "run" /\ pg'.txn = pg.txn /\ pg'.subs = pop
      /\ pg'.begun = pg.begun /\ pg'.pending = {} /\ pg'.outcome = pg.outcome
  BY <1>1, <1>4 DEF PgState, Modes
<1>8. Types'
  BY <1>1, <1>6, <1>7 DEF FfiInv, Types, Registered
<1>9. SubsView'
  <2>1. \A i \in 1..Len(pop) : pop[i].id <= pg.begun /\ pop[i].level = i + 1 /\ pop[i].txn = pg.txn
    <3>1. \A i \in 1..(n - 1) : i \in 1..Len(pg.subs)
      BY <1>5
    <3> QED BY <1>3, <1>4, <3>1
  <2>2. Len(pop) + 1 <= MaxLevel
    BY <1>2, <1>4, <1>5, FfiConstants DEF FfiInv, SubsView
  <2> QED BY <1>7, <2>1, <2>2 DEF SubsView, Level
<1>10. HistoryView'
  BY <1>1, <1>4, <1>6, <1>7 DEF FfiInv, HistoryView
<1>11. LogView'
  <2>1. pg.mode = "abort_sub" => \A t \in Sessions : orcl[t].log = <<>>
    BY <1>1 DEF FfiInv, XactView
  <2> QED BY <1>1, <2>1 DEF FfiInv, LogView
<1>12. XactView'
  BY <1>1, <1>7 DEF FfiInv, XactView, ReadWrite
<1>13. KeptView'
  <2> SUFFICES ASSUME NEW c \in done, c.at.txn = pg.txn, ~c.readonly
               PROVE  Kept(c)'
    BY <1>1, <1>7 DEF KeptView
  <2>1. Kept(c)
    BY DEF FfiInv, KeptView, MayCommit
  <2>2. CASE pg.mode = "abort_sub" /\ Level <= Len(c.at.subs) + 1
    <3>1. last \in aborted' /\ last.txn = c.at.txn /\ last.level <= Len(c.at.subs) + 1
      BY <1>1, <1>6, <2>2
    <3> QED BY <3>1 DEF Kept
  <2> QED BY <1>1, <2>1, <2>2 DEF Kept, ReadWrite
<1> QED BY <1>8, <1>9, <1>10, <1>11, <1>12, <1>13 DEF FfiInv

LEMMA FinishTopInv ==
  ASSUME FfiInv, FinishEnd, pg.mode \in {"commit", "abort"}
  PROVE  FfiInv'
<1>1. /\ pg \in PgState /\ pg.pending = {}
      /\ pg' = [pg EXCEPT !.mode = "idle", !.subs = <<>>, !.outcome = pg.mode]
      /\ aborted' = aborted \cup IF pg.mode = "abort" THEN Range(pg.subs) ELSE {}
      /\ UNCHANGED <<callbacks, sess, orcl, done, committed>>
  BY DEF FfiInv, Types, FinishEnd
<1>2. /\ pg' \in PgState /\ pg'.mode = "idle" /\ pg'.txn = pg.txn /\ pg'.subs = <<>>
      /\ pg'.begun = pg.begun /\ pg'.pending = {} /\ pg'.outcome = pg.mode
  <2>1. <<>> \in Seq(Sub) /\ pg.mode \in {"none", "commit", "abort"} /\ "idle" \in Modes
    BY DEF Modes
  <2>2. pg' \in PgState
    BY <1>1, <2>1 DEF PgState
  <2> QED BY <1>1, <2>2 DEF PgState
<1>3. \A b \in Range(pg.subs) : b \in Sub /\ b.id <= pg.begun
  <2>1. pg.subs \in Seq(Sub)
    BY <1>1 DEF PgState
  <2> QED BY <2>1 DEF FfiInv, SubsView, Range
<1>4. Range(<<>>) = {}
  BY DEF Range
<1>5. Types'
  BY <1>1, <1>2, <1>3 DEF FfiInv, Types, Registered
<1>6. SubsView'
  BY <1>2 DEF SubsView
<1>7. HistoryView'
  BY <1>1, <1>2, <1>3, <1>4 DEF FfiInv, HistoryView
<1>8. \A t \in Sessions : ReadWrite(t) => sess[t].xact = 0 /\ orcl[t].log = <<>>
  BY <1>1 DEF FfiInv, XactView, ReadWrite
<1>9. LogView'
  BY <1>1, <1>8 DEF FfiInv, LogView, ReadWrite
<1>10. XactView'
  BY <1>1, <1>2, <1>8 DEF FfiInv, XactView, ReadWrite
<1>11. KeptView'
  BY <1>1, <1>2 DEF FfiInv, KeptView, MayCommit, Kept, ReadWrite
<1> QED BY <1>5, <1>6, <1>7, <1>9, <1>10, <1>11 DEF FfiInv

LEMMA CloseConnectionsInv ==
  ASSUME FfiInv, CloseConnections
  PROVE  FfiInv'
<1>1. /\ pg \in PgState /\ pg.mode = "idle"
      /\ pg' = [pg EXCEPT !.mode = "exit"]
      /\ sess' = [s \in Sessions |-> IF s \in Registered THEN NewSession("gone", Nowhere, FALSE)
                                     ELSE sess[s]]
      /\ orcl' = [s \in Sessions |-> FreshTransaction(FALSE)]
      /\ UNCHANGED <<callbacks, done, committed, aborted>>
  BY DEF FfiInv, Types, CloseConnections
<1>2. /\ pg' \in PgState /\ pg'.mode = "exit" /\ pg'.txn = pg.txn /\ pg'.subs = pg.subs
      /\ pg'.begun = pg.begun /\ pg'.pending = pg.pending
  BY <1>1 DEF PgState, Modes
<1>3. sess' \in [Sessions -> Session] /\ orcl' \in [Sessions -> Transaction]
  BY <1>1, NewLemma DEF FfiInv, Types
<1>4. \A t \in Sessions : /\ sess'[t].phase # "open"
                          /\ sess[t].phase # "none" => sess'[t].phase # "none"
                          /\ sess'[t].at = Nowhere \/ sess'[t].at = sess[t].at
  BY <1>1 DEF NewSession, Registered
<1>5. \A t \in Sessions : orcl'[t].log = <<>> /\ \A n \in 2..MaxLevel : orcl'[t].sp[n] = NoSavepoint
  BY <1>1 DEF FreshTransaction
<1>6. Types'
  <2>1. pg.pending = {}
    BY <1>1 DEF FfiInv, SubsView
  <2> QED BY <1>1, <1>2, <1>3, <2>1 DEF FfiInv, Types, Registered
<1>7. SubsView'
  BY <1>1, <1>2 DEF FfiInv, SubsView, Level
<1>8. HistoryView'
  <2>1. \A c \in done : c.s \in Sessions
    BY DEF FfiInv, Types, Change
  <2> QED BY <1>1, <1>2, <1>4, <2>1 DEF FfiInv, HistoryView
<1>9. LogView'
  <2>1. Range(<<>>) = {}
    BY DEF Range
  <2> QED BY <1>5, <2>1 DEF LogView
<1>10. XactView'
  <2>1. \A t \in Sessions : sess'[t].at.txn <= pg.txn
    <3>1. pg.txn \in Nat /\ Nowhere.txn = 0 /\ \A t \in Sessions : sess[t].at.txn <= pg.txn
      BY <1>1 DEF FfiInv, XactView, Nowhere, PgState
    <3>2. \A t \in Sessions : sess'[t].at.txn = 0 \/ sess'[t].at.txn = sess[t].at.txn
      BY <1>4, <3>1
    <3> QED BY <3>1, <3>2
  <2> QED BY <1>2, <1>4, <1>5, <2>1 DEF XactView, ReadWrite
<1>11. KeptView'
  BY <1>2 DEF KeptView, MayCommit
<1> QED BY <1>6, <1>7, <1>8, <1>9, <1>10, <1>11 DEF FfiInv

LEMMA GetSessionInv ==
  ASSUME FfiInv, NEW s \in Sessions, NEW ro \in BOOLEAN, GetSession(s, ro)
  PROVE  FfiInv'
<1>1. CASE pg' = Raised /\ UNCHANGED <<sess, orcl>>
  <2>1. UseStep(s)
    BY <1>1, PgUses, SameSess, NothingLost DEF GetSession, UseStep, FfiInv, Types
  <2> QED BY <2>1, UseStepInv
<1>2. ASSUME sess' = [sess EXCEPT ![s] = NewSession("open", Here, ro)],
             orcl' = [orcl EXCEPT ![s] = [live |-> TRUE, log |-> <<>>,
                       sp |-> [n \in 2..MaxLevel |-> IF n <= Level THEN 0 ELSE NoSavepoint]]],
             pg' = pg
      PROVE  FfiInv'
  <2>1. /\ pg \in PgState /\ pg.mode = "run" /\ sess[s].phase = "none"
        /\ UNCHANGED <<callbacks, done, committed, aborted>>
    BY DEF FfiInv, Types, GetSession, Running
  <2>2. Here \in Place /\ Here.txn = pg.txn /\ Here.subs = pg.subs /\ Level = Len(pg.subs) + 1
    BY <2>1 DEF Here, Place, PgState, Level
  <2>3. [n \in 2..MaxLevel |-> IF n <= Level THEN 0 ELSE NoSavepoint]
          \in [2..MaxLevel -> {NoSavepoint, 0}]
    OBVIOUS
  <2>4. NewSession("open", Here, ro) \in Session
    BY <2>2, NewLemma
  <2>5. sess' \in [Sessions -> Session] /\ orcl' \in [Sessions -> Transaction]
    BY <1>2, <2>3, <2>4 DEF FfiInv, Types, Transaction
  <2>6. /\ sess'[s].phase = "open" /\ sess'[s].at = Here /\ sess'[s].readonly = ro
        /\ sess'[s].xact = 1 /\ orcl'[s].log = <<>>
        /\ \A n \in 2..MaxLevel : orcl'[s].sp[n] # NoSavepoint => n <= Len(Here.subs) + 1
    BY <1>2, <2>2 DEF FfiInv, Types, NewSession
  <2>7. \A t \in Sessions \ {s} : sess'[t] = sess[t] /\ orcl'[t] = orcl[t]
    BY <1>2 DEF FfiInv, Types
  <2>8. \A c \in done : c.s \in Sessions \ {s}
    BY <2>1 DEF FfiInv, Types, Change, HistoryView
  <2>9. pg'.pending \subseteq Registered'
    BY <1>2, <2>6, <2>7 DEF FfiInv, Types, Registered
  <2>10. Types'
    BY <1>2, <2>1, <2>5, <2>9 DEF FfiInv, Types
  <2>11. SubsView'
    BY <1>2 DEF FfiInv, SubsView, Level
  <2>12. HistoryView'
    BY <1>2, <2>1, <2>7, <2>8 DEF FfiInv, HistoryView
  <2>13. LogView'
    <3> SUFFICES ASSUME NEW t \in Sessions
                 PROVE  /\ \A c \in Range(orcl'[t].log) : /\ c \in done /\ c.s = t
                                                         /\ c.at = sess'[t].at
                                                         /\ c.readonly = sess'[t].readonly
                        /\ orcl'[t].log # <<>> => sess'[t].phase = "open"
                        /\ orcl'[t].log # <<>> /\ ~sess'[t].readonly =>
                             Range(sess'[t].at.subs) \cap aborted = {}
                        /\ \A n \in 2..MaxLevel :
                             orcl'[t].sp[n] # NoSavepoint => n <= Len(sess'[t].at.subs) + 1
      BY <2>1 DEF LogView
    <3>1. CASE t # s
      BY <2>7, <3>1 DEF FfiInv, LogView
    <3>2. CASE t = s
      <4>1. Range(<<>>) = {}
        BY DEF Range
      <4> QED BY <2>6, <3>2, <4>1
    <3> QED BY <3>1, <3>2
  <2>14. XactView'
    <3>1. sess'[s].at.txn <= pg.txn
      BY <2>1, <2>2, <2>6 DEF PgState
    <3> QED BY <1>2, <2>1, <2>6, <2>7, <3>1 DEF FfiInv, XactView, ReadWrite
  <2>15. KeptView'
    BY <1>2, <2>1, <2>7, <2>8 DEF FfiInv, KeptView, MayCommit, Kept, ReadWrite, Level
  <2> QED BY <2>10, <2>11, <2>12, <2>13, <2>14, <2>15 DEF FfiInv
<1> QED BY <1>1, <1>2 DEF GetSession

----------------------------------------------------------------------------
\* Transaction callbacks

\* The callback of s returned.
LEMMA Returned ==
  ASSUME FfiInv, NEW s \in Sessions, pg' = [pg EXCEPT !.pending = @ \ {s}]
  PROVE  /\ pg' \in PgState /\ pg'.mode = pg.mode /\ pg'.txn = pg.txn /\ pg'.subs = pg.subs
         /\ pg'.begun = pg.begun /\ pg'.pending = pg.pending \ {s} /\ pg'.outcome = pg.outcome
BY DEF FfiInv, Types, PgState

LEMMA EndSubtransactionInv ==
  ASSUME FfiInv, NEW s \in Sessions, NEW c \in BOOLEAN, EndSubtransaction(s, Level, c)
  PROVE  FfiInv'
<1>1. /\ s \in pg.pending /\ pg.mode = IF c THEN "release_sub" ELSE "abort_sub"
      /\ UNCHANGED <<callbacks, sess, done, committed, aborted>>
  BY DEF EndSubtransaction
<1>2. pg.subs \in Seq(Sub) /\ pg.subs # <<>> /\ Level = Len(pg.subs) + 1 /\ Level <= MaxLevel
  BY <1>1 DEF FfiInv, Types, PgState, SubsView, Level
<1>3. Level \in 2..MaxLevel
  BY <1>2, FfiConstants
<1>4. CASE Failed(s) /\ pg' = Raised
  <2>1. UseStep(s)
    BY <1>1, <1>4, PgUses, SameSess, NothingLost DEF UseStep, FfiInv, Types
  <2> QED BY <2>1, UseStepInv
<1>5. ASSUME pg' = [pg EXCEPT !.pending = @ \ {s}], orcl' \in [Sessions -> Transaction],
             \A t \in Sessions \ {s} : orcl'[t] = orcl[t],
             \/ orcl'[s] = orcl[s] /\ pg.mode = "release_sub"
             \/ /\ pg.mode = "abort_sub" /\ Level <= Len(sess[s].at.subs) + 1
                /\ RolledBack(orcl'[s], orcl[s])
      PROVE  FfiInv'
  <2>1. /\ pg' \in PgState /\ pg'.mode = pg.mode /\ pg'.txn = pg.txn /\ pg'.subs = pg.subs
        /\ pg'.begun = pg.begun /\ pg'.pending = pg.pending \ {s} /\ pg'.outcome = pg.outcome
    BY <1>5, Returned
  <2>2. /\ orcl'[s].log = orcl[s].log \/ orcl'[s].log = <<>>
        /\ pg.mode = "abort_sub" => orcl'[s].log = <<>>
        /\ \A m \in 2..MaxLevel : orcl'[s].sp[m] # NoSavepoint => orcl[s].sp[m] # NoSavepoint
        /\ orcl'[s].live = orcl[s].live
    BY <1>5 DEF RolledBack
  <2>3. Range(<<>>) = {}
    BY DEF Range
  <2>4. Types'
    BY <1>1, <1>5, <2>1 DEF FfiInv, Types, Registered
  <2>5. SubsView'
    BY <1>1, <2>1 DEF FfiInv, SubsView, Level
  <2>6. HistoryView'
    BY <1>1, <2>1 DEF FfiInv, HistoryView
  <2>7. LogView'
    BY <1>1, <1>5, <2>2, <2>3 DEF FfiInv, LogView
  <2>8. XactView'
    BY <1>1, <1>5, <2>1, <2>2 DEF FfiInv, XactView, ReadWrite
  <2>9. KeptView'
    <3> SUFFICES ASSUME NEW d \in done, d.at.txn = pg.txn, ~d.readonly
                 PROVE  Kept(d)'
      BY <1>1, <2>1 DEF KeptView
    <3>1. Kept(d) /\ d.s \in Sessions
      BY <1>1 DEF FfiInv, Types, Change, KeptView, MayCommit
    <3>2. orcl'[d.s].live = orcl[d.s].live
      BY <1>5, <2>2, <3>1
    <3>3. CASE d \in Range(orcl[d.s].log)
      <4>1. d.at = sess[d.s].at
        BY <3>1, <3>3 DEF FfiInv, LogView
      <4>2. \/ d \in Range(orcl'[d.s].log)
            \/ pg.mode = "abort_sub" /\ Level <= Len(d.at.subs) + 1
        BY <1>5, <3>1, <3>3, <4>1
      <4> QED BY <2>1, <4>2 DEF Kept, Level
    <3> QED BY <1>1, <2>1, <3>1, <3>2, <3>3 DEF Kept, ReadWrite, Level
  <2> QED BY <2>4, <2>5, <2>6, <2>7, <2>8, <2>9 DEF FfiInv
<1>6. CASE UndoesNothing(Level, c) /\ pg' = [pg EXCEPT !.pending = @ \ {s}] /\ UNCHANGED orcl
  <2>1. pg.mode = "release_sub"
    BY <1>1, <1>3, <1>6 DEF UndoesNothing
  <2> QED BY <1>5, <1>6, <2>1 DEF FfiInv, Types
<1>7. CASE /\ ~UndoesNothing(Level, c) /\ orcl[s].sp[Level] # NoSavepoint
           /\ orcl' = [orcl EXCEPT ![s] = RollbackTo(@, Level)]
           /\ pg' = [pg EXCEPT !.pending = @ \ {s}]
  <2>1. pg.mode = "abort_sub"
    BY <1>1, <1>7 DEF UndoesNothing
  <2>2. Level <= Len(sess[s].at.subs) + 1
    BY <1>3, <1>7 DEF FfiInv, LogView
  <2>3. orcl[s] \in Transaction
    BY DEF FfiInv, Types
  <2>4. RolledBack(RollbackTo(orcl[s], Level), orcl[s])
    BY <1>3, <1>7, <2>3, RollbackLemma
  <2>5. RollbackTo(orcl[s], Level) \in Transaction
    BY <2>4 DEF RolledBack
  <2>6. /\ orcl' \in [Sessions -> Transaction] /\ \A t \in Sessions \ {s} : orcl'[t] = orcl[t]
        /\ RolledBack(orcl'[s], orcl[s])
    BY <1>7, <2>4, <2>5 DEF FfiInv, Types
  <2> QED BY <1>5, <1>7, <2>1, <2>2, <2>6
<1> QED BY <1>4, <1>6, <1>7 DEF EndSubtransaction

LEMMA EndTransactionInv ==
  ASSUME FfiInv, NEW s \in Sessions, NEW c \in BOOLEAN, EndTransaction(s, c)
  PROVE  FfiInv'
<1> DEFINE closed == Closed(sess[s])
           ended == [Closed(sess[s]) EXCEPT !.xact = 0]
<1>1. /\ s \in pg.pending /\ pg.mode = IF c THEN "commit" ELSE "abort"
      /\ UNCHANGED <<callbacks, done, aborted>>
      /\ s \in Registered /\ sess[s].phase = "open" /\ sess[s].xact \in 0..1
      /\ sess \in [Sessions -> Session] /\ orcl \in [Sessions -> Transaction]
  BY DEF EndTransaction, FfiInv, Types, Registered, Session
<1>2. closed \in Session /\ SameSession(closed, sess[s])
  BY ClosedLemma DEF FfiInv, SameSession
<1>3. /\ ended \in Session /\ ended.phase = sess[s].phase /\ ended.at = sess[s].at
      /\ ended.readonly = sess[s].readonly /\ ended.xact = 0
  BY <1>2 DEF Session, SameSession
<1>4. EndsNothing(s) <=> sess[s].readonly \/ sess[s].xact = 0
  BY <1>1 DEF EndsNothing
<1> HIDE DEF closed, ended
<1>6. ASSUME NEW r \in {closed, ended}, sess' = [sess EXCEPT ![s] = r]
      PROVE  /\ sess' \in [Sessions -> Session]
             /\ \A t \in Sessions : /\ sess'[t].phase = sess[t].phase /\ sess'[t].at = sess[t].at
                                    /\ sess'[t].readonly = sess[t].readonly
             /\ Registered' = Registered
             /\ \A t \in Sessions \ {s} : sess'[t] = sess[t]
             /\ sess'[s].xact = r.xact
  <2>1. /\ r \in Session /\ r.phase = sess[s].phase /\ r.at = sess[s].at
        /\ r.readonly = sess[s].readonly
    BY <1>2, <1>3 DEF SameSession
  <2>2. /\ sess' \in [Sessions -> Session] /\ sess'[s] = r
        /\ \A t \in Sessions \ {s} : sess'[t] = sess[t]
    BY <1>1, <1>6, <2>1
  <2>3. \A t \in Sessions : sess'[t].phase = sess[t].phase
    BY <2>1, <2>2
  <2> QED BY <2>1, <2>2, <2>3 DEF Registered
<1>7. CASE /\ EndsNothing(s) /\ sess' = [sess EXCEPT ![s] = closed]
           /\ pg' = [pg EXCEPT !.pending = @ \ {s}] /\ UNCHANGED <<orcl, committed>>
  <2>1. /\ pg' \in PgState /\ pg'.mode = pg.mode /\ pg'.txn = pg.txn /\ pg'.subs = pg.subs
        /\ pg'.begun = pg.begun /\ pg'.pending = pg.pending \ {s} /\ pg'.outcome = pg.outcome
    BY <1>7, Returned
  <2>2. /\ sess' \in [Sessions -> Session] /\ Registered' = Registered
        /\ \A t \in Sessions : SameSession(sess'[t], sess[t])
    BY <1>1, <1>2, <1>6, <1>7 DEF SameSession
  <2>3. Types'
    BY <1>1, <1>7, <2>1, <2>2 DEF FfiInv, Types
  <2>4. SubsView'
    BY <1>1, <2>1 DEF FfiInv, SubsView, Level
  <2>5. HistoryView'
    <3>1. \A d \in done : d.s \in Sessions
      BY DEF FfiInv, Types, Change
    <3> QED BY <1>1, <1>7, <2>1, <2>2, <3>1 DEF FfiInv, HistoryView, SameSession
  <2>6. LogView'
    BY <1>1, <1>7, <2>2 DEF FfiInv, LogView, SameSession
  <2>7. XactView'
    BY <1>1, <1>4, <1>7, <2>1, <2>2 DEF FfiInv, XactView, ReadWrite, SameSession
  <2>8. KeptView'
    <3>1. \A d \in done : d.s \in Sessions
      BY DEF FfiInv, Types, Change
    <3> QED BY <1>1, <1>7, <2>1, <2>2, <3>1
            DEF FfiInv, KeptView, MayCommit, Kept, ReadWrite, Level, SameSession
  <2> QED BY <2>3, <2>4, <2>5, <2>6, <2>7, <2>8 DEF FfiInv
\* The transaction ends: only what a commit commits of it is left.
<1>8. ASSUME ~EndsNothing(s), NEW r \in {closed, ended}, sess' = [sess EXCEPT ![s] = r],
             NEW live \in BOOLEAN, orcl' = [orcl EXCEPT ![s] = FreshTransaction(live)],
             \/ committed' = committed
             \/ committed' = committed \cup Range(orcl[s].log) /\ pg.mode = "commit",
             \/ /\ pg' = [pg EXCEPT !.pending = @ \ {s}] /\ r = ended
                /\ pg.mode = "commit" => /\ orcl[s].live
                                         /\ committed' = committed \cup Range(orcl[s].log)
             \/ pg' = Raised
      PROVE  FfiInv'
  <2>1. /\ pg' \in PgState /\ pg'.txn = pg.txn /\ pg'.subs = pg.subs /\ pg'.begun = pg.begun
        /\ \/ /\ pg'.mode = pg.mode /\ pg'.pending = pg.pending \ {s} /\ r = ended
              /\ pg' = [pg EXCEPT !.pending = @ \ {s}] /\ pg'.outcome = pg.outcome
           \/ pg'.mode = "abort" /\ pg'.pending = Registered
        /\ pg' = Raised => pg'.mode = "abort"
    <3>1. pg.mode # "run"
      BY <1>1
    <3> QED BY <1>8, <3>1, Returned, RaisedLemma DEF FfiInv
  <2>2. /\ sess' \in [Sessions -> Session]
        /\ \A t \in Sessions : /\ sess'[t].phase = sess[t].phase /\ sess'[t].at = sess[t].at
                               /\ sess'[t].readonly = sess[t].readonly
        /\ Registered' = Registered
        /\ \A t \in Sessions \ {s} : sess'[t] = sess[t]
        /\ sess'[s].xact = r.xact
    BY <1>6, <1>8
  <2>3. /\ orcl' \in [Sessions -> Transaction] /\ orcl'[s].log = <<>>
        /\ \A n \in 2..MaxLevel : orcl'[s].sp[n] = NoSavepoint
        /\ \A t \in Sessions \ {s} : orcl'[t] = orcl[t]
    <3>1. FreshTransaction(live) \in Transaction
      BY NewLemma
    <3> QED BY <1>1, <1>8, <3>1 DEF FreshTransaction
  <2>4. Range(<<>>) = {}
    BY DEF Range
  <2>5. ReadWrite(s)
    BY <1>1, <1>4, <1>8 DEF ReadWrite
  <2>6. committed' \subseteq done
    BY <1>8 DEF FfiInv, Types, LogView
  <2>7. Types'
    BY <1>1, <2>1, <2>2, <2>3, <2>6 DEF FfiInv, Types
  <2>8. SubsView'
    BY <1>1, <2>1 DEF FfiInv, SubsView, Level
  <2>9. HistoryView'
    <3>1. \A d \in done : d.s \in Sessions
      BY DEF FfiInv, Types, Change
    <3>2. ASSUME NEW d \in Range(orcl[s].log), pg.mode = "commit"
          PROVE  Range(d.at.subs) \cap aborted = {} /\ Range(d.at.subs) \cap Range(pg.subs) = {}
      <4>1. d.at = sess[s].at /\ orcl[s].log # <<>>
        BY <3>2 DEF FfiInv, LogView, Range
      <4>2. Range(pg.subs) = {}
        BY <3>2 DEF FfiInv, SubsView, Range
      <4> QED BY <2>5, <4>1, <4>2 DEF FfiInv, LogView, ReadWrite
    <3>3. \A d \in committed' : /\ Range(d.at.subs) \cap aborted = {}
                               /\ Range(d.at.subs) \cap Range(pg.subs) = {}
      BY <1>8, <3>2 DEF FfiInv, HistoryView
    <3> QED BY <1>1, <2>1, <2>2, <3>1, <3>3 DEF FfiInv, HistoryView
  <2>10. LogView'
    <3>1. \A t \in Sessions : orcl'[t] = orcl[t] \/ (/\ orcl'[t].log = <<>>
                                 /\ \A n \in 2..MaxLevel : orcl'[t].sp[n] = NoSavepoint)
      BY <2>3
    <3> QED BY <1>1, <2>2, <2>4, <3>1 DEF FfiInv, LogView
  <2>11. XactView'
    <3> SUFFICES ASSUME NEW t \in Sessions
                 PROVE  /\ sess'[t].at.txn <= pg'.txn
                        /\ sess'[t].xact = 0 /\ ~sess'[t].readonly => orcl'[t].log = <<>>
                        /\ pg'.mode \notin {"run", "release_sub", "abort_sub", "idle", "exit"}
                        /\ pg'.mode \in {"commit", "abort"} /\ t \notin pg'.pending
                             /\ ReadWrite(t)' => sess'[t].xact = 0
      BY DEF XactView
    <3>1. ReadWrite(t)' <=> ReadWrite(t)
      BY <2>2 DEF ReadWrite
    <3>2. CASE t = s
      BY <1>1, <1>3, <2>1, <2>2, <2>3, <3>2 DEF FfiInv, XactView
    <3>3. CASE t # s
      <4>1. sess'[t] = sess[t] /\ orcl'[t] = orcl[t]
        BY <2>2, <2>3, <3>3
      <4>2. t \in Registered <=> sess[t].phase = "open"
        BY DEF Registered
      <4> QED BY <1>1, <2>1, <3>1, <3>3, <4>1, <4>2 DEF FfiInv, XactView, ReadWrite
    <3> QED BY <3>2, <3>3
  <2>12. KeptView'
    <3> SUFFICES ASSUME MayCommit', NEW d \in done, d.at.txn = pg.txn, ~d.readonly
                 PROVE  Kept(d)'
      BY <1>1, <2>1 DEF KeptView
    <3>1. /\ pg.mode = "commit" /\ orcl[s].live /\ pg'.mode = pg.mode
          /\ committed' = committed \cup Range(orcl[s].log)
      BY <1>1, <1>8, <2>1 DEF MayCommit
    <3>2. Kept(d) /\ d.s \in Sessions
      BY <3>1 DEF FfiInv, Types, Change, KeptView, MayCommit
    <3>3. CASE d.s = s
      BY <1>1, <3>1, <3>2, <3>3 DEF Kept
    <3>4. CASE d.s # s
      <4>1. sess'[d.s] = sess[d.s] /\ orcl'[d.s] = orcl[d.s]
        BY <2>2, <2>3, <3>2, <3>4
      <4> QED BY <1>1, <3>1, <3>2, <4>1 DEF Kept, ReadWrite
    <3> QED BY <3>3, <3>4
  <2> QED BY <2>7, <2>8, <2>9, <2>10, <2>11, <2>12 DEF FfiInv
<1>9. CASE /\ ~EndsNothing(s)
           /\ orcl[s].live \/ ~c
           /\ sess' = [sess EXCEPT ![s] = [Closed(@) EXCEPT !.xact = 0]]
           /\ orcl' = [orcl EXCEPT ![s] = FreshTransaction(orcl[s].live)]
           /\ committed' = committed \cup CommittedBy(s, c)
           /\ pg' = [pg EXCEPT !.pending = @ \ {s}]
  <2>1. sess' = [sess EXCEPT ![s] = ended] /\ orcl[s].live \in BOOLEAN
    BY <1>1, <1>9 DEF ended, Transaction
  <2>2. /\ c => committed' = committed \cup Range(orcl[s].log) /\ orcl[s].live
        /\ ~c => committed' = committed
    BY <1>9 DEF CommittedBy
  <2> QED BY <1>1, <1>8, <1>9, <2>1, <2>2
<1>10. CASE /\ ~EndsNothing(s) /\ c
            /\ sess' = [sess EXCEPT ![s] = Closed(@)]
            /\ orcl' = [orcl EXCEPT ![s] = FreshTransaction(FALSE)]
            /\ committed' = committed \cup Range(orcl[s].log) \/ UNCHANGED committed
            /\ pg' = Raised
  <2>1. sess' = [sess EXCEPT ![s] = closed]
    BY <1>1, <1>10 DEF closed
  <2> QED BY <1>1, <1>8, <1>10, <2>1
<1>11. EndsNothing(s) => sess' = [sess EXCEPT ![s] = closed]
  BY <1>1 DEF EndTransaction, closed
<1> QED BY <1>7, <1>9, <1>10, <1>11 DEF EndTransaction

----------------------------------------------------------------------------
\* The invariant and what follows

LEMMA InitInv == FfiInit => FfiInv
<1> SUFFICES ASSUME FfiInit PROVE FfiInv
  OBVIOUS
<1>1. Types
  BY InitTypes
<1>2. /\ pg.mode = "idle" /\ pg.subs = <<>> /\ pg.pending = {} /\ pg.txn = 0 /\ pg.outcome = "none"
      /\ done = {} /\ committed = {} /\ aborted = {}
  BY DEF FfiInit
<1>3. \A s \in Sessions : /\ sess[s].phase = "none" /\ sess[s].at.txn = 0 /\ orcl[s].log = <<>>
                         /\ \A n \in 2..MaxLevel : orcl[s].sp[n] = NoSavepoint
  BY DEF FfiInit, NewSession, Nowhere, FreshTransaction
<1>4. Range(<<>>) = {}
  BY DEF Range
<1>5. SubsView
  BY <1>2 DEF SubsView
<1>6. HistoryView /\ KeptView
  BY <1>2 DEF HistoryView, KeptView
<1>7. LogView
  BY <1>3, <1>4 DEF LogView
<1>8. XactView
  BY <1>2, <1>3 DEF XactView, ReadWrite
<1> QED BY <1>1, <1>5, <1>6, <1>7, <1>8 DEF FfiInv

LEMMA NextInv == FfiInv /\ [FfiNext]_ffiVars => FfiInv'
<1> SUFFICES ASSUME FfiInv, [FfiNext]_ffiVars PROVE FfiInv'
  OBVIOUS
<1>1. ASSUME NEW t \in CallbackTables, RegisterCallbacks(t) PROVE FfiInv'
  BY <1>1, RegisterInv
<1>2. CASE BeginTransaction
  BY <1>2, BeginTransactionInv
<1>3. CASE BeginSubtransaction
  BY <1>3, BeginSubtransactionInv
<1>4. CASE FinishEnd
  <2>1. pg.mode \in {"release_sub", "abort_sub", "commit", "abort"}
    BY <1>4 DEF FinishEnd
  <2> QED BY <1>4, <2>1, FinishSubInv, FinishTopInv
<1>5. CASE CloseConnections
  BY <1>5, CloseConnectionsInv
<1>6. ASSUME NEW m \in {"release_sub", "abort_sub", "commit", "abort"}, StartEnd(m) PROVE FfiInv'
  BY <1>6, StartEndInv
<1>7. ASSUME NEW s \in Sessions, NEW ro \in BOOLEAN, GetSession(s, ro) PROVE FfiInv'
  BY <1>7, GetSessionInv
<1>8. ASSUME NEW s \in Sessions,
             CloseStatement(s) \/ PrepareQuery(s) \/ FetchNext(s) \/ ExecuteCall(s) \/ Describe(s)
               \/ Explain(s) \/ ExecutionFails(s)
      PROVE  FfiInv'
  <2>1. UseStep(s)
    BY <1>8, CloseStatementUses, PrepareQueryUses, FetchNextUses, CallsUse
  <2> QED BY <2>1, UseStepInv
<1>9. ASSUME NEW s \in Sessions, NEW r \in Results, NEW c \in BOOLEAN, NEW t \in BOOLEAN,
             ExecuteQuery(s, r, c, t)
      PROVE  FfiInv'
  BY <1>9, ExecuteQueryUses, UseStepInv
<1>10. ASSUME NEW s \in Sessions, NEW n \in Imports, GetImportColumn(s, n) PROVE FfiInv'
  BY <1>10, ImportUses, UseStepInv
<1>11. ASSUME NEW s \in Sessions, NEW c \in BOOLEAN,
              EndTransaction(s, c) \/ EndSubtransaction(s, Level, c)
       PROVE  FfiInv'
  BY <1>11, EndTransactionInv, EndSubtransactionInv
<1>12. CASE UNCHANGED ffiVars
  BY <1>12 DEF ffiVars, FfiInv, Types, Registered, SubsView, HistoryView, LogView, XactView,
               KeptView, MayCommit, Kept, ReadWrite, Level
<1> QED BY <1>1, <1>2, <1>3, <1>4, <1>5, <1>6, <1>7, <1>8, <1>9, <1>10, <1>11, <1>12 DEF FfiNext

(***************************************************************************)
(* FfiInv holds in every state: where each open subtransaction,            *)
(* uncommitted change and savepoint is, what xact_level says of the        *)
(* session, and where the work that may still be committed is kept.        *)
(***************************************************************************)
THEOREM FfiInvariant == FfiSpec => []FfiInv
<1>1. FfiInit => FfiInv
  BY InitInv
<1>2. FfiInv /\ [FfiNext]_ffiVars => FfiInv'
  BY NextInv
<1> QED BY <1>1, <1>2, PTL DEF FfiSpec

LEMMA TypesOK == FfiInv => FfiTypeOK
<1> SUFFICES ASSUME FfiInv PROVE FfiTypeOK
  OBVIOUS
<1>1. ASSUME NEW s \in Sessions
      PROVE  /\ sess[s].phase \in {"none", "open", "gone"}
             /\ sess[s].xact \in 0..1 /\ sess[s].next \in Nat /\ sess[s].current_row \in 0..Prefetch
             /\ sess[s].importNext \in Nat /\ DOMAIN sess[s].buf = Slots
  BY DEF FfiInv, Types, Session
<1>2. ASSUME NEW s \in Sessions, NEW n \in 2..MaxLevel
      PROVE  orcl[s].sp[n] \in {NoSavepoint} \cup 0..Len(orcl[s].log)
  <2>1. orcl[s].sp[n] \in {NoSavepoint, 0} /\ orcl[s].log \in Seq(Change)
    BY DEF FfiInv, Types, Transaction
  <2>2. 0 \in 0..Len(orcl[s].log)
    BY <2>1
  <2> QED BY <2>1, <2>2
<1>3. pg.mode \in Modes
  BY DEF FfiInv, Types, PgState
<1> QED BY <1>1, <1>2, <1>3 DEF FfiInv, Types, FfiTypeOK, Modes

(***************************************************************************)
(* The variables of the C interface always have their types: the slot of   *)
(* the current row is one of the buffer's, a savepoint lies in the         *)
(* transaction, a callback is due only for a registered session and what   *)
(* is committed was done.                                                  *)
(***************************************************************************)
THEOREM FfiTypeCorrect == FfiSpec => []FfiTypeOK
BY FfiInvariant, TypesOK, PTL

(***************************************************************************)
(* No change made in a subtransaction that PostgreSQL aborted is ever      *)
(* committed in Oracle, whatever fails and however deep the nesting is.    *)
(***************************************************************************)
THEOREM AbortedNeverCommitted == FfiSpec => []AbortedWorkNeverCommitted
<1>1. FfiInv => AbortedWorkNeverCommitted
  BY DEF FfiInv, HistoryView, AbortedWorkNeverCommitted
<1> QED BY <1>1, FfiInvariant, PTL

LEMMA KeptAtCommit == FfiInv => CommitKeepsWork
<1> SUFFICES ASSUME FfiInv, pg.mode = "idle", pg.outcome = "commit",
                    NEW c \in done, c.at.txn = pg.txn, ~c.readonly
             PROVE  \/ c \in committed
                    \/ \E a \in aborted : a.txn = c.at.txn /\ a.level <= Len(c.at.subs) + 1
  BY DEF CommitKeepsWork
<1>1. Kept(c) /\ c.s \in Sessions
  BY DEF FfiInv, Types, Change, KeptView, MayCommit
<1>2. ~(ReadWrite(c.s) /\ sess[c.s].xact = 1)
  BY <1>1 DEF FfiInv, XactView
<1>3. c \notin Range(orcl[c.s].log)
  <2> SUFFICES ASSUME c \in Range(orcl[c.s].log) PROVE FALSE
    OBVIOUS
  <2>1. c.readonly = sess[c.s].readonly /\ orcl[c.s].log # <<>>
    BY <1>1 DEF FfiInv, LogView, Range
  <2>2. ReadWrite(c.s)
    BY <1>1, <2>1 DEF FfiInv, LogView, ReadWrite
  <2> QED BY <1>1, <2>1, <2>2 DEF FfiInv, XactView, ReadWrite
<1> QED BY <1>1, <1>2, <1>3 DEF Kept

(***************************************************************************)
(* After PostgreSQL committed, every change of a read-write session is     *)
(* committed in Oracle, unless a subtransaction of no deeper level than    *)
(* one more than the session's was aborted in the transaction.             *)
(***************************************************************************)
THEOREM CommitKeepsAll == FfiSpec => []CommitKeepsWork
BY KeptAtCommit, FfiInvariant, PTL

(***************************************************************************)
(* Between transactions no read-write session has anything uncommitted,    *)
(* whichever commits and rollbacks failed.                                 *)
(***************************************************************************)
THEOREM NothingOpenBetween == FfiSpec => []NothingLeftOpen
<1>1. FfiInv => NothingLeftOpen
  BY DEF FfiInv, XactView, ReadWrite, NothingLeftOpen, Registered
<1> QED BY <1>1, FfiInvariant, PTL

----------------------------------------------------------------------------
\* The row that oracleFetchNext returns

\* The current row of a session is in its slot, and its LOB content allocated.
RowOk(r) ==
  r.current_row > 0 =>
    /\ r.result \in Results /\ r.next \in 1..Len(r.result)
    /\ LET row == r.result[r.next]
           slot == r.buf[r.current_row - 1]
       IN  /\ slot.null <=> row.lob = NULL
           /\ row.lob # NULL => slot.lob \in r.lobs /\ slot.lob.data = row.lob
           /\ slot.tnull <=> row.txt = NULL
           /\ row.txt # NULL => slot.len < ValSize /\ slot.len <= row.txt
           /\ r.last_batch <=> r.next = Len(r.result)

RowView == \A s \in Sessions : RowOk(sess[s])

(***************************************************************************)
(* The row just fetched is in its slot, whatever the slot held before.     *)
(***************************************************************************)
LEMMA FetchedRowOk ==
  ASSUME NEW S \in Session, S.result # NULL, S.next < Len(S.result)
  PROVE  RowOk(FetchRow(S))
<1> DEFINE Row == [lob : {NULL, "a", "b"}, txt : {NULL} \cup Nat]
           row == S.result[S.next + 1]
           slot == SlotOf(S.next)
           handle == [stmt |-> S.stmt, row |-> S.next + 1, data |-> row.lob]
           copy == CopyValue(S.buf[slot], row, handle)
<1>1. S.result \in Results /\ S.next \in Nat
  BY DEF Session
<1>2. S.result \in Seq(Row)
  BY <1>1, FfiConstants
<1>3. S.next + 1 \in 1..Len(S.result)
  <2> HIDE DEF Row
  <2> QED BY <1>1, <1>2
<1>4. row \in Row
  <2> HIDE DEF Row
  <2> QED BY <1>2, <1>3
<1>5. slot \in Slots /\ slot + 1 - 1 = slot
  BY <1>1, Buffers DEF SlotOf, Slots
<1>6. S.buf \in [Slots -> Slot]
  BY DEF Session
<1> HIDE DEF slot
<1>7. /\ FetchRow(S).result = S.result /\ FetchRow(S).next = S.next + 1
      /\ FetchRow(S).current_row = slot + 1
      /\ FetchRow(S).buf = [S.buf EXCEPT ![slot] = copy]
      /\ FetchRow(S).lobs = S.lobs \cup (IF row.lob = NULL THEN {} ELSE {handle})
      /\ FetchRow(S).last_batch = (S.next + 1 >= Len(S.result))
  BY DEF FetchRow, Session, slot
<1>8. FetchRow(S).buf[slot] = copy
  BY <1>5, <1>6, <1>7
<1>9. /\ copy.null <=> row.lob = NULL
      /\ row.lob # NULL => copy.lob = handle
      /\ copy.tnull <=> row.txt = NULL
      /\ row.txt # NULL => copy.len = IF row.txt < ValSize THEN row.txt ELSE ValSize - 1
  BY DEF CopyValue
<1>10. handle.data = row.lob
  OBVIOUS
<1>11. row.txt # NULL => row.txt \in Nat
  BY <1>4
<1> HIDE DEF row, handle, copy
<1>12. row.txt # NULL => copy.len < ValSize /\ copy.len <= row.txt
  BY <1>9, <1>11, Buffers
<1>13. FetchRow(S).last_batch <=> S.next + 1 = Len(S.result)
  <2>1. Len(S.result) \in Nat
    BY <1>2
  <2>2. (S.next + 1 >= Len(S.result)) <=> S.next + 1 = Len(S.result)
    BY <1>1, <1>3, <2>1
  <2> QED BY <1>7, <2>2, Zenon
<1>14. S.result[S.next + 1] = row
  BY DEF row
<1>15. row.lob # NULL => handle \in FetchRow(S).lobs
  BY <1>7
<1> DEFINE F == FetchRow(S)
<1>16. F.result \in Results /\ F.next \in 1..Len(F.result)
  BY <1>1, <1>3, <1>7
<1>17. F.last_batch <=> F.next = Len(F.result)
  <2>1. F.next = S.next + 1 /\ F.result = S.result
    BY <1>7
  <2> QED BY <1>13, <2>1, Zenon
<1>19. F.result[F.next] = row
  BY <1>7, <1>14
<1>20. F.buf[F.current_row - 1] = copy
  <2>1. F.current_row - 1 = slot
    <3>1. slot \in Int /\ F.current_row = slot + 1
      BY <1>5, <1>7 DEF Slots
    <3> HIDE DEF F
    <3> QED BY <3>1
  <2>2. F.buf[slot] = copy
    BY <1>8
  <2> HIDE DEF F
  <2> QED BY <2>1, <2>2
<1>18. row.lob # NULL => copy.lob \in F.lobs /\ copy.lob.data = row.lob
  BY <1>9, <1>10, <1>15
<1> HIDE DEF F
<1> QED BY <1>9, <1>12, <1>16, <1>17, <1>18, <1>19, <1>20 DEF RowOk, F

LEMMA NoRow ==
  /\ \A r : r.current_row = 0 => RowOk(r)
  /\ \A s \in Sessions : sess[s] \in Session => Closed(sess[s]).current_row = 0
  /\ \A p, at, ro : NewSession(p, at, ro).current_row = 0
<1>1. \A s \in Sessions : sess[s] \in Session => Closed(sess[s]).current_row = 0
  BY DEF Closed, Session
<1> QED BY <1>1 DEF RowOk, NewSession

LEMMA FetchNextRow ==
  ASSUME FfiInv, RowView, NEW s \in Sessions, FetchNext(s)
  PROVE  RowView'
<1> DEFINE S == sess[s]
<1>1. S \in Session /\ S.result # NULL
  BY DEF FfiInv, Types, FetchNext
<1>2. CASE S.next < Len(S.result) /\ sess' = [sess EXCEPT ![s] = FetchRow(S)]
  BY <1>1, <1>2, FetchedRowOk DEF FfiInv, Types, RowView
<1>3. CASE S.next >= Len(S.result) /\ sess' = [sess EXCEPT ![s].last_batch = TRUE]
  <2> DEFINE q == [S EXCEPT !.last_batch = TRUE]
  <2>1. /\ q.current_row = S.current_row /\ q.result = S.result /\ q.next = S.next
        /\ q.buf = S.buf /\ q.lobs = S.lobs /\ q.last_batch = TRUE
    BY <1>1 DEF Session
  <2>2. S.current_row > 0 => S.next = Len(S.result)
    <3>1. S.current_row > 0 => S.next \in 1..Len(S.result)
      BY DEF RowView, RowOk
    <3>2. Len(S.result) \in Nat
      BY <1>1, FfiConstants DEF Session
    <3> QED BY <1>3, <3>1, <3>2
  <2>3. RowOk(S)
    BY DEF RowView
  <2>4. RowOk(q)
    <3> HIDE DEF q, S
    <3> QED BY <2>1, <2>2, <2>3 DEF RowOk
  <2> QED BY <1>3, <2>4 DEF FfiInv, Types, RowView
<1> QED BY <1>2, <1>3 DEF FetchNext

LEMMA RowStep == FfiInv /\ RowView /\ [FfiNext]_ffiVars => RowView'
<1> SUFFICES ASSUME FfiInv, RowView, [FfiNext]_ffiVars PROVE RowView'
  OBVIOUS
<1>1. sess \in [Sessions -> Session]
  BY DEF FfiInv, Types
<1>2. CASE sess' = sess
  BY <1>2 DEF RowView
<1>3. ASSUME NEW s \in Sessions, NEW r, sess' = [sess EXCEPT ![s] = r], r.current_row = 0
      PROVE  RowView'
  BY <1>1, <1>3, NoRow DEF RowView
<1>4. CASE CloseConnections
  BY <1>1, <1>4, NoRow DEF CloseConnections, RowView
<1>5. ASSUME NEW s \in Sessions, NEW ro \in BOOLEAN, GetSession(s, ro) PROVE RowView'
  BY <1>2, <1>3, <1>5, NoRow DEF GetSession
<1>6. ASSUME NEW s \in Sessions, CloseStatement(s) PROVE RowView'
  <2>1. sess' = [sess EXCEPT ![s] = Closed(sess[s])]
    BY <1>1, <1>6 DEF CloseStatement
  <2> QED BY <1>1, <1>3, <2>1, NoRow
<1>7. ASSUME NEW s \in Sessions, PrepareQuery(s) PROVE RowView'
  <2> DEFINE r == [Closed(sess[s]) EXCEPT !.sql = TRUE, !.stmt = pg.stmts + 1]
  <2>1. sess' = [sess EXCEPT ![s] = r]
    BY <1>1, <1>7 DEF PrepareQuery
  <2>2. Closed(sess[s]) \in Session
    BY ClosedLemma DEF FfiInv
  <2>3. r.current_row = 0
    BY <1>1, <2>2, NoRow DEF Session
  <2> QED BY <1>3, <2>1, <2>3
<1>8. ASSUME NEW s \in Sessions, NEW q \in Results, NEW c \in BOOLEAN, NEW t \in BOOLEAN,
             ExecuteQuery(s, q, c, t)
      PROVE  RowView'
  <2> DEFINE r == [sess[s] EXCEPT !.result = q, !.next = 0, !.current_row = 0]
  <2>1. sess' = [sess EXCEPT ![s] = r]
    BY <1>1, <1>8 DEF ExecuteQuery
  <2>2. r.current_row = 0
    BY <1>1 DEF Session
  <2> QED BY <1>3, <2>1, <2>2
<1>9. ASSUME NEW s \in Sessions, FetchNext(s) PROVE RowView'
  BY <1>9, FetchNextRow
<1>10. ASSUME NEW s \in Sessions, NEW n \in Imports, GetImportColumn(s, n) PROVE RowView'
  <2> DEFINE S == sess[s]
             i == IF S.import = NULL THEN n ELSE S.import
             q == IF S.importNext >= i THEN [S EXCEPT !.import = NULL, !.importNext = 0]
                  ELSE [S EXCEPT !.import = i, !.importNext = S.importNext + 1]
  <2>1. sess' = [sess EXCEPT ![s] = q]
    BY <1>1, <1>10 DEF GetImportColumn
  <2>2. /\ q.current_row = S.current_row /\ q.result = S.result /\ q.next = S.next
        /\ q.buf = S.buf /\ q.lobs = S.lobs /\ q.last_batch = S.last_batch
    BY <1>1 DEF Session
  <2>3. RowOk(S)
    BY DEF RowView
  <2>4. RowOk(q)
    <3> HIDE DEF q, S
    <3> QED BY <2>2, <2>3 DEF RowOk
  <2> QED BY <1>1, <2>1, <2>4 DEF RowView
<1>11. ASSUME NEW s \in Sessions, NEW c \in BOOLEAN, EndTransaction(s, c) PROVE RowView'
  <2> DEFINE ended == [Closed(sess[s]) EXCEPT !.xact = 0]
  <2>1. sess' = [sess EXCEPT ![s] = Closed(sess[s])] \/ sess' = [sess EXCEPT ![s] = ended]
    BY <1>1, <1>11 DEF EndTransaction
  <2>2. Closed(sess[s]) \in Session
    BY ClosedLemma DEF FfiInv
  <2>3. ended.current_row = 0
    BY <1>1, <2>2, NoRow DEF Session
  <2> HIDE DEF ended
  <2> QED BY <1>1, <1>3, <2>1, <2>3, NoRow
<1>12. CASE sess' # sess
  BY <1>4, <1>5, <1>6, <1>7, <1>8, <1>9, <1>10, <1>11, <1>12
     DEF FfiNext, ffiVars, RegisterCallbacks, BeginTransaction, BeginSubtransaction, FinishEnd,
         StartEnd, ExecuteCall, Describe, Explain, ExecutionFails, EndSubtransaction
<1> QED BY <1>2, <1>12

LEMMA RowReadable == FfiInv /\ RowView => CurrentRowReadable
<1> SUFFICES ASSUME FfiInv, RowView, NEW s \in Registered, sess[s].current_row > 0
             PROVE  LET row == sess[s].result[sess[s].next]
                        slot == sess[s].buf[sess[s].current_row - 1]
                    IN  /\ row.lob = IF slot.null THEN NULL ELSE GetLob(s, slot)
                        /\ slot.tnull <=> row.txt = NULL
                        /\ row.txt # NULL => slot.len < ValSize /\ slot.len <= row.txt
                        /\ sess[s].last_batch <=> sess[s].next = Len(sess[s].result)
  BY DEF CurrentRowReadable
<1>1. s \in Sessions
  BY DEF Registered
<1> QED BY <1>1 DEF RowView, RowOk, GetLob

(***************************************************************************)
(* The slot that oracleFetchNext returns holds its row, for any results    *)
(* and any number of slots: no LOB content freed with an earlier statement *)
(* is read, and no indicator of an earlier row is taken for this row's.    *)
(***************************************************************************)
THEOREM CurrentRowAlwaysReadable == FfiSpec => []CurrentRowReadable
<1>1. FfiInit => RowView
  <2> SUFFICES ASSUME FfiInit, NEW s \in Sessions PROVE RowOk(sess[s])
    BY DEF RowView
  <2>1. sess[s] = NewSession("none", Nowhere, FALSE)
    BY DEF FfiInit
  <2> QED BY <2>1, NoRow
<1>2. FfiInv /\ RowView /\ [FfiNext]_ffiVars => RowView'
  BY RowStep
<1>3. FfiInv /\ RowView => CurrentRowReadable
  BY RowReadable
<1> QED BY <1>1, <1>2, <1>3, FfiInvariant, PTL DEF FfiSpec
=============================================================================
