----------------------------- MODULE FfiSession -----------------------------
(***************************************************************************)
(* The C interface that oracle_fdw calls from a PostgreSQL backend: one    *)
(* oracleSession, with a connection of its own, for every foreign scan or  *)
(* modification; the transaction callbacks PostgreSQL makes into every     *)
(* session that was ever registered; and the row buffers that PostgreSQL   *)
(* owns and oracleFetchNext fills.                                         *)
(*                                                                         *)
(* The backend is single threaded: one exported function runs at a time,   *)
(* and raise_pg_error leaves it with a long jump, after which PostgreSQL   *)
(* aborts the current subtransaction or transaction.  PostgreSQL and the   *)
(* Oracle server are not part of the repository: they are modelled by what *)
(* the interface relies on, and marked external.                           *)
(***************************************************************************)
EXTENDS Integers, Sequences, FiniteSets, Functions

CONSTANTS
  NULL,       \* None, and the SQL NULL
  Sessions,   \* sessions that oracleGetSession may return
  Scanners,   \* bound: the sessions that prepare queries, import or are read-only
  Results,    \* results a query may have: sequences of rows
  Imports,    \* numbers of columns a schema import may find
  Prefetch,   \* the number of slots of each column buffer
  ValSize,    \* val_size of the text column
  MaxLevel,   \* bound: transaction nesting
  MaxSubs,    \* bound: subtransactions in a behaviour
  MaxTxns,    \* bound: transactions in a behaviour
  MaxStmts,   \* bound: queries and imports in a behaviour
  MaxWork,    \* bound: changes in a behaviour
  MayBreak    \* whether connections may fail

ASSUME FfiConstants ==
  /\ IsFiniteSet(Sessions) /\ Scanners \subseteq Sessions
  /\ \A r \in Results : r \in Seq([lob : {NULL, "a", "b"}, txt : {NULL} \cup Nat])
  /\ Imports \subseteq Nat
  /\ Prefetch \in Nat \ {0} /\ ValSize \in Nat \ {0}
  /\ {MaxLevel, MaxSubs, MaxTxns, MaxStmts, MaxWork} \subseteq Nat
  /\ MayBreak \in BOOLEAN

VARIABLES
  callbacks,  \* oracle_rs_register_pg_callbacks stored a complete table
  sess,       \* per session: oracleSession and its RustSessionState
  orcl,       \* per session: the Oracle transaction of its connection
  pg,         \* PostgreSQL: transaction state and callbacks still to make
  done,       \* history: changes that Oracle made
  committed,  \* history: changes that Oracle committed
  aborted     \* history: subtransactions that PostgreSQL aborted

ffiVars == <<callbacks, sess, orcl, pg, done, committed, aborted>>

Slots == 0..(Prefetch - 1)
NoHandle == [stmt |-> 0, row |-> 0, data |-> NULL]
EmptySlot == [null |-> FALSE, lob |-> NoHandle, tnull |-> FALSE, len |-> 0]

Nowhere == [txn |-> 0, subs |-> <<>>]

\* What oracleGetSession allocates; "none" is a session not handed out yet.
NewSession(phase, at, readonly) ==
  [phase |-> phase, at |-> at, readonly |-> readonly,
   xact |-> IF phase = "open" THEN 1 ELSE 0,
   sql |-> FALSE, result |-> NULL, next |-> 0, import |-> NULL, importNext |-> 0,
   lobs |-> {}, stmt |-> 0, last_batch |-> FALSE, current_row |-> 0,
   buf |-> [k \in Slots |-> EmptySlot]]

NoSavepoint == -1
FreshTransaction(live) ==
  [live |-> live, log |-> <<>>, sp |-> [n \in 2..MaxLevel |-> NoSavepoint]]

FfiInit ==
  /\ callbacks = FALSE
  /\ sess = [s \in Sessions |-> NewSession("none", Nowhere, FALSE)]
  /\ orcl = [s \in Sessions |-> FreshTransaction(FALSE)]
  /\ pg = [mode |-> "idle", txn |-> 0, subs |-> <<>>, begun |-> 0, pending |-> {},
           stmts |-> 0, outcome |-> "none"]
  /\ done = {} /\ committed = {} /\ aborted = {}

----------------------------------------------------------------------------
\* PostgreSQL (external)

Level == Len(pg.subs) + 1
Here == [txn |-> pg.txn, subs |-> pg.subs]
Running == pg.mode = "run"
Registered == {s \in Sessions : sess[s].phase = "open"}

(***************************************************************************)
(* What PostgreSQL does after raise_pg_error: it aborts the innermost      *)
(* subtransaction, when the error was raised inside one by a statement,    *)
(* and otherwise the whole transaction; either way every registered        *)
(* session gets a callback.                                                *)
(***************************************************************************)
Raised == [pg EXCEPT !.mode = IF Running /\ Level > 1 THEN "abort_sub" ELSE "abort",
                     !.pending = Registered]

BeginTransaction ==
  /\ pg.mode = "idle" /\ pg.txn < MaxTxns
  /\ pg' = [pg EXCEPT !.mode = "run", !.txn = @ + 1, !.outcome = "none"]
  /\ UNCHANGED <<callbacks, sess, orcl, done, committed, aborted>>

BeginSubtransaction ==
  /\ Running /\ Level < MaxLevel /\ pg.begun < MaxSubs
  /\ pg' = [pg EXCEPT !.begun = @ + 1,
                      !.subs = Append(@, [id |-> pg.begun + 1, txn |-> pg.txn,
                                          level |-> Level + 1])]
  /\ UNCHANGED <<callbacks, sess, orcl, done, committed, aborted>>

\* RELEASE SAVEPOINT or ROLLBACK TO SAVEPOINT, COMMIT or ROLLBACK.
StartEnd(mode) ==
  /\ Running
  /\ mode \in {"release_sub", "abort_sub"} => Level > 1
  /\ mode = "commit" => Level = 1
  /\ pg' = [pg EXCEPT !.mode = mode, !.pending = Registered]
  /\ UNCHANGED <<callbacks, sess, orcl, done, committed, aborted>>

\* All the callbacks returned.
FinishEnd ==
  /\ pg.pending = {}
  /\ \/ /\ pg.mode \in {"release_sub", "abort_sub"}
        /\ pg' = [pg EXCEPT !.mode = "run", !.subs = SubSeq(@, 1, Len(@) - 1)]
        /\ aborted' = aborted \cup IF pg.mode = "abort_sub" THEN {pg.subs[Len(pg.subs)]}
                                   ELSE {}
     \/ /\ pg.mode \in {"commit", "abort"}
        /\ pg' = [pg EXCEPT !.mode = "idle", !.subs = <<>>, !.outcome = pg.mode]
        /\ aborted' = aborted \cup IF pg.mode = "abort" THEN Range(pg.subs) ELSE {}
  /\ UNCHANGED <<callbacks, sess, orcl, done, committed>>

----------------------------------------------------------------------------
\* The Oracle server (external)

\* The k changes that session s makes now: who made them, in which subtransactions.
Changes(s, k) ==
  [i \in 1..k |-> [s |-> s, n |-> Cardinality(done) + i, at |-> Here,
                   readonly |-> sess[s].readonly]]

Changed(s, k) ==
  /\ Cardinality(done) + k <= MaxWork
  /\ done' = done \cup Range(Changes(s, k))
  /\ orcl' = [orcl EXCEPT ![s].log = @ \o Changes(s, k)]

(***************************************************************************)
(* ROLLBACK TO SAVEPOINT undoes the changes made later and erases the      *)
(* savepoints set later, at the same place in the log too: those of higher *)
(* levels, for oracleGetSession sets s2, s3, ... in this order, once.      *)
(***************************************************************************)
RollbackTo(o, n) ==
  [o EXCEPT !.log = SubSeq(@, 1, o.sp[n]),
            !.sp = [m \in DOMAIN o.sp |-> IF m > n THEN NoSavepoint ELSE o.sp[m]]]

(***************************************************************************)
(* A call fails.  The connection may have gone with it: the server rolled  *)
(* back what was not committed, and every later call fails.                *)
(***************************************************************************)
Failed(s) == \/ UNCHANGED orcl
             \/ orcl' = [orcl EXCEPT ![s] = FreshTransaction(FALSE)]

----------------------------------------------------------------------------
\* Sessions

\* oracle_rs_register_pg_callbacks: 0, or the reason for refusing the table.
RegisterCallbacks(table) ==
  /\ ~callbacks /\ pg.mode = "idle"
  /\ callbacks' = (table = "complete")
  /\ UNCHANGED <<sess, orcl, pg, done, committed, aborted>>

(***************************************************************************)
(* oracleGetSession: a new connection, savepoints s2 .. s<curlevel>, the   *)
(* session registered here and with PostgreSQL.  Failing to connect or to  *)
(* set a savepoint raises before anything is registered.                   *)
(***************************************************************************)
GetSession(s, readonly) ==
  /\ callbacks /\ Running /\ sess[s].phase = "none"
  /\ readonly => s \in Scanners
  /\ \/ /\ sess' = [sess EXCEPT ![s] = NewSession("open", Here, readonly)]
        /\ orcl' = [orcl EXCEPT ![s] = [live |-> TRUE, log |-> <<>>,
                      sp |-> [n \in 2..MaxLevel |-> IF n <= Level THEN 0 ELSE NoSavepoint]]]
        /\ UNCHANGED pg
     \/ /\ MayBreak
        /\ pg' = Raised
        /\ UNCHANGED <<sess, orcl>>
  /\ UNCHANGED <<callbacks, done, committed, aborted>>

\* close_statement_state: also frees the LOB contents, not PostgreSQL's buffers.
Closed(r) ==
  [r EXCEPT !.sql = FALSE, !.result = NULL, !.next = 0, !.import = NULL, !.importNext = 0,
            !.lobs = {}, !.last_batch = FALSE, !.current_row = 0]

CloseStatement(s) ==
  /\ sess[s].phase = "open" /\ Running
  /\ sess' = [sess EXCEPT ![s] = Closed(@)]
  /\ UNCHANGED <<callbacks, orcl, pg, done, committed, aborted>>

\* oracleIsStatementOpen: thin_stmt is set by a query and by an import.
IsStatementOpen(s) == sess[s].sql \/ sess[s].import # NULL

\* oracleCloseConnections and oracleShutdown, at the end of the backend.
CloseConnections ==
  /\ pg.mode = "idle" /\ Registered # {}
  /\ pg' = [pg EXCEPT !.mode = "exit"]
  /\ sess' = [s \in Sessions |-> IF s \in Registered THEN NewSession("gone", Nowhere, FALSE)
                                 ELSE sess[s]]
  /\ orcl' = [s \in Sessions |-> FreshTransaction(FALSE)]
  /\ UNCHANGED <<callbacks, done, committed, aborted>>

----------------------------------------------------------------------------
\* Statements: PostgreSQL uses a session in the subtransaction it got it in.

Usable(s) == Running /\ sess[s].phase = "open" /\ sess[s].at = Here

PrepareQuery(s) ==
  /\ Usable(s) /\ s \in Scanners /\ pg.stmts < MaxStmts
  /\ pg' = [pg EXCEPT !.stmts = @ + 1]
  /\ sess' = [sess EXCEPT ![s] = [Closed(@) EXCEPT !.sql = TRUE, !.stmt = pg.stmts + 1]]
  /\ UNCHANGED <<callbacks, orcl, done, committed, aborted>>

(***************************************************************************)
(* oracleExecuteQuery.  When conn.query returns Error::Protocol, for an    *)
(* answer it cannot decode, the statement has run; conn.execute runs it    *)
(* again, and a statement that changes data has changed it twice.  Any     *)
(* other error is raised.                                                  *)
(***************************************************************************)
ExecuteQuery(s, r, changes, retried) ==
  /\ Usable(s) /\ sess[s].sql /\ orcl[s].live
  /\ changes => r = <<>>
  /\ sess' = [sess EXCEPT ![s].result = r, ![s].next = 0, ![s].current_row = 0]
  /\ Changed(s, CASE ~changes -> 0 [] changes /\ retried -> 2 [] OTHER -> 1)
  /\ UNCHANGED <<callbacks, pg, committed, aborted>>

\* oracleExecuteCall: a statement run at once, without a result.
ExecuteCall(s) ==
  /\ Usable(s) /\ orcl[s].live
  /\ Changed(s, 1)
  /\ UNCHANGED <<callbacks, sess, pg, committed, aborted>>

\* oracleDescribe: a query of the catalog, which fails if it finds no columns.
Describe(s) ==
  /\ Usable(s) /\ orcl[s].live
  /\ pg' \in {pg, Raised}
  /\ UNCHANGED <<callbacks, sess, orcl, done, committed, aborted>>

(***************************************************************************)
(* oracleExplain writes the plan to PLAN_TABLE, reads it and deletes it.   *)
(* An error of the DELETE is ignored and leaves the rows in the            *)
(* transaction, as an error of the query does, which is raised.            *)
(***************************************************************************)
Explain(s) ==
  /\ Usable(s) /\ orcl[s].live
  /\ \/ UNCHANGED <<orcl, pg, done>>
     \/ Changed(s, 1) /\ MayBreak /\ pg' \in {pg, Raised}
  /\ UNCHANGED <<callbacks, sess, committed, aborted>>

\* Either of them, the query of an import or the reading of a LOB fails.
ExecutionFails(s) ==
  /\ Usable(s) /\ MayBreak
  /\ Failed(s)
  /\ pg' = Raised
  /\ UNCHANGED <<callbacks, sess, done, committed, aborted>>

\* Mutant: a NULL leaves the indicator of the slot's previous row.
CopyValueKeepsIndicator(slot, row, handle) ==
  [null |-> slot.null,
   lob |-> IF row.lob = NULL THEN slot.lob ELSE handle,
   tnull |-> row.txt = NULL,
   len |-> 0]

\* copy_value_to_column of the LOB and of the text of one row into its slot.
CopyValue(slot, row, handle) ==
  [null |-> row.lob = NULL,
   lob |-> IF row.lob = NULL THEN slot.lob ELSE handle,
   tnull |-> row.txt = NULL,
   len |-> CASE row.txt = NULL -> 0
             [] row.txt # NULL /\ row.txt < ValSize -> row.txt
             [] OTHER -> ValSize - 1]

\* Mutant: the buffers are not used again from their start.
SlotOfNoWrap(next) == next

SlotOf(next) == next % Prefetch

\* The next row of the result is copied into its slot, its LOB content kept.
FetchRow(S) ==
  LET row == S.result[S.next + 1]
      slot == SlotOf(S.next)
      handle == [stmt |-> S.stmt, row |-> S.next + 1, data |-> row.lob]
  IN  [S EXCEPT !.buf[slot] = CopyValue(@, row, handle),
                !.lobs = @ \cup (IF row.lob = NULL THEN {} ELSE {handle}),
                !.next = @ + 1,
                !.current_row = slot + 1,
                !.last_batch = (S.next + 1 >= Len(S.result))]

(***************************************************************************)
(* oracleFetchNext: the next row goes to slot next_row % prefetch; a LOB   *)
(* is read from the server and its content kept in lob_handles until the   *)
(* statement is closed.  A read that fails raises and returns no row; the  *)
(* columns that it left overwritten in the slot are abstracted away.       *)
(***************************************************************************)
FetchNext(s) ==
  /\ Usable(s) /\ sess[s].result # NULL
  /\ LET S == sess[s] IN
     \/ /\ S.next >= Len(S.result)
        /\ sess' = [sess EXCEPT ![s].last_batch = TRUE]
     \/ /\ S.next < Len(S.result)
        /\ S.result[S.next + 1].lob = NULL \/ orcl[s].live
        /\ sess' = [sess EXCEPT ![s] = FetchRow(S)]
  /\ UNCHANGED <<callbacks, orcl, pg, done, committed, aborted>>

\* oracleGetLob reads a slot PostgreSQL has found not to be null: its content.
GetLob(s, slot) == IF slot.lob \in sess[s].lobs THEN slot.lob.data ELSE "freed"

\* oracleGetImportColumn: the query on the first call, then one column per call.
GetImportColumn(s, columns) ==
  /\ Usable(s) /\ s \in Scanners /\ ~sess[s].sql
  /\ sess[s].import = NULL => orcl[s].live /\ pg.stmts < MaxStmts
  /\ LET first == sess[s].import = NULL
         n == IF first THEN columns ELSE sess[s].import
         k == sess[s].importNext
     IN  /\ sess' = IF k >= n
                    THEN [sess EXCEPT ![s].import = NULL, ![s].importNext = 0]
                    ELSE [sess EXCEPT ![s].import = n, ![s].importNext = k + 1]
         /\ pg' = IF first THEN [pg EXCEPT !.stmts = @ + 1] ELSE pg
  /\ UNCHANGED <<callbacks, orcl, done, committed, aborted>>

----------------------------------------------------------------------------
\* Transaction callbacks

\* Mutant: the test of is_commit the wrong way round.
CommittedByInverted(s, is_commit) == IF ~is_commit THEN Range(orcl[s].log) ELSE {}

\* COMMIT or ROLLBACK: the changes that are committed.
CommittedBy(s, is_commit) == IF is_commit THEN Range(orcl[s].log) ELSE {}

\* Mutant: a session without an open statement is taken for unused.
EndsNothingWithoutStatement(s) ==
  sess[s].readonly \/ sess[s].xact <= 0 \/ ~IsStatementOpen(s)

\* The early return of oracleEndTransaction.
EndsNothing(s) == sess[s].readonly \/ sess[s].xact <= 0

(***************************************************************************)
(* oracleEndTransaction(s, is_commit, silent): PostgreSQL commits with     *)
(* silent = 0 and aborts with silent = 1.  A commit may fail, its answer   *)
(* lost, after or before the server committed; the error is raised before  *)
(* xact_level is reset, so the abort that follows rolls back.  A ROLLBACK  *)
(* is assumed to fail only on a connection whose changes the server has    *)
(* undone: the error of a silent one is not seen by anybody.               *)
(***************************************************************************)
EndTransaction(s, is_commit) ==
  /\ s \in pg.pending
  /\ pg.mode = IF is_commit THEN "commit" ELSE "abort"
  /\ \/ /\ EndsNothing(s)
        /\ sess' = [sess EXCEPT ![s] = Closed(@)]
        /\ pg' = [pg EXCEPT !.pending = @ \ {s}]
        /\ UNCHANGED <<orcl, committed>>
     \/ /\ ~EndsNothing(s)
        /\ orcl[s].live \/ ~is_commit
        /\ sess' = [sess EXCEPT ![s] = [Closed(@) EXCEPT !.xact = 0]]
        /\ orcl' = [orcl EXCEPT ![s] = FreshTransaction(orcl[s].live)]
        /\ committed' = committed \cup CommittedBy(s, is_commit)
        /\ pg' = [pg EXCEPT !.pending = @ \ {s}]
     \/ /\ ~EndsNothing(s) /\ is_commit
        /\ ~orcl[s].live \/ MayBreak
        /\ sess' = [sess EXCEPT ![s] = Closed(@)]
        /\ orcl' = [orcl EXCEPT ![s] = FreshTransaction(FALSE)]
        /\ \/ committed' = committed \cup Range(orcl[s].log)
           \/ UNCHANGED committed
        /\ pg' = Raised
  /\ UNCHANGED <<callbacks, done, aborted>>

\* Mutant: off by one in the test of nest_level.
UndoesNothingAtTwo(nest_level, is_commit) == is_commit \/ nest_level <= 2

\* The early return of oracleEndSubtransaction.
UndoesNothing(nest_level, is_commit) == is_commit \/ nest_level <= 1

\* oracleEndSubtransaction(s, nest_level, is_commit).
EndSubtransaction(s, nest_level, is_commit) ==
  /\ s \in pg.pending
  /\ pg.mode = IF is_commit THEN "release_sub" ELSE "abort_sub"
  /\ \/ /\ UndoesNothing(nest_level, is_commit)
        /\ pg' = [pg EXCEPT !.pending = @ \ {s}]
        /\ UNCHANGED orcl
     \/ /\ ~UndoesNothing(nest_level, is_commit)
        /\ orcl[s].live /\ orcl[s].sp[nest_level] # NoSavepoint
        /\ orcl' = [orcl EXCEPT ![s] = RollbackTo(@, nest_level)]
        /\ pg' = [pg EXCEPT !.pending = @ \ {s}]
     \/ /\ ~UndoesNothing(nest_level, is_commit)
        /\ \/ ~orcl[s].live \/ orcl[s].sp[nest_level] = NoSavepoint
           \/ MayBreak
        /\ Failed(s)
        /\ pg' = Raised
  /\ UNCHANGED <<callbacks, sess, done, committed, aborted>>

----------------------------------------------------------------------------
CallbackTables == {"null", "other version", "incomplete", "complete"}

FfiNext ==
  \/ \E t \in CallbackTables : RegisterCallbacks(t)
  \/ BeginTransaction \/ BeginSubtransaction \/ FinishEnd \/ CloseConnections
  \/ \E m \in {"release_sub", "abort_sub", "commit", "abort"} : StartEnd(m)
  \/ \E s \in Sessions :
       \/ \E ro \in BOOLEAN : GetSession(s, ro)
       \/ CloseStatement(s) \/ PrepareQuery(s) \/ FetchNext(s)
       \/ ExecuteCall(s) \/ Describe(s) \/ Explain(s) \/ ExecutionFails(s)
       \/ \E r \in Results, c, twice \in BOOLEAN : ExecuteQuery(s, r, c, twice)
       \/ \E n \in Imports : GetImportColumn(s, n)
       \/ \E c \in BOOLEAN : EndTransaction(s, c) \/ EndSubtransaction(s, Level, c)

FfiSpec == FfiInit /\ [][FfiNext]_ffiVars

----------------------------------------------------------------------------
\* Properties

\* Every session, transaction and history variable has its type.
FfiTypeOK ==
  /\ callbacks \in BOOLEAN
  /\ \A s \in Sessions :
       /\ sess[s].phase \in {"none", "open", "gone"}
       /\ sess[s].xact \in 0..1 /\ sess[s].next \in Nat /\ sess[s].current_row \in 0..Prefetch
       /\ sess[s].importNext \in Nat /\ DOMAIN sess[s].buf = Slots
       /\ \A n \in 2..MaxLevel : orcl[s].sp[n] \in {NoSavepoint} \cup 0..Len(orcl[s].log)
  /\ pg.mode \in {"idle", "run", "release_sub", "abort_sub", "commit", "abort", "exit"}
  /\ pg.pending \subseteq Registered
  /\ committed \subseteq done

(***************************************************************************)
(* What a session changed inside a subtransaction that PostgreSQL aborted  *)
(* is never committed in Oracle: every session got at that level has the   *)
(* savepoint to roll back to, and a session without it raises, which makes *)
(* PostgreSQL abort the whole transaction.                                 *)
(***************************************************************************)
AbortedWorkNeverCommitted ==
  \A c \in committed : Range(c.at.subs) \cap aborted = {}

(***************************************************************************)
(* When PostgreSQL commits, the changes of a read-write session are in     *)
(* Oracle, unless a subtransaction of that transaction was aborted whose   *)
(* level the session had a savepoint for: oracleEndSubtransaction rolls    *)
(* back to s<N> whichever subtransaction of level N ends.  Changes made    *)
(* outside subtransactions are therefore always there.                     *)
(***************************************************************************)
CommitKeepsWork ==
  pg.mode = "idle" /\ pg.outcome = "commit" =>
    \A c \in done : c.at.txn = pg.txn /\ ~c.readonly =>
      \/ c \in committed
      \/ \E a \in aborted : a.txn = c.at.txn /\ a.level <= Len(c.at.subs) + 1

(***************************************************************************)
(* Between transactions no read-write session has uncommitted changes left *)
(* in Oracle or is still marked as in a transaction, however the commit    *)
(* failed: a failed commit raises before xact_level is reset, so the abort *)
(* rolls back.                                                             *)
(***************************************************************************)
NothingLeftOpen ==
  pg.mode = "idle" =>
    \A s \in Registered : ~sess[s].readonly => sess[s].xact = 0 /\ orcl[s].log = <<>>

(***************************************************************************)
(* The slot that oracleFetchNext returns holds the row it stands for: a    *)
(* LOB that is not flagged null is a content still allocated and of this   *)
(* row, although the buffers keep the pointers of earlier rows and of      *)
(* earlier statements, whose contents were freed.                          *)
(***************************************************************************)
CurrentRowReadable ==
  \A s \in Registered :
    sess[s].current_row > 0 =>
      LET row == sess[s].result[sess[s].next]
          slot == sess[s].buf[sess[s].current_row - 1]
      IN  /\ row.lob = IF slot.null THEN NULL ELSE GetLob(s, slot)
          /\ slot.tnull <=> row.txt = NULL
          /\ row.txt # NULL => slot.len < ValSize /\ slot.len <= row.txt
          /\ sess[s].last_batch <=> sess[s].next = Len(sess[s].result)
=============================================================================
