---------------------- MODULE StatementExecutionProofs ----------------------
(***************************************************************************)
(* Proofs about StatementExecution, for any tasks, statements, row counts, *)
(* fetch size and cache size.                                              *)
(***************************************************************************)
EXTENDS StatementExecution, FiniteSetTheorems, WellFoundedInduction, TLAPS

Cacheable == {s \in Sqls : KindOf[s] # "ddl"}

\* A value of the cache; the first conjuncts of TypeOK.
CacheOK(c) == DOMAIN c \subseteq Cacheable /\ c \in [DOMAIN c -> Entries]

----------------------------------------------------------------------------
\* The operations on the cache

(***************************************************************************)
(* A look-up changes no cursor and puts nothing in or out of the cache.    *)
(***************************************************************************)
LEMMA AfterGetLemma ==
  ASSUME NEW c, CacheOK(c), NEW s, NEW now \in Nat
  PROVE  LET d == AfterGet(c, s, now) IN
         /\ CacheOK(d)
         /\ DOMAIN d = DOMAIN c
         /\ \A k \in DOMAIN c : /\ d[k].cursor = c[k].cursor
                                /\ k # s => d[k] = c[k]
BY DEF CacheOK, AfterGet, Entries

(***************************************************************************)
(* Among the entries not in use one is the least recently used.            *)
(***************************************************************************)
LEMMA LeastRecentlyUsed ==
  ASSUME NEW c, CacheOK(c), NEW S, S \subseteq DOMAIN c, S # {}
  PROVE  \E k \in S : \A j \in S : c[k].last_used <= c[j].last_used
<1> DEFINE T == {c[k].last_used : k \in S}
<1>1. T \subseteq Nat /\ T # {}
  BY DEF CacheOK, Entries
<1> DEFINE R == {ss \in Nat \X Nat : ss[1] < ss[2]}
<1>2. IsWellFoundedOn(R, Nat)
  BY NatLessThanWellFounded DEF OpToRel
<1> HIDE DEF T, R
<1>3. PICK x \in T : \A y \in T : ~(<<y, x>> \in R)
  BY <1>1, <1>2, WFMin
<1>4. \A y \in T : x <= y
  <2> TAKE y \in T
  <2>1. x \in Nat /\ y \in Nat
    BY <1>1
  <2>2. y < x => <<y, x>> \in R
    BY <2>1 DEF R
  <2> QED BY <1>3, <2>1, <2>2
<1> QED BY <1>4 DEF T

(***************************************************************************)
(* evict_lru takes out exactly one entry, one not in use, if there is one. *)
(***************************************************************************)
LEMMA EvictLruLemma ==
  ASSUME NEW c, CacheOK(c)
  PROVE  LET d == EvictLru(c) IN
         /\ CacheOK(d)
         /\ \A k \in DOMAIN d : k \in DOMAIN c /\ d[k] = c[k]
         /\ \/ /\ \A k \in DOMAIN c : c[k].in_use
               /\ d = c
            \/ \E k \in DOMAIN c : DOMAIN d = DOMAIN c \ {k}
<1> DEFINE free == {k \in DOMAIN c : ~c[k].in_use}
<1>1. CASE free = {}
  BY <1>1 DEF EvictLru
<1>2. CASE free # {}
  <2> DEFINE lru == CHOOSE k \in free :
                      \A j \in free : c[k].last_used <= c[j].last_used
  <2>1. lru \in free
    BY <1>2, LeastRecentlyUsed
  <2>2. EvictLru(c) = [k \in DOMAIN c \ {lru} |-> c[k]]
    BY <1>2 DEF EvictLru
  <2> HIDE DEF lru
  <2> QED BY <2>1, <2>2 DEF CacheOK
<1> QED BY <1>1, <1>2

(***************************************************************************)
(* put leaves the entries that stay as they were and enters s unused.      *)
(***************************************************************************)
LEMMA PutLemma ==
  ASSUME NEW c, CacheOK(c), NEW s \in Sqls, NEW cur \in Nat, NEW now \in Nat
  PROVE  LET d == Put(c, s, cur, now) IN
         /\ CacheOK(d)
         /\ \A k \in DOMAIN d : \/ k \in DOMAIN c /\ d[k] = c[k]
                                \/ k = s /\ d[k] = Entry(cur, now)
<1> DEFINE kept == IF s \in DOMAIN c THEN c ELSE MakeRoom(c)
<1>1. CacheOK(kept) /\ \A k \in DOMAIN kept : k \in DOMAIN c /\ kept[k] = c[k]
  BY EvictLruLemma DEF MakeRoom
<1>2. CASE MaxSize = 0 \/ IsDdl(s) \/ cur = 0
  BY <1>2 DEF Put
<1>3. CASE ~(MaxSize = 0 \/ IsDdl(s) \/ cur = 0)
  <2>1. Put(c, s, cur, now)
          = [k \in DOMAIN kept \cup {s} |-> IF k = s THEN Entry(cur, now) ELSE kept[k]]
    BY <1>3 DEF Put
  <2>2. Entry(cur, now) \in Entries /\ s \in Cacheable
    BY <1>3 DEF Entry, Entries, IsDdl, Cacheable
  <2> HIDE DEF kept
  <2> QED BY <1>1, <2>1, <2>2 DEF CacheOK
<1> QED BY <1>2, <1>3

(***************************************************************************)
(* put takes the entry of the statement it stores out of use, whoever has  *)
(* marked it.                                                              *)
(***************************************************************************)
LEMMA PutFrees ==
  ASSUME NEW c, MaxSize = 0 => DOMAIN c = {}, NEW s, ~IsDdl(s), NEW cur, cur # 0,
         NEW now, s \in DOMAIN Put(c, s, cur, now)
  PROVE  ~Put(c, s, cur, now)[s].in_use
<1>1. CASE MaxSize = 0
  BY <1>1 DEF Put
<1>2. CASE MaxSize # 0
  BY <1>2 DEF Put, Entry
<1> QED BY <1>1, <1>2

(***************************************************************************)
(* return_statement and mark_cursor_closed change one field of one entry.  *)
(***************************************************************************)
LEMMA ReturnLemma ==
  ASSUME NEW c, CacheOK(c), NEW s
  PROVE  LET d == ReturnStatement(c, s) IN
         /\ CacheOK(d)
         /\ DOMAIN d = DOMAIN c
         /\ \A k \in DOMAIN c : /\ d[k].cursor = c[k].cursor
                                /\ k # s => d[k] = c[k]
                                /\ k = s => ~d[k].in_use
BY DEF CacheOK, ReturnStatement, Entries

LEMMA MarkLemma ==
  ASSUME NEW c, CacheOK(c), NEW s
  PROVE  LET d == MarkCursorClosed(c, s) IN
         /\ CacheOK(d)
         /\ DOMAIN d = DOMAIN c
         /\ \A k \in DOMAIN c : /\ d[k].in_use = c[k].in_use
                                /\ k # s => d[k] = c[k]
                                /\ k = s => d[k].cursor = 0
BY DEF CacheOK, MarkCursorClosed, Entries

----------------------------------------------------------------------------
\* The rows of a query

Prefix(n) == [i \in 1..n |-> i]

(***************************************************************************)
(* A batch continues the rows delivered before it, and only the last one   *)
(* is short.                                                               *)
(***************************************************************************)
LEMMA BatchLemma ==
  ASSUME NEW s \in Sqls, NEW n \in Nat, n <= RowsOf[s]
  PROVE  /\ Batch(s, n) \in Seq(Nat)
         /\ Len(Batch(s, n)) \in Nat
         /\ n + Len(Batch(s, n)) <= RowsOf[s]
         /\ Len(Batch(s, n)) < FetchSize => n + Len(Batch(s, n)) = RowsOf[s]
         /\ Prefix(n) \o Batch(s, n) = Prefix(n + Len(Batch(s, n)))
<1> DEFINE left == RowsOf[s] - n
           size == IF left < FetchSize THEN left ELSE FetchSize
<1>1. /\ left \in Nat /\ size \in Nat /\ FetchSize \in Nat
      /\ n + size <= RowsOf[s]
      /\ size < FetchSize => n + size = RowsOf[s]
  BY ExecutionConstants
<1>2. Batch(s, n) = [i \in 1..size |-> n + i]
  BY DEF Batch
<1> HIDE DEF size, left
<1>3. Batch(s, n) \in Seq(Nat) /\ Len(Batch(s, n)) = size
  BY <1>1, <1>2
<1>4. Prefix(n) \o Batch(s, n) = Prefix(n + size)
  BY <1>1, <1>2, <1>3 DEF Prefix
<1> QED BY <1>1, <1>3, <1>4

----------------------------------------------------------------------------
(***************************************************************************)
(* The inductive invariant behind CompleteResult.  A statement about to be *)
(* executed has no cursor, because the cache hands out none; so every      *)
(* execution opens a cursor of its own, no two fetching tasks share one,   *)
(* and a task has received exactly what its cursor has delivered.          *)
(***************************************************************************)
FreshStatement == \A t \in Tasks : pc[t] = "execute" => cursor[t] = 0

FetchInProgress ==
  \A t \in Tasks : pc[t] = "fetch" =>
    /\ cursor[t] \in 1..Len(cursors)
    /\ KindOf[sql[t]] = "query"
    /\ cursors[cursor[t]] <= RowsOf[sql[t]]
    /\ rows[t] = Prefix(cursors[cursor[t]])

OwnCursor ==
  \A t, u \in Tasks :
    pc[t] = "fetch" /\ pc[u] = "fetch" /\ cursor[t] = cursor[u] => t = u

ExecInv ==
  /\ TypeOK
  /\ NoStaleCursor
  /\ FreshStatement
  /\ FetchInProgress
  /\ OwnCursor
  /\ CompleteResult

LEMMA ExecInit == Init => ExecInv
<1> SUFFICES ASSUME Init PROVE ExecInv
  OBVIOUS
<1> USE ExecutionConstants DEF Init
<1>1. TypeOK
  <2>1. (CHOOSE s \in Sqls : TRUE) \in Sqls
    OBVIOUS
  <2>2. DOMAIN cache = {}
    OBVIOUS
  <2>3. cache \in [{} -> Entries]
    OBVIOUS
  <2>4. rows \in [Tasks -> Seq(Nat)] /\ cursors \in Seq(Nat)
    OBVIOUS
  <2> QED BY <2>1, <2>2, <2>3, <2>4 DEF TypeOK, Points
<1> QED
  BY <1>1 DEF ExecInv, NoStaleCursor, FreshStatement, FetchInProgress, OwnCursor,
              CompleteResult

LEMMA ExecStep == ExecInv /\ [Next]_vars => ExecInv'
<1> SUFFICES ASSUME ExecInv, [Next]_vars PROVE ExecInv'
  OBVIOUS
<1> USE DEF history
<1>0. TypeOK /\ NoStaleCursor /\ FreshStatement /\ FetchInProgress /\ OwnCursor
      /\ CompleteResult /\ CacheOK(cache)
  BY DEF ExecInv, TypeOK, CacheOK, Cacheable
<1> DEFINE Rest == FreshStatement /\ FetchInProgress /\ OwnCursor /\ CompleteResult
<1>1. ASSUME NEW t \in Tasks, NEW s \in Sqls, Begin(t, s) PROVE ExecInv'
  <2>1. TypeOK'
    BY <1>0, <1>1 DEF TypeOK, Begin, Points
  <2>2. NoStaleCursor'
    BY <1>0, <1>1 DEF NoStaleCursor, Begin
  <2>3. Rest'
    BY <1>0, <1>1 DEF TypeOK, Begin, FreshStatement, FetchInProgress, OwnCursor,
                      CompleteResult
  <2> QED BY <2>1, <2>2, <2>3 DEF ExecInv
<1>2. ASSUME NEW t \in Tasks, LookUp(t) PROVE ExecInv'
  <2>0. clock' \in Nat /\ cache' = AfterGet(cache, sql[t], clock')
    BY <1>0, <1>2 DEF TypeOK, LookUp
  <2>1. CacheOK(cache')
    BY <1>0, <2>0, AfterGetLemma
  <2>2. NoStaleCursor'
    BY <1>0, <2>0, AfterGetLemma DEF NoStaleCursor
  <2>3. TypeOK'
    BY <1>0, <1>2, <2>0, <2>1 DEF TypeOK, LookUp, Points, CacheOK, Cacheable, Hit, Entries
  <2>4. Rest'
    BY <1>0, <1>2 DEF TypeOK, LookUp, FreshStatement, FetchInProgress, OwnCursor,
                      CompleteResult, NoStaleCursor, Hit
  <2> QED BY <2>2, <2>3, <2>4 DEF ExecInv
<1>3. ASSUME NEW t \in Tasks, Execute(t) PROVE ExecInv'
  <2> DEFINE s == sql[t]
             query == KindOf[s] = "query"
             id == Len(cursors) + 1
             first == IF query THEN Batch(s, 0) ELSE <<>>
  <2>0. s \in Sqls /\ pc[t] = "execute" /\ cursor[t] = 0 /\ RowsOf[s] \in Nat
        /\ Len(cursors) \in Nat
    BY <1>0, <1>3, ExecutionConstants DEF TypeOK, Execute, FreshStatement
  <2>1. /\ cursors' = Append(cursors, Len(first))
        /\ cursor' = [cursor EXCEPT ![t] = id]
        /\ described' = [described EXCEPT ![t] = query]
        /\ rows' = [rows EXCEPT ![t] = first]
        /\ \/ /\ NeedsFetch(Len(first), query)
              /\ pc' = [pc EXCEPT ![t] = "fetch"]
              /\ UNCHANGED result
           \/ /\ ~NeedsFetch(Len(first), query)
              /\ pc' = [pc EXCEPT ![t] = "store"]
              /\ result' = [result EXCEPT ![t] = "ok"]
        /\ UNCHANGED <<cache, clock, closed, sql, from_cache, ops, history>>
    BY <1>3, <2>0 DEF Execute
  <2>2. /\ first \in Seq(Nat) /\ Len(first) \in Nat
        /\ query => /\ Len(first) <= RowsOf[s]
                    /\ first = Prefix(Len(first))
                    /\ Len(first) < FetchSize => Len(first) = RowsOf[s]
    <3>1. CASE query
      <4> DEFINE none == 0
      <4>1. none \in Nat /\ none <= RowsOf[s] /\ first = Batch(s, none)
        BY <2>0, <3>1
      <4>2. \A n \in Nat : none + n = n
        OBVIOUS
      <4>3. Prefix(none) = <<>>
        BY DEF Prefix
      <4> HIDE DEF first, none
      <4>4. first \in Seq(Nat) /\ Len(first) \in Nat
        BY <2>0, <4>1, BatchLemma
      <4>5. /\ none + Len(first) <= RowsOf[s]
            /\ Len(first) < FetchSize => none + Len(first) = RowsOf[s]
            /\ Prefix(none) \o first = Prefix(none + Len(first))
        BY <2>0, <4>1, BatchLemma
      <4>6. Prefix(none) \o first = first
        BY <4>3, <4>4
      <4> QED BY <4>2, <4>4, <4>5, <4>6
    <3>2. CASE ~query
      BY <3>2
    <3> QED BY <3>1, <3>2
  <2> HIDE DEF first
  <2>3. TypeOK'
    <3>1. described' \in [Tasks -> BOOLEAN]
      BY <1>0, <2>1, Zenon DEF TypeOK
    <3>2. /\ pc' \in [Tasks -> Points] /\ result' \in [Tasks -> {"none", "ok", "err"}]
      BY <1>0, <2>1 DEF TypeOK, Points
    <3>3. rows' \in [Tasks -> Seq(Nat)] /\ cursors' \in Seq(Nat) /\ cursor' \in [Tasks -> Nat]
      BY <1>0, <2>0, <2>1, <2>2 DEF TypeOK
    <3> QED BY <1>0, <2>1, <3>1, <3>2, <3>3 DEF TypeOK
  <2>4. NoStaleCursor'
    BY <1>0, <2>1 DEF NoStaleCursor
  <2>5. FreshStatement'
    BY <1>0, <2>1 DEF FreshStatement, TypeOK
  <2>6. FetchInProgress'
    <3> SUFFICES ASSUME NEW u \in Tasks, pc'[u] = "fetch"
                 PROVE  /\ cursor'[u] \in 1..Len(cursors')
                        /\ KindOf[sql'[u]] = "query"
                        /\ cursors'[cursor'[u]] <= RowsOf[sql'[u]]
                        /\ rows'[u] = Prefix(cursors'[cursor'[u]])
      BY DEF FetchInProgress
    <3>1. /\ Len(cursors') = Len(cursors) + 1
          /\ cursors'[id] = Len(first)
          /\ \A i \in 1..Len(cursors) : cursors'[i] = cursors[i]
      BY <1>0, <2>0, <2>1, <2>2 DEF TypeOK
    <3>2. CASE u = t
      BY <1>0, <2>0, <2>1, <2>2, <3>1, <3>2 DEF TypeOK, NeedsFetch
    <3>3. CASE u # t
      BY <1>0, <2>0, <2>1, <3>1, <3>3 DEF TypeOK, FetchInProgress
    <3> QED BY <3>2, <3>3
  <2>7. OwnCursor'
    BY <1>0, <2>0, <2>1 DEF TypeOK, OwnCursor, FetchInProgress
  <2>8. CompleteResult'
    <3> SUFFICES ASSUME NEW u \in Tasks, pc'[u] \in {"store", "return"},
                        result'[u] = "ok", KindOf[sql'[u]] = "query"
                 PROVE  rows'[u] = Prefix(RowsOf[sql'[u]])
      BY DEF CompleteResult, Prefix
    <3>1. CASE u = t
      <4>1. query /\ ~NeedsFetch(Len(first), query)
        BY <1>0, <2>0, <2>1, <3>1 DEF TypeOK
      <4>2. Len(first) < FetchSize
        BY <2>2, <4>1, ExecutionConstants DEF NeedsFetch
      <4> QED BY <1>0, <2>1, <2>2, <3>1, <4>1, <4>2 DEF TypeOK
    <3>2. CASE u # t
      BY <1>0, <2>1, <3>2 DEF TypeOK, CompleteResult, Prefix
    <3> QED BY <3>1, <3>2
  <2> QED BY <2>3, <2>4, <2>5, <2>6, <2>7, <2>8 DEF ExecInv
<1>4. ASSUME NEW t \in Tasks, FetchMore(t) PROVE ExecInv'
  <2> DEFINE c == cursor[t]
             s == sql[t]
             next == Batch(s, cursors[c])
             n == cursors[c] + Len(next)
  <2>0. /\ s \in Sqls /\ pc[t] = "fetch" /\ c \in 1..Len(cursors)
        /\ cursors[c] \in Nat /\ cursors[c] <= RowsOf[s]
        /\ rows[t] = Prefix(cursors[c]) /\ RowsOf[s] \in Nat
    BY <1>0, <1>4, ExecutionConstants DEF TypeOK, FetchMore, FetchInProgress
  <2>1. /\ next \in Seq(Nat) /\ Len(next) \in Nat /\ n \in Nat /\ n <= RowsOf[s]
        /\ Len(next) < FetchSize => n = RowsOf[s]
        /\ rows[t] \o next = Prefix(n)
    <3>1. next \in Seq(Nat) /\ Len(next) \in Nat
      BY <2>0, BatchLemma
    <3>2. /\ n <= RowsOf[s]
          /\ Len(next) < FetchSize => n = RowsOf[s]
          /\ Prefix(cursors[c]) \o next = Prefix(n)
      BY <2>0, BatchLemma
    <3> QED BY <2>0, <3>1, <3>2
  <2>2. PICK more \in MoreRows(s, cursors'[c]) :
          IF LastBatch(Len(next), more)
          THEN pc' = [pc EXCEPT ![t] = "store"] /\ result' = [result EXCEPT ![t] = "ok"]
          ELSE UNCHANGED <<pc, result>>
    BY <1>4 DEF FetchMore
  <2>3. /\ cursors' = [cursors EXCEPT ![c] = n]
        /\ rows' = [rows EXCEPT ![t] = rows[t] \o next]
        /\ UNCHANGED <<cache, clock, closed, sql, from_cache, cursor, described, ops, history>>
    BY <1>4 DEF FetchMore
  <2> HIDE DEF next, n
  <2>4. /\ cursors' \in Seq(Nat) /\ Len(cursors') = Len(cursors)
        /\ cursors'[c] = n
        /\ \A i \in 1..Len(cursors) : i # c => cursors'[i] = cursors[i]
    BY <1>0, <2>0, <2>1, <2>3 DEF TypeOK
  <2>5. ~more => n = RowsOf[s]
    <3>1. ~more => ~(n < RowsOf[s])
      BY <2>2, <2>4 DEF MoreRows
    <3> QED BY <2>0, <2>1, <3>1
  <2>6. Prefix(n) \in Seq(Nat)
    BY <2>1 DEF Prefix
  <2>7. TypeOK'
    BY <1>0, <2>0, <2>1, <2>2, <2>3, <2>4, <2>6 DEF TypeOK, Points
  <2>8. NoStaleCursor' /\ FreshStatement'
    BY <1>0, <2>0, <2>2, <2>3 DEF NoStaleCursor, FreshStatement, TypeOK
  <2>9. FetchInProgress'
    <3> SUFFICES ASSUME NEW u \in Tasks, pc'[u] = "fetch"
                 PROVE  /\ cursor'[u] \in 1..Len(cursors')
                        /\ KindOf[sql'[u]] = "query"
                        /\ cursors'[cursor'[u]] <= RowsOf[sql'[u]]
                        /\ rows'[u] = Prefix(cursors'[cursor'[u]])
      BY DEF FetchInProgress
    <3>0. pc[u] = "fetch"
      BY <1>0, <2>0, <2>2 DEF TypeOK
    <3>1. CASE u = t
      BY <1>0, <2>0, <2>1, <2>3, <2>4, <3>0, <3>1 DEF TypeOK, FetchInProgress
    <3>2. CASE u # t
      BY <1>0, <2>0, <2>3, <2>4, <3>0, <3>2 DEF TypeOK, FetchInProgress, OwnCursor
    <3> QED BY <3>1, <3>2
  <2>10. OwnCursor'
    BY <1>0, <2>2, <2>3 DEF TypeOK, OwnCursor
  <2>11. CompleteResult'
    BY <1>0, <2>0, <2>1, <2>2, <2>3, <2>5 DEF TypeOK, CompleteResult, LastBatch, Prefix
  <2> QED BY <2>7, <2>8, <2>9, <2>10, <2>11 DEF ExecInv
<1>5. ASSUME NEW t \in Tasks, Fail(t) PROVE ExecInv'
  <2>1. TypeOK'
    BY <1>0, <1>5 DEF TypeOK, Fail, Points
  <2>2. NoStaleCursor' /\ Rest'
    BY <1>0, <1>5 DEF TypeOK, Fail, NoStaleCursor, FreshStatement, FetchInProgress,
                      OwnCursor, CompleteResult
  <2> QED BY <2>1, <2>2 DEF ExecInv
<1>6. ASSUME NEW t \in Tasks, Store(t) PROVE ExecInv'
  <2>0. clock' \in Nat /\ sql[t] \in Sqls /\ cursor[t] \in Nat
        /\ cache' = CacheAfter(t, clock')
    BY <1>0, <1>6 DEF TypeOK, Store
  <2>1. CacheOK(cache') /\ NoStaleCursor'
    <3>1. CASE from_cache[t]
      <4> DEFINE r == ReturnStatement(cache, sql[t])
      <4>1. cache' = MarkCursorClosed(r, sql[t])
        BY <2>0, <3>1 DEF CacheAfter, Caches
      <4>2. CacheOK(r) /\ \A k \in DOMAIN r : r[k].cursor = 0
        BY <1>0, ReturnLemma DEF NoStaleCursor
      <4> HIDE DEF r
      <4> QED BY <4>1, <4>2, MarkLemma DEF NoStaleCursor
    <3>2. CASE ~from_cache[t] /\ result[t] = "ok" /\ cursor[t] > 0 /\ ~IsDdl(sql[t])
      <4> DEFINE p == Put(cache, sql[t], cursor[t], clock')
      <4>1. cache' = MarkCursorClosed(p, sql[t])
        BY <2>0, <3>2 DEF CacheAfter, Caches
      <4>2. CacheOK(p) /\ \A k \in DOMAIN p : k # sql[t] => p[k].cursor = 0
        BY <1>0, <2>0, PutLemma DEF NoStaleCursor
      <4> HIDE DEF p
      <4> QED BY <4>1, <4>2, MarkLemma DEF NoStaleCursor
    <3>3. CASE ~from_cache[t] /\ ~(result[t] = "ok" /\ cursor[t] > 0 /\ ~IsDdl(sql[t]))
      BY <1>0, <2>0, <3>3 DEF CacheAfter, Caches, NoStaleCursor
    <3> QED BY <3>1, <3>2, <3>3
  <2>2. TypeOK'
    BY <1>0, <1>6, <2>0, <2>1 DEF TypeOK, Store, Points, CacheOK, Cacheable
  <2>3. Rest'
    BY <1>0, <1>6 DEF TypeOK, Store, FreshStatement, FetchInProgress, OwnCursor,
                      CompleteResult
  <2> QED BY <2>1, <2>2, <2>3 DEF ExecInv
<1>7. ASSUME NEW t \in Tasks, Return(t) PROVE ExecInv'
  <2>1. TypeOK'
    <3>1. closed' \in BOOLEAN
      BY <1>0, <1>7 DEF TypeOK, Return, Forget
    <3>2. rows' \in [Tasks -> Seq(Nat)]
      BY <1>0, <1>7 DEF TypeOK, Return, Forget
    <3> QED BY <1>0, <1>7, <3>1, <3>2 DEF TypeOK, Return, Forget, Points
  <2>2. NoStaleCursor' /\ Rest'
    BY <1>0, <1>7 DEF TypeOK, Return, Forget, NoStaleCursor, FreshStatement,
                      FetchInProgress, OwnCursor, CompleteResult
  <2> QED BY <2>1, <2>2 DEF ExecInv
<1>10. ASSUME NEW t \in Tasks, Drop(t) PROVE ExecInv'
  <2>1. TypeOK'
    <3>1. rows' \in [Tasks -> Seq(Nat)]
      BY <1>0, <1>10 DEF TypeOK, Drop, Forget
    <3>2. abandoned' \subseteq Sqls /\ drops' \in Nat
      BY <1>0, <1>10 DEF TypeOK, Drop
    <3> QED BY <1>0, <1>10, <3>1, <3>2 DEF TypeOK, Drop, Forget, Points
  <2>2. NoStaleCursor' /\ Rest'
    BY <1>0, <1>10 DEF TypeOK, Drop, Forget, NoStaleCursor, FreshStatement,
                       FetchInProgress, OwnCursor, CompleteResult
  <2> QED BY <2>1, <2>2 DEF ExecInv
<1>8. CASE ClearStatementCache
  <2>1. TypeOK'
    BY <1>0, <1>8 DEF TypeOK, ClearStatementCache, local
  <2>2. NoStaleCursor' /\ Rest'
    BY <1>0, <1>8 DEF ClearStatementCache, local, NoStaleCursor, FreshStatement,
                      FetchInProgress, OwnCursor, CompleteResult
  <2> QED BY <2>1, <2>2 DEF ExecInv
<1>9. CASE Close \/ UNCHANGED vars
  <2>1. TypeOK'
    BY <1>0, <1>9 DEF TypeOK, Close, local, vars
  <2>2. NoStaleCursor' /\ Rest'
    BY <1>0, <1>9 DEF Close, local, vars, NoStaleCursor, FreshStatement,
                      FetchInProgress, OwnCursor, CompleteResult
  <2> QED BY <2>1, <2>2 DEF ExecInv
<1> QED
  BY <1>1, <1>2, <1>3, <1>4, <1>5, <1>6, <1>7, <1>8, <1>9, <1>10 DEF Next

----------------------------------------------------------------------------
(***************************************************************************)
(* StatementExecution keeps its types.                                     *)
(***************************************************************************)
THEOREM TypeCorrect == Spec => []TypeOK
<1>1. Init => ExecInv
  BY ExecInit
<1>2. ExecInv /\ [Next]_vars => ExecInv'
  BY ExecStep
<1>3. ExecInv => TypeOK
  BY DEF ExecInv
<1> QED BY <1>1, <1>2, <1>3, PTL DEF Spec

(***************************************************************************)
(* However many tasks store, return and clear statements concurrently, the *)
(* cache never holds a cursor that a later execution would reuse           *)
(* (mark_cursor_closed).                                                   *)
(***************************************************************************)
THEOREM CursorsNotReused == Spec => []NoStaleCursor
<1>1. Init => ExecInv
  BY ExecInit
<1>2. ExecInv /\ [Next]_vars => ExecInv'
  BY ExecStep
<1>3. ExecInv => NoStaleCursor
  BY DEF ExecInv
<1> QED BY <1>1, <1>2, <1>3, PTL DEF Spec

(***************************************************************************)
(* Every successful query returns its complete result set in order, for    *)
(* every number of rows, every fetch size and any interleaving with other  *)
(* operations (fetch_remaining_query_rows).                                *)
(***************************************************************************)
THEOREM QueriesComplete == Spec => []CompleteResult
<1>1. Init => ExecInv
  BY ExecInit
<1>2. ExecInv /\ [Next]_vars => ExecInv'
  BY ExecStep
<1>3. ExecInv => CompleteResult
  BY DEF ExecInv
<1> QED BY <1>1, <1>2, <1>3, PTL DEF Spec

----------------------------------------------------------------------------
\* The size of the cache

(***************************************************************************)
(* put keeps a bound N on the size of a full cache if a cache whose        *)
(* entries are all in use is smaller than N.                               *)
(***************************************************************************)
LEMMA PutSize ==
  ASSUME NEW c, CacheOK(c), NEW s \in Sqls, NEW cur \in Nat, NEW now \in Nat,
         NEW N \in Nat,
         Cardinality(DOMAIN c) <= MaxSize \/ Cardinality(DOMAIN c) <= N,
         (\A k \in DOMAIN c : c[k].in_use) => Cardinality(DOMAIN c) + 1 <= N
  PROVE  LET d == Put(c, s, cur, now) IN
         Cardinality(DOMAIN d) <= MaxSize \/ Cardinality(DOMAIN d) <= N
<1> DEFINE C == Cardinality(DOMAIN c)
           D == DOMAIN Put(c, s, cur, now)
           kept == MakeRoom(c)
<1>0. IsFiniteSet(DOMAIN c) /\ C \in Nat /\ MaxSize \in Nat
  BY CacheConstants, FS_Subset, FS_CardinalityType DEF CacheOK, Cacheable
<1>1. CASE MaxSize = 0 \/ IsDdl(s) \/ cur = 0
  BY <1>1 DEF Put
<1>2. CASE ~(MaxSize = 0 \/ IsDdl(s) \/ cur = 0) /\ s \in DOMAIN c
  <2>1. D = DOMAIN c \cup {s}
    BY <1>2 DEF Put
  <2>2. D = DOMAIN c
    BY <1>2, <2>1
  <2> QED BY <2>2
<1>3. CASE ~(MaxSize = 0 \/ IsDdl(s) \/ cur = 0) /\ s \notin DOMAIN c
  <2>1. D = DOMAIN kept \cup {s}
    BY <1>3 DEF Put
  <2>2. CASE C < MaxSize
    <3>1. kept = c
      BY <1>0, <2>2 DEF MakeRoom
    <3>2. Cardinality(D) = C + 1
      BY <1>0, <1>3, <2>1, <3>1, FS_AddElement
    <3> QED BY <1>0, <2>2, <3>2
  <2>3. CASE C >= MaxSize /\ kept = c /\ \A k \in DOMAIN c : c[k].in_use
    <3>1. Cardinality(D) = C + 1
      BY <1>0, <1>3, <2>1, <2>3, FS_AddElement
    <3> QED BY <2>3, <3>1
  <2>4. CASE C >= MaxSize /\ \E k \in DOMAIN c : DOMAIN kept = DOMAIN c \ {k}
    <3>1. PICK k \in DOMAIN c : DOMAIN kept = DOMAIN c \ {k}
      BY <2>4
    <3>2. IsFiniteSet(DOMAIN kept) /\ Cardinality(DOMAIN kept) = C - 1
      BY <1>0, <3>1, FS_RemoveElement
    <3>3. s \notin DOMAIN kept
      BY <1>3, <3>1
    <3>4. Cardinality(D) = (C - 1) + 1
      BY <2>1, <3>2, <3>3, FS_AddElement
    <3> QED BY <1>0, <3>4
  <2>5. C < MaxSize \/ C >= MaxSize
    BY <1>0
  <2>6. C >= MaxSize => kept = EvictLru(c)
    BY DEF MakeRoom
  <2> QED BY <2>2, <2>3, <2>4, <2>5, <2>6, EvictLruLemma
<1> QED BY <1>1, <1>2, <1>3

(***************************************************************************)
(* Every dropped future abandons at most one text, and without a cache     *)
(* there are no entries.                                                   *)
(***************************************************************************)
AbandonedBound == Cardinality(abandoned) <= drops

NoCache == MaxSize = 0 => DOMAIN cache = {}

SizeInv == TypeOK /\ InUseHeld /\ CacheBound /\ AbandonedBound /\ NoCache

(***************************************************************************)
(* When every entry is in use, each that is not abandoned is held by a     *)
(* task of its own; a task that holds none is one more.                    *)
(***************************************************************************)
LEMMA AllInUse ==
  ASSUME SizeInv, NEW t \in Tasks, ~from_cache[t],
         \A k \in DOMAIN cache : cache[k].in_use
  PROVE  Cardinality(DOMAIN cache) + 1 <= Cardinality(Tasks) + drops
<1> DEFINE held == DOMAIN cache \ abandoned
           holder == [k \in held |-> CHOOSE u \in Tasks : Holds(u, k)]
<1>0. TypeOK /\ InUseHeld /\ AbandonedBound
  BY DEF SizeInv
<1>1. \A k \in held : holder[k] \in Tasks /\ Holds(holder[k], k)
  BY <1>0 DEF InUseHeld
<1>2. \A k \in held : holder[k] # t /\ sql[holder[k]] = k
  BY <1>1 DEF Holds
<1>3. holder \in Injection(held, Tasks \ {t})
  <2>1. DOMAIN holder = held
    OBVIOUS
  <2> HIDE DEF holder, held
  <2>2. holder = [k \in held |-> holder[k]]
    BY DEF holder
  <2>3. holder \in [held -> Tasks \ {t}]
    BY <1>1, <1>2, <2>2
  <2> QED BY <1>2, <2>3 DEF Injection, IsInjective
<1>4. /\ IsFiniteSet(Tasks \ {t}) /\ Cardinality(Tasks) \in Nat
      /\ Cardinality(Tasks \ {t}) = Cardinality(Tasks) - 1
  BY ExecutionConstants, FS_RemoveElement, FS_CardinalityType
<1>5. IsFiniteSet(held) /\ Cardinality(held) <= Cardinality(Tasks \ {t})
  <2> HIDE DEF holder, held
  <2> QED BY <1>3, <1>4, FS_Injection
<1>6. IsFiniteSet(abandoned) /\ Cardinality(abandoned) \in Nat
  BY <1>0, CacheConstants, FS_Subset, FS_CardinalityType DEF TypeOK
<1>7. /\ IsFiniteSet(held \cup abandoned)
      /\ Cardinality(held \cup abandoned) <= Cardinality(held) + Cardinality(abandoned)
      /\ Cardinality(held) \in Nat
  <2>1. Cardinality(held) \in Nat /\ Cardinality(held \cap abandoned) \in Nat
    BY <1>5, FS_CardinalityType, FS_Intersection
  <2> HIDE DEF held
  <2>2. /\ IsFiniteSet(held \cup abandoned)
        /\ Cardinality(held \cup abandoned)
             = Cardinality(held) + Cardinality(abandoned) - Cardinality(held \cap abandoned)
    BY <1>5, <1>6, FS_Union
  <2> QED BY <1>6, <2>1, <2>2
<1>8. /\ Cardinality(DOMAIN cache) <= Cardinality(held \cup abandoned)
      /\ Cardinality(DOMAIN cache) \in Nat /\ Cardinality(held \cup abandoned) \in Nat
  <2>1. DOMAIN cache \subseteq held \cup abandoned
    OBVIOUS
  <2> HIDE DEF held
  <2> QED BY <1>7, <2>1, FS_Subset, FS_CardinalityType
<1>9. drops \in Nat /\ Cardinality(abandoned) <= drops
  BY <1>0 DEF TypeOK, AbandonedBound
<1> HIDE DEF held, holder
<1> QED BY <1>4, <1>5, <1>6, <1>7, <1>8, <1>9

LEMMA SizeInit == Init => InUseHeld /\ CacheBound /\ AbandonedBound /\ NoCache
<1> SUFFICES ASSUME Init PROVE InUseHeld /\ CacheBound /\ AbandonedBound /\ NoCache
  OBVIOUS
<1>1. DOMAIN cache = {} /\ abandoned = {} /\ drops = 0
  BY DEF Init
<1> QED BY <1>1, FS_EmptySet, CacheConstants
        DEF InUseHeld, CacheBound, AbandonedBound, NoCache

(***************************************************************************)
(* What is abandoned grows only with a dropped future.                     *)
(***************************************************************************)
LEMMA AbandonedStep ==
  ASSUME TypeOK, AbandonedBound,
         \/ abandoned' \subseteq abandoned /\ drops' = drops
         \/ \E s \in Sqls : abandoned' = abandoned \cup {s} /\ drops' = drops + 1
  PROVE  AbandonedBound'
<1>1. /\ IsFiniteSet(abandoned) /\ Cardinality(abandoned) \in Nat /\ drops \in Nat
      /\ Cardinality(abandoned) <= drops
  BY CacheConstants, FS_Subset, FS_CardinalityType DEF TypeOK, AbandonedBound
<1>2. CASE abandoned' \subseteq abandoned /\ drops' = drops
  <2>1. Cardinality(abandoned') <= Cardinality(abandoned) /\ Cardinality(abandoned') \in Nat
    BY <1>1, <1>2, FS_Subset, FS_CardinalityType
  <2> QED BY <1>1, <1>2, <2>1 DEF AbandonedBound
<1>3. ASSUME NEW s \in Sqls, abandoned' = abandoned \cup {s}, drops' = drops + 1
      PROVE  AbandonedBound'
  <2>1. Cardinality(abandoned') \in {Cardinality(abandoned), Cardinality(abandoned) + 1}
    BY <1>1, <1>3, FS_AddElement
  <2> QED BY <1>1, <1>3, <2>1 DEF AbandonedBound
<1> QED BY <1>2, <1>3

LEMMA SizeStep == SizeInv /\ [Next]_vars => (InUseHeld /\ CacheBound)'
<1> SUFFICES ASSUME SizeInv, [Next]_vars PROVE InUseHeld' /\ CacheBound'
  OBVIOUS
<1> USE DEF history
<1>0. /\ TypeOK /\ InUseHeld /\ CacheBound /\ NoCache /\ CacheOK(cache)
      /\ Cardinality(Tasks) \in Nat /\ drops \in Nat
  BY ExecutionConstants, FS_CardinalityType DEF SizeInv, TypeOK, CacheOK, Cacheable
<1>1. ASSUME NEW t \in Tasks, NEW s \in Sqls, Begin(t, s) PROVE InUseHeld' /\ CacheBound'
  BY <1>0, <1>1 DEF Begin, InUseHeld, CacheBound, Holds, TypeOK
<1>2. ASSUME NEW t \in Tasks, LookUp(t) PROVE InUseHeld' /\ CacheBound'
  <2>1. clock' \in Nat /\ cache' = AfterGet(cache, sql[t], clock')
    BY <1>0, <1>2 DEF TypeOK, LookUp
  <2>2. DOMAIN cache' = DOMAIN cache
    BY <1>0, <2>1, AfterGetLemma
  <2>3. InUseHeld'
    <3> SUFFICES ASSUME NEW k \in DOMAIN cache, cache'[k].in_use
                 PROVE  k \in abandoned' \/ \E u \in Tasks : Holds(u, k)'
      BY <2>2 DEF InUseHeld
    <3>1. CASE k = sql[t] /\ ~cache[k].in_use
      BY <1>0, <1>2, <3>1 DEF LookUp, Hit, Holds, TypeOK
    <3>2. CASE k # sql[t] \/ cache[k].in_use
      <4>1. cache[k].in_use
        BY <1>0, <2>1, <3>2, AfterGetLemma
      <4>2. CASE k \in abandoned
        BY <1>2, <4>2 DEF LookUp
      <4>3. ASSUME NEW u \in Tasks, Holds(u, k) PROVE Holds(u, k)'
        BY <1>0, <1>2, <4>3 DEF LookUp, Holds, TypeOK
      <4> QED BY <1>0, <4>1, <4>2, <4>3 DEF InUseHeld
    <3> QED BY <3>1, <3>2
  <2>4. drops' = drops
    BY <1>2 DEF LookUp
  <2> QED BY <1>0, <2>2, <2>3, <2>4 DEF CacheBound
<1>3. ASSUME NEW t \in Tasks, Execute(t) \/ FetchMore(t) \/ Fail(t)
      PROVE  InUseHeld' /\ CacheBound'
  <2>1. /\ cache' = cache /\ from_cache' = from_cache /\ sql' = sql
        /\ UNCHANGED history
        /\ \A u \in Tasks : pc[u] \in {"execute", "fetch", "store"}
                             => pc'[u] \in {"execute", "fetch", "store"}
    <3>1. CASE Execute(t)
      BY <1>0, <3>1 DEF Execute, TypeOK
    <3>2. CASE FetchMore(t)
      BY <1>0, <3>2 DEF FetchMore, TypeOK
    <3>3. CASE Fail(t)
      BY <1>0, <3>3 DEF Fail, TypeOK
    <3> QED BY <1>3, <3>1, <3>2, <3>3
  <2> QED BY <1>0, <2>1 DEF InUseHeld, CacheBound, Holds
<1>4. ASSUME NEW t \in Tasks, Store(t) PROVE InUseHeld' /\ CacheBound'
  <2> DEFINE s == sql[t]
  <2>0. /\ clock' \in Nat /\ s \in Sqls /\ cursor[t] \in Nat
        /\ cache' = CacheAfter(t, clock') /\ drops' = drops
        /\ \A k \in abandoned : k # s => k \in abandoned'
    BY <1>0, <1>4 DEF TypeOK, Store
  <2>1. ASSUME NEW k \in Sqls, k # s, NEW u \in Tasks, Holds(u, k) PROVE Holds(u, k)'
    BY <1>0, <1>4, <2>1 DEF Store, Holds, TypeOK
  <2>2. CASE from_cache[t]
    <3> DEFINE r == ReturnStatement(cache, s)
    <3>1. cache' = MarkCursorClosed(r, s)
      BY <2>0, <2>2 DEF CacheAfter, Caches
    <3>2. CacheOK(r) /\ DOMAIN r = DOMAIN cache
      BY <1>0, ReturnLemma
    <3>3. DOMAIN cache' = DOMAIN cache
      BY <3>1, <3>2, MarkLemma
    <3>4. \A k \in DOMAIN cache : cache'[k].in_use => k # s /\ cache[k].in_use
      <4>1. \A k \in DOMAIN cache : r[k].in_use => k # s /\ cache[k].in_use
        BY <1>0, ReturnLemma
      <4> HIDE DEF r
      <4> QED BY <3>1, <3>2, <4>1, MarkLemma
    <3>5. InUseHeld'
      BY <1>0, <2>0, <2>1, <3>3, <3>4 DEF InUseHeld, TypeOK
    <3> QED BY <1>0, <2>0, <3>3, <3>5 DEF CacheBound
  <2>3. CASE ~from_cache[t] /\ result[t] = "ok" /\ cursor[t] > 0 /\ ~IsDdl(s)
    <3> DEFINE p == Put(cache, s, cursor[t], clock')
    <3>1. cache' = MarkCursorClosed(p, s)
      BY <2>0, <2>3 DEF CacheAfter, Caches
    <3>2. CacheOK(p) /\ \A k \in DOMAIN p : p[k].in_use => k \in DOMAIN cache /\ cache[k].in_use
      BY <1>0, <2>0, PutLemma DEF Entry
    <3>3. \/ Cardinality(DOMAIN p) <= MaxSize
          \/ Cardinality(DOMAIN p) <= Cardinality(Tasks) + drops
      <4>1. (\A k \in DOMAIN cache : cache[k].in_use)
              => Cardinality(DOMAIN cache) + 1 <= Cardinality(Tasks) + drops
        BY <2>3, AllInUse
      <4>2. Cardinality(Tasks) + drops \in Nat
        BY <1>0
      <4> QED BY <1>0, <2>0, <4>1, <4>2, PutSize DEF CacheBound
    <3>6. s \in DOMAIN p => ~p[s].in_use
      BY <1>0, <2>0, <2>3, PutFrees DEF NoCache
    <3> HIDE DEF p
    <3>4. DOMAIN cache' = DOMAIN p
          /\ \A k \in DOMAIN p : cache'[k].in_use = p[k].in_use
      BY <3>1, <3>2, MarkLemma
    <3>5. InUseHeld'
      <4> SUFFICES ASSUME NEW k \in DOMAIN cache', cache'[k].in_use
                   PROVE  k \in abandoned' \/ \E u \in Tasks : Holds(u, k)'
        BY DEF InUseHeld
      <4>1. k # s
        BY <3>4, <3>6
      <4>2. k \in abandoned \/ \E u \in Tasks : Holds(u, k)
        BY <1>0, <3>2, <3>4 DEF InUseHeld
      <4>3. k \in Sqls
        BY <1>0, <3>2, <3>4 DEF CacheOK, Cacheable
      <4> QED BY <2>0, <2>1, <4>1, <4>2, <4>3
    <3> QED BY <2>0, <3>3, <3>4, <3>5 DEF CacheBound
  <2>4. CASE ~from_cache[t] /\ ~(result[t] = "ok" /\ cursor[t] > 0 /\ ~IsDdl(s))
    <3>1. cache' = cache
      BY <2>0, <2>4 DEF CacheAfter, Caches
    <3>2. \A u \in Tasks, k \in DOMAIN cache : Holds(u, k) => Holds(u, k)'
      BY <1>0, <1>4, <2>4 DEF Store, Holds, TypeOK
    <3>3. UNCHANGED history
      BY <1>4, <2>4 DEF Store, Caches
    <3> QED BY <1>0, <3>1, <3>2, <3>3 DEF InUseHeld, CacheBound
  <2> QED BY <2>2, <2>3, <2>4
<1>5. ASSUME NEW t \in Tasks, Return(t) PROVE InUseHeld' /\ CacheBound'
  <2>1. cache' = cache /\ \A u \in Tasks, k \in DOMAIN cache : Holds(u, k) => Holds(u, k)'
    BY <1>0, <1>5 DEF Return, Forget, Holds, TypeOK
  <2>2. UNCHANGED history
    BY <1>5 DEF Return
  <2> QED BY <1>0, <2>1, <2>2 DEF InUseHeld, CacheBound
<1>8. ASSUME NEW t \in Tasks, Drop(t) PROVE InUseHeld' /\ CacheBound'
  <2>1. cache' = cache /\ drops' \in Nat /\ drops' >= drops
    BY <1>0, <1>8 DEF Drop
  <2>2. ASSUME NEW k \in DOMAIN cache, k \in abandoned \/ \E u \in Tasks : Holds(u, k)
        PROVE  k \in abandoned' \/ \E u \in Tasks : Holds(u, k)'
    <3>1. CASE k \in abandoned
      BY <1>8, <3>1 DEF Drop
    <3>2. CASE Holds(t, k)
      BY <1>8, <3>2 DEF Drop, Holds
    <3>3. ASSUME NEW u \in Tasks, Holds(u, k), u # t PROVE Holds(u, k)'
      BY <1>0, <1>8, <3>3 DEF Drop, Forget, Holds, TypeOK
    <3> QED BY <2>2, <3>1, <3>2, <3>3
  <2>3. InUseHeld'
    BY <1>0, <2>1, <2>2 DEF InUseHeld
  <2>4. Cardinality(DOMAIN cache) \in Nat
    BY <1>0, CacheConstants, FS_Subset, FS_CardinalityType DEF CacheOK, Cacheable
  <2> QED BY <1>0, <2>1, <2>3, <2>4 DEF CacheBound
<1>6. CASE ClearStatementCache
  <2>1. DOMAIN cache' = {}
    BY <1>6 DEF ClearStatementCache
  <2> QED BY <2>1, FS_EmptySet, CacheConstants DEF InUseHeld, CacheBound
<1>7. CASE Close \/ UNCHANGED vars
  BY <1>0, <1>7 DEF Close, vars, local, InUseHeld, CacheBound, Holds
<1> QED BY <1>1, <1>2, <1>3, <1>4, <1>5, <1>6, <1>7, <1>8 DEF Next

LEMMA AbandonedNext == SizeInv /\ [Next]_vars => (AbandonedBound /\ NoCache)'
<1> SUFFICES ASSUME SizeInv, [Next]_vars PROVE AbandonedBound' /\ NoCache'
  OBVIOUS
<1> USE DEF history
<1>0. TypeOK /\ AbandonedBound /\ NoCache /\ CacheOK(cache)
  BY DEF SizeInv, TypeOK, CacheOK, Cacheable
<1>1. AbandonedBound'
  <2>1. ASSUME NEW t \in Tasks, Drop(t) PROVE AbandonedBound'
    <3>1. sql[t] \in Sqls
      BY <1>0 DEF TypeOK
    <3> QED BY <1>0, <2>1, <3>1, AbandonedStep DEF Drop
  <2>2. ASSUME ~\E t \in Tasks : Drop(t)
        PROVE  abandoned' \subseteq abandoned /\ drops' = drops
    BY <2>2 DEF Next, vars, Begin, LookUp, Execute, FetchMore, Fail, Store, Return,
                ClearStatementCache, Close
  <2> QED BY <1>0, <2>1, <2>2, AbandonedStep
<1>2. NoCache'
  <2> SUFFICES ASSUME MaxSize = 0 PROVE DOMAIN cache' = {}
    BY DEF NoCache
  <2>1. DOMAIN cache = {}
    BY <1>0 DEF NoCache
  <2>2. ASSUME NEW t \in Tasks, LookUp(t) PROVE DOMAIN cache' = {}
    BY <2>1, <2>2 DEF LookUp, AfterGet
  <2>3. ASSUME NEW t \in Tasks, Store(t) PROVE DOMAIN cache' = {}
    BY <2>1, <2>3 DEF Store, CacheAfter, Put, ReturnStatement, MarkCursorClosed
  <2>4. CASE ClearStatementCache
    BY <2>4 DEF ClearStatementCache
  <2>5. ASSUME ~ClearStatementCache, \A t \in Tasks : ~LookUp(t) /\ ~Store(t)
        PROVE  cache' = cache
    BY <2>5 DEF Next, vars, Begin, Execute, FetchMore, Fail, Return, Drop, Close
  <2> QED BY <2>1, <2>2, <2>3, <2>4, <2>5
<1> QED BY <1>1, <1>2

(***************************************************************************)
(* No entry of the cache stays marked in use without a task that will      *)
(* return it or a dropped future that took it, and the cache never has     *)
(* more entries than max_size or than there are tasks and dropped futures, *)
(* whichever is larger (get, put, evict_lru and return_statement).         *)
(***************************************************************************)
THEOREM CacheStaysBounded == Spec => [](InUseHeld /\ CacheBound)
<1> DEFINE Inv == InUseHeld /\ CacheBound /\ AbandonedBound /\ NoCache
<1>1. Init => Inv
  BY SizeInit
<1>2. TypeOK /\ Inv /\ [Next]_vars => Inv'
  <2> SUFFICES ASSUME TypeOK, Inv, [Next]_vars PROVE Inv'
    OBVIOUS
  <2>1. SizeInv
    BY DEF SizeInv
  <2> QED BY <2>1, SizeStep, AbandonedNext
<1>3. Inv => InUseHeld /\ CacheBound
  OBVIOUS
<1> QED BY <1>1, <1>2, <1>3, TypeCorrect, PTL DEF Spec

(***************************************************************************)
(* An entry marked in use is in the hands of a task, or was taken by a     *)
(* dropped future and its text not executed since (get, put and            *)
(* return_statement).                                                      *)
(***************************************************************************)
THEOREM InUseIsHeld == Spec => []InUseHeld
BY CacheStaysBounded, PTL
=============================================================================
