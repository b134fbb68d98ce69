------------------------- MODULE StatementExecution -------------------------
(***************************************************************************)
(* Connection::execute, query and execute_dml_sql with the statement cache *)
(* and the server's cursors.                                               *)
(*                                                                         *)
(* Every round trip is one step: TnsExchange shows that the mutex keeps    *)
(* the round trips apart and gives each its own answer.  Between the steps *)
(* of one operation the mutex is free, so the steps of several tasks       *)
(* interleave: the look-up in the cache, the execution, each fetch and the *)
(* store in the cache each take the lock anew.  While it waits for the     *)
(* lock the future of an operation may be dropped.                         *)
(***************************************************************************)
EXTENDS StatementCache, Sequences

CONSTANTS
  Tasks,      \* tasks sharing the connection
  RowsOf,     \* RowsOf[s]: rows that query s selects
  FetchSize,  \* prefetch_rows, also the size of each fetch
  MaxOps,     \* bound: operations started in a behaviour
  MaxDrops    \* bound: futures dropped while they hold a cached statement

ASSUME ExecutionConstants ==
  /\ IsFiniteSet(Tasks) /\ Sqls # {}
  /\ RowsOf \in [Sqls -> Nat]
  /\ FetchSize \in Nat \ {0}
  /\ MaxOps \in Nat /\ MaxDrops \in Nat

VARIABLES
  cache,      \* inner.statement_cache
  clock,      \* the time Instant::now returns
  closed,     \* Connection.closed, or state no longer Ready
  pc,         \* per task: control point
  sql,        \* per task: the SQL text it executes
  from_cache, \* per task: the statement came from the cache
  cursor,     \* per task: cursor_id of the statement, then of the result
  described,  \* per task: the result has columns
  rows,       \* per task: rows of the result, as positions in the result set
  result,     \* per task: "none", "ok" or "err"
  ops,        \* operations started
  abandoned,  \* history: texts whose statement a dropped future took, not run since
  drops,      \* history: futures dropped with a statement from the cache
  cursors     \* server: rows delivered so far by each cursor, by cursor id

local == <<pc, sql, from_cache, cursor, described, rows, result>>
history == <<abandoned, drops>>
vars == <<cache, clock, closed, local, ops, history, cursors>>

Init ==
  /\ cache = [s \in {} |-> Entry(0, 0)]
  /\ clock = 0
  /\ closed = FALSE
  /\ pc = [t \in Tasks |-> "idle"]
  /\ sql = [t \in Tasks |-> CHOOSE s \in Sqls : TRUE]
  /\ from_cache = [t \in Tasks |-> FALSE]
  /\ cursor = [t \in Tasks |-> 0]
  /\ described = [t \in Tasks |-> FALSE]
  /\ rows = [t \in Tasks |-> <<>>]
  /\ result = [t \in Tasks |-> "none"]
  /\ ops = 0
  /\ abandoned = {} /\ drops = 0
  /\ cursors = <<>>

----------------------------------------------------------------------------
\* The server (external)

\* Positions of the next batch of a cursor of query s that delivered n rows.
Batch(s, n) ==
  LET left == RowsOf[s] - n
      size == IF left < FetchSize THEN left ELSE FetchSize
  IN  [i \in 1..size |-> n + i]

(***************************************************************************)
(* The flag of a fetch answer: a short batch reports ORA-01403; a full one *)
(* that happens to be the last may or may not.                             *)
(***************************************************************************)
MoreRows(s, n) ==
  IF n < RowsOf[s] THEN {TRUE}
  ELSE IF n % FetchSize = 0 THEN BOOLEAN ELSE {FALSE}

----------------------------------------------------------------------------
\* The client

\* ensure_ready let the operation through.
Begin(t, s) ==
  /\ pc[t] = "idle" /\ ~closed
  /\ ops < MaxOps
  /\ ops' = ops + 1
  /\ pc' = [pc EXCEPT ![t] = "get"]
  /\ sql' = [sql EXCEPT ![t] = s]
  /\ UNCHANGED <<cache, clock, closed, from_cache, cursor, described, rows, result,
                 history, cursors>>

\* The look-up, under the lock; the statement is cloned out of the cache.
LookUp(t) ==
  /\ pc[t] = "get"
  /\ clock' = clock + 1
  /\ cache' = AfterGet(cache, sql[t], clock')
  /\ from_cache' = [from_cache EXCEPT ![t] = Hit(cache, sql[t])]
  /\ cursor' = [cursor EXCEPT ![t] = IF Hit(cache, sql[t]) THEN cache[sql[t]].cursor ELSE 0]
  /\ pc' = [pc EXCEPT ![t] = "execute"]
  /\ UNCHANGED <<closed, sql, described, rows, result, ops, history, cursors>>

\* Mutant: a first answer of exactly one batch is taken for the whole result.
NeedsFetchPastFull(n, hasColumns) == hasColumns /\ n > FetchSize

(***************************************************************************)
(* fetch_remaining_query_rows goes to the server when the first answer was *)
(* a full batch of a described result.                                     *)
(***************************************************************************)
NeedsFetch(n, hasColumns) == hasColumns /\ n >= FetchSize

(***************************************************************************)
(* The EXECUTE round trip.  Cursor 0 is parsed: the server opens a cursor, *)
(* describes the columns and sends the first batch.  Any other cursor is   *)
(* executed again from its first row, without a description, and rows      *)
(* without columns cannot be decoded.  DML has no rows.                    *)
(***************************************************************************)
Execute(t) ==
  /\ pc[t] = "execute"
  /\ LET s == sql[t]
         query == KindOf[s] = "query"
         fresh == cursor[t] = 0
         id == IF fresh THEN Len(cursors) + 1 ELSE cursor[t]
         first == IF query THEN Batch(s, 0) ELSE <<>>
         got == IF fresh THEN first ELSE <<>>
     IN  /\ cursors' = IF fresh THEN Append(cursors, Len(first))
                       ELSE [cursors EXCEPT ![id] = Len(first)]
         /\ cursor' = [cursor EXCEPT ![t] = id]
         /\ described' = [described EXCEPT ![t] = query /\ fresh]
         /\ rows' = [rows EXCEPT ![t] = got]
         /\ IF NeedsFetch(Len(got), query /\ fresh)
            THEN /\ pc' = [pc EXCEPT ![t] = "fetch"]
                 /\ UNCHANGED result
            ELSE /\ pc' = [pc EXCEPT ![t] = "store"]
                 /\ result' = [result EXCEPT ![t] = "ok"]
  /\ UNCHANGED <<cache, clock, closed, sql, from_cache, ops, history>>

(***************************************************************************)
(* One turn of the loop of fetch_remaining_query_rows: fetch_more checks   *)
(* ensure_ready, and the loop ends at a short batch or at the server's     *)
(* word that there is nothing left.                                        *)
(***************************************************************************)
LastBatch(n, more) == n < FetchSize \/ ~more

FetchMore(t) ==
  /\ pc[t] = "fetch" /\ ~closed
  /\ LET c == cursor[t]
         next == Batch(sql[t], cursors[c])
     IN  /\ cursors' = [cursors EXCEPT ![c] = @ + Len(next)]
         /\ rows' = [rows EXCEPT ![t] = @ \o next]
         /\ \E more \in MoreRows(sql[t], cursors'[c]) :
              IF LastBatch(Len(next), more)
              THEN /\ pc' = [pc EXCEPT ![t] = "store"]
                   /\ result' = [result EXCEPT ![t] = "ok"]
              ELSE UNCHANGED <<pc, result>>
  /\ UNCHANGED <<cache, clock, closed, sql, from_cache, cursor, described, ops, history>>

(***************************************************************************)
(* A round trip fails: an ORA- error, which leaves the connection usable,  *)
(* or a broken connection; or ensure_ready refuses a fetch.                *)
(***************************************************************************)
Fail(t) ==
  /\ pc[t] \in {"execute", "fetch"}
  /\ pc' = [pc EXCEPT ![t] = "store"]
  /\ result' = [result EXCEPT ![t] = "err"]
  /\ UNCHANGED <<cache, clock, closed, sql, from_cache, cursor, described, rows, ops,
                 history, cursors>>

\* Mutant: a statement cached for the first time keeps its cursor.
CacheAfterKeepingCursor(t, now) ==
  IF from_cache[t]
  THEN MarkCursorClosed(ReturnStatement(cache, sql[t]), sql[t])
  ELSE IF result[t] = "ok" /\ ~IsDdl(sql[t])
  THEN Put(cache, sql[t], cursor[t], now)
  ELSE cache

\* Mutant: the error path does not return the statement.
CacheAfterSuccessOnly(t, now) ==
  IF result[t] # "ok" THEN cache
  ELSE IF from_cache[t]
  THEN MarkCursorClosed(ReturnStatement(cache, sql[t]), sql[t])
  ELSE MarkCursorClosed(Put(cache, sql[t], cursor[t], now), sql[t])

(***************************************************************************)
(* The end of execute, query and execute_dml_sql, under the lock.  An      *)
(* operation that succeeds has no more rows to fetch, so it marks the      *)
(* cursor closed whether it returns the statement or caches it.            *)
(***************************************************************************)
Caches(t) == result[t] = "ok" /\ cursor[t] > 0 /\ ~IsDdl(sql[t])

CacheAfter(t, now) ==
  IF from_cache[t]
  THEN MarkCursorClosed(ReturnStatement(cache, sql[t]), sql[t])
  ELSE IF Caches(t)
  THEN MarkCursorClosed(Put(cache, sql[t], cursor[t], now), sql[t])
  ELSE cache

Store(t) ==
  /\ pc[t] = "store"
  /\ clock' = clock + 1
  /\ cache' = CacheAfter(t, clock')
  /\ pc' = [pc EXCEPT ![t] = "return"]
  /\ from_cache' = [from_cache EXCEPT ![t] = FALSE]
  /\ abandoned' = IF from_cache[t] \/ Caches(t) THEN abandoned \ {sql[t]} ELSE abandoned
  /\ UNCHANGED <<closed, sql, cursor, described, rows, result, ops, drops, cursors>>

\* What the locals of a future leave behind.
Forget(t) ==
  /\ pc' = [pc EXCEPT ![t] = "idle"]
  /\ cursor' = [cursor EXCEPT ![t] = 0]
  /\ described' = [described EXCEPT ![t] = FALSE]
  /\ rows' = [rows EXCEPT ![t] = <<>>]
  /\ result' = [result EXCEPT ![t] = "none"]

\* handle_result: a connection error sets the closed flag; an ORA- error does not.
Return(t) ==
  /\ pc[t] = "return"
  /\ closed' \in IF result[t] = "err" THEN {closed, TRUE} ELSE {closed}
  /\ Forget(t)
  /\ UNCHANGED <<cache, clock, sql, from_cache, ops, history, cursors>>

(***************************************************************************)
(* The future is dropped while it waits for the lock, before one of its    *)
(* round trips or before the store: nothing returns the statement it took  *)
(* from the cache.  (A drop during a round trip is Cancel of TnsExchange.) *)
(***************************************************************************)
Drop(t) ==
  /\ pc[t] \in {"get", "execute", "fetch", "store"} /\ drops < MaxDrops
  /\ Forget(t)
  /\ from_cache' = [from_cache EXCEPT ![t] = FALSE]
  /\ abandoned' = IF from_cache[t] THEN abandoned \cup {sql[t]} ELSE abandoned
  /\ drops' = IF from_cache[t] THEN drops + 1 ELSE drops
  /\ UNCHANGED <<cache, clock, closed, sql, ops, cursors>>

\* clear_statement_cache, as a pool calls it when it recycles the connection.
ClearStatementCache ==
  /\ cache' = [s \in {} |-> Entry(0, 0)]
  /\ abandoned' = {}
  /\ UNCHANGED <<clock, closed, local, ops, drops, cursors>>

\* close or mark_closed, by any task.
Close ==
  /\ closed' = TRUE
  /\ UNCHANGED <<cache, clock, local, ops, history, cursors>>

Next ==
  \/ \E t \in Tasks :
       \/ \E s \in Sqls : Begin(t, s)
       \/ LookUp(t) \/ Execute(t) \/ FetchMore(t) \/ Fail(t) \/ Store(t) \/ Return(t)
       \/ Drop(t)
  \/ ClearStatementCache
  \/ Close

Spec == Init /\ [][Next]_vars

----------------------------------------------------------------------------
\* Properties

Points == {"idle", "get", "execute", "fetch", "store", "return"}
Entries == [cursor : Nat, in_use : BOOLEAN, last_used : Nat]

(***************************************************************************)
(* The type invariant; DDL is never in the cache (put).                    *)
(***************************************************************************)
TypeOK ==
  /\ DOMAIN cache \subseteq {s \in Sqls : KindOf[s] # "ddl"}
  /\ cache \in [DOMAIN cache -> Entries]
  /\ clock \in Nat /\ ops \in Nat
  /\ abandoned \subseteq Sqls /\ drops \in Nat
  /\ closed \in BOOLEAN
  /\ pc \in [Tasks -> Points]
  /\ sql \in [Tasks -> Sqls]
  /\ from_cache \in [Tasks -> BOOLEAN]
  /\ cursor \in [Tasks -> Nat]
  /\ described \in [Tasks -> BOOLEAN]
  /\ rows \in [Tasks -> Seq(Nat)]
  /\ result \in [Tasks -> {"none", "ok", "err"}]
  /\ cursors \in Seq(Nat)

(***************************************************************************)
(* A query that succeeds returns its whole result set, each row once and   *)
(* in order, wherever its size falls with respect to the fetch size and    *)
(* whatever the other tasks do between its fetches.                        *)
(***************************************************************************)
CompleteResult ==
  \A t \in Tasks :
    pc[t] \in {"store", "return"} /\ result[t] = "ok" /\ KindOf[sql[t]] = "query" =>
      rows[t] = [i \in 1..RowsOf[sql[t]] |-> i]

(***************************************************************************)
(* No stale cursor is ever handed out: whatever the order in which tasks   *)
(* store, return and clear, a cached statement has cursor 0 when the lock  *)
(* is free (mark_cursor_closed).                                           *)
(***************************************************************************)
NoStaleCursor == \A s \in DOMAIN cache : cache[s].cursor = 0

(***************************************************************************)
(* An entry is in use only while some task holds a statement taken from    *)
(* it: no failure leaves an entry that can be neither used nor evicted.    *)
(* A dropped future does, but only until the text is executed again: that  *)
(* execution misses the entry, and its put frees it.                       *)
(***************************************************************************)
Holds(t, s) == pc[t] \in {"execute", "fetch", "store"} /\ from_cache[t] /\ sql[t] = s

InUseHeld ==
  \A s \in DOMAIN cache :
    cache[s].in_use => s \in abandoned \/ \E t \in Tasks : Holds(t, s)

(***************************************************************************)
(* The cache grows past max_size only while its entries are in use: it     *)
(* never has more entries than max_size or than there are tasks and        *)
(* dropped futures, whichever is larger (put, evict_lru).                  *)
(***************************************************************************)
CacheBound ==
  \/ Cardinality(DOMAIN cache) <= MaxSize
  \/ Cardinality(DOMAIN cache) <= Cardinality(Tasks) + drops

(***************************************************************************)
(* What the documentation of the cache says: an execution whose statement  *)
(* comes from the cache reuses the cached cursor.                          *)
(***************************************************************************)
CachedCursorReused ==
  \A t \in Tasks : pc[t] = "execute" /\ from_cache[t] => cursor[t] # 0
=============================================================================
