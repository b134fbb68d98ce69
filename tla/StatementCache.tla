--------------------------- MODULE StatementCache ---------------------------
(***************************************************************************)
(* The client-side statement cache of a connection, as operators on its    *)
(* value: a function from the cached SQL texts to entries.  The Instant of *)
(* an entry's last use is a reading of a logical clock.  A connection      *)
(* configured without a cache behaves as one whose MaxSize is 0.           *)
(***************************************************************************)
EXTENDS Naturals, FiniteSets

CONSTANTS
  Sqls,     \* SQL texts
  KindOf,   \* KindOf[s]: "query", "dml" or "ddl"
  MaxSize   \* StatementCache.max_size

ASSUME CacheConstants ==
  /\ IsFiniteSet(Sqls)
  /\ KindOf \in [Sqls -> {"query", "dml", "ddl"}]
  /\ MaxSize \in Nat

\* Mutant: DDL is taken for any other statement.
IsNeverDdl(s) == s \notin Sqls

IsDdl(s) == KindOf[s] = "ddl"

\* CachedStatement::new; cursor 0 is a statement that has to be parsed again.
Entry(cursor, now) == [cursor |-> cursor, in_use |-> FALSE, last_used |-> now]

(***************************************************************************)
(* get: a hit hands out a clone of the statement and marks the entry in    *)
(* use; an entry already in use is only touched, and the caller starts     *)
(* with a fresh statement.                                                 *)
(***************************************************************************)
Hit(cache, s) == s \in DOMAIN cache /\ ~cache[s].in_use

AfterGet(cache, s, now) ==
  IF s \in DOMAIN cache
  THEN [cache EXCEPT ![s] = [@ EXCEPT !.in_use = TRUE, !.last_used = now]]
  ELSE cache

(***************************************************************************)
(* evict_lru: the least recently used entry that nobody uses goes; when    *)
(* all are in use none does.                                               *)
(***************************************************************************)
EvictLru(cache) ==
  LET free == {k \in DOMAIN cache : ~cache[k].in_use}
      lru == CHOOSE k \in free :
               \A j \in free : cache[k].last_used <= cache[j].last_used
  IN  IF free = {} THEN cache
      ELSE [k \in DOMAIN cache \ {lru} |-> cache[k]]

\* Mutant: a cache that has grown past its size is never brought back.
MakeRoomAtExactSize(cache) ==
  IF Cardinality(DOMAIN cache) = MaxSize THEN EvictLru(cache) ELSE cache

MakeRoom(cache) ==
  IF Cardinality(DOMAIN cache) >= MaxSize THEN EvictLru(cache) ELSE cache

\* put: DDL and statements without a cursor are not cached.
Put(cache, s, cursor, now) ==
  IF MaxSize = 0 \/ IsDdl(s) \/ cursor = 0 THEN cache
  ELSE LET kept == IF s \in DOMAIN cache THEN cache ELSE MakeRoom(cache)
       IN  [k \in DOMAIN kept \cup {s} |-> IF k = s THEN Entry(cursor, now) ELSE kept[k]]

ReturnStatement(cache, s) ==
  IF s \in DOMAIN cache THEN [cache EXCEPT ![s] = [@ EXCEPT !.in_use = FALSE]]
  ELSE cache

MarkCursorClosed(cache, s) ==
  IF s \in DOMAIN cache THEN [cache EXCEPT ![s] = [@ EXCEPT !.cursor = 0]]
  ELSE cache
=============================================================================
