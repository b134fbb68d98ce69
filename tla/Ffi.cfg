CONSTANTS
  NULL = NULL
  Sessions = {s1, s2}
  Scanners = {s1}
  Results <- MCResults
  Imports = {1}
  Prefetch = 2
  ValSize = 3
  MaxLevel = 2
  MaxSubs = 1
  MaxTxns = 2
  MaxStmts = 2
  MaxWork = 2
  MayBreak = TRUE
SPECIFICATION FfiSpec
INVARIANT FfiTypeOK
INVARIANT AbortedWorkNeverCommitted
INVARIANT CommitKeepsWork
INVARIANT NothingLeftOpen
INVARIANT CurrentRowReadable
CHECK_DEADLOCK FALSE
