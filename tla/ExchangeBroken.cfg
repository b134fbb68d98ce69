SPECIFICATION Spec
CONSTANTS
  Tasks = {t1, t2}
  NoTask = NoTask
  Ops = {"call"}
  Replies <- FlaggedReplies
  ErrorReplies <- ErrorShapes
  MaxRequests = 3
  SeqModulus = 4
  MayBreak = TRUE
  MayDrop = TRUE
  MayCancel = FALSE
INVARIANT BrokenIsClosed
CHECK_DEADLOCK FALSE
