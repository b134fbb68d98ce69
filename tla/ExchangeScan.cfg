SPECIFICATION Spec
CONSTANTS
  Tasks = {t1, t2}
  NoTask = NoTask
  Ops = {"lob"}
  Replies <- ScanHitReplies
  ErrorReplies <- ErrorShapes
  MaxRequests = 3
  SeqModulus = 4
  MayBreak = FALSE
  MayDrop = FALSE
  MayCancel = FALSE
INVARIANT Attribution
CHECK_DEADLOCK FALSE
