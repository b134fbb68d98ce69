SPECIFICATION FairSpec
CONSTANTS
  Tasks = {t1, t2}
  NoTask = NoTask
  Ops = {"exec", "lobsmall"}
  Replies <- FlaggedReplies
  ErrorReplies <- ErrorShapes
  MaxRequests = 2
  SeqModulus = 4
  MayBreak = TRUE
  MayDrop = TRUE
  MayCancel = TRUE
PROPERTY OpReturns
CHECK_DEADLOCK FALSE
