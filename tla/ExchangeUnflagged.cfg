SPECIFICATION FairSpec
CONSTANTS
  Tasks = {t1, t2}
  NoTask = NoTask
  Ops = {"exec"}
  Replies <- UnflaggedReplies
  ErrorReplies <- ErrorShapes
  MaxRequests = 2
  SeqModulus = 4
  MayBreak = FALSE
  MayDrop = FALSE
  MayCancel = FALSE
PROPERTY OpReturns
CHECK_DEADLOCK FALSE
