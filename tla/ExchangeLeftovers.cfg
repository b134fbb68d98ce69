SPECIFICATION FairSpec
CONSTANTS
  Tasks = {t1}
  NoTask = NoTask
  Ops = {"call"}
  Replies <- FlaggedReplies
  ErrorReplies <- OneError
  MaxRequests = 4
  SeqModulus = 4
  MayBreak = TRUE
  MayDrop = TRUE
  MayCancel = TRUE
PROPERTY OpReturns
CHECK_DEADLOCK FALSE
