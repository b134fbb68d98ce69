SPECIFICATION Spec
CONSTANTS
  Tasks = {t1, t2}
  NoTask = NoTask
  Ops = {"exec", "call", "lob", "lobsmall"}
  Replies <- FlaggedReplies
  ErrorReplies <- ErrorShapes
  MaxRequests = 3
  SeqModulus = 4
  MayBreak = TRUE
  MayDrop = TRUE
  MayCancel = FALSE
INVARIANTS TypeOK Attribution CleanWire LogoffLast
PROPERTIES ClosedForGood ImplementsSerialCalls
CHECK_DEADLOCK FALSE
