--------------------------- MODULE MCTnsExchange ---------------------------
(***************************************************************************)
(* TnsExchange for TLC: response shapes that the server sends.             *)
(***************************************************************************)
EXTENDS TnsExchange

Shape(lead, n, hit, flag) == [lead |-> lead, packets |-> n, hit |-> hit, flag |-> flag]

\* A server that negotiated END_OF_RESPONSE flags every final packet.
Flagged(lead, n) == Shape(lead, n, FALSE, TRUE)

\* Row data and DML results in one or two packets, LOB data, small LOB answers.
FlaggedReplies ==
  [o \in OpKinds |->
     CASE o \in {"exec", "call"} -> {Flagged("opaque", 2)}
       [] o = "lob" -> {Shape("scanned", 2, FALSE, FALSE)}
       [] OTHER -> {Flagged("opaque", 1)}]

ErrorShapes == {Flagged("error", 1), Flagged("opaque", 2)}
OneError == {Flagged("error", 1)}

\* A server without END_OF_RESPONSE: a described result ends with an ERROR message only.
UnflaggedReplies == [o \in OpKinds |-> {Shape("opaque", 1, FALSE, FALSE)}]

\* A PARAMETER-led answer whose first packet has a byte 4 or 29 in its locator.
ScanHitReplies == [o \in OpKinds |-> {Shape("scanned", 2, TRUE, TRUE)}]
=============================================================================
