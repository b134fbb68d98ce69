------------------------- MODULE TnsExchangeProofs -------------------------
(***************************************************************************)
(* Proofs about TnsExchange, for any tasks, operations, reply shapes and   *)
(* number of requests.                                                     *)
(***************************************************************************)
EXTENDS TnsExchange, TLAPS

(***************************************************************************)
(* The replies on which the receive loops rely: no packet before the last  *)
(* one looks like the end, and the operations that read a single packet    *)
(* are answered with one.                                                  *)
(***************************************************************************)
SoundShape(shape) == shape.packets > 1 => ~shape.hit /\ shape.lead # "error"

SoundReplies ==
  /\ \A o \in OpKinds : \A shape \in Replies[o] :
       SoundShape(shape) /\ (o = "lobsmall" => shape.packets = 1)
  /\ \A shape \in ErrorReplies : SoundShape(shape)

----------------------------------------------------------------------------
(***************************************************************************)
(* The inductive invariant.  Who holds the mutex:                          *)
(***************************************************************************)
LockView == \A t \in Tasks : pc[t] \in Holding <=> owner = t

\* No packet but the last makes a receive loop stop.
SoundPacket(p) == p.last \/ (~p.hit /\ ~p.end /\ p.lead # "error")

(***************************************************************************)
(* What the client will read: packets for the owner's request only, the    *)
(* last packet of a reply behind all others; a BREAK behind the data it    *)
(* interrupts, RESETs before the data that follows them.                   *)
(***************************************************************************)
Parsing == {"parse", "parseError"}
Asking == {"recv", "logoff"}
Resetting == {"awaitReset", "postReset"}

DataInFlight(i) ==
  /\ toClient[i].req = req[owner]
  /\ SoundPacket(toClient[i])
  /\ toClient[i].last => i = Len(toClient)
  /\ pc[owner] = "recv" /\ op[owner] = "lobsmall" => toClient[i].last

MarkerInFlight(i) ==
  /\ pc[owner] # "tail"
  /\ pc[owner] \in Asking => i = Len(toClient)
  /\ pc[owner] \in Resetting => \A j \in 1..i : toClient[j].type = "MARKER"

ClientView ==
  /\ owner = NoTask \/ pc[owner] \in Parsing => toClient = <<>>
  /\ \A i \in 1..Len(toClient) :
       /\ toClient[i].type = "DATA" => DataInFlight(i)
       /\ toClient[i].type = "MARKER" => MarkerInFlight(i)

(***************************************************************************)
(* What a task has accumulated: packets for its request, none of them the  *)
(* last unless the reply was read to its end and not recognised as ended.  *)
(***************************************************************************)
Drained(t) == acc[t] # <<>> /\ acc[t][Len(acc[t])].last

AccView ==
  \A t \in Tasks :
    /\ pc[t] \in {"check", "lock", "closeLock", "logoff"} => acc[t] = <<>>
    /\ pc[t] \in {"closeLock", "logoff"} => req[t] = 0 /\ op[t] = "logoff"
    /\ pc[t] \in Receiving =>
         \A i \in 1..Len(acc[t]) :
           /\ acc[t][i].req = req[t]
           /\ SoundPacket(acc[t][i])
           /\ acc[t][i].last => i = Len(acc[t]) /\ toClient = <<>>

(***************************************************************************)
(* Where the exchange stands between the client and a server that is up.   *)
(***************************************************************************)
LastArrived ==
  toClient # <<>> /\ toClient[Len(toClient)].type = "DATA" /\ toClient[Len(toClient)].last

Quiet ==
  /\ toServer = <<>> /\ srv = Idle
  /\ \/ owner = NoTask
     \/ pc[owner] \in Parsing
     \/ LastArrived
     \/ Drained(owner)

Asked ==
  /\ owner # NoTask /\ pc[owner] \in Asking /\ ~Drained(owner)
  /\ Len(toServer) = 1 /\ toServer[1].type = "REQUEST"
  /\ toServer[1].req = req[owner] /\ toServer[1].op = op[owner]
  /\ srv = Idle /\ toClient = <<>>

Answered ==
  /\ owner # NoTask /\ pc[owner] \in Receiving \cup {"logoff"} /\ ~Drained(owner)
  /\ toServer = <<>>
  /\ srv.mode = "reply" /\ srv.req = req[owner]
  /\ srv.sent < srv.shape.packets /\ SoundShape(srv.shape)
  /\ srv.intr => pc[owner] \in Asking
  /\ pc[owner] = "recv" /\ op[owner] = "lobsmall" => srv.shape.packets = 1
  /\ \A i \in 1..Len(toClient) :
       /\ toClient[i].type = "DATA" => ~toClient[i].last
       /\ pc[owner] \in Asking => toClient[i].type = "DATA"

Interrupted ==
  /\ owner # NoTask /\ pc[owner] \in Asking /\ ~Drained(owner)
  /\ toServer = <<>>
  /\ srv.mode = "broken" /\ srv.req = req[owner]
  /\ toClient # <<>> /\ toClient[Len(toClient)].type = "MARKER"

ResetSent ==
  /\ owner # NoTask /\ pc[owner] = "awaitReset" /\ ~Drained(owner)
  /\ Len(toServer) = 1 /\ toServer[1].type = "MARKER"
  /\ srv.mode = "broken" /\ srv.req = req[owner]
  /\ toClient = <<>>

ServerView == Connected => Quiet \/ Asked \/ Answered \/ Interrupted \/ ResetSent

Views == ClientView /\ AccView /\ ServerView /\ Attribution

ExchangeInv == TypeOK /\ LockView /\ Views

----------------------------------------------------------------------------
\* Types

LEMMA NextSequenceNumberType ==
  ASSUME NEW s \in SeqNumbers
  PROVE  NextSequenceNumber(s) \in SeqNumbers
<1>1. SeqModulus \in Nat /\ SeqModulus > 2
  BY ExchangeConstants
<1>2. s \in Nat /\ s >= 1
  BY <1>1 DEF SeqNumbers
<1>3. (s + 1) % SeqModulus \in 0..(SeqModulus - 1)
  BY <1>1, <1>2
<1> QED
  BY <1>1, <1>3 DEF NextSequenceNumber, SeqNumbers

LEMMA PacketTypes ==
  /\ \A r \in ReqIds, shape \in Shapes, n \in Nat : Data(r, shape, n) \in DataPackets
  /\ \A r \in ReqIds, o \in OpKinds, s \in SeqNumbers : Request(r, o, s) \in Requests
  /\ Marker("BREAK") \in Markers /\ Marker("RESET") \in Markers
<1>1. ASSUME NEW r \in ReqIds, NEW shape \in Shapes, NEW n \in Nat
      PROVE  Data(r, shape, n) \in DataPackets
  <2>1. /\ shape.lead \in Leads
        /\ (n = shape.packets) \in BOOLEAN
        /\ (n = shape.packets /\ shape.flag) \in BOOLEAN
        /\ (n = shape.packets \/ shape.hit) \in BOOLEAN
    BY DEF Shapes
  <2> QED
    BY <2>1 DEF Data, DataPackets
<1>2. ASSUME NEW r \in ReqIds, NEW o \in OpKinds, NEW s \in SeqNumbers
      PROVE  Request(r, o, s) \in Requests
  BY DEF Request, Requests
<1>3. Marker("BREAK") \in Markers /\ Marker("RESET") \in Markers
  BY DEF Marker, Markers
<1> QED
  BY <1>1, <1>2, <1>3

LEMMA InitType == Init => TypeOK
<1> SUFFICES ASSUME Init PROVE TypeOK
  OBVIOUS
<1>1. 0 \in ReqIds /\ 2 \in SeqNumbers
  BY ExchangeConstants DEF ReqIds, SeqNumbers
<1>2. "idle" \in Points /\ "exec" \in OpKinds /\ "none" \in Outcomes
  BY DEF Points, OpKinds, UserOps, Outcomes
<1>3. Idle \in ServerStates
  BY DEF ServerStates
<1>4. acc \in [Tasks -> Seq(DataPackets)]
  BY DEF Init
<1>5. toServer \in Seq(Requests \cup Markers) /\ toClient \in Seq(DataPackets \cup Markers)
  BY DEF Init
<1>6. /\ owner \in Tasks \cup {NoTask}
      /\ closed \in BOOLEAN /\ stream \in BOOLEAN /\ peerOpen \in BOOLEAN
      /\ state \in {"Ready", "Closed"}
  BY DEF Init
<1>7. /\ sequence_number \in SeqNumbers
      /\ pc \in [Tasks -> Points]
      /\ op \in [Tasks -> OpKinds]
      /\ req \in [Tasks -> ReqIds]
      /\ outcome \in [Tasks -> Outcomes]
      /\ issued \in ReqIds
      /\ srv \in ServerStates
  BY <1>1, <1>2, <1>3 DEF Init
<1> QED
  BY <1>4, <1>5, <1>6, <1>7 DEF TypeOK

\* The operation of a task ends, or starts: the parts of the state that it writes.
LEMMA EndType ==
  ASSUME TypeOK, NEW t \in Tasks, NEW res \in Outcomes, End(t, res)
  PROVE  /\ owner' \in Tasks \cup {NoTask}
         /\ pc' \in [Tasks -> Points]
         /\ outcome' \in [Tasks -> Outcomes]
  BY DEF TypeOK, End, Points

LEMMA DropStreamType ==
  ASSUME TypeOK, NEW t \in Tasks, DropStream(t)
  PROVE  /\ owner' \in Tasks \cup {NoTask}
         /\ state' \in {"Ready", "Closed"}
         /\ stream' \in BOOLEAN
         /\ toClient' \in Seq(DataPackets \cup Markers)
         /\ pc' \in [Tasks -> Points]
<1>1. toClient' \in Seq(DataPackets \cup Markers)
  BY DEF DropStream
<1>2. /\ owner' \in Tasks \cup {NoTask}
      /\ state' \in {"Ready", "Closed"}
      /\ stream' \in BOOLEAN
      /\ pc' \in [Tasks -> Points]
  BY DEF TypeOK, DropStream, Points
<1> QED
  BY <1>1, <1>2

LEMMA SendType ==
  ASSUME TypeOK, NEW p \in Requests \cup Markers, SendOk(p)
  PROVE  toServer' \in Seq(Requests \cup Markers)
  BY DEF TypeOK, SendOk

LEMMA ReceiveType ==
  ASSUME TypeOK, NEW t \in Tasks, NEW at, NEW k, Receive(t, at, k)
  PROVE  /\ Head(toClient) \in DataPackets \cup Markers
         /\ toClient' \in Seq(DataPackets \cup Markers)
         /\ k = "DATA" => Head(toClient) \in DataPackets
<1>1. /\ Head(toClient) \in DataPackets \cup Markers
      /\ toClient' \in Seq(DataPackets \cup Markers)
  BY DEF TypeOK, Receive
<1>2. k = "DATA" => Head(toClient) \in DataPackets
  BY <1>1 DEF Receive, Markers
<1> QED
  BY <1>1, <1>2

LEMMA NextRequest ==
  ASSUME TypeOK, issued < MaxRequests
  PROVE  issued + 1 \in ReqIds
  BY ExchangeConstants DEF TypeOK, ReqIds

LEMMA BeginType ==
  ASSUME TypeOK, NEW t \in Tasks, NEW o \in Ops, Begin(t, o)
  PROVE  TypeOK'
<1>1. issued + 1 \in ReqIds
  BY NextRequest DEF Begin
<1>2. o \in OpKinds
  BY ExchangeConstants DEF OpKinds
<1>3. UNCHANGED <<owner, closed, state, stream, sequence_number, toServer, toClient, peerOpen, srv>>
  BY DEF Begin, conn, wire
<1>4. /\ op' \in [Tasks -> OpKinds]
      /\ req' \in [Tasks -> ReqIds]
      /\ issued' \in ReqIds
  BY <1>1, <1>2 DEF Begin, TypeOK
<1>5. acc' \in [Tasks -> Seq(DataPackets)]
  BY DEF Begin, TypeOK
<1>6. pc' \in [Tasks -> Points] /\ outcome' \in [Tasks -> Outcomes]
  BY DEF Begin, TypeOK, Points, Outcomes, ConnErrors
<1> QED
  BY <1>3, <1>4, <1>5, <1>6 DEF TypeOK

LEMMA AcquireType ==
  ASSUME TypeOK, NEW t \in Tasks, Acquire(t)
  PROVE  TypeOK'
<1>1. CASE CheckState(t)
  <2>1. pc' \in [Tasks -> Points] /\ outcome' \in [Tasks -> Outcomes]
    BY <1>1 DEF CheckState, TypeOK, Points, Outcomes
  <2>2. UNCHANGED <<owner, closed, state, stream, sequence_number, op, req, acc, issued,
                    toServer, toClient, peerOpen, srv>>
    BY <1>1 DEF CheckState, conn, wire
  <2> QED
    BY <2>1, <2>2 DEF TypeOK
<1>2. CASE LockAndSend(t)
  <2>1. sequence_number' \in SeqNumbers
    BY <1>2, NextSequenceNumberType DEF LockAndSend, TypeOK
  <2>2. /\ "io" \in Outcomes /\ "closed" \in Outcomes
        /\ Request(req[t], op[t], sequence_number') \in Requests
    BY <2>1, PacketTypes DEF TypeOK, Outcomes, ConnErrors
  <2>3. /\ owner' \in Tasks \cup {NoTask}
        /\ pc' \in [Tasks -> Points]
        /\ outcome' \in [Tasks -> Outcomes]
        /\ toServer' \in Seq(Requests \cup Markers)
    <3>1. CASE SendOk(Request(req[t], op[t], sequence_number')) /\ owner' = t
               /\ pc' = [pc EXCEPT ![t] = "recv"] /\ UNCHANGED outcome
      BY <2>2, <3>1, SendType DEF TypeOK, Points, Holding, Receiving
    <3>2. CASE SendFails /\ End(t, "io")
      BY <2>2, <3>2, EndType DEF TypeOK, SendFails
    <3>3. CASE ~stream /\ End(t, "closed") /\ UNCHANGED toServer
      BY <2>2, <3>3, EndType DEF TypeOK
    <3> QED
      BY <1>2, <3>1, <3>2, <3>3 DEF LockAndSend
  <2>4. UNCHANGED <<closed, state, stream, op, req, acc, issued, toClient, peerOpen, srv>>
    BY <1>2 DEF LockAndSend
  <2> QED
    BY <2>1, <2>3, <2>4 DEF TypeOK
<1>3. CASE CloseLocked(t)
  <2>1. UNCHANGED <<closed, op, req, acc, outcome, issued, peerOpen, srv>>
    BY <1>3 DEF CloseLocked
  <2>2. sequence_number' \in SeqNumbers
    BY <1>3, NextSequenceNumberType DEF CloseLocked, TypeOK
  <2>3. 0 \in ReqIds /\ "logoff" \in OpKinds
    BY ExchangeConstants DEF ReqIds, OpKinds
  <2>4. Request(0, "logoff", sequence_number') \in Requests
    BY <2>2, <2>3, PacketTypes
  <2>5. /\ owner' \in Tasks \cup {NoTask}
        /\ state' \in {"Ready", "Closed"}
        /\ stream' \in BOOLEAN
        /\ toServer' \in Seq(Requests \cup Markers)
        /\ toClient' \in Seq(DataPackets \cup Markers)
        /\ pc' \in [Tasks -> Points]
    <3>1. CASE /\ SendOk(Request(0, "logoff", sequence_number'))
               /\ owner' = t
               /\ pc' = [pc EXCEPT ![t] = "logoff"]
               /\ UNCHANGED <<state, stream, toClient>>
      BY <2>4, <3>1, SendType DEF TypeOK, Points, Holding
    <3>2. CASE DropStream(t) /\ UNCHANGED toServer
      BY <3>2, DropStreamType DEF TypeOK
    <3> QED
      BY <1>3, <3>1, <3>2 DEF CloseLocked, SendFails
  <2> QED
    BY <2>1, <2>2, <2>5 DEF TypeOK
<1> QED
  BY <1>1, <1>2, <1>3 DEF Acquire

LEMMA ReadType ==
  ASSUME TypeOK, NEW t \in Tasks, Read(t)
  PROVE  TypeOK'
<1> "io" \in Outcomes /\ "garbled" \in Outcomes /\ "closedByServer" \in Outcomes
  BY DEF Outcomes, ConnErrors
<1>1. CASE RecvData(t)
  <2>1. /\ toClient' \in Seq(DataPackets \cup Markers)
        /\ Head(toClient) \in DataPackets
    BY <1>1, ReceiveType DEF RecvData
  <2>2. acc' \in [Tasks -> Seq(DataPackets)]
    BY <1>1, <2>1 DEF RecvData, TypeOK
  <2>3. pc' \in [Tasks -> Points]
    BY <1>1 DEF RecvData, TypeOK, Points, Holding, Receiving
  <2>4. UNCHANGED <<owner, closed, state, stream, sequence_number, op, req, outcome, issued,
                    toServer, peerOpen, srv>>
    BY <1>1 DEF RecvData, conn
  <2> QED
    BY <2>1, <2>2, <2>3, <2>4 DEF TypeOK
<1>2. CASE RecvMarker(t)
  <2>1. toClient' \in Seq(DataPackets \cup Markers)
    BY <1>2, ReceiveType DEF RecvMarker
  <2>2. acc' \in [Tasks -> Seq(DataPackets)]
    BY <1>2 DEF RecvMarker, TypeOK
  <2>3. Marker("RESET") \in Requests \cup Markers
    BY PacketTypes
  <2>4. /\ owner' \in Tasks \cup {NoTask}
        /\ pc' \in [Tasks -> Points]
        /\ outcome' \in [Tasks -> Outcomes]
        /\ toServer' \in Seq(Requests \cup Markers)
    <3>1. CASE /\ SendOk(Marker("RESET"))
               /\ pc' = [pc EXCEPT ![t] = "awaitReset"]
               /\ UNCHANGED <<owner, outcome>>
      BY <2>3, <3>1, SendType DEF TypeOK, Points, Holding, Receiving
    <3>2. CASE SendFails /\ End(t, "io")
      BY <3>2, EndType DEF TypeOK, SendFails
    <3> QED
      BY <1>2, <3>1, <3>2 DEF RecvMarker
  <2>5. UNCHANGED <<closed, state, stream, sequence_number, op, req, issued, peerOpen, srv>>
    BY <1>2 DEF RecvMarker
  <2> QED
    BY <2>1, <2>2, <2>4, <2>5 DEF TypeOK
<1>3. CASE SkipMarker(t)
  <2>1. toClient' \in Seq(DataPackets \cup Markers)
    BY <1>3, ReceiveType DEF SkipMarker
  <2>2. pc' \in [Tasks -> Points]
    BY <1>3 DEF SkipMarker, TypeOK, Points, Holding, Receiving
  <2>3. UNCHANGED <<owner, closed, state, stream, sequence_number, op, req, acc, outcome, issued,
                    toServer, peerOpen, srv>>
    BY <1>3 DEF SkipMarker, conn
  <2> QED
    BY <2>1, <2>2, <2>3 DEF TypeOK
<1>4. CASE TailData(t)
  <2>1. /\ toClient' \in Seq(DataPackets \cup Markers)
        /\ Head(toClient) \in DataPackets
    BY <1>4, ReceiveType DEF TailData
  <2>2. acc' \in [Tasks -> Seq(DataPackets)]
    BY <1>4, <2>1 DEF TailData, TypeOK
  <2>3. pc' \in [Tasks -> Points]
    BY <1>4 DEF TailData, TypeOK, Points, Holding, Receiving
  <2>4. UNCHANGED <<owner, closed, state, stream, sequence_number, op, req, outcome, issued,
                    toServer, peerOpen, srv>>
    BY <1>4 DEF TailData, conn
  <2> QED
    BY <2>1, <2>2, <2>3, <2>4 DEF TypeOK
<1>5. CASE TailMarker(t)
  <2>1. toClient' \in Seq(DataPackets \cup Markers)
    BY <1>5, ReceiveType DEF TailMarker
  <2>2. UNCHANGED <<closed, state, stream, sequence_number, op, req, acc, issued,
                    toServer, peerOpen, srv>>
    BY <1>5 DEF TailMarker
  <2> QED
    BY <1>5, <2>1, <2>2, EndType DEF TypeOK, TailMarker
<1>6. CASE ReadError(t)
  <2>1. UNCHANGED <<closed, stream, sequence_number, op, req, acc, issued,
                    toServer, toClient, peerOpen, srv>>
    BY <1>6 DEF ReadError, wire
  <2>2. /\ owner' \in Tasks \cup {NoTask}
        /\ pc' \in [Tasks -> Points]
        /\ outcome' \in [Tasks -> Outcomes]
    BY <1>6, EndType DEF ReadError
  <2>3. state' \in {"Ready", "Closed"}
    BY <1>6 DEF ReadError
  <2> QED
    BY <2>1, <2>2, <2>3 DEF TypeOK
<1>7. CASE RecvLogoff(t)
  <2>1. UNCHANGED <<closed, sequence_number, op, req, acc, outcome, issued, toServer,
                    peerOpen, srv>>
    BY <1>7 DEF RecvLogoff
  <2> QED
    BY <1>7, <2>1, DropStreamType DEF TypeOK, RecvLogoff
<1> QED
  BY <1>1, <1>2, <1>3, <1>4, <1>5, <1>6, <1>7 DEF Read

LEMMA ParsedType ==
  ASSUME TypeOK, NEW t \in Tasks, Parsed(t)
  PROVE  TypeOK'
<1> "io" \in Outcomes /\ "answered" \in Outcomes /\ "closed" \in Outcomes
  BY DEF Outcomes, ConnErrors
<1>1. CASE Finish(t)
  <2>1. UNCHANGED <<closed, state, stream, sequence_number, op, req, acc, issued,
                    toServer, toClient, peerOpen, srv>>
    BY <1>1 DEF Finish, wire
  <2> QED
    BY <1>1, <2>1, EndType DEF TypeOK, Finish
<1>2. CASE SendDefine(t)
  <2>1. issued + 1 \in ReqIds /\ "define" \in OpKinds
    BY <1>2, NextRequest DEF SendDefine, OpKinds
  <2>2. sequence_number' \in SeqNumbers
    BY <1>2, NextSequenceNumberType DEF SendDefine, TypeOK
  <2>3. Request(issued + 1, "define", sequence_number') \in Requests
    BY <2>1, <2>2, PacketTypes
  <2>4. op' \in [Tasks -> OpKinds] /\ req' \in [Tasks -> ReqIds] /\ issued' \in ReqIds
    BY <1>2, <2>1 DEF SendDefine, TypeOK
  <2>5. acc' \in [Tasks -> Seq(DataPackets)]
    BY <1>2 DEF SendDefine, TypeOK
  <2>6. /\ owner' \in Tasks \cup {NoTask}
        /\ pc' \in [Tasks -> Points]
        /\ outcome' \in [Tasks -> Outcomes]
        /\ toServer' \in Seq(Requests \cup Markers)
    <3>1. CASE /\ SendOk(Request(issued + 1, "define", sequence_number'))
               /\ pc' = [pc EXCEPT ![t] = "recv"]
               /\ UNCHANGED <<owner, outcome>>
      BY <2>3, <3>1, SendType DEF TypeOK, Points, Holding, Receiving
    <3>2. CASE SendFails /\ End(t, "io")
      BY <3>2, EndType DEF TypeOK, SendFails
    <3> QED
      BY <1>2, <3>1, <3>2 DEF SendDefine
  <2>7. UNCHANGED <<closed, state, stream, toClient, peerOpen, srv>>
    BY <1>2 DEF SendDefine
  <2> QED
    BY <2>2, <2>4, <2>5, <2>6, <2>7 DEF TypeOK
<1>3. CASE FetchMore(t)
  <2>1. issued + 1 \in ReqIds /\ "fetch" \in OpKinds
    BY <1>3, NextRequest DEF FetchMore, OpKinds
  <2>2. op' \in [Tasks -> OpKinds] /\ req' \in [Tasks -> ReqIds] /\ issued' \in ReqIds
    BY <1>3, <2>1 DEF FetchMore, TypeOK
  <2>3. acc' \in [Tasks -> Seq(DataPackets)]
    BY <1>3 DEF FetchMore, TypeOK
  <2>4. /\ owner' \in Tasks \cup {NoTask}
        /\ pc' \in [Tasks -> Points]
        /\ outcome' \in [Tasks -> Outcomes]
    BY <1>3 DEF FetchMore, TypeOK, Points
  <2>5. UNCHANGED <<closed, state, stream, sequence_number, toServer, toClient, peerOpen, srv>>
    BY <1>3 DEF FetchMore, wire
  <2> QED
    BY <2>2, <2>3, <2>4, <2>5 DEF TypeOK
<1> QED
  BY <1>1, <1>2, <1>3 DEF Parsed

LEMMA TaskType ==
  ASSUME TypeOK, NEW t \in Tasks, TaskStep(t)
  PROVE  TypeOK'
<1>1. CASE Return(t)
  <2>1. closed' \in BOOLEAN
    BY <1>1 DEF Return
  <2>2. pc' \in [Tasks -> Points]
    BY <1>1 DEF Return, TypeOK, Points
  <2>3. acc' \in [Tasks -> Seq(DataPackets)]
    BY <1>1 DEF Return, TypeOK
  <2>4. UNCHANGED <<owner, state, stream, sequence_number, op, req, outcome, issued,
                    toServer, toClient, peerOpen, srv>>
    BY <1>1 DEF Return, wire
  <2> QED
    BY <2>1, <2>2, <2>3, <2>4 DEF TypeOK
<1>2. CASE BeginClose(t)
  <2>1. 0 \in ReqIds /\ "logoff" \in OpKinds /\ "none" \in Outcomes
    BY ExchangeConstants DEF ReqIds, OpKinds, Outcomes
  <2>2. /\ closed' \in BOOLEAN
        /\ pc' \in [Tasks -> Points]
        /\ op' \in [Tasks -> OpKinds]
        /\ req' \in [Tasks -> ReqIds]
        /\ outcome' \in [Tasks -> Outcomes]
    BY <1>2, <2>1 DEF BeginClose, TypeOK, Points
  <2>3. acc' \in [Tasks -> Seq(DataPackets)]
    BY <1>2 DEF BeginClose, TypeOK
  <2>4. UNCHANGED <<owner, state, stream, sequence_number, issued,
                    toServer, toClient, peerOpen, srv>>
    BY <1>2 DEF BeginClose, wire
  <2> QED
    BY <2>2, <2>3, <2>4 DEF TypeOK
<1>3. CASE Cancel(t)
  <2>1. pc' \in [Tasks -> Points] /\ owner' \in Tasks \cup {NoTask}
    BY <1>3 DEF Cancel, TypeOK, Points
  <2>2. UNCHANGED <<closed, state, stream, sequence_number, op, req, acc, outcome, issued,
                    toServer, toClient, peerOpen, srv>>
    BY <1>3 DEF Cancel, wire
  <2> QED
    BY <2>1, <2>2 DEF TypeOK
<1> QED
  BY <1>1, <1>2, <1>3, BeginType, AcquireType, ReadType, ParsedType DEF TaskStep

LEMMA ServerStateType ==
  /\ Idle \in ServerStates
  /\ \A r \in ReqIds : Broken(r) \in ServerStates
  /\ \A r \in ReqIds, shape \in Shapes, n \in Nat, intr \in BOOLEAN :
       Replying(r, shape, n, intr) \in ServerStates
  /\ \A s \in ServerStates :
       /\ s.mode \in {"idle", "reply", "broken"}
       /\ s.mode = "idle" => s = Idle
       /\ s.mode = "broken" => s.req \in ReqIds
       /\ s.mode = "reply" => /\ s.req \in ReqIds /\ s.shape \in Shapes
                               /\ s.sent \in Nat /\ s.intr \in BOOLEAN
  BY DEF ServerStates, Idle, Broken, Replying

LEMMA ServerType ==
  ASSUME TypeOK, ServerStep
  PROVE  TypeOK'
<1> UNCHANGED <<owner, closed, state, stream, sequence_number, pc, op, req, acc, outcome, issued>>
  BY DEF ServerStep, Answering, SrvTake, SrvSend, SrvReset, SrvDiscard, SrvBreak, SrvDrop,
         conn, task
<1> SUFFICES /\ peerOpen' \in BOOLEAN
             /\ toServer' \in Seq(Requests \cup Markers)
             /\ toClient' \in Seq(DataPackets \cup Markers)
             /\ srv' \in ServerStates
  BY DEF TypeOK
<1>1. /\ toServer # <<>> => /\ Head(toServer) \in Requests \cup Markers
                            /\ Tail(toServer) \in Seq(Requests \cup Markers)
      /\ Marker("RESET") \in DataPackets \cup Markers
      /\ Marker("BREAK") \in DataPackets \cup Markers
  BY PacketTypes DEF TypeOK
<1>2. CASE SrvTake
  <2>1. Head(toServer) \in Requests
    BY <1>1, <1>2 DEF SrvTake, Markers
  <2>2. Head(toServer).req \in ReqIds /\ Replies[Head(toServer).op] \subseteq Shapes
    BY <2>1, ExchangeConstants DEF Requests
  <2>3. srv' \in ServerStates
    BY <1>2, <2>2, ServerStateType, ExchangeConstants DEF SrvTake
  <2> QED
    BY <1>1, <1>2, <2>3 DEF SrvTake, TypeOK
<1>3. CASE SrvSend
  <2>1. /\ srv.req \in ReqIds /\ srv.shape \in Shapes
        /\ srv.sent + 1 \in Nat /\ srv.intr \in BOOLEAN
    BY <1>3, ServerStateType DEF SrvSend, TypeOK
  <2>2. srv' \in ServerStates
    BY <1>3, <2>1, ServerStateType DEF SrvSend
  <2>3. Data(srv.req, srv.shape, srv.sent + 1) \in DataPackets
    BY <2>1, PacketTypes
  <2>4. toClient' \in Seq(DataPackets \cup Markers)
    BY <1>3, <2>3 DEF SrvSend, TypeOK
  <2> QED
    BY <1>3, <2>2, <2>4 DEF SrvSend, TypeOK
<1>4. CASE SrvReset
  <2>1. PICK ack \in Acks, shape \in ErrorReplies :
           /\ toClient' = toClient \o ack
           /\ srv' = Replying(srv.req, shape, 0, FALSE)
    BY <1>4 DEF SrvReset
  <2>2. ack \in Seq(DataPackets \cup Markers)
    <3>1. CASE ack = <<>>
      BY <3>1
    <3>2. CASE ack = <<Marker("RESET")>>
      BY <1>1, <3>2
    <3>3. CASE ack = <<Marker("RESET"), Marker("RESET")>>
      BY <1>1, <3>3
    <3> QED
      BY <3>1, <3>2, <3>3 DEF Acks
  <2>3. toClient' \in Seq(DataPackets \cup Markers)
    BY <2>1, <2>2 DEF TypeOK
  <2>4. srv' \in ServerStates
    BY <1>4, <2>1, ServerStateType, ExchangeConstants DEF SrvReset, TypeOK
  <2> QED
    BY <1>1, <1>4, <2>3, <2>4 DEF SrvReset, TypeOK
<1>5. CASE SrvDiscard
  <2>1. toClient' \in Seq(DataPackets \cup Markers)
    <3>1. CASE UNCHANGED toClient
      BY <3>1 DEF TypeOK
    <3>2. CASE toClient' = Append(toClient, Marker("RESET"))
      BY <1>1, <3>2 DEF TypeOK
    <3> QED
      BY <1>5, <3>1, <3>2 DEF SrvDiscard
  <2> QED
    BY <1>1, <1>5, <2>1 DEF SrvDiscard, TypeOK
<1>6. CASE SrvBreak
  <2>1. srv' \in ServerStates
    BY <1>6, ServerStateType DEF SrvBreak, TypeOK
  <2>2. toClient' \in Seq(DataPackets \cup Markers)
    BY <1>1, <1>6 DEF SrvBreak, TypeOK
  <2> QED
    BY <1>6, <2>1, <2>2 DEF SrvBreak, TypeOK
<1>7. CASE SrvDrop
  <2>1. toClient' \in Seq(DataPackets \cup Markers)
    <3>1. CASE toClient' = <<>>
      BY <3>1
    <3> QED
      BY <1>7, <3>1 DEF SrvDrop, TypeOK
  <2> QED
    BY <1>7, <2>1 DEF SrvDrop, TypeOK
<1> QED
  BY <1>2, <1>3, <1>4, <1>5, <1>6, <1>7 DEF ServerStep, Answering

LEMMA TypeStep ==
  ASSUME TypeOK, [Next]_vars
  PROVE  TypeOK'
<1>1. CASE MarkClosed
  BY <1>1 DEF MarkClosed, TypeOK, task, wire
<1>2. CASE UNCHANGED vars
  BY <1>2 DEF TypeOK, vars, conn, task, wire
<1> QED
  BY <1>1, <1>2, TaskType, ServerType DEF Next

(***************************************************************************)
(* The state keeps its types; among them the TTC sequence number, which    *)
(* never is 0 however long the connection lives (next_sequence_number).    *)
(***************************************************************************)
THEOREM TypeCorrect == Spec => []TypeOK
<1>1. Init => TypeOK
  BY InitType
<1>2. TypeOK /\ [Next]_vars => TypeOK'
  BY TypeStep
<1> QED
  BY <1>1, <1>2, PTL DEF Spec

----------------------------------------------------------------------------
\* The mutex

LEMMA LockStep ==
  ASSUME TypeOK, LockView, [Next]_vars
  PROVE  LockView'
<1> USE DEF LockView, TypeOK, Holding, Receiving
<1>0. NoTask \notin Tasks
  BY ExchangeConstants
<1>1. ASSUME NEW t \in Tasks, NEW o \in Ops, Begin(t, o) PROVE LockView'
  BY <1>1 DEF Begin, conn
<1>2. ASSUME NEW t \in Tasks, Acquire(t) PROVE LockView'
  <2>1. CASE CheckState(t)
    BY <1>0, <2>1 DEF CheckState, conn
  <2>2. CASE LockAndSend(t)
    BY <1>0, <2>2 DEF LockAndSend, End
  <2>3. CASE CloseLocked(t)
    BY <1>0, <2>3 DEF CloseLocked, DropStream
  <2> QED
    BY <1>2, <2>1, <2>2, <2>3 DEF Acquire
<1>3. ASSUME NEW t \in Tasks, Read(t) PROVE LockView'
  <2>1. CASE RecvData(t)
    BY <2>1 DEF RecvData, Receive, conn
  <2>2. CASE RecvMarker(t)
    BY <1>0, <2>2 DEF RecvMarker, Receive, End
  <2>3. CASE SkipMarker(t)
    BY <2>3 DEF SkipMarker, Receive, conn
  <2>4. CASE TailData(t)
    BY <2>4 DEF TailData, Receive, conn
  <2>5. CASE TailMarker(t)
    BY <1>0, <2>5 DEF TailMarker, Receive, End
  <2>6. CASE ReadError(t)
    BY <1>0, <2>6 DEF ReadError, End
  <2>7. CASE RecvLogoff(t)
    BY <1>0, <2>7 DEF RecvLogoff, DropStream
  <2> QED
    BY <1>3, <2>1, <2>2, <2>3, <2>4, <2>5, <2>6, <2>7 DEF Read
<1>4. ASSUME NEW t \in Tasks, Parsed(t) PROVE LockView'
  BY <1>0, <1>4 DEF Parsed, Finish, SendDefine, FetchMore, End
<1>5. ASSUME NEW t \in Tasks, Return(t) \/ BeginClose(t) PROVE LockView'
  BY <1>5 DEF Return, BeginClose
<1>6. ASSUME NEW t \in Tasks, Cancel(t) PROVE LockView'
  BY <1>0, <1>6 DEF Cancel
<1>7. CASE MarkClosed
  BY <1>7 DEF MarkClosed, task
<1>8. CASE ServerStep
  BY <1>8 DEF ServerStep, Answering, SrvTake, SrvSend, SrvReset, SrvDiscard, SrvBreak,
              SrvDrop, conn, task
<1>9. CASE UNCHANGED vars
  BY <1>9 DEF vars, conn, task
<1> HIDE DEF LockView, TypeOK, Holding, Receiving
<1> QED
  BY <1>1, <1>2, <1>3, <1>4, <1>5, <1>6, <1>7, <1>8, <1>9 DEF Next, TaskStep

(***************************************************************************)
(* A task that has sent a request and not finished with its response holds *)
(* Connection.inner, and no other task does, whatever fails, is cancelled  *)
(* or closes the connection in between.                                    *)
(***************************************************************************)
THEOREM OneExchangeAtATime == Spec => []LockView
<1>1. Init => LockView
  <2> SUFFICES ASSUME Init, NEW t \in Tasks PROVE pc[t] \in Holding <=> owner = t
    BY DEF LockView
  <2>1. pc[t] = "idle" /\ owner = NoTask
    BY DEF Init
  <2>2. "idle" \notin Holding
    BY DEF Holding, Receiving
  <2> QED
    BY <2>1, <2>2, ExchangeConstants
<1>2. TypeOK /\ LockView /\ [Next]_vars => LockView'
  BY LockStep
<1> QED
  BY <1>1, <1>2, TypeCorrect, PTL DEF Spec

----------------------------------------------------------------------------
\* The exchange

(***************************************************************************)
(* A receive loop stops at the last packet of the reply and not before.    *)
(***************************************************************************)
LEMMA CompleteIsLast ==
  ASSUME NEW a \in Seq(DataPackets), NEW h \in DataPackets,
         \A i \in 1..Len(a) : SoundPacket(a[i]) /\ ~a[i].last,
         SoundPacket(h), Complete(Append(a, h))
  PROVE  h.last
<1> DEFINE got == Append(a, h)
<1>1. /\ got \in Seq(DataPackets) /\ Len(got) = Len(a) + 1 /\ got[Len(got)] = h
      /\ Len(a) \in Nat
      /\ \A i \in 1..Len(got) : i = Len(got) \/ (i \in 1..Len(a) /\ got[i] = a[i])
  OBVIOUS
<1>2. SUFFICES ASSUME ~h.last PROVE FALSE
  OBVIOUS
<1>3. \A i \in 1..Len(got) : ~got[i].hit /\ ~got[i].end /\ got[i].lead # "error"
  BY <1>1, <1>2 DEF SoundPacket
<1>4. Head(got) = got[1] /\ 1 \in 1..Len(got) /\ Len(got) \in 1..Len(got)
  BY <1>1
<1>5. \/ got[Len(got)].end
      \/ Head(got).lead = "error"
      \/ \E i \in 1..Len(got) : got[i].hit
  BY DEF Complete, ScanForTerminalMessage
<1> QED
  BY <1>3, <1>4, <1>5

\* While the mutex is free nothing is in flight.
LEMMA FreeMeansQuiet ==
  ASSUME TypeOK, Views, owner = NoTask
  PROVE  toClient = <<>> /\ (Connected => toServer = <<>> /\ srv = Idle)
  BY DEF Views, ClientView, ServerView, Quiet, Asked, Answered, Interrupted, ResetSent

\* While a response is being parsed nothing is in flight.
LEMMA ParsedMeansQuiet ==
  ASSUME TypeOK, Views, NEW t \in Tasks, owner = t, pc[t] \in Parsing
  PROVE  toClient = <<>> /\ (Connected => toServer = <<>> /\ srv = Idle)
  BY DEF Views, ClientView, ServerView, Quiet, Asked, Answered, Interrupted, ResetSent,
         Parsing, Asking, Receiving

(***************************************************************************)
(* Steps outside the mutex: the task t has nothing accumulated and no      *)
(* answer in its hands, and nobody else notices.                           *)
(***************************************************************************)
LEMMA OutsideStep ==
  ASSUME TypeOK, TypeOK', LockView, Views, NEW t \in Tasks,
         owner # t, pc'[t] \notin Holding, acc'[t] = <<>>,
         outcome'[t] # "garbled", ~Delivered(t)',
         pc'[t] = "closeLock" => req'[t] = 0 /\ op'[t] = "logoff",
         \A u \in Tasks \ {t} : /\ pc'[u] = pc[u] /\ op'[u] = op[u] /\ req'[u] = req[u]
                               /\ acc'[u] = acc[u] /\ outcome'[u] = outcome[u],
         UNCHANGED <<owner, stream, toServer, toClient, peerOpen, srv>>
  PROVE  Views'
<1>1. owner \in Tasks \cup {NoTask} /\ NoTask \notin Tasks
  BY ExchangeConstants DEF TypeOK
<1>2. CASE owner = NoTask
  <2>1. toClient = <<>> /\ (Connected => toServer = <<>> /\ srv = Idle)
    BY <1>2, FreeMeansQuiet
  <2>2. ClientView' /\ ServerView'
    BY <1>2, <2>1 DEF ClientView, ServerView, Quiet, Connected
  <2>3. Attribution'
    BY DEF Views, Attribution, Delivered
  <2>4. AccView'
    BY <2>1 DEF Views, AccView, Holding
  <2> QED
    BY <2>2, <2>3, <2>4 DEF Views
<1>3. CASE owner \in Tasks
  <2>1. /\ pc'[owner] = pc[owner] /\ op'[owner] = op[owner] /\ req'[owner] = req[owner]
        /\ acc'[owner] = acc[owner]
    BY <1>3
  <2>2. ClientView'
    BY <2>1 DEF Views, ClientView, DataInFlight, MarkerInFlight
  <2>3. ServerView'
    BY <2>1 DEF Views, ServerView, Connected, Quiet, Asked, Answered, Interrupted, ResetSent,
                LastArrived, Drained
  <2>4. Attribution'
    BY DEF Views, Attribution, Delivered
  <2>5. AccView'
    BY DEF Views, AccView, Holding
  <2> QED
    BY <2>2, <2>3, <2>4, <2>5 DEF Views
<1> QED
  BY <1>1, <1>2, <1>3

LEMMA OutsideSteps ==
  ASSUME ExchangeInv, TypeOK', NEW t \in Tasks,
         (\E o \in Ops : Begin(t, o)) \/ CheckState(t) \/ Return(t) \/ BeginClose(t)
  PROVE  Views'
<1>0. TypeOK /\ LockView /\ Views
  BY DEF ExchangeInv
<1>1. ASSUME NEW o \in Ops, Begin(t, o) PROVE Views'
  <2>1. owner # t
    BY <1>0, <1>1 DEF Begin, LockView, Holding, Receiving
  <2>2. /\ pc'[t] \in {"return", "check"} /\ acc'[t] = <<>>
        /\ outcome'[t] \in {"closed", "none"}
    BY <1>0, <1>1 DEF Begin, TypeOK
  <2>3. pc'[t] \notin Holding /\ ~Delivered(t)'
    BY <2>2 DEF Holding, Receiving, Delivered
  <2>4. /\ UNCHANGED <<owner, stream, toServer, toClient, peerOpen, srv>>
        /\ \A u \in Tasks \ {t} : /\ pc'[u] = pc[u] /\ op'[u] = op[u] /\ req'[u] = req[u]
                                  /\ acc'[u] = acc[u] /\ outcome'[u] = outcome[u]
    BY <1>0, <1>1 DEF Begin, TypeOK, conn, wire
  <2> QED
    BY <1>0, <2>1, <2>2, <2>3, <2>4, OutsideStep
<1>2. CASE CheckState(t)
  <2>1. owner # t
    BY <1>0, <1>2 DEF CheckState, LockView, Holding, Receiving
  <2>2. /\ pc'[t] = "lock" \/ (pc'[t] = "return" /\ outcome'[t] = "notReady")
        /\ outcome'[t] # "garbled"
    BY <1>0, <1>2 DEF CheckState, TypeOK, Views, Attribution
  <2>3. acc'[t] = <<>>
    BY <1>0, <1>2 DEF CheckState, Views, AccView
  <2>4. pc'[t] \notin Holding /\ ~Delivered(t)'
    BY <2>2 DEF Holding, Receiving, Delivered
  <2>5. /\ UNCHANGED <<owner, stream, toServer, toClient, peerOpen, srv>>
        /\ \A u \in Tasks \ {t} : /\ pc'[u] = pc[u] /\ op'[u] = op[u] /\ req'[u] = req[u]
                                  /\ acc'[u] = acc[u] /\ outcome'[u] = outcome[u]
    BY <1>0, <1>2 DEF CheckState, TypeOK, conn, wire
  <2> QED
    BY <1>0, <2>1, <2>2, <2>3, <2>4, <2>5, OutsideStep
<1>3. CASE Return(t)
  <2>1. owner # t
    BY <1>0, <1>3 DEF Return, LockView, Holding, Receiving
  <2>2. pc'[t] = "idle" /\ acc'[t] = <<>> /\ outcome'[t] # "garbled"
    BY <1>0, <1>3 DEF Return, TypeOK, Views, Attribution
  <2>3. pc'[t] \notin Holding /\ ~Delivered(t)'
    BY <2>2 DEF Holding, Receiving, Delivered
  <2>4. /\ UNCHANGED <<owner, stream, toServer, toClient, peerOpen, srv>>
        /\ \A u \in Tasks \ {t} : /\ pc'[u] = pc[u] /\ op'[u] = op[u] /\ req'[u] = req[u]
                                  /\ acc'[u] = acc[u] /\ outcome'[u] = outcome[u]
    BY <1>0, <1>3 DEF Return, TypeOK, wire
  <2> QED
    BY <1>0, <2>1, <2>2, <2>3, <2>4, OutsideStep
<1>4. CASE BeginClose(t)
  <2>1. owner # t
    BY <1>0, <1>4 DEF BeginClose, LockView, Holding, Receiving
  <2>2. /\ pc'[t] = "closeLock" /\ acc'[t] = <<>> /\ outcome'[t] = "none"
        /\ req'[t] = 0 /\ op'[t] = "logoff"
    BY <1>0, <1>4 DEF BeginClose, TypeOK
  <2>3. pc'[t] \notin Holding /\ ~Delivered(t)'
    BY <2>2 DEF Holding, Receiving, Delivered
  <2>4. /\ UNCHANGED <<owner, stream, toServer, toClient, peerOpen, srv>>
        /\ \A u \in Tasks \ {t} : /\ pc'[u] = pc[u] /\ op'[u] = op[u] /\ req'[u] = req[u]
                                  /\ acc'[u] = acc[u] /\ outcome'[u] = outcome[u]
    BY <1>0, <1>4 DEF BeginClose, TypeOK, wire
  <2> QED
    BY <1>0, <2>1, <2>2, <2>3, <2>4, OutsideStep
<1> QED
  BY <1>1, <1>2, <1>3, <1>4

(***************************************************************************)
(* Steps that end with the mutex free: nothing is left in flight.          *)
(***************************************************************************)
LEMMA ReleaseStep ==
  ASSUME TypeOK, TypeOK', LockView, Views, NEW t \in Tasks,
         owner' = NoTask, toClient' = <<>>,
         Connected' => toServer' = <<>> /\ srv' = Idle,
         pc'[t] \in {"return", "idle", "check"},
         pc'[t] = "check" => acc'[t] = <<>>,
         outcome'[t] # "garbled",
         Delivered(t)' => /\ \A i \in 1..Len(acc'[t]) : acc'[t][i].req = req'[t]
                          /\ acc'[t] # <<>> /\ acc'[t][Len(acc'[t])].last,
         \A u \in Tasks \ {t} : /\ pc'[u] = pc[u] /\ op'[u] = op[u] /\ req'[u] = req[u]
                               /\ acc'[u] = acc[u] /\ outcome'[u] = outcome[u]
  PROVE  Views'
<1>1. ClientView' /\ ServerView'
  BY DEF ClientView, ServerView, Quiet
<1>2. Attribution'
  BY DEF Views, Attribution, Delivered
<1>3. AccView'
  BY DEF Views, AccView, Receiving
<1> QED
  BY <1>1, <1>2, <1>3 DEF Views

(***************************************************************************)
(* Steps that send a request over a quiet connection.                      *)
(***************************************************************************)
LEMMA AskStep ==
  ASSUME TypeOK, TypeOK', LockView, Views, NEW t \in Tasks,
         owner \in {t, NoTask}, owner' = t, pc'[t] \in Asking, acc'[t] = <<>>,
         pc'[t] = "logoff" => req'[t] = 0 /\ op'[t] = "logoff",
         NEW p, p.type = "REQUEST", p.req = req'[t], p.op = op'[t],
         toServer' = Append(toServer, p),
         toClient = <<>>, Connected => toServer = <<>> /\ srv = Idle,
         \A u \in Tasks \ {t} : /\ pc'[u] = pc[u] /\ op'[u] = op[u] /\ req'[u] = req[u]
                               /\ acc'[u] = acc[u],
         UNCHANGED <<outcome, stream, toClient, peerOpen, srv>>
  PROVE  Views'
<1>0. NoTask \notin Tasks
  BY ExchangeConstants
<1>1. ClientView'
  BY <1>0 DEF ClientView, Parsing, Asking
<1>2. Connected' => Asked'
  <2> SUFFICES ASSUME Connected' PROVE Asked'
    OBVIOUS
  <2>1. toServer = <<>> /\ srv = Idle
    BY DEF Connected
  <2>2. Len(toServer') = 1 /\ toServer'[1] = p
    BY <2>1
  <2> QED
    BY <1>0, <2>1, <2>2 DEF Asked, Drained
<1>3. ServerView'
  BY <1>2 DEF ServerView
<1>4. Attribution'
  BY DEF Views, Attribution, Delivered, Asking
<1>5. AccView'
  BY DEF Views, AccView, Asking
<1> QED
  BY <1>1, <1>3, <1>4, <1>5 DEF Views

LEMMA AcquireSteps ==
  ASSUME ExchangeInv, TypeOK', NEW t \in Tasks, LockAndSend(t) \/ CloseLocked(t)
  PROVE  Views'
<1>0. TypeOK /\ LockView /\ Views
  BY DEF ExchangeInv
<1>1. owner = NoTask /\ outcome[t] # "garbled"
  BY <1>0 DEF LockAndSend, CloseLocked, Views, Attribution
<1>2. toClient = <<>> /\ (Connected => toServer = <<>> /\ srv = Idle)
  BY <1>0, <1>1, FreeMeansQuiet
<1>3. CASE LockAndSend(t)
  <2>0. /\ acc'[t] = <<>>
        /\ UNCHANGED <<stream, op, req, acc, toClient, peerOpen, srv>>
    BY <1>0, <1>3 DEF LockAndSend, Views, AccView
  <2>1. CASE /\ SendOk(Request(req[t], op[t], sequence_number'))
             /\ owner' = t
             /\ pc' = [pc EXCEPT ![t] = "recv"]
             /\ UNCHANGED outcome
    <3> DEFINE p == Request(req[t], op[t], sequence_number')
    <3>1. p.type = "REQUEST" /\ p.req = req'[t] /\ p.op = op'[t]
      BY <2>0 DEF Request
    <3>2. pc'[t] = "recv" /\ pc'[t] \in Asking /\ \A u \in Tasks \ {t} : pc'[u] = pc[u]
      BY <1>0, <2>1 DEF TypeOK, Asking
    <3>3. toServer' = Append(toServer, p)
      BY <2>1 DEF SendOk
    <3> HIDE DEF p
    <3> QED
      BY <1>0, <1>1, <1>2, <2>0, <2>1, <3>1, <3>2, <3>3, AskStep
  <2>2. CASE (SendFails /\ End(t, "io")) \/ (~stream /\ End(t, "closed"))
    <3>1. /\ ~Connected' /\ owner' = NoTask /\ pc'[t] = "return"
          /\ outcome'[t] \in {"io", "closed"}
          /\ \A u \in Tasks \ {t} : pc'[u] = pc[u] /\ outcome'[u] = outcome[u]
      BY <1>0, <2>0, <2>2 DEF SendFails, End, Connected, TypeOK
    <3>2. ~Delivered(t)'
      BY <3>1 DEF Delivered
    <3> QED
      BY <1>0, <1>2, <2>0, <3>1, <3>2, ReleaseStep
  <2> QED
    BY <1>3, <2>1, <2>2 DEF LockAndSend
<1>4. CASE CloseLocked(t)
  <2>0. /\ acc'[t] = <<>> /\ req'[t] = 0 /\ op'[t] = "logoff"
        /\ UNCHANGED <<op, req, acc, outcome, peerOpen, srv>>
    BY <1>0, <1>4 DEF CloseLocked, Views, AccView
  <2>1. CASE /\ SendOk(Request(0, "logoff", sequence_number'))
             /\ owner' = t
             /\ pc' = [pc EXCEPT ![t] = "logoff"]
             /\ UNCHANGED <<state, stream, toClient>>
    <3> DEFINE p == Request(0, "logoff", sequence_number')
    <3>1. p.type = "REQUEST" /\ p.req = req'[t] /\ p.op = op'[t]
      BY <2>0 DEF Request
    <3>2. pc'[t] = "logoff" /\ pc'[t] \in Asking /\ \A u \in Tasks \ {t} : pc'[u] = pc[u]
      BY <1>0, <2>1 DEF TypeOK, Asking
    <3>3. toServer' = Append(toServer, p)
      BY <2>1 DEF SendOk
    <3> HIDE DEF p
    <3> QED
      BY <1>0, <1>1, <1>2, <2>0, <2>1, <3>1, <3>2, <3>3, AskStep
  <2>2. CASE DropStream(t)
    <3>1. /\ ~Connected' /\ owner' = NoTask /\ toClient' = <<>> /\ pc'[t] = "idle"
          /\ \A u \in Tasks \ {t} : pc'[u] = pc[u]
      BY <1>0, <2>2 DEF DropStream, Connected, TypeOK
    <3>2. ~Delivered(t)' /\ outcome'[t] # "garbled"
      BY <1>1, <2>0, <3>1 DEF Delivered
    <3> QED
      BY <1>0, <2>0, <3>1, <3>2, ReleaseStep
  <2> QED
    BY <1>4, <2>1, <2>2 DEF CloseLocked
<1> QED
  BY <1>3, <1>4

LEMMA ParsedSteps ==
  ASSUME ExchangeInv, TypeOK', NEW t \in Tasks, Parsed(t)
  PROVE  Views'
<1>0. TypeOK /\ LockView /\ Views
  BY DEF ExchangeInv
<1>1. owner = t /\ pc[t] \in Parsing /\ outcome[t] # "garbled"
  BY <1>0 DEF Parsed, Finish, SendDefine, FetchMore, Parsing, Views, Attribution
<1>2. toClient = <<>> /\ (Connected => toServer = <<>> /\ srv = Idle)
  BY <1>0, <1>1, ParsedMeansQuiet
<1>3. CASE Finish(t)
  <2>1. /\ \A i \in 1..Len(acc[t]) : acc[t][i].req = req[t]
        /\ acc[t] # <<>> /\ acc[t][Len(acc[t])].last
    BY <1>0, <1>1 DEF Views, Attribution, Delivered, Parsing
  <2>2. /\ UNCHANGED <<stream, op, req, acc, toServer, toClient, peerOpen, srv>>
        /\ owner' = NoTask /\ pc'[t] = "return" /\ outcome'[t] = "answered"
        /\ \A u \in Tasks \ {t} : pc'[u] = pc[u] /\ outcome'[u] = outcome[u]
    BY <1>0, <1>3 DEF Finish, End, wire, TypeOK
  <2>3. Connected' => toServer' = <<>> /\ srv' = Idle
    BY <1>2, <2>2 DEF Connected
  <2> QED
    BY <1>0, <1>2, <2>1, <2>2, <2>3, ReleaseStep
<1>4. CASE SendDefine(t)
  <2>0. /\ acc'[t] = <<>> /\ req'[t] = issued + 1 /\ op'[t] = "define"
        /\ UNCHANGED <<stream, toClient, peerOpen, srv>>
        /\ \A u \in Tasks \ {t} : op'[u] = op[u] /\ req'[u] = req[u] /\ acc'[u] = acc[u]
    BY <1>0, <1>4 DEF SendDefine, TypeOK
  <2>1. CASE /\ SendOk(Request(issued + 1, "define", sequence_number'))
             /\ pc' = [pc EXCEPT ![t] = "recv"]
             /\ UNCHANGED <<owner, outcome>>
    <3> DEFINE p == Request(issued + 1, "define", sequence_number')
    <3>1. p.type = "REQUEST" /\ p.req = req'[t] /\ p.op = op'[t]
      BY <2>0 DEF Request
    <3>2. pc'[t] = "recv" /\ pc'[t] \in Asking /\ \A u \in Tasks \ {t} : pc'[u] = pc[u]
      BY <1>0, <2>1 DEF TypeOK, Asking
    <3>3. toServer' = Append(toServer, p)
      BY <2>1 DEF SendOk
    <3> HIDE DEF p
    <3> QED
      BY <1>0, <1>1, <1>2, <2>0, <2>1, <3>1, <3>2, <3>3, AskStep
  <2>2. CASE SendFails /\ End(t, "io")
    <3>1. /\ ~Connected' /\ owner' = NoTask /\ pc'[t] = "return" /\ outcome'[t] = "io"
          /\ \A u \in Tasks \ {t} : pc'[u] = pc[u] /\ outcome'[u] = outcome[u]
      BY <1>0, <2>0, <2>2 DEF SendFails, End, Connected, TypeOK
    <3>2. ~Delivered(t)'
      BY <3>1 DEF Delivered
    <3> QED
      BY <1>0, <1>2, <2>0, <3>1, <3>2, ReleaseStep
  <2> QED
    BY <1>4, <2>1, <2>2 DEF SendDefine
<1>5. CASE FetchMore(t)
  <2>1. /\ UNCHANGED <<stream, toServer, toClient, peerOpen, srv>>
        /\ owner' = NoTask /\ acc'[t] = <<>>
        /\ \/ pc'[t] = "return" /\ outcome'[t] = "closed"
           \/ pc'[t] = "check" /\ outcome'[t] = outcome[t]
        /\ \A u \in Tasks \ {t} : /\ pc'[u] = pc[u] /\ op'[u] = op[u] /\ req'[u] = req[u]
                                  /\ acc'[u] = acc[u] /\ outcome'[u] = outcome[u]
    BY <1>0, <1>5 DEF FetchMore, wire, TypeOK
  <2>2. Connected' => toServer' = <<>> /\ srv' = Idle
    BY <1>2, <2>1 DEF Connected
  <2>3. ~Delivered(t)' /\ outcome'[t] # "garbled"
    BY <1>1, <2>1 DEF Delivered
  <2> QED
    BY <1>0, <1>2, <2>1, <2>2, <2>3, ReleaseStep
<1> QED
  BY <1>3, <1>4, <1>5 DEF Parsed

\* What the packets in flight and those already read say when t reads.
LEMMA AboutToRead ==
  ASSUME TypeOK, Views, NEW t \in Tasks, owner = t, pc[t] \in Receiving, toClient # <<>>
  PROVE  /\ Len(toClient) \in Nat /\ Len(toClient) > 0 /\ Head(toClient) = toClient[1]
         /\ \A i \in 1..Len(acc[t]) :
              acc[t][i].req = req[t] /\ SoundPacket(acc[t][i]) /\ ~acc[t][i].last
         /\ ~Drained(t)
         /\ Head(toClient).type = "DATA" => DataInFlight(1)
         /\ Head(toClient).type = "MARKER" => MarkerInFlight(1)
<1>1. Len(toClient) \in Nat /\ Len(toClient) > 0 /\ Head(toClient) = toClient[1]
  BY DEF TypeOK
<1>2. \A i \in 1..Len(acc[t]) :
        acc[t][i].req = req[t] /\ SoundPacket(acc[t][i]) /\ ~acc[t][i].last
  BY DEF Views, AccView
<1>3. acc[t] # <<>> => Len(acc[t]) \in 1..Len(acc[t])
  BY DEF TypeOK
<1>4. ~Drained(t)
  BY <1>2, <1>3 DEF Drained
<1>5. 1 \in 1..Len(toClient)
  BY <1>1
<1>6. /\ Head(toClient).type = "DATA" => DataInFlight(1)
      /\ Head(toClient).type = "MARKER" => MarkerInFlight(1)
  BY <1>1, <1>5 DEF Views, ClientView
<1> QED
  BY <1>1, <1>2, <1>4, <1>6

\* The packets behind the first one.
LEMMA TailFacts ==
  ASSUME TypeOK, toClient # <<>>, toClient' = Tail(toClient)
  PROVE  /\ Len(toClient') = Len(toClient) - 1
         /\ Len(toClient) \in Nat /\ Len(toClient') \in Nat
         /\ \A i \in 1..Len(toClient') : toClient'[i] = toClient[i + 1]
         /\ \A i \in 1..Len(toClient') : i + 1 \in 1..Len(toClient)
         /\ Len(toClient) = 1 => toClient' = <<>>
         /\ Len(toClient) # 1 => /\ toClient' # <<>>
                                 /\ toClient'[Len(toClient')] = toClient[Len(toClient)]
<1>1. toClient \in Seq(DataPackets \cup Markers)
  BY DEF TypeOK
<1>2. /\ toClient' \in Seq(DataPackets \cup Markers)
      /\ Len(toClient') = Len(toClient) - 1 /\ Len(toClient) \in Nat /\ Len(toClient') \in Nat
      /\ \A i \in 1..Len(toClient') : toClient'[i] = toClient[i + 1]
  BY <1>1
<1>3. Len(toClient) = 1 => toClient' = <<>>
  BY <1>2
<1>4. Len(toClient) # 1 => /\ toClient' # <<>>
                          /\ toClient'[Len(toClient')] = toClient[Len(toClient)]
  <2> SUFFICES ASSUME Len(toClient) # 1
               PROVE  /\ toClient' # <<>>
                      /\ toClient'[Len(toClient')] = toClient[Len(toClient)]
    OBVIOUS
  <2>1. Len(toClient') \in 1..Len(toClient') /\ Len(toClient') + 1 = Len(toClient)
    BY <1>2
  <2>2. toClient'[Len(toClient')] = toClient[Len(toClient') + 1]
    BY <1>2, <2>1
  <2> QED
    BY <2>1, <2>2
<1>5. \A i \in 1..Len(toClient') : i + 1 \in 1..Len(toClient)
  BY <1>2
<1> QED
  BY <1>2, <1>3, <1>4, <1>5

LEMMA BehindFirst ==
  \A m, n \in Nat : \A i \in 1..n : n = m - 1 /\ i + 1 = m => i = n
  OBVIOUS

LEMMA DataStep ==
  ASSUME TypeOK, TypeOK', LockView, Views, NEW t \in Tasks,
         owner = t, pc[t] \in Receiving, toClient # <<>>, Head(toClient).type = "DATA",
         toClient' = Tail(toClient), acc'[t] = Append(acc[t], Head(toClient)),
         \/ pc[t] = "recv" /\ pc'[t] \in {"recv", "parse"}
         \/ pc[t] # "recv" /\ pc'[t] \in {"tail", "parseError"},
         pc'[t] \in Parsing => Head(toClient).last,
         \A u \in Tasks \ {t} : pc'[u] = pc[u] /\ acc'[u] = acc[u],
         UNCHANGED <<owner, stream, op, req, outcome, toServer, peerOpen, srv>>
  PROVE  Views'
<1> DEFINE h == Head(toClient)
           got == Append(acc[t], h)
<1>0. NoTask \notin Tasks
  BY ExchangeConstants
<1>1. /\ Len(toClient) \in Nat /\ Len(toClient) > 0 /\ h = toClient[1]
      /\ \A i \in 1..Len(acc[t]) :
           acc[t][i].req = req[t] /\ SoundPacket(acc[t][i]) /\ ~acc[t][i].last
      /\ ~Drained(t)
      /\ DataInFlight(1)
  BY AboutToRead
<1>2. /\ h.req = req[t] /\ SoundPacket(h) /\ (h.last => Len(toClient) = 1)
      /\ pc[t] = "recv" /\ op[t] = "lobsmall" => h.last
  BY <1>1 DEF DataInFlight
<1>3. /\ Len(toClient') = Len(toClient) - 1 /\ Len(toClient') \in Nat
      /\ \A i \in 1..Len(toClient') : toClient'[i] = toClient[i + 1]
      /\ \A i \in 1..Len(toClient') : i + 1 \in 1..Len(toClient)
      /\ Len(toClient) = 1 => toClient' = <<>>
      /\ Len(toClient) # 1 => /\ toClient' # <<>>
                              /\ toClient'[Len(toClient')] = toClient[Len(toClient)]
  BY TailFacts
<1>4. /\ Len(got) = Len(acc[t]) + 1 /\ got[Len(got)] = h /\ got # <<>> /\ Len(acc[t]) \in Nat
      /\ \A i \in 1..Len(got) : i = Len(got) \/ (i \in 1..Len(acc[t]) /\ got[i] = acc[t][i])
  BY DEF TypeOK
<1>5. acc'[t] = got /\ (Drained(t)' <=> h.last)
  BY <1>4 DEF Drained
<1> HIDE DEF h, got
<1>6. ClientView'
  <2>1. pc'[t] \in Parsing => toClient' = <<>>
    BY <1>2, <1>3 DEF h
  <2>2. ASSUME NEW i \in 1..Len(toClient'), toClient'[i].type = "DATA"
        PROVE  DataInFlight(i)'
    <3>1. DataInFlight(i + 1)
      BY <1>3, <2>2 DEF Views, ClientView
    <3>2. toClient'[i] = toClient[i + 1] /\ owner' = t /\ req' = req /\ op' = op
      BY <1>3
    <3>3. toClient'[i].req = req'[t] /\ SoundPacket(toClient'[i])
      BY <3>1, <3>2 DEF DataInFlight
    <3>4. toClient'[i].last => i = Len(toClient')
      BY <1>1, <1>3, <3>1, <3>2, BehindFirst DEF DataInFlight
    <3>5. pc'[t] = "recv" /\ op'[t] = "lobsmall" => toClient'[i].last
      BY <3>1, <3>2 DEF DataInFlight
    <3> QED
      BY <3>2, <3>3, <3>4, <3>5 DEF DataInFlight, SoundPacket
  <2>3. ASSUME NEW i \in 1..Len(toClient'), toClient'[i].type = "MARKER"
        PROVE  MarkerInFlight(i)'
    <3>1. MarkerInFlight(i + 1)
      BY <1>3, <2>3 DEF Views, ClientView
    <3>2. pc[t] = "recv"
      <4>1. CASE pc[t] \in Resetting
        <5>1. 1 \in 1..(i + 1)
          OBVIOUS
        <5> QED
          BY <1>1, <3>1, <4>1, <5>1 DEF MarkerInFlight, h
      <4> QED
        BY <3>1, <4>1 DEF MarkerInFlight, Resetting, Receiving
    <3>3. pc'[t] = "recv"
      BY <1>1, <1>2, <1>3, <3>2 DEF Parsing, h
    <3>4. i + 1 = Len(toClient)
      BY <3>1, <3>2 DEF MarkerInFlight, Asking
    <3>5. i = Len(toClient')
      BY <1>1, <1>3, <3>4, BehindFirst
    <3> QED
      BY <3>3, <3>5 DEF MarkerInFlight, Resetting
  <2> QED
    BY <1>0, <2>1, <2>2, <2>3 DEF ClientView
<1>7. AccView'
  <2>1. ASSUME NEW i \in 1..Len(got)
        PROVE  /\ got[i].req = req[t] /\ SoundPacket(got[i])
               /\ got[i].last => i = Len(got) /\ toClient' = <<>>
    BY <1>1, <1>2, <1>3, <1>4
  <2>2. ASSUME NEW u \in Tasks \ {t}, pc[u] \in Receiving
        PROVE  FALSE
    BY <2>2 DEF LockView, Holding
  <2> QED
    BY <1>5, <2>1, <2>2 DEF Views, AccView, SoundPacket, Receiving
<1>8. ServerView'
  <2> SUFFICES ASSUME Connected' PROVE (Quiet \/ Asked \/ Answered \/ Interrupted \/ ResetSent)'
    BY DEF ServerView
  <2>0. Quiet \/ Asked \/ Answered \/ Interrupted \/ ResetSent
    BY DEF Views, ServerView, Connected
  <2>1. CASE Quiet
    <3>1. LastArrived
      BY <1>0, <1>1, <2>1, <1>2 DEF Quiet, Parsing, Receiving
    <3>2. LastArrived' \/ Drained(t)'
      BY <1>1, <1>3, <1>5, <3>1 DEF LastArrived
    <3> QED
      BY <2>1, <3>2 DEF Quiet
  <2>2. CASE Asked
    BY <2>2 DEF Asked
  <2>3. CASE Answered
    <3>1. ~h.last
      BY <1>1, <2>3 DEF Answered, h
    <3>2. ~Drained(t)' /\ pc'[t] \in Receiving /\ (pc'[t] \in Asking <=> pc[t] \in Asking)
      BY <1>5, <3>1 DEF Parsing, Receiving, Asking, h
    <3>3. pc'[t] = "recv" => pc[t] = "recv"
      OBVIOUS
    <3>4. \A i \in 1..Len(toClient') :
            /\ toClient'[i].type = "DATA" => ~toClient'[i].last
            /\ pc'[t] \in Asking => toClient'[i].type = "DATA"
      BY <1>3, <2>3, <3>2 DEF Answered
    <3> QED
      BY <2>3, <3>2, <3>3, <3>4 DEF Answered
  <2>4. CASE Interrupted
    <3>1. Len(toClient) # 1 /\ ~h.last
      BY <1>1, <1>2, <2>4 DEF Interrupted, h
    <3>2. pc[t] = "recv"
      BY <2>4 DEF Interrupted, Asking, Receiving
    <3>3. ~Drained(t)' /\ pc'[t] = "recv"
      BY <1>5, <3>1, <3>2 DEF Parsing, h
    <3> QED
      BY <1>3, <2>4, <3>1, <3>3 DEF Interrupted, Asking
  <2>5. CASE ResetSent
    BY <2>5 DEF ResetSent
  <2> QED
    BY <2>0, <2>1, <2>2, <2>3, <2>4, <2>5
<1>9. Attribution'
  <2>1. ASSUME NEW i \in 1..Len(got)
        PROVE  got[i].req = req[t]
    BY <1>1, <1>2, <1>4
  <2>2. pc'[t] \in Parsing => got[Len(got)].last
    BY <1>4 DEF h
  <2>3. pc'[t] # "return"
    OBVIOUS
  <2> QED
    BY <1>4, <1>5, <2>1, <2>2, <2>3 DEF Views, Attribution, Delivered, Parsing
<1> QED
  BY <1>6, <1>7, <1>8, <1>9 DEF Views

LEMMA DataSteps ==
  ASSUME ExchangeInv, TypeOK', NEW t \in Tasks, RecvData(t) \/ TailData(t)
  PROVE  Views'
<1> DEFINE h == Head(toClient)
           got == Append(acc[t], h)
<1>0. TypeOK /\ LockView /\ Views
  BY DEF ExchangeInv
<1>1. /\ owner = t /\ pc[t] \in Receiving /\ toClient # <<>> /\ h.type = "DATA"
      /\ toClient' = Tail(toClient)
      /\ UNCHANGED <<owner, stream, op, req, outcome, toServer, peerOpen, srv>>
  BY DEF RecvData, TailData, Receive, Receiving, conn
<1>2. /\ acc'[t] = got
      /\ \A u \in Tasks \ {t} : pc'[u] = pc[u] /\ acc'[u] = acc[u]
  BY <1>0 DEF RecvData, TailData, TypeOK
<1>3. /\ \/ pc[t] = "recv" /\ pc'[t] \in {"recv", "parse"}
         \/ pc[t] # "recv" /\ pc'[t] \in {"tail", "parseError"}
      /\ pc'[t] \in Parsing => Complete(got) \/ (pc[t] = "recv" /\ op[t] = "lobsmall")
  BY <1>0 DEF RecvData, TailData, Receive, TypeOK, Parsing
<1>4. /\ \A i \in 1..Len(acc[t]) : SoundPacket(acc[t][i]) /\ ~acc[t][i].last
      /\ DataInFlight(1) /\ h = toClient[1]
  BY <1>0, <1>1, AboutToRead
<1>5. acc[t] \in Seq(DataPackets) /\ h \in DataPackets
  BY <1>0, ReceiveType DEF TypeOK, RecvData, TailData
<1>6. Complete(got) => h.last
  BY <1>4, <1>5, CompleteIsLast DEF DataInFlight
<1>7. pc'[t] \in Parsing => h.last
  BY <1>1, <1>3, <1>4, <1>6 DEF DataInFlight
<1> QED
  BY <1>0, <1>1, <1>2, <1>3, <1>7, DataStep

LEMMA RecvMarkerStep ==
  ASSUME ExchangeInv, TypeOK', NEW t \in Tasks, RecvMarker(t)
  PROVE  Views'
<1>0. TypeOK /\ LockView /\ Views /\ NoTask \notin Tasks
  BY ExchangeConstants DEF ExchangeInv
<1>1. /\ owner = t /\ pc[t] = "recv" /\ toClient # <<>> /\ Head(toClient).type = "MARKER"
      /\ toClient' = Tail(toClient)
      /\ UNCHANGED <<stream, op, req, peerOpen, srv>>
      /\ acc'[t] \in {acc[t], <<>>}
      /\ \A u \in Tasks \ {t} : acc'[u] = acc[u]
  BY <1>0 DEF RecvMarker, Receive, TypeOK
<1>2. /\ Len(toClient) \in Nat /\ MarkerInFlight(1) /\ Head(toClient) = toClient[1]
      /\ \A i \in 1..Len(acc[t]) :
           acc[t][i].req = req[t] /\ SoundPacket(acc[t][i]) /\ ~acc[t][i].last
      /\ ~Drained(t)
  BY <1>0, <1>1, AboutToRead DEF Receiving
<1>3. Len(toClient) = 1
  BY <1>1, <1>2 DEF MarkerInFlight, Asking
<1>4. toClient' = <<>>
  BY <1>0, <1>1, <1>3, TailFacts
<1>5. Connected => Interrupted
  <2> SUFFICES ASSUME Connected PROVE Interrupted
    OBVIOUS
  <2>1. ~Quiet
    BY <1>0, <1>1, <1>2, <1>3 DEF Quiet, LastArrived, Parsing
  <2>2. ~Asked /\ ~ResetSent
    BY <1>1 DEF Asked, ResetSent
  <2>3. ~Answered
    <3>1. 1 \in 1..Len(toClient)
      BY <1>3
    <3> QED
      BY <1>1, <1>2, <3>1 DEF Answered, Asking
  <2> QED
    BY <1>0, <2>1, <2>2, <2>3 DEF Views, ServerView
<1>6. CASE /\ SendOk(Marker("RESET"))
           /\ pc' = [pc EXCEPT ![t] = "awaitReset"]
           /\ UNCHANGED <<owner, outcome>>
  <2>1. pc'[t] = "awaitReset" /\ \A u \in Tasks \ {t} : pc'[u] = pc[u]
    BY <1>0, <1>6 DEF TypeOK
  <2>2. ClientView'
    <3>1. \A i \in 1..Len(toClient') : FALSE
      BY <1>4
    <3>2. owner' = t /\ pc'[t] \notin Parsing
      BY <1>1, <1>6, <2>1 DEF Parsing
    <3> QED
      BY <1>0, <1>4, <3>1, <3>2 DEF ClientView
  <2>3. AccView'
    <3>1. \A i \in 1..Len(acc'[t]) :
            acc'[t][i].req = req[t] /\ SoundPacket(acc'[t][i]) /\ ~acc'[t][i].last
      BY <1>1, <1>2
    <3>2. ASSUME NEW u \in Tasks \ {t}, pc[u] \in Receiving
          PROVE  FALSE
      BY <1>0, <1>1, <3>2 DEF LockView, Holding
    <3> QED
      BY <1>0, <1>1, <2>1, <3>1, <3>2 DEF Views, AccView, SoundPacket
  <2>4. Attribution'
    BY <1>0, <1>1, <1>6, <2>1 DEF Views, Attribution, Delivered
  <2>5. Connected' => ResetSent'
    <3> SUFFICES ASSUME Connected' PROVE ResetSent'
      OBVIOUS
    <3>1. Interrupted
      BY <1>1, <1>5 DEF Connected
    <3>2. Len(toServer') = 1 /\ toServer'[1].type = "MARKER"
      BY <1>6, <3>1 DEF Interrupted, SendOk, Marker
    <3>3. ~Drained(t)'
      BY <1>1, <1>2 DEF Drained
    <3> QED
      BY <1>0, <1>1, <1>4, <1>6, <2>1, <3>1, <3>2, <3>3 DEF Interrupted, ResetSent
  <2> QED
    BY <2>2, <2>3, <2>4, <2>5 DEF Views, ServerView
<1>7. CASE SendFails /\ End(t, "io")
  <2>1. /\ ~Connected' /\ owner' = NoTask /\ pc'[t] = "return" /\ outcome'[t] = "io"
        /\ \A u \in Tasks \ {t} : pc'[u] = pc[u] /\ outcome'[u] = outcome[u]
    BY <1>0, <1>1, <1>7 DEF SendFails, End, Connected, TypeOK
  <2>2. ~Delivered(t)'
    BY <2>1 DEF Delivered
  <2> QED
    BY <1>0, <1>1, <1>4, <2>1, <2>2, ReleaseStep
<1> QED
  BY <1>6, <1>7 DEF RecvMarker

LEMMA SkipMarkerStep ==
  ASSUME ExchangeInv, TypeOK', NEW t \in Tasks, SkipMarker(t)
  PROVE  Views'
<1>0. TypeOK /\ LockView /\ Views /\ NoTask \notin Tasks
  BY ExchangeConstants DEF ExchangeInv
<1>1. /\ owner = t /\ pc[t] \in Resetting /\ toClient # <<>> /\ Head(toClient).type = "MARKER"
      /\ toClient' = Tail(toClient)
      /\ UNCHANGED <<owner, stream, op, req, acc, outcome, toServer, peerOpen, srv>>
      /\ pc'[t] \in Resetting
      /\ \A u \in Tasks \ {t} : pc'[u] = pc[u]
  BY <1>0 DEF SkipMarker, Receive, TypeOK, Resetting, conn
<1>2. /\ Len(toClient) \in Nat /\ Head(toClient) = toClient[1] /\ ~Drained(t)
      /\ \A i \in 1..Len(acc[t]) :
           acc[t][i].req = req[t] /\ SoundPacket(acc[t][i]) /\ ~acc[t][i].last
  BY <1>0, <1>1, AboutToRead DEF Receiving, Resetting
<1>3. /\ Len(toClient') = Len(toClient) - 1 /\ Len(toClient') \in Nat
      /\ \A i \in 1..Len(toClient') : toClient'[i] = toClient[i + 1]
      /\ \A i \in 1..Len(toClient') : i + 1 \in 1..Len(toClient)
      /\ Len(toClient) # 1 => /\ toClient' # <<>>
                              /\ toClient'[Len(toClient')] = toClient[Len(toClient)]
  BY <1>0, <1>1, TailFacts
<1>4. pc[t] \notin Asking /\ pc'[t] \notin Asking /\ pc'[t] \notin Parsing
      /\ pc'[t] \in Receiving /\ pc'[t] # "recv" /\ pc'[t] # "tail" /\ pc'[t] # "return"
      /\ pc'[t] \notin {"check", "lock", "closeLock", "logoff"}
  BY <1>1 DEF Asking, Parsing, Resetting, Receiving
<1>5. ClientView'
  <2>1. ASSUME NEW i \in 1..Len(toClient'), toClient'[i].type = "DATA"
        PROVE  DataInFlight(i)'
    <3>1. DataInFlight(i + 1)
      BY <1>0, <1>3, <2>1 DEF Views, ClientView
    <3>2. toClient'[i] = toClient[i + 1] /\ owner' = t /\ req' = req
      BY <1>1, <1>3
    <3>3. toClient'[i].req = req'[t] /\ SoundPacket(toClient'[i])
      BY <1>1, <3>1, <3>2 DEF DataInFlight
    <3>4. toClient'[i].last => i = Len(toClient')
      BY <1>2, <1>3, <3>1, <3>2, BehindFirst DEF DataInFlight
    <3> QED
      BY <1>4, <3>2, <3>3, <3>4 DEF DataInFlight, SoundPacket
  <2>2. ASSUME NEW i \in 1..Len(toClient'), toClient'[i].type = "MARKER"
        PROVE  MarkerInFlight(i)'
    <3>1. MarkerInFlight(i + 1)
      BY <1>0, <1>3, <2>2 DEF Views, ClientView
    <3>2. \A j \in 1..(i + 1) : toClient[j].type = "MARKER"
      BY <1>1, <3>1 DEF MarkerInFlight
    <3>3. ASSUME NEW j \in 1..i PROVE toClient'[j].type = "MARKER"
      <4>1. j \in 1..Len(toClient') /\ j + 1 \in 1..(i + 1)
        BY <1>3
      <4> QED
        BY <1>3, <3>2, <4>1
    <3> QED
      BY <1>1, <1>4, <3>3 DEF MarkerInFlight
  <2> QED
    BY <1>0, <1>1, <1>4, <2>1, <2>2 DEF ClientView
<1>6. AccView'
  <2>1. ASSUME NEW u \in Tasks \ {t}, pc[u] \in Receiving
        PROVE  FALSE
    BY <1>0, <1>1, <2>1 DEF LockView, Holding
  <2> QED
    BY <1>0, <1>1, <1>2, <1>4, <2>1 DEF Views, AccView, SoundPacket
<1>7. Attribution'
  BY <1>0, <1>1, <1>4 DEF Views, Attribution, Delivered, Parsing
<1>8. ServerView'
  <2> SUFFICES ASSUME Connected' PROVE (Quiet \/ Answered)'
    BY DEF ServerView
  <2>0. Quiet \/ Asked \/ Answered \/ Interrupted \/ ResetSent
    BY <1>0, <1>1 DEF Views, ServerView, Connected
  <2>1. CASE Quiet
    <3>1. LastArrived
      BY <1>0, <1>1, <1>2, <2>1 DEF Quiet, Parsing, Resetting
    <3>2. LastArrived'
      BY <1>1, <1>2, <1>3, <3>1 DEF LastArrived
    <3> QED
      BY <1>1, <2>1, <3>2 DEF Quiet
  <2>2. CASE Answered
    <3>1. \A i \in 1..Len(toClient') : toClient'[i].type = "DATA" => ~toClient'[i].last
      BY <1>3, <2>2 DEF Answered
    <3>2. ~Drained(t)'
      BY <1>1, <1>2 DEF Drained
    <3> QED
      BY <1>0, <1>1, <1>4, <2>2, <3>1, <3>2 DEF Answered
  <2>3. ~Asked /\ ~Interrupted /\ ~ResetSent
    BY <1>1, <1>4 DEF Asked, Interrupted, ResetSent
  <2> QED
    BY <2>0, <2>1, <2>2, <2>3
<1> QED
  BY <1>5, <1>6, <1>7, <1>8 DEF Views

LEMMA ReadSteps ==
  ASSUME ExchangeInv, TypeOK', NEW t \in Tasks, Read(t)
  PROVE  Views'
<1>0. TypeOK /\ LockView /\ Views
  BY DEF ExchangeInv
<1>1. CASE TailMarker(t)
  <2>1. /\ owner = t /\ pc[t] = "tail" /\ pc[t] \in Receiving
        /\ toClient # <<>> /\ Head(toClient).type = "MARKER"
    BY <1>1 DEF TailMarker, Receive, Receiving
  <2> QED
    BY <1>0, <2>1, AboutToRead DEF MarkerInFlight
<1>2. CASE ReadError(t)
  <2>1. /\ ~Connected' /\ toClient' = <<>> /\ UNCHANGED <<op, req, acc>>
        /\ owner' = NoTask /\ pc'[t] = "return" /\ outcome'[t] \in {"closedByServer", "io"}
        /\ \A u \in Tasks \ {t} : pc'[u] = pc[u] /\ outcome'[u] = outcome[u]
    BY <1>0, <1>2 DEF ReadError, End, wire, Connected, TypeOK
  <2>2. ~Delivered(t)'
    BY <2>1 DEF Delivered
  <2> QED
    BY <1>0, <2>1, <2>2, ReleaseStep
<1>3. CASE RecvLogoff(t)
  <2>1. /\ ~Connected' /\ toClient' = <<>> /\ UNCHANGED <<op, req, acc, outcome>>
        /\ owner' = NoTask /\ pc'[t] = "idle"
        /\ \A u \in Tasks \ {t} : pc'[u] = pc[u]
    BY <1>0, <1>3 DEF RecvLogoff, DropStream, Connected, TypeOK
  <2>2. ~Delivered(t)' /\ outcome'[t] # "garbled"
    BY <1>0, <2>1 DEF Delivered, Views, Attribution
  <2> QED
    BY <1>0, <2>1, <2>2, ReleaseStep
<1> QED
  BY <1>1, <1>2, <1>3, DataSteps, RecvMarkerStep, SkipMarkerStep DEF Read

(***************************************************************************)
(* Steps of the server: each finds the exchange at one point and takes it  *)
(* to the next.                                                            *)
(***************************************************************************)
LEMMA ServerStepFacts ==
  ASSUME ExchangeInv, Connected
  PROVE  /\ srv.mode = "reply" => Answered
         /\ srv.mode = "broken" => Interrupted \/ ResetSent
         /\ srv.mode = "idle" => Quiet \/ Asked
         /\ \A t \in Tasks : owner # t => pc[t] \notin Holding
         /\ owner \in Tasks \/ owner = NoTask
  BY DEF ExchangeInv, Views, ServerView, Quiet, Asked, Answered, Interrupted, ResetSent, Idle,
         LockView, TypeOK

\* AccView and Attribution while only the wire changes and the owner has not read the end.
LEMMA WireStep ==
  ASSUME ExchangeInv, owner \in Tasks, pc[owner] \in Receiving \cup {"logoff"},
         ~Drained(owner),
         UNCHANGED <<owner, stream, pc, op, req, acc, outcome, issued>>
  PROVE  AccView' /\ Attribution'
<1>0. TypeOK /\ LockView /\ Views
  BY DEF ExchangeInv
<1>1. \A t \in Tasks : owner # t => pc[t] \notin Receiving
  BY <1>0 DEF LockView, Holding
<1>2. pc[owner] \in Receiving => \A i \in 1..Len(acc[owner]) : ~acc[owner][i].last
  <2> SUFFICES ASSUME pc[owner] \in Receiving, NEW i \in 1..Len(acc[owner]), acc[owner][i].last
               PROVE  FALSE
    OBVIOUS
  <2>1. i = Len(acc[owner])
    BY <1>0 DEF Views, AccView
  <2>2. acc[owner] # <<>>
    OBVIOUS
  <2> QED
    BY <2>1, <2>2 DEF Drained
<1>3. AccView'
  BY <1>0, <1>1, <1>2 DEF Views, AccView, SoundPacket
<1>4. Attribution'
  BY <1>0 DEF Views, Attribution, Delivered
<1> QED
  BY <1>3, <1>4

LEMMA SrvTakeStep ==
  ASSUME ExchangeInv, TypeOK', SoundReplies, SrvTake
  PROVE  Views'
<1>0. TypeOK /\ LockView /\ Views /\ NoTask \notin Tasks
  BY ExchangeConstants DEF ExchangeInv
<1>1. /\ UNCHANGED <<owner, stream, pc, op, req, acc, outcome, issued, toClient, peerOpen>>
      /\ Connected /\ srv.mode = "idle" /\ toServer # <<>> /\ toServer' = Tail(toServer)
  BY DEF SrvTake, conn, task, Idle
<1>2. Asked
  BY <1>1, ServerStepFacts DEF Quiet
<1>3. /\ owner \in Tasks /\ pc[owner] \in Asking /\ ~Drained(owner)
      /\ Len(toServer) = 1 /\ toServer[1].req = req[owner] /\ toServer[1].op = op[owner]
      /\ toClient = <<>> /\ Head(toServer) = toServer[1]
  BY <1>0, <1>2 DEF Asked, TypeOK
<1>4. AccView' /\ Attribution'
  BY <1>1, <1>3, WireStep DEF Asking, Receiving
<1>5. ClientView'
  BY <1>0, <1>1, <1>3 DEF ClientView, Parsing, Asking
<1>6. PICK shape \in Replies[op[owner]] : srv' = Replying(req[owner], shape, 0, MayBreak)
  BY <1>3 DEF SrvTake
<1>7. /\ op[owner] \in OpKinds /\ shape \in Shapes /\ SoundShape(shape)
      /\ op[owner] = "lobsmall" => shape.packets = 1
  BY <1>0, <1>3, <1>6, ExchangeConstants DEF TypeOK, SoundReplies
<1>8. /\ srv'.mode = "reply" /\ srv'.req = req[owner] /\ srv'.sent = 0
      /\ srv'.shape = shape /\ 0 < shape.packets
  BY <1>6, <1>7 DEF Replying, Shapes
<1>9. toServer' = <<>>
  <2>1. toServer \in Seq(Requests \cup Markers)
    BY <1>0 DEF TypeOK
  <2> QED
    BY <1>1, <1>3, <2>1
<1>10. Answered'
  <2>1. \A i \in 1..Len(toClient') : FALSE
    BY <1>1, <1>3
  <2>2. ~Drained(owner)'
    BY <1>1, <1>3 DEF Drained
  <2>3. pc'[owner'] \in Asking /\ owner' # NoTask /\ pc'[owner'] \in Receiving \cup {"logoff"}
    BY <1>0, <1>1, <1>3 DEF Asking, Receiving
  <2>4. srv'.req = req'[owner'] /\ SoundShape(srv'.shape) /\ srv'.sent < srv'.shape.packets
        /\ (op'[owner'] = "lobsmall" => srv'.shape.packets = 1)
    BY <1>1, <1>7, <1>8
  <2> QED
    BY <1>8, <1>9, <2>1, <2>2, <2>3, <2>4 DEF Answered, SoundShape
<1> QED
  BY <1>4, <1>5, <1>10 DEF Views, ServerView

\* A packet joins those in flight.
LEMMA AppendFacts ==
  ASSUME TypeOK, NEW p \in DataPackets \cup Markers, toClient' = Append(toClient, p)
  PROVE  /\ Len(toClient') = Len(toClient) + 1 /\ Len(toClient) \in Nat
         /\ toClient'[Len(toClient')] = p /\ toClient' # <<>>
         /\ \A i \in 1..Len(toClient') :
              i = Len(toClient') \/ (i \in 1..Len(toClient) /\ toClient'[i] = toClient[i])
<1>1. toClient \in Seq(DataPackets \cup Markers)
  BY DEF TypeOK
<1> QED
  BY <1>1

LEMMA SrvSendStep ==
  ASSUME ExchangeInv, TypeOK', SrvSend
  PROVE  Views'
<1> DEFINE p == Data(srv.req, srv.shape, srv.sent + 1)
           end == srv.sent + 1 = srv.shape.packets
<1>0. TypeOK /\ LockView /\ Views /\ NoTask \notin Tasks
  BY ExchangeConstants DEF ExchangeInv
<1>1. /\ UNCHANGED <<owner, stream, pc, op, req, acc, outcome, issued, toServer, peerOpen>>
      /\ Connected /\ srv.mode = "reply" /\ toClient' = Append(toClient, p)
      /\ srv' = IF end THEN Idle ELSE Replying(srv.req, srv.shape, srv.sent + 1, srv.intr)
  BY DEF SrvSend, conn, task
<1>2. Answered
  BY <1>1, ServerStepFacts
<1>3. /\ owner \in Tasks /\ pc[owner] \in Receiving \cup {"logoff"} /\ ~Drained(owner)
      /\ srv.req = req[owner] /\ srv.sent < srv.shape.packets
  BY <1>0, <1>2 DEF Answered, TypeOK
<1>4. srv.req \in ReqIds /\ srv.shape \in Shapes /\ srv.sent \in Nat
  BY <1>0, <1>1, ServerStateType DEF TypeOK
<1>5. p \in DataPackets
  BY <1>4, PacketTypes
<1>6. /\ p.type = "DATA" /\ p.req = req[owner] /\ (p.last <=> end)
      /\ p.lead = srv.shape.lead /\ (p.end => end) /\ (p.hit => end \/ srv.shape.hit)
  BY <1>3 DEF Data
<1>7. SoundPacket(p)
  <2> SUFFICES ASSUME ~end PROVE ~p.hit /\ ~p.end /\ p.lead # "error"
    BY <1>6 DEF SoundPacket
  <2>1. srv.shape.packets \in Nat
    BY <1>4 DEF Shapes
  <2>2. srv.shape.packets > 1
    BY <1>3, <1>4, <2>1
  <2>3. ~srv.shape.hit /\ srv.shape.lead # "error"
    BY <1>2, <2>2 DEF Answered, SoundShape
  <2> QED
    BY <1>6, <2>3
<1>8. pc[owner] = "recv" /\ op[owner] = "lobsmall" => p.last
  <2> SUFFICES ASSUME pc[owner] = "recv", op[owner] = "lobsmall" PROVE end
    BY <1>6
  <2>1. srv.shape.packets = 1
    BY <1>2 DEF Answered
  <2> QED
    BY <1>3, <1>4, <2>1
<1> HIDE DEF p
<1>9. /\ Len(toClient') = Len(toClient) + 1 /\ Len(toClient) \in Nat
      /\ toClient'[Len(toClient')] = p /\ toClient' # <<>>
      /\ \A i \in 1..Len(toClient') :
           i = Len(toClient') \/ (i \in 1..Len(toClient) /\ toClient'[i] = toClient[i])
  BY <1>0, <1>1, <1>5, AppendFacts
<1>10. AccView' /\ Attribution'
  BY <1>1, <1>3, WireStep
<1>11. \A i \in 1..Len(toClient) :
         /\ toClient[i].type = "DATA" => ~toClient[i].last
         /\ pc[owner] \in Asking => toClient[i].type = "DATA"
  BY <1>2 DEF Answered
<1>12. ClientView'
  <2>1. owner' \in Tasks /\ owner' # NoTask /\ pc'[owner'] \notin Parsing
    BY <1>0, <1>1, <1>3 DEF Parsing, Receiving
  <2>2. ASSUME NEW i \in 1..Len(toClient'), toClient'[i].type = "DATA"
        PROVE  DataInFlight(i)'
    <3>1. CASE i = Len(toClient')
      BY <1>1, <1>6, <1>7, <1>8, <1>9, <3>1 DEF DataInFlight, SoundPacket
    <3>2. CASE i \in 1..Len(toClient) /\ toClient'[i] = toClient[i]
      <4>1. DataInFlight(i) /\ ~toClient[i].last
        BY <1>0, <1>11, <2>2, <3>2 DEF Views, ClientView
      <4> QED
        BY <1>1, <3>2, <4>1 DEF DataInFlight, SoundPacket
    <3> QED
      BY <1>9, <3>1, <3>2
  <2>3. ASSUME NEW i \in 1..Len(toClient'), toClient'[i].type = "MARKER"
        PROVE  MarkerInFlight(i)'
    <3>1. i \in 1..Len(toClient) /\ toClient'[i] = toClient[i]
      BY <1>6, <1>9, <2>3
    <3>2. MarkerInFlight(i) /\ pc[owner] \notin Asking
      BY <1>0, <1>11, <2>3, <3>1 DEF Views, ClientView
    <3>3. \A j \in 1..i : toClient'[j] = toClient[j]
      BY <1>9, <3>1
    <3> QED
      BY <1>1, <3>2, <3>3 DEF MarkerInFlight
  <2> QED
    BY <2>1, <2>2, <2>3 DEF ClientView
<1>13. ServerView'
  <2>1. CASE end
    <3>1. LastArrived' /\ srv' = Idle /\ toServer' = <<>>
      BY <1>1, <1>2, <1>6, <1>9, <2>1 DEF LastArrived, Answered
    <3> QED
      BY <3>1 DEF ServerView, Quiet
  <2>2. CASE ~end
    <3>1. /\ srv'.mode = "reply" /\ srv'.req = srv.req /\ srv'.shape = srv.shape
          /\ srv'.sent = srv.sent + 1 /\ srv'.intr = srv.intr
      BY <1>1, <2>2 DEF Replying
    <3>2. srv'.sent < srv'.shape.packets
      <4>1. srv.shape.packets \in Nat
        BY <1>4 DEF Shapes
      <4> QED
        BY <1>3, <1>4, <2>2, <3>1, <4>1
    <3>3. \A i \in 1..Len(toClient') :
            /\ toClient'[i].type = "DATA" => ~toClient'[i].last
            /\ pc[owner] \in Asking => toClient'[i].type = "DATA"
      BY <1>6, <1>9, <1>11, <2>2
    <3>4. ~Drained(owner)'
      BY <1>1, <1>3 DEF Drained
    <3>5. Answered'
      BY <1>1, <1>2, <3>1, <3>2, <3>3, <3>4 DEF Answered, SoundShape
    <3> QED
      BY <3>5 DEF ServerView
  <2> QED
    BY <2>1, <2>2
<1> QED
  BY <1>10, <1>12, <1>13 DEF Views

LEMMA SrvBreakStep ==
  ASSUME ExchangeInv, TypeOK', SrvBreak
  PROVE  Views'
<1> DEFINE m == Marker("BREAK")
<1>0. TypeOK /\ LockView /\ Views /\ NoTask \notin Tasks
  BY ExchangeConstants DEF ExchangeInv
<1>1. /\ UNCHANGED <<owner, stream, pc, op, req, acc, outcome, issued, toServer, peerOpen>>
      /\ Connected /\ srv.mode = "reply" /\ srv.intr /\ toClient' = Append(toClient, m)
      /\ srv' = Broken(srv.req)
  BY DEF SrvBreak, conn, task
<1>2. Answered
  BY <1>1, ServerStepFacts
<1>3. /\ owner \in Tasks /\ pc[owner] \in Asking /\ ~Drained(owner)
      /\ srv.req = req[owner] /\ toServer = <<>>
      /\ \A i \in 1..Len(toClient) : toClient[i].type = "DATA" /\ ~toClient[i].last
  BY <1>0, <1>1, <1>2 DEF Answered, TypeOK
<1>4. m \in DataPackets \cup Markers /\ m.type = "MARKER"
  BY PacketTypes DEF Marker
<1> HIDE DEF m
<1>5. /\ Len(toClient') = Len(toClient) + 1 /\ Len(toClient) \in Nat
      /\ toClient'[Len(toClient')] = m /\ toClient' # <<>>
      /\ \A i \in 1..Len(toClient') :
           i = Len(toClient') \/ (i \in 1..Len(toClient) /\ toClient'[i] = toClient[i])
  BY <1>0, <1>1, <1>4, AppendFacts
<1>6. AccView' /\ Attribution'
  BY <1>1, <1>3, WireStep DEF Asking, Receiving
<1>7. ClientView'
  <2>1. /\ owner' \in Tasks /\ owner' # NoTask /\ pc'[owner'] \notin Parsing
        /\ pc'[owner'] # "tail" /\ pc'[owner'] \notin Resetting
    BY <1>0, <1>1, <1>3 DEF Parsing, Asking, Resetting
  <2>2. ASSUME NEW i \in 1..Len(toClient'), toClient'[i].type = "DATA"
        PROVE  DataInFlight(i)'
    <3>1. i \in 1..Len(toClient) /\ toClient'[i] = toClient[i]
      BY <1>4, <1>5, <2>2
    <3>2. DataInFlight(i) /\ ~toClient[i].last
      BY <1>0, <1>3, <2>2, <3>1 DEF Views, ClientView
    <3> QED
      BY <1>1, <3>1, <3>2 DEF DataInFlight, SoundPacket
  <2>3. ASSUME NEW i \in 1..Len(toClient'), toClient'[i].type = "MARKER"
        PROVE  MarkerInFlight(i)'
    <3>1. i = Len(toClient')
      BY <1>3, <1>5, <2>3
    <3> QED
      BY <2>1, <3>1 DEF MarkerInFlight
  <2> QED
    BY <2>1, <2>2, <2>3 DEF ClientView
<1>8. Interrupted'
  <2>1. srv'.mode = "broken" /\ srv'.req = req'[owner']
    BY <1>1, <1>3 DEF Broken
  <2>2. ~Drained(owner)'
    BY <1>1, <1>3 DEF Drained
  <2> QED
    BY <1>0, <1>1, <1>3, <1>4, <1>5, <2>1, <2>2 DEF Interrupted
<1> QED
  BY <1>6, <1>7, <1>8 DEF Views, ServerView

LEMMA SrvResetStep ==
  ASSUME ExchangeInv, TypeOK', SoundReplies, SrvReset
  PROVE  Views'
<1>0. TypeOK /\ LockView /\ Views /\ NoTask \notin Tasks
  BY ExchangeConstants DEF ExchangeInv
<1>1. /\ UNCHANGED <<owner, stream, pc, op, req, acc, outcome, issued, peerOpen>>
      /\ Connected /\ srv.mode = "broken" /\ toServer # <<>> /\ toServer' = Tail(toServer)
  BY DEF SrvReset, conn, task
<1>2. ResetSent
  BY <1>1, ServerStepFacts DEF Interrupted
<1>3. /\ owner \in Tasks /\ pc[owner] = "awaitReset" /\ ~Drained(owner)
      /\ srv.req = req[owner] /\ toClient = <<>> /\ Len(toServer) = 1
  BY <1>0, <1>2 DEF ResetSent, TypeOK
<1>4. PICK ack \in Acks, shape \in ErrorReplies :
        toClient' = toClient \o ack /\ srv' = Replying(srv.req, shape, 0, FALSE)
  BY DEF SrvReset
<1>5. \A i \in 1..Len(toClient') : toClient'[i].type = "MARKER"
  <2>1. Marker("RESET").type = "MARKER"
    BY DEF Marker
  <2>2. ack \in Seq({Marker("RESET")})
    <3>1. CASE ack = <<>>
      BY <3>1
    <3>2. CASE ack = <<Marker("RESET")>>
      BY <3>2
    <3>3. CASE ack = <<Marker("RESET"), Marker("RESET")>>
      BY <3>3
    <3> QED
      BY <3>1, <3>2, <3>3 DEF Acks
  <2>3. toClient' = ack
    BY <1>3, <1>4, <2>2
  <2> QED
    BY <2>1, <2>2, <2>3
<1>6. AccView' /\ Attribution'
  BY <1>1, <1>3, WireStep DEF Receiving
<1>7. ClientView'
  <2>1. /\ owner' \in Tasks /\ owner' # NoTask /\ pc'[owner'] \notin Parsing
        /\ pc'[owner'] # "tail" /\ pc'[owner'] \notin Asking
    BY <1>0, <1>1, <1>3 DEF Parsing, Asking
  <2>2. ASSUME NEW i \in 1..Len(toClient')
        PROVE  MarkerInFlight(i)'
    <3>1. \A j \in 1..i : toClient'[j].type = "MARKER"
      <4>1. Len(toClient') \in Nat
        BY DEF TypeOK
      <4> QED
        BY <1>5, <4>1
    <3> QED
      BY <2>1, <3>1 DEF MarkerInFlight
  <2> QED
    BY <1>5, <2>1, <2>2 DEF ClientView
<1>8. Answered'
  <2>1. /\ srv'.mode = "reply" /\ srv'.req = req'[owner'] /\ srv'.shape = shape
        /\ srv'.sent = 0 /\ srv'.intr = FALSE
    BY <1>1, <1>3, <1>4 DEF Replying
  <2>2. SoundShape(shape) /\ 0 < shape.packets
    BY ExchangeConstants DEF SoundReplies, Shapes
  <2>3. toServer' = <<>>
    <3>1. toServer \in Seq(Requests \cup Markers)
      BY <1>0 DEF TypeOK
    <3> QED
      BY <1>1, <1>3, <3>1
  <2>4. ~Drained(owner)'
    BY <1>1, <1>3 DEF Drained
  <2>5. /\ owner' # NoTask /\ pc'[owner'] \in Receiving /\ pc'[owner'] \notin Asking
        /\ pc'[owner'] # "recv"
    BY <1>0, <1>1, <1>3 DEF Receiving, Asking
  <2> QED
    BY <1>5, <2>1, <2>2, <2>3, <2>4, <2>5 DEF Answered, SoundShape
<1> QED
  BY <1>6, <1>7, <1>8 DEF Views, ServerView

LEMMA SrvDropStep ==
  ASSUME ExchangeInv, TypeOK', SrvDrop
  PROVE  Views'
<1>0. TypeOK /\ LockView /\ Views
  BY DEF ExchangeInv
<1>1. /\ UNCHANGED <<owner, stream, pc, op, req, acc, outcome, issued>>
      /\ ~Connected' /\ toClient' \in {toClient, <<>>}
  BY DEF SrvDrop, conn, task, Connected
<1>2. ClientView'
  <2>1. CASE toClient' = toClient
    BY <1>0, <1>1, <2>1 DEF Views, ClientView, DataInFlight, MarkerInFlight, SoundPacket
  <2>2. CASE toClient' = <<>>
    BY <2>2 DEF ClientView
  <2> QED
    BY <1>1, <2>1, <2>2
<1>3. AccView'
  BY <1>0, <1>1 DEF Views, AccView, SoundPacket
<1>4. Attribution'
  BY <1>0, <1>1 DEF Views, Attribution, Delivered
<1> QED
  BY <1>1, <1>2, <1>3, <1>4 DEF Views, ServerView

LEMMA ServerSteps ==
  ASSUME ExchangeInv, TypeOK', SoundReplies, ServerStep
  PROVE  Views'
<1>1. ~SrvDiscard
  <2> SUFFICES ASSUME SrvDiscard PROVE FALSE
    OBVIOUS
  <2>1. /\ Connected /\ toServer # <<>>
        /\ \/ srv.mode = "broken" /\ Head(toServer).type = "REQUEST"
           \/ srv.mode = "idle" /\ Head(toServer).type = "MARKER"
    BY DEF SrvDiscard
  <2>2. (srv.mode = "broken" /\ ResetSent) \/ (srv.mode = "idle" /\ Asked)
    BY <2>1, ServerStepFacts DEF Interrupted, Quiet
  <2>3. Head(toServer) = toServer[1]
    BY <2>1 DEF ExchangeInv, TypeOK
  <2> QED
    BY <2>1, <2>2, <2>3 DEF ResetSent, Asked
<1> QED
  BY <1>1, SrvTakeStep, SrvSendStep, SrvBreakStep, SrvResetStep, SrvDropStep
     DEF ServerStep, Answering

LEMMA ExchangeStep ==
  ASSUME SoundReplies, ~MayCancel, ExchangeInv, [Next]_vars
  PROVE  ExchangeInv'
<1>0. TypeOK /\ LockView /\ Views
  BY DEF ExchangeInv
<1>1. TypeOK'
  BY <1>0, TypeStep
<1>2. LockView'
  BY <1>0, LockStep
<1>3. ASSUME NEW t \in Tasks, TaskStep(t) PROVE Views'
  BY <1>1, <1>3, OutsideSteps, AcquireSteps, ReadSteps, ParsedSteps
     DEF TaskStep, Acquire, Cancel
<1>4. ASSUME ServerStep PROVE Views'
  BY <1>1, <1>4, ServerSteps
<1>5. ASSUME MarkClosed \/ UNCHANGED vars PROVE Views'
  <2>1. UNCHANGED <<owner, stream, pc, op, req, acc, outcome, toServer, toClient, peerOpen, srv>>
    BY <1>5 DEF MarkClosed, vars, conn, task, wire
  <2>2. ClientView'
    BY <1>0, <2>1 DEF Views, ClientView, DataInFlight, MarkerInFlight, SoundPacket
  <2>3. AccView'
    BY <1>0, <2>1 DEF Views, AccView, SoundPacket
  <2>4. ServerView'
    BY <1>0, <2>1 DEF Views, ServerView, Connected, Quiet, Asked, Answered, Interrupted,
                      ResetSent, LastArrived, Drained, SoundShape
  <2>5. Attribution'
    BY <1>0, <2>1 DEF Views, Attribution, Delivered
  <2> QED
    BY <2>2, <2>3, <2>4, <2>5 DEF Views
<1>6. Views'
  BY <1>3, <1>4, <1>5 DEF Next
<1> QED
  BY <1>1, <1>2, <1>6 DEF ExchangeInv

LEMMA ExchangeInit == Init => ExchangeInv
<1> SUFFICES ASSUME Init PROVE ExchangeInv
  OBVIOUS
<1>1. /\ owner = NoTask /\ toClient = <<>> /\ toServer = <<>> /\ srv = Idle
      /\ \A t \in Tasks : pc[t] = "idle" /\ outcome[t] = "none"
  BY DEF Init
<1>2. LockView
  BY <1>1, ExchangeConstants DEF LockView, Holding, Receiving
<1>3. ClientView /\ ServerView
  BY <1>1 DEF ClientView, ServerView, Quiet
<1>4. AccView /\ Attribution
  BY <1>1 DEF AccView, Attribution, Delivered, Receiving
<1> QED
  BY <1>2, <1>3, <1>4, InitType DEF ExchangeInv, Views

(***************************************************************************)
(* With a server that marks the end of its responses (SoundReplies) and    *)
(* callers that await their operations to the end, every operation is      *)
(* answered with the packets of its own response, all of them, whatever    *)
(* BREAKs, RESETs, errors and closes happen: the receive loops and the     *)
(* RESET handshake under the mutex never mix two exchanges.                *)
(***************************************************************************)
THEOREM ResponsesAttributed ==
  ASSUME SoundReplies, ~MayCancel
  PROVE  Spec => []Attribution
<1>1. Init => ExchangeInv
  BY ExchangeInit
<1>2. ExchangeInv /\ [Next]_vars => ExchangeInv'
  BY ExchangeStep
<1>3. ExchangeInv => Attribution
  BY DEF ExchangeInv, Views
<1> QED
  BY <1>1, <1>2, <1>3, PTL DEF Spec

(***************************************************************************)
(* Under the same assumptions an operation leaves nothing in flight behind *)
(* it: the mutex is never given back on a connection that is up and has    *)
(* unread packets, an unanswered request or a server still busy.           *)
(***************************************************************************)
THEOREM WireLeftClean ==
  ASSUME SoundReplies, ~MayCancel
  PROVE  Spec => []CleanWire
<1>1. Init => ExchangeInv
  BY ExchangeInit
<1>2. ExchangeInv /\ [Next]_vars => ExchangeInv'
  BY ExchangeStep
<1>3. ExchangeInv => CleanWire
  BY FreeMeansQuiet DEF ExchangeInv, CleanWire, Connected
<1> QED
  BY <1>1, <1>2, <1>3, PTL DEF Spec

----------------------------------------------------------------------------
\* Closing

IsLogoff(packet) == packet.type = "REQUEST" /\ packet.op = "logoff"

\* While a Logoff may be in flight on a live stream, its sender holds the mutex.
LogoffView ==
  /\ \A t \in Tasks : pc[t] \in {"check", "lock"} => op[t] # "logoff"
  /\ \A i \in 1..Len(toServer) :
       IsLogoff(toServer[i]) =>
         i = Len(toServer) /\ (stream => \E t \in Tasks : owner = t /\ pc[t] = "logoff")

\* A task that does not wait for the answer to a Logoff meets none on a live stream.
LEMMA NoLogoffMet ==
  ASSUME LogoffView, stream, owner = NoTask \/ \E t \in Tasks : owner = t /\ pc[t] # "logoff"
  PROVE  \A i \in 1..Len(toServer) : ~IsLogoff(toServer[i])
BY ExchangeConstants DEF LogoffView

LEMMA SentBehind ==
  ASSUME LogoffView, TypeOK, NEW p, SendOk(p), ~IsLogoff(p),
         owner = NoTask \/ \E t \in Tasks : owner = t /\ pc[t] # "logoff"
  PROVE  \A i \in 1..Len(toServer') : ~IsLogoff(toServer'[i])
<1>1. \A i \in 1..Len(toServer) : ~IsLogoff(toServer[i])
  BY NoLogoffMet DEF SendOk
<1>2. toServer' = Append(toServer, p) /\ toServer \in Seq(Requests \cup Markers)
  BY DEF SendOk, TypeOK
<1>3. Len(toServer') = Len(toServer) + 1 /\ toServer'[Len(toServer) + 1] = p
      /\ \A i \in 1..Len(toServer) : toServer'[i] = toServer[i]
  BY <1>2
<1> QED BY <1>1, <1>2, <1>3

\* A packet read by the server leaves the rest in order.
LEMMA TakenFromServer ==
  ASSUME LogoffView, TypeOK, toServer # <<>>, toServer' = Tail(toServer), UNCHANGED <<conn, task>>
  PROVE  LogoffView'
<1>1. toServer \in Seq(Requests \cup Markers)
  BY DEF TypeOK
<1>2. Len(toServer') = Len(toServer) - 1 /\ \A i \in 1..Len(toServer') : toServer'[i] = toServer[i + 1]
  BY <1>1
<1>3. \A i \in 1..Len(toServer') : i + 1 \in 1..Len(toServer)
  BY <1>1, <1>2
<1>4. \A i \in 1..Len(toServer') : IsLogoff(toServer'[i]) =>
        i = Len(toServer') /\ (stream => \E t \in Tasks : owner = t /\ pc[t] = "logoff")
  <2> SUFFICES ASSUME NEW i \in 1..Len(toServer'), IsLogoff(toServer'[i])
               PROVE  i = Len(toServer') /\ (stream => \E t \in Tasks : owner = t /\ pc[t] = "logoff")
    OBVIOUS
  <2>1. i + 1 \in 1..Len(toServer) /\ IsLogoff(toServer[i + 1])
    BY <1>2, <1>3
  <2>2. i + 1 = Len(toServer) /\ (stream => \E t \in Tasks : owner = t /\ pc[t] = "logoff")
    BY <2>1 DEF LogoffView
  <2>3. Len(toServer) \in Nat /\ i \in Nat
    BY <1>1
  <2>4. i = Len(toServer')
    <3>1. Len(toServer') = Len(toServer) - 1
      BY <1>2
    <3> QED BY <2>2, <2>3, <3>1
  <2> QED BY <2>2, <2>4
<1> QED BY <1>4 DEF LogoffView, conn, task

LEMMA LogoffStep ==
  ASSUME TypeOK, LockView, LogoffView, ~MayCancel, [Next]_vars
  PROVE  LogoffView'
<1>0. NoTask \notin Tasks /\ pc \in [Tasks -> Points] /\ op \in [Tasks -> OpKinds]
  BY ExchangeConstants DEF TypeOK
<1>1. ASSUME NEW t \in Tasks, NEW o \in Ops, Begin(t, o) PROVE LogoffView'
  BY <1>0, <1>1, ExchangeConstants DEF Begin, LogoffView, conn, wire, UserOps
<1>2. ASSUME NEW t \in Tasks, CheckState(t) PROVE LogoffView'
  BY <1>0, <1>2 DEF CheckState, LogoffView, conn, wire
<1>3. ASSUME NEW t \in Tasks, LockAndSend(t) PROVE LogoffView'
  <2>1. owner = NoTask /\ pc[t] = "lock" /\ op' = op /\ stream' = stream
    BY <1>3 DEF LockAndSend
  <2>2. op[t] # "logoff"
    BY <2>1 DEF LogoffView
  <2>3. CASE SendOk(Request(req[t], op[t], sequence_number')) /\ pc' = [pc EXCEPT ![t] = "recv"]
    <3>1. ~IsLogoff(Request(req[t], op[t], sequence_number'))
      BY <2>2 DEF IsLogoff, Request
    <3>2. \A i \in 1..Len(toServer') : ~IsLogoff(toServer'[i])
      BY <2>1, <2>3, <3>1, SentBehind
    <3> QED BY <1>0, <2>1, <2>3, <3>2 DEF LogoffView
  <2>4. CASE pc' = [pc EXCEPT ![t] = "return"] /\ toServer' = toServer
    BY <1>0, <2>1, <2>4 DEF LogoffView
  <2> QED BY <1>3, <2>3, <2>4 DEF LockAndSend, SendFails, End
<1>4. ASSUME NEW t \in Tasks, CloseLocked(t) PROVE LogoffView'
  <2>1. owner = NoTask /\ pc[t] = "closeLock" /\ op' = op
    BY <1>4 DEF CloseLocked
  <2>2. CASE DropStream(t) /\ toServer' = toServer
    BY <1>0, <2>1, <2>2 DEF LogoffView, DropStream
  <2>3. CASE /\ SendOk(Request(0, "logoff", sequence_number')) /\ owner' = t
             /\ pc' = [pc EXCEPT ![t] = "logoff"]
    <3>1. \A i \in 1..Len(toServer) : ~IsLogoff(toServer[i])
      BY <2>1, <2>3, NoLogoffMet DEF SendOk
    <3>2. PICK p : toServer' = Append(toServer, p) /\ toServer \in Seq(Requests \cup Markers)
      BY <2>3 DEF SendOk, TypeOK
    <3>3. Len(toServer') = Len(toServer) + 1
          /\ \A i \in 1..Len(toServer) : toServer'[i] = toServer[i]
      BY <3>2
    <3>4. \A i \in 1..Len(toServer') : IsLogoff(toServer'[i]) => i = Len(toServer')
      <4>1. Len(toServer) \in Nat
        BY <3>2
      <4> QED BY <3>1, <3>3, <4>1 DEF IsLogoff
    <3> QED BY <1>0, <2>1, <2>3, <3>4 DEF LogoffView
  <2> QED BY <1>4, <2>2, <2>3 DEF CloseLocked, SendFails
<1>5. ASSUME NEW t \in Tasks, owner = t, pc[t] # "logoff",
             op' = op \/ (pc'[t] = "recv" /\ \A u \in Tasks \ {t} : op'[u] = op[u]),
             stream' = stream,
             \E p \in Points \ {"check", "lock"} : pc' = [pc EXCEPT ![t] = p],
             \/ toServer' = toServer
             \/ \E x : SendOk(x) /\ ~IsLogoff(x)
      PROVE  LogoffView'
  <2>1. CASE stream
    <3>1. \A i \in 1..Len(toServer') : ~IsLogoff(toServer'[i])
      BY <1>5, <2>1, NoLogoffMet, SentBehind
    <3> QED BY <1>0, <1>5, <3>1 DEF LogoffView
  <2>2. CASE ~stream
    <3>1. toServer' = toServer
      BY <1>5, <2>2 DEF SendOk
    <3> QED BY <1>0, <1>5, <2>2, <3>1 DEF LogoffView
  <2> QED BY <2>1, <2>2
<1>6. ASSUME NEW t \in Tasks, Read(t) PROVE LogoffView'
  <2>1. CASE RecvLogoff(t)
    BY <1>0, <2>1 DEF RecvLogoff, DropStream, LogoffView
  <2>2. CASE RecvMarker(t)
    BY <1>5, <2>2 DEF RecvMarker, Receive, End, SendFails, IsLogoff, Marker, Points, Holding, Receiving
  <2>3. CASE RecvData(t) \/ SkipMarker(t) \/ TailData(t)
    <3>1. /\ owner = t /\ pc[t] \in Receiving /\ op' = op /\ stream' = stream /\ toServer' = toServer
          /\ \E p \in {"parse", "recv", "postReset", "parseError", "tail", pc[t]} :
               pc' = [pc EXCEPT ![t] = p]
      BY <2>3 DEF RecvData, SkipMarker, TailData, Receive, conn, Receiving
    <3> QED BY <1>5, <3>1 DEF Points, Holding, Receiving
  <2>4. CASE TailMarker(t) \/ ReadError(t)
    BY <1>5, <2>4 DEF TailMarker, ReadError, Receive, End, wire, Points, Holding, Receiving
  <2> QED BY <1>6, <2>1, <2>2, <2>3, <2>4 DEF Read
<1>7. ASSUME NEW t \in Tasks, Finish(t) PROVE LogoffView'
  BY <1>5, <1>7 DEF Finish, End, wire, Points
<1>8. ASSUME NEW t \in Tasks, SendDefine(t) PROVE LogoffView'
  <2>1. /\ owner = t /\ pc[t] = "parse" /\ op' = [op EXCEPT ![t] = "define"] /\ stream' = stream
    BY <1>8 DEF SendDefine
  <2>2. CASE /\ SendOk(Request(issued + 1, "define", sequence_number'))
             /\ pc' = [pc EXCEPT ![t] = "recv"]
    <3>1. ~IsLogoff(Request(issued + 1, "define", sequence_number'))
      BY DEF IsLogoff, Request
    <3>2. \A i \in 1..Len(toServer') : ~IsLogoff(toServer'[i])
      BY <2>1, <2>2, <3>1, SentBehind
    <3> QED BY <1>0, <2>1, <2>2, <3>2 DEF LogoffView
  <2>3. CASE stream /\ toServer' = toServer /\ pc' = [pc EXCEPT ![t] = "return"]
    <3>1. \A i \in 1..Len(toServer') : ~IsLogoff(toServer'[i])
      BY <2>1, <2>3, NoLogoffMet
    <3> QED BY <1>0, <2>1, <2>3, <3>1 DEF LogoffView
  <2> QED BY <1>8, <2>2, <2>3 DEF SendDefine, SendFails, End
<1>9. ASSUME NEW t \in Tasks, FetchMore(t) PROVE LogoffView'
  <2>1. /\ owner = t /\ pc[t] = "parse" /\ op' = [op EXCEPT ![t] = "fetch"]
        /\ stream' = stream /\ toServer' = toServer
        /\ \E p \in {"return", "check"} : pc' = [pc EXCEPT ![t] = p]
    BY <1>9 DEF FetchMore, wire
  <2>2. stream => \A i \in 1..Len(toServer) : ~IsLogoff(toServer[i])
    BY <2>1, NoLogoffMet
  <2> QED BY <1>0, <2>1, <2>2 DEF LogoffView
<1>10. ASSUME NEW t \in Tasks, Return(t) \/ BeginClose(t) PROVE LogoffView'
  BY <1>0, <1>10 DEF Return, BeginClose, LogoffView, wire
<1>11. ASSUME NEW t \in Tasks, Cancel(t) PROVE LogoffView'
  BY <1>11 DEF Cancel
<1>12. CASE MarkClosed
  BY <1>12 DEF MarkClosed, LogoffView, task, wire
<1>13. CASE SrvTake \/ SrvReset \/ SrvDiscard
  BY <1>13, TakenFromServer DEF SrvTake, SrvReset, SrvDiscard, conn, task
<1>14. CASE SrvSend \/ SrvBreak \/ SrvDrop
  BY <1>14 DEF SrvSend, SrvBreak, SrvDrop, LogoffView, conn, task
<1>15. CASE UNCHANGED vars
  BY <1>15 DEF vars, conn, task, wire, LogoffView
<1> QED
  BY <1>1, <1>2, <1>3, <1>4, <1>6, <1>7, <1>8, <1>9, <1>10, <1>11, <1>12, <1>13, <1>14, <1>15
  DEF Next, TaskStep, Acquire, Parsed, ServerStep, Answering

(***************************************************************************)
(* With callers that await close() to the end, nothing is sent behind a    *)
(* Logoff: its sender holds the mutex until the stream is dropped.         *)
(***************************************************************************)
THEOREM NothingBehindLogoff ==
  ASSUME ~MayCancel
  PROVE  Spec => []LogoffLast
<1>1. Init => LogoffView
  <2> SUFFICES ASSUME Init PROVE LogoffView
    OBVIOUS
  <2> QED BY DEF Init, LogoffView
<1>2. TypeOK /\ LockView /\ LogoffView /\ [Next]_vars => LogoffView'
  BY LogoffStep
<1>3. LogoffView => LogoffLast
  BY DEF LogoffView, LogoffLast, IsLogoff
<1> QED
  BY <1>1, <1>2, <1>3, TypeCorrect, OneExchangeAtATime, PTL DEF Spec

\* Of a connection in state Closed nothing is left to read or to parse.
ClosedView ==
  state = "Closed" =>
    /\ toClient = <<>>
    /\ ~Connected
    /\ \A t \in Tasks : pc[t] \notin {"parse", "parseError"}

LEMMA ClosedStep ==
  ASSUME TypeOK, LockView, ClosedView, [Next]_vars
  PROVE  ClosedView'
<1>0. NoTask \notin Tasks /\ pc \in [Tasks -> Points]
  BY ExchangeConstants DEF TypeOK
<1>1. ASSUME NEW t \in Tasks, (\E o \in Ops : Begin(t, o)) \/ CheckState(t) \/ Return(t)
                              \/ BeginClose(t) \/ Cancel(t)
      PROVE  ClosedView'
  BY <1>0, <1>1 DEF Begin, CheckState, Return, BeginClose, Cancel, ClosedView, Connected,
                    conn, wire
<1>2. ASSUME NEW t \in Tasks, LockAndSend(t) PROVE ClosedView'
  BY <1>0, <1>2 DEF LockAndSend, End, ClosedView, Connected
<1>3. ASSUME NEW t \in Tasks, DropStream(t), owner = t \/ owner = NoTask PROVE ClosedView'
  <2>1. \A u \in Tasks : pc'[u] \notin {"parse", "parseError"}
    BY <1>0, <1>3 DEF DropStream, LockView, Holding
  <2> QED BY <1>3, <2>1 DEF DropStream, ClosedView, Connected
<1>4. ASSUME NEW t \in Tasks, CloseLocked(t) PROVE ClosedView'
  <2>1. CASE state = "Ready" /\ state' = state
    BY <2>1 DEF ClosedView
  <2>2. CASE DropStream(t)
    BY <1>3, <1>4, <2>2 DEF CloseLocked
  <2> QED BY <1>4, <2>1, <2>2 DEF CloseLocked
<1>5. ASSUME NEW t \in Tasks, Read(t) PROVE ClosedView'
  <2>1. CASE RecvLogoff(t)
    BY <1>3, <2>1 DEF RecvLogoff
  <2>2. CASE ReadError(t)
    <3>1. \A u \in Tasks : pc'[u] \notin {"parse", "parseError"}
      BY <1>0, <2>2 DEF ReadError, End, LockView, Holding
    <3> QED BY <2>2, <3>1 DEF ReadError, ClosedView, Connected, wire
  <2>3. CASE RecvData(t) \/ RecvMarker(t) \/ SkipMarker(t) \/ TailData(t) \/ TailMarker(t)
    <3>1. toClient # <<>> /\ state' = state
      BY <2>3 DEF RecvData, RecvMarker, SkipMarker, TailData, TailMarker, Receive, conn
    <3> QED BY <3>1 DEF ClosedView
  <2> QED BY <1>5, <2>1, <2>2, <2>3 DEF Read
<1>6. ASSUME NEW t \in Tasks, Parsed(t) PROVE ClosedView'
  <2>1. pc[t] \in {"parse", "parseError"} /\ state' = state
    BY <1>6 DEF Parsed, Finish, SendDefine, FetchMore
  <2> QED BY <2>1 DEF ClosedView
<1>7. CASE MarkClosed \/ UNCHANGED vars
  BY <1>7 DEF MarkClosed, ClosedView, Connected, vars, conn, task, wire
<1>8. CASE ServerStep
  <2>1. Connected /\ state' = state
    BY <1>8 DEF ServerStep, Answering, SrvTake, SrvSend, SrvReset, SrvDiscard, SrvBreak,
                SrvDrop, conn
  <2> QED BY <2>1 DEF ClosedView
<1> QED
  BY <1>1, <1>2, <1>4, <1>5, <1>6, <1>7, <1>8 DEF Next, TaskStep, Acquire

\* What a step may do to a connection that is marked closed or in state Closed.
LEMMA ClosedStays ==
  ASSUME TypeOK, ClosedView, [Next]_vars
  PROVE  /\ closed => closed'
         /\ state = "Closed" =>
              /\ state' = "Closed"
              /\ \A t \in Tasks : outcome'[t] = "answered" => outcome[t] = "answered"
<1>0. outcome \in [Tasks -> Outcomes]
  BY DEF TypeOK
<1>1. ASSUME NEW t \in Tasks, Acquire(t) \/ Read(t)
      PROVE  closed' = closed /\ (state' = state \/ state' = "Closed")
             /\ \A u \in Tasks : outcome'[u] = "answered" => outcome[u] = "answered"
  <2>1. closed' = closed /\ (state' = state \/ state' = "Closed")
    BY <1>1 DEF Acquire, CheckState, LockAndSend, CloseLocked, DropStream, Read, RecvData,
                RecvMarker, SkipMarker, TailData, TailMarker, ReadError, RecvLogoff, conn
  <2>2. CASE Acquire(t)
    <3>1. outcome' = outcome \/ \E r \in Outcomes \ {"answered"} :
                                  outcome' = [outcome EXCEPT ![t] = r]
      BY <2>2 DEF Acquire, CheckState, LockAndSend, CloseLocked, End, Outcomes,
                  ConnErrors
    <3> QED BY <1>0, <2>1, <3>1
  <2>3. CASE Read(t)
    <3>1. outcome' = outcome \/ \E r \in Outcomes \ {"answered"} :
                                  outcome' = [outcome EXCEPT ![t] = r]
      BY <2>3 DEF Read, RecvData, RecvMarker, SkipMarker, TailData, TailMarker, ReadError,
                  RecvLogoff, End, Outcomes, ConnErrors
    <3> QED BY <1>0, <2>1, <3>1
  <2> QED BY <1>1, <2>2, <2>3
<1>2. ASSUME NEW t \in Tasks, Parsed(t) PROVE state # "Closed" /\ closed' = closed
  BY <1>2 DEF Parsed, Finish, SendDefine, FetchMore, ClosedView
<1>3. ASSUME NEW t \in Tasks, (\E o \in Ops : Begin(t, o)) \/ Return(t) \/ BeginClose(t)
                              \/ Cancel(t)
      PROVE  (closed => closed') /\ state' = state
             /\ \A u \in Tasks : outcome'[u] = "answered" => outcome[u] = "answered"
  <2>1. closed => closed'
    BY <1>3 DEF Begin, Return, BeginClose, Cancel, conn
  <2>2. state' = state
    BY <1>3 DEF Begin, Return, BeginClose, Cancel, conn
  <2>3. outcome' = outcome \/ \E r \in Outcomes \ {"answered"} :
                                outcome' = [outcome EXCEPT ![t] = r]
    BY <1>3 DEF Begin, Return, BeginClose, Cancel, Outcomes, ConnErrors
  <2> QED BY <1>0, <2>1, <2>2, <2>3
<1>4. CASE MarkClosed \/ ServerStep \/ UNCHANGED vars
  <2>1. state' = state /\ outcome' = outcome /\ (closed' = closed \/ closed')
    BY <1>4 DEF MarkClosed, ServerStep, Answering, SrvTake, SrvSend, SrvReset, SrvDiscard,
                SrvBreak, SrvDrop, vars, conn, task
  <2> QED BY <2>1
<1> QED BY <1>1, <1>2, <1>3, <1>4 DEF Next, TaskStep

(***************************************************************************)
(* A connection is never revived, whoever is cancelled: once the state is  *)
(* Closed, no operation is answered any more (close, receive).             *)
(***************************************************************************)
THEOREM NeverRevived == Spec => ClosedForGood
<1>1. Init => ClosedView
  BY DEF Init, ClosedView
<1>2. TypeOK /\ LockView /\ ClosedView /\ [Next]_vars => ClosedView'
  BY ClosedStep
<1>3. TypeOK /\ ClosedView /\ [Next]_vars =>
        [/\ closed => closed'
         /\ state = "Closed" =>
              /\ state' = "Closed"
              /\ \A t \in Tasks : outcome'[t] = "answered" => outcome[t] = "answered"]_vars
  BY ClosedStays
<1> QED
  BY <1>1, <1>2, <1>3, TypeCorrect, OneExchangeAtATime, PTL DEF Spec, ClosedForGood

----------------------------------------------------------------------------
\* The refinement of SerialCalls

\* What a task has in its hands, once Attribution says that it is its own answer.
AnswerNow == [t \in Tasks |-> IF Delivered(t) THEN req[t] ELSE 0]

AnswerView == [t \in Tasks |-> AnswerOf(t)] = AnswerNow

LEMMA OwnAnswers == ASSUME Attribution PROVE AnswerView
<1>1. ASSUME NEW t \in Tasks PROVE AnswerOf(t) = IF Delivered(t) THEN req[t] ELSE 0
  <2>1. CASE Delivered(t)
    <3>1. \A i \in 1..Len(acc[t]) : acc[t][i].req = req[t]
      BY <2>1 DEF Attribution
    <3>2. 1 \in 1..Len(acc[t])
      BY <2>1 DEF Attribution
    <3> QED BY <2>1, <3>1, <3>2 DEF AnswerOf
  <2> QED BY <2>1 DEF AnswerOf
<1> QED BY <1>1 DEF AnswerView, AnswerNow

\* A step of t changes no other task's answer.
LEMMA AnswerStep ==
  ASSUME NEW t \in Tasks,
         \A u \in Tasks \ {t} : pc'[u] = pc[u] /\ outcome'[u] = outcome[u] /\ req'[u] = req[u]
  PROVE  AnswerNow' = [AnswerNow EXCEPT ![t] = IF Delivered(t)' THEN req'[t] ELSE 0]
BY DEF AnswerNow, Delivered

LEMMA SerialStep ==
  ASSUME TypeOK, LockView, ClosedView, ~MayCancel, AnswerView, AnswerView', [Next]_vars
  PROVE  [Serial!Next]_(Serial!vars)
<1> DEFINE Alive == (state = "Ready")
<1>0. /\ NoTask \notin Tasks /\ pc \in [Tasks -> Points] /\ op \in [Tasks -> OpKinds]
      /\ req \in [Tasks -> ReqIds] /\ outcome \in [Tasks -> Outcomes]
      /\ state \in {"Ready", "Closed"} /\ MaxRequests \in Nat
  BY ExchangeConstants DEF TypeOK
<1>1. ASSUME NEW t \in Tasks, NEW c \in ReqIds, req' = [req EXCEPT ![t] = c], state' = state,
             owner' \in IF owner = t THEN {t, NoTask} ELSE {owner},
             AnswerNow' = [AnswerNow EXCEPT ![t] = 0]
      PROVE  Serial!Next
  BY <1>1 DEF Serial!Next, Serial!Make, AnswerView
<1>2. ASSUME NEW t \in Tasks, owner = NoTask, owner' = t, req' = req, state' = state,
             AnswerNow' = AnswerNow
      PROVE  Serial!Next
  BY <1>2 DEF Serial!Next, Serial!Serve, AnswerView
<1>3. ASSUME NEW t \in Tasks, state = "Ready", owner = t, owner' = t, req' = req, state' = state,
             AnswerNow[t] = 0, AnswerNow' = [AnswerNow EXCEPT ![t] = req[t]]
      PROVE  Serial!Next
  BY <1>3 DEF Serial!Next, Serial!Answer, AnswerView
<1>4. ASSUME NEW t \in Tasks, owner \in {t, NoTask}, owner' = NoTask, req' = req,
             state' \in {state, "Closed"}, AnswerNow' = AnswerNow
      PROVE  Serial!Next
  BY <1>0, <1>4 DEF Serial!Next, Serial!Leave, AnswerView
<1>5. ASSUME NEW t \in Tasks, owner # t, owner' = owner, req' = req, state' = state,
             AnswerNow' = [AnswerNow EXCEPT ![t] = 0]
      PROVE  Serial!Next
  BY <1>5 DEF Serial!Next, Serial!Consume, AnswerView
<1>6. ASSUME state' = state, owner' = owner, req' = req, AnswerNow' = AnswerNow
      PROVE  UNCHANGED Serial!vars
  BY <1>6 DEF Serial!vars, AnswerView
<1>7. ASSUME NEW t \in Tasks, ~Delivered(t), ~Delivered(t)', req' = req,
             \A u \in Tasks \ {t} : pc'[u] = pc[u] /\ outcome'[u] = outcome[u]
      PROVE  AnswerNow' = AnswerNow
  BY <1>7 DEF AnswerNow, Delivered
<1>8. ASSUME NEW t \in Tasks, (\E o \in Ops : Begin(t, o)) \/ BeginClose(t) \/ SendDefine(t)
                              \/ FetchMore(t)
      PROVE  Serial!Next
  <2>1. \A u \in Tasks \ {t} : pc'[u] = pc[u] /\ outcome'[u] = outcome[u] /\ req'[u] = req[u]
    BY <1>0, <1>8 DEF Begin, BeginClose, SendDefine, FetchMore, End
  <2>2. ~Delivered(t)'
    BY <1>0, <1>8 DEF Begin, BeginClose, SendDefine, FetchMore, End, Delivered, Points
  <2>3. PICK c \in ReqIds : req' = [req EXCEPT ![t] = c]
    <3>1. 0 \in ReqIds /\ (issued < MaxRequests => issued + 1 \in ReqIds)
      BY <1>0, NextRequest DEF ReqIds
    <3>2. CASE req' = [req EXCEPT ![t] = 0]
      BY <3>1, <3>2
    <3>3. CASE issued < MaxRequests /\ req' = [req EXCEPT ![t] = issued + 1]
      BY <3>1, <3>3
    <3> QED BY <1>8, <3>2, <3>3 DEF Begin, BeginClose, SendDefine, FetchMore
  <2>4. owner' \in IF owner = t THEN {t, NoTask} ELSE {owner}
    BY <1>8 DEF Begin, BeginClose, SendDefine, FetchMore, End, conn
  <2>5. state' = state
    BY <1>8 DEF Begin, BeginClose, SendDefine, FetchMore, conn
  <2>6. AnswerNow' = [AnswerNow EXCEPT ![t] = 0]
    BY <2>1, <2>2, AnswerStep
  <2> QED BY <1>1, <2>3, <2>4, <2>5, <2>6
<1>9. ASSUME NEW t \in Tasks, CheckState(t) PROVE UNCHANGED Serial!vars
  <2>1. ~Delivered(t) /\ ~Delivered(t)'
    BY <1>0, <1>9 DEF CheckState, Delivered
  <2>2. AnswerNow' = AnswerNow
    BY <1>0, <1>7, <1>9, <2>1 DEF CheckState
  <2> QED BY <1>6, <1>9, <2>2 DEF CheckState, conn
<1>10. ASSUME NEW t \in Tasks, LockAndSend(t) \/ CloseLocked(t)
       PROVE  Serial!Next \/ UNCHANGED Serial!vars
  <2>1. ~Delivered(t) /\ ~Delivered(t)'
    BY <1>0, <1>10 DEF LockAndSend, CloseLocked, DropStream, End, Delivered
  <2>2. AnswerNow' = AnswerNow
    BY <1>0, <1>7, <1>10, <2>1 DEF LockAndSend, CloseLocked, DropStream, End
  <2>3. owner = NoTask /\ req' = req
    BY <1>10 DEF LockAndSend, CloseLocked
  <2>4. CASE owner' = t /\ state' = state
    BY <1>2, <2>2, <2>3, <2>4
  <2>5. CASE owner' = NoTask /\ state' \in {state, "Closed"}
    BY <1>4, <2>2, <2>3, <2>5
  <2> QED BY <1>10, <2>4, <2>5 DEF LockAndSend, CloseLocked, DropStream, End
<1>11. ASSUME NEW t \in Tasks, RecvData(t) \/ TailData(t)
       PROVE  Serial!Next \/ UNCHANGED Serial!vars
  <2>1. /\ owner = t /\ owner' = owner /\ req' = req /\ state' = state /\ outcome' = outcome
        /\ pc[t] \in Receiving /\ state = "Ready"
    BY <1>0, <1>11 DEF RecvData, TailData, Receive, conn, Receiving, ClosedView
  <2>2. ~Delivered(t)
    BY <2>1 DEF Delivered, Receiving
  <2>3. \A u \in Tasks \ {t} : pc'[u] = pc[u] /\ outcome'[u] = outcome[u] /\ req'[u] = req[u]
    BY <1>0, <1>11, <2>1 DEF RecvData, TailData
  <2>4. CASE Delivered(t)'
    <3>1. AnswerNow' = [AnswerNow EXCEPT ![t] = req[t]]
      BY <2>1, <2>3, <2>4, AnswerStep
    <3>2. AnswerNow[t] = 0
      BY <2>2 DEF AnswerNow
    <3> QED BY <1>3, <2>1, <3>1, <3>2
  <2>5. CASE ~Delivered(t)'
    BY <1>6, <1>7, <2>1, <2>2, <2>3, <2>5
  <2> QED BY <2>4, <2>5
<1>12. ASSUME NEW t \in Tasks, RecvMarker(t) \/ SkipMarker(t) \/ TailMarker(t) \/ ReadError(t)
                               \/ RecvLogoff(t)
       PROVE  Serial!Next \/ UNCHANGED Serial!vars
  <2>1. /\ owner = t /\ req' = req /\ pc[t] \in Receiving \cup {"logoff"}
        /\ state' \in {state, "Closed"} /\ (owner' = NoTask \/ (owner' = owner /\ state' = state))
    BY <1>12 DEF RecvMarker, SkipMarker, TailMarker, ReadError, RecvLogoff, DropStream, Receive,
                 End, conn, Receiving
  <2>2. ~Delivered(t)
    BY <2>1 DEF Delivered, Receiving
  <2>3. ~Delivered(t)'
    <3>1. CASE RecvMarker(t) \/ SkipMarker(t) \/ RecvLogoff(t)
      <4>1. \/ \E p \in {"awaitReset", "postReset", "idle", pc[t]} : pc' = [pc EXCEPT ![t] = p]
            \/ outcome' = [outcome EXCEPT ![t] = "io"]
        BY <3>1 DEF RecvMarker, SkipMarker, RecvLogoff, DropStream, End
      <4>2. pc'[t] \in {"awaitReset", "postReset", "idle", "return", pc[t]}
        BY <1>0, <3>1 DEF RecvMarker, SkipMarker, RecvLogoff, DropStream, End
      <4> QED BY <1>0, <2>1, <4>1, <4>2 DEF Delivered, Receiving
    <3>2. CASE TailMarker(t) \/ ReadError(t)
      BY <1>0, <3>2 DEF TailMarker, ReadError, End, Delivered
    <3> QED BY <1>12, <2>1, <3>1, <3>2
  <2>4. \A u \in Tasks \ {t} : pc'[u] = pc[u] /\ outcome'[u] = outcome[u]
    BY <1>0, <1>12 DEF RecvMarker, SkipMarker, TailMarker, ReadError, RecvLogoff, DropStream, End
  <2>5. AnswerNow' = AnswerNow
    BY <1>7, <2>1, <2>2, <2>3, <2>4
  <2> QED BY <1>4, <1>6, <2>1, <2>5
<1>13. ASSUME NEW t \in Tasks, Finish(t) PROVE Serial!Next
  <2>1. /\ owner = t /\ owner' = NoTask /\ req' = req /\ state' = state
        /\ Delivered(t) /\ Delivered(t)'
    BY <1>0, <1>13 DEF Finish, End, Delivered
  <2>2. \A u \in Tasks \ {t} : pc'[u] = pc[u] /\ outcome'[u] = outcome[u]
    BY <1>0, <1>13 DEF Finish, End
  <2>3. AnswerNow' = AnswerNow
    BY <2>1, <2>2 DEF AnswerNow, Delivered
  <2> QED BY <1>4, <2>1, <2>3
<1>14. ASSUME NEW t \in Tasks, Return(t) PROVE Serial!Next
  <2>1. /\ owner # t /\ owner' = owner /\ req' = req /\ state' = state /\ outcome' = outcome
        /\ pc' = [pc EXCEPT ![t] = "idle"]
    BY <1>14 DEF Return, LockView, Holding, Receiving
  <2>2. AnswerNow' = [AnswerNow EXCEPT ![t] = 0]
    <3>1. ~Delivered(t)'
      BY <1>0, <2>1 DEF Delivered
    <3> QED BY <1>0, <2>1, <3>1, AnswerStep
  <2> QED BY <1>5, <2>1, <2>2
<1>15. ASSUME MarkClosed \/ ServerStep \/ UNCHANGED vars PROVE UNCHANGED Serial!vars
  <2>1. UNCHANGED <<owner, state, pc, outcome, req>>
    BY <1>15 DEF MarkClosed, ServerStep, Answering, SrvTake, SrvSend, SrvReset, SrvDiscard,
                 SrvBreak, SrvDrop, vars, conn, task
  <2> QED BY <1>6, <2>1 DEF AnswerNow, Delivered
<1>16. ASSUME NEW t \in Tasks, TaskStep(t) PROVE Serial!Next \/ UNCHANGED Serial!vars
  <2>1. CASE Read(t)
    BY <1>11, <1>12, <2>1 DEF Read
  <2>2. CASE Parsed(t)
    BY <1>8, <1>13, <2>2 DEF Parsed
  <2>3. CASE Acquire(t)
    BY <1>9, <1>10, <2>3 DEF Acquire
  <2> QED BY <1>8, <1>14, <1>16, <2>1, <2>2, <2>3 DEF TaskStep, Cancel
<1> QED BY <1>15, <1>16 DEF Next

LEMMA SerialInit == Init => Serial!Init
<1> SUFFICES ASSUME Init PROVE Serial!Init
  OBVIOUS
<1>1. \A t \in Tasks : ~Delivered(t)
  BY DEF Init, Delivered
<1>2. \A t \in Tasks : AnswerOf(t) = 0
  BY <1>1, Zenon DEF AnswerOf
<1> QED BY <1>2 DEF Init, Serial!Init

(***************************************************************************)
(* With a server that marks the end of its responses and callers that do   *)
(* not drop their operations, the shared connection keeps its promise: it  *)
(* serves one call at a time and answers none with another's response.     *)
(***************************************************************************)
THEOREM SerialCallsImplemented ==
  ASSUME SoundReplies, ~MayCancel
  PROVE  Spec => ImplementsSerialCalls
<1>1. Init => ClosedView
  BY DEF Init, ClosedView
<1>2. TypeOK /\ LockView /\ ClosedView /\ [Next]_vars => ClosedView'
  BY ClosedStep
<1>3. Attribution => AnswerView
  BY OwnAnswers
<1>4. TypeOK /\ LockView /\ ClosedView /\ AnswerView /\ AnswerView' /\ [Next]_vars
        => [Serial!Next]_(Serial!vars)
  BY SerialStep
<1> QED
  BY <1>1, <1>2, <1>3, <1>4, SerialInit, TypeCorrect, OneExchangeAtATime, ResponsesAttributed, PTL
  DEF Spec, ImplementsSerialCalls, Serial!Spec
=============================================================================
