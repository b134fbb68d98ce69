---------------------------- MODULE TnsExchange ----------------------------
(***************************************************************************)
(* Request/response exchange of one Connection with the database server.   *)
(*                                                                         *)
(* Many tasks share a Connection.  An operation first runs ensure_ready    *)
(* (the closed flag, then the state under the lock), then takes the inner  *)
(* mutex, sends one request and reads packets until it believes that the   *)
(* response is complete; a MARKER packet starts the RESET handshake.  The  *)
(* module models that control: who holds the mutex, what is on the wire in *)
(* both directions, when a receive loop stops, and what every failure      *)
(* leaves behind.  A payload is abstracted to the request that it answers  *)
(* and to the facts that the receive loops look at.                        *)
(***************************************************************************)
EXTENDS Naturals, Sequences

CONSTANTS
  Tasks,        \* tasks sharing the connection
  NoTask,       \* "the mutex is free"
  Ops,          \* the operations that the tasks issue
  Replies,      \* Replies[o]: shapes of the server's answer to operation o
  ErrorReplies, \* shapes of the error answer that follows a RESET
  MaxRequests,  \* bound: requests issued in a behaviour
  SeqModulus,   \* values of the TTC sequence number (u8: 256)
  MayBreak,     \* the server may answer with a BREAK marker
  MayDrop,      \* the server may close the TCP connection
  MayCancel     \* a caller may drop the future of an operation

(***************************************************************************)
(* The operations, by the way they receive and report:                     *)
(*   exec     execute, query, execute_dml_sql: receive_response_or_marker, *)
(*            result passed through handle_result                          *)
(*   define   second round trip of a query with LOB columns, same lock     *)
(*   fetch    fetch_more called by a query for its remaining rows          *)
(*   call     execute_plsql, execute_batch, fetch_more, fetch_cursor,      *)
(*            open_scrollable_cursor, scroll: receive_response_or_marker,  *)
(*            receive errors leave through `?`                             *)
(*   lob      read_lob, write_lob: receive_response                        *)
(*   lobsmall lob_length, lob_trim, lob_chunk_size, create_temp_lob,       *)
(*            bfile_*: one receive                                         *)
(*   logoff   the simple function that close() sends: one receive          *)
(***************************************************************************)
UserOps == {"exec", "call", "lob", "lobsmall"}
OpKinds == UserOps \cup {"define", "fetch", "logoff"}
Handled == {"exec", "define", "fetch"}
Queries == Handled

(***************************************************************************)
(* The shape of a server response: its number of packets; its leading      *)
(* message as scan_for_terminal_message classifies it ("error": ERROR,     *)
(* STATUS or END_OF_RESPONSE; "scanned": PARAMETER, or LOB_DATA and then   *)
(* PARAMETER; "opaque": any other); whether a packet before the last shows *)
(* the scan a byte with the value of ERROR or END_OF_RESPONSE; whether the *)
(* last packet is marked as the end (a data flag, or the lone message).    *)
(***************************************************************************)
Leads == {"error", "scanned", "opaque"}
Shapes == [lead : Leads, packets : Nat \ {0}, hit : BOOLEAN, flag : BOOLEAN]

ASSUME ExchangeConstants ==
  /\ NoTask \notin Tasks
  /\ Ops \subseteq UserOps
  /\ Replies \in [OpKinds -> SUBSET Shapes]
  /\ ErrorReplies \subseteq Shapes
  /\ MaxRequests \in Nat
  /\ SeqModulus \in Nat /\ SeqModulus > 2
  /\ MayBreak \in BOOLEAN /\ MayDrop \in BOOLEAN /\ MayCancel \in BOOLEAN

VARIABLES
  owner,            \* task holding Connection.inner, or NoTask
  closed,           \* Connection.closed (AtomicBool)
  state,            \* ConnectionInner.state
  stream,           \* ConnectionInner.stream is Some
  sequence_number,  \* ConnectionInner.sequence_number
  pc, op, req,      \* per task: control point, operation, its request
  acc,              \* per task: accumulated_payload, as the packets in it
  outcome,          \* per task: how the last operation ended
  issued,           \* requests issued so far
  toServer, toClient, \* packets in flight, first in first out
  peerOpen,         \* the server has not closed the TCP connection
  srv               \* what the server is doing

conn == <<owner, closed, state, stream, sequence_number>>
task == <<pc, op, req, acc, outcome, issued>>
wire == <<toServer, toClient, peerOpen, srv>>
vars == <<conn, task, wire>>

\* Points at which a task holds the mutex, and those where it waits for a packet
Receiving == {"recv", "awaitReset", "postReset", "tail"}
Holding == Receiving \cup {"parse", "parseError", "logoff"}
Points == Holding \cup {"idle", "check", "lock", "return", "closeLock"}
ConnErrors == {"io", "closedByServer", "closed"}
Outcomes == ConnErrors \cup {"none", "answered", "notReady", "garbled"}

Request(r, o, s) == [type |-> "REQUEST", req |-> r, op |-> o, seq |-> s]
Marker(k) == [type |-> "MARKER", kind |-> k]
Data(r, shape, i) ==
  [type |-> "DATA", req |-> r, lead |-> shape.lead, last |-> i = shape.packets,
   end |-> i = shape.packets /\ shape.flag,
   hit |-> i = shape.packets \/ shape.hit]

ReqIds == 0..MaxRequests
SeqNumbers == 1..(SeqModulus - 1)
Markers == [type : {"MARKER"}, kind : {"BREAK", "RESET"}]
DataPackets == [type : {"DATA"}, req : ReqIds, lead : Leads,
                last : BOOLEAN, end : BOOLEAN, hit : BOOLEAN]
Requests == [type : {"REQUEST"}, req : ReqIds, op : OpKinds, seq : SeqNumbers]

(***************************************************************************)
(* The server: idle, sending the packets of a reply (intr: it may still    *)
(* interrupt it with a BREAK), or waiting for a RESET after a BREAK.       *)
(***************************************************************************)
Idle == [mode |-> "idle"]
Replying(r, shape, n, intr) ==
  [mode |-> "reply", req |-> r, shape |-> shape, sent |-> n, intr |-> intr]
Broken(r) == [mode |-> "broken", req |-> r]
ServerStates ==
  {Idle} \cup [mode : {"broken"}, req : ReqIds]
         \cup [mode : {"reply"}, req : ReqIds, shape : Shapes, sent : Nat,
               intr : BOOLEAN]

(***************************************************************************)
(* finish_authentication has just left the connection Ready, with the      *)
(* sequence number at 2 and nothing in flight.                             *)
(***************************************************************************)
Init ==
  /\ owner = NoTask
  /\ closed = FALSE
  /\ state = "Ready"
  /\ stream = TRUE
  /\ sequence_number = 2
  /\ pc = [t \in Tasks |-> "idle"]
  /\ op = [t \in Tasks |-> "exec"]
  /\ req = [t \in Tasks |-> 0]
  /\ acc = [t \in Tasks |-> <<>>]
  /\ outcome = [t \in Tasks |-> "none"]
  /\ issued = 0
  /\ toServer = <<>>
  /\ toClient = <<>>
  /\ peerOpen = TRUE
  /\ srv = Idle

----------------------------------------------------------------------------
\* Helpers of the receive loops

\* Mutant: the wrap forgets that 0 is reserved.
NextSequenceNumberFromZero(s) == (s + 1) % SeqModulus

(***************************************************************************)
(* The sequence number is a u8 that wraps past zero to 1.                  *)
(***************************************************************************)
NextSequenceNumber(s) ==
  LET n == (s + 1) % SeqModulus IN IF n = 0 THEN 1 ELSE n

\* Mutant: a PARAMETER counts as the end, whatever follows it.
ScanAnyParameter(packets) == Head(packets).lead \in {"error", "scanned"}

(***************************************************************************)
(* The scan looks at the first message only; behind a PARAMETER it accepts *)
(* any byte with the value of a terminal message type.                     *)
(***************************************************************************)
ScanForTerminalMessage(packets) ==
  \/ Head(packets).lead = "error"
  \/ /\ Head(packets).lead = "scanned"
     /\ \E i \in 1..Len(packets) : packets[i].hit

\* Mutant: one packet is taken for the whole response.
OnePacketIsEnough(packets) == packets # <<>>

Complete(packets) ==
  packets[Len(packets)].end \/ ScanForTerminalMessage(packets)

\* The next packet is of type k and t, at one of the points at, reads it.
Receive(t, at, k) ==
  /\ owner = t /\ pc[t] \in at
  /\ toClient # <<>> /\ Head(toClient).type = k
  /\ toClient' = Tail(toClient)

\* The operation of t ends with result res; its mutex guard is dropped.
End(t, res) ==
  /\ owner' = NoTask
  /\ pc' = [pc EXCEPT ![t] = "return"]
  /\ outcome' = [outcome EXCEPT ![t] = res]

(***************************************************************************)
(* send: the bytes go out, or the write fails because the peer is gone.    *)
(* A failed write leaves the state of the connection as it was.            *)
(***************************************************************************)
SendOk(packet) == stream /\ toServer' = Append(toServer, packet)
SendFails == stream /\ ~peerOpen /\ UNCHANGED toServer

----------------------------------------------------------------------------
\* Operations

(***************************************************************************)
(* ensure_ready, first half: the closed flag is read without the lock.     *)
(***************************************************************************)
Begin(t, o) ==
  /\ pc[t] = "idle"
  /\ issued < MaxRequests
  /\ issued' = issued + 1
  /\ op' = [op EXCEPT ![t] = o]
  /\ req' = [req EXCEPT ![t] = issued + 1]
  /\ acc' = [acc EXCEPT ![t] = <<>>]
  /\ IF closed
     THEN /\ pc' = [pc EXCEPT ![t] = "return"]
          /\ outcome' = [outcome EXCEPT ![t] = "closed"]
     ELSE /\ pc' = [pc EXCEPT ![t] = "check"]
          /\ outcome' = [outcome EXCEPT ![t] = "none"]
  /\ UNCHANGED <<conn, wire>>

(***************************************************************************)
(* ensure_ready, second half: the state, under a lock released at once.    *)
(***************************************************************************)
CheckState(t) ==
  /\ pc[t] = "check"
  /\ owner = NoTask
  /\ IF state = "Ready"
     THEN /\ pc' = [pc EXCEPT ![t] = "lock"]
          /\ UNCHANGED outcome
     ELSE /\ pc' = [pc EXCEPT ![t] = "return"]
          /\ outcome' = [outcome EXCEPT ![t] = "notReady"]
  /\ UNCHANGED <<conn, op, req, acc, issued, wire>>

(***************************************************************************)
(* The operation takes the lock, numbers its request and sends it.  The    *)
(* state is not read again; a taken stream is an error.                    *)
(***************************************************************************)
LockAndSend(t) ==
  /\ pc[t] = "lock"
  /\ owner = NoTask
  /\ sequence_number' = NextSequenceNumber(sequence_number)
  /\ \/ /\ SendOk(Request(req[t], op[t], sequence_number'))
        /\ owner' = t
        /\ pc' = [pc EXCEPT ![t] = "recv"]
        /\ UNCHANGED outcome
     \/ /\ SendFails
        /\ End(t, "io")
     \/ /\ ~stream
        /\ End(t, "closed")
        /\ UNCHANGED toServer
  /\ UNCHANGED <<closed, state, stream, op, req, acc, issued, toClient, peerOpen, srv>>

(***************************************************************************)
(* A DATA packet reaches receive_response_or_marker, receive_response or   *)
(* the single receive of the small LOB operations.                         *)
(***************************************************************************)
RecvData(t) ==
  /\ Receive(t, {"recv"}, "DATA")
  /\ LET got == Append(acc[t], Head(toClient))
     IN  /\ acc' = [acc EXCEPT ![t] = got]
         /\ pc' = [pc EXCEPT ![t] =
                     IF op[t] = "lobsmall" \/ Complete(got) THEN "parse" ELSE "recv"]
  /\ UNCHANGED <<conn, op, req, outcome, issued, toServer, peerOpen, srv>>

\* Mutant: the operation fails at the MARKER and leaves the RESET to nobody.
RecvMarkerAsError(t) ==
  /\ Receive(t, {"recv"}, "MARKER")
  /\ End(t, "io")
  /\ UNCHANGED <<closed, state, stream, sequence_number, op, req, acc, issued, toServer,
                 peerOpen, srv>>

\* Mutant: the RESET is awaited but never sent.
RecvMarkerUnanswered(t) ==
  /\ Receive(t, {"recv"}, "MARKER")
  /\ pc' = [pc EXCEPT ![t] = "awaitReset"]
  /\ UNCHANGED <<conn, op, req, acc, outcome, issued, toServer, peerOpen, srv>>

(***************************************************************************)
(* A MARKER ends the receive: the caller answers it with a RESET.  The     *)
(* LOB operations drop the DATA received so far, the others keep it.       *)
(***************************************************************************)
RecvMarker(t) ==
  /\ Receive(t, {"recv"}, "MARKER")
  /\ acc' = [acc EXCEPT ![t] = IF op[t] \in {"lob", "lobsmall"} THEN <<>> ELSE @]
  /\ \/ /\ SendOk(Marker("RESET"))
        /\ pc' = [pc EXCEPT ![t] = "awaitReset"]
        /\ UNCHANGED <<owner, outcome>>
     \/ /\ SendFails
        /\ End(t, "io")
  /\ UNCHANGED <<closed, state, stream, sequence_number, op, req, issued, peerOpen, srv>>

(***************************************************************************)
(* handle_marker_reset_with_partial: markers are read until a RESET, then  *)
(* skipped until the first DATA packet.                                    *)
(***************************************************************************)
SkipMarker(t) ==
  /\ Receive(t, {"awaitReset", "postReset"}, "MARKER")
  /\ pc' = [pc EXCEPT ![t] =
              IF Head(toClient).kind = "RESET" THEN "postReset" ELSE @]
  /\ UNCHANGED <<conn, op, req, acc, outcome, issued, toServer, peerOpen, srv>>

(***************************************************************************)
(* receive_response_from_first_packet_with_payload after a RESET: DATA is  *)
(* added to the partial payload; any other packet is returned as if it     *)
(* were the response.                                                      *)
(***************************************************************************)
TailData(t) ==
  /\ Receive(t, {"awaitReset", "postReset", "tail"}, "DATA")
  /\ LET got == Append(acc[t], Head(toClient))
     IN  /\ acc' = [acc EXCEPT ![t] = got]
         /\ pc' = [pc EXCEPT ![t] = IF Complete(got) THEN "parseError" ELSE "tail"]
  /\ UNCHANGED <<conn, op, req, outcome, issued, toServer, peerOpen, srv>>

TailMarker(t) ==
  /\ Receive(t, {"tail"}, "MARKER")
  /\ End(t, "garbled")
  /\ UNCHANGED <<closed, state, stream, sequence_number, op, req, acc, issued,
                 toServer, peerOpen, srv>>

(***************************************************************************)
(* receive finds the connection gone: the state becomes Closed.  After a   *)
(* RESET the error is reported as a connection closed by the server.       *)
(***************************************************************************)
ReadError(t) ==
  /\ owner = t /\ pc[t] \in Receiving
  /\ toClient = <<>> /\ ~peerOpen
  /\ state' = "Closed"
  /\ End(t, IF pc[t] = "postReset" THEN "closedByServer" ELSE "io")
  /\ UNCHANGED <<closed, stream, sequence_number, op, req, acc, issued, wire>>

(***************************************************************************)
(* The response is parsed: the operation ends, or a query with LOB columns *)
(* executes again with defines under the same lock, or a query releases    *)
(* the lock and fetches its remaining rows (ensure_ready runs again).      *)
(***************************************************************************)
Finish(t) ==
  /\ pc[t] \in {"parse", "parseError"} /\ owner = t
  /\ End(t, "answered")
  /\ UNCHANGED <<closed, state, stream, sequence_number, op, req, acc, issued, wire>>

SendDefine(t) ==
  /\ pc[t] = "parse" /\ owner = t
  /\ op[t] = "exec" /\ issued < MaxRequests
  /\ issued' = issued + 1
  /\ op' = [op EXCEPT ![t] = "define"]
  /\ req' = [req EXCEPT ![t] = issued + 1]
  /\ acc' = [acc EXCEPT ![t] = <<>>]
  /\ sequence_number' = NextSequenceNumber(sequence_number)
  /\ \/ /\ SendOk(Request(issued + 1, "define", sequence_number'))
        /\ pc' = [pc EXCEPT ![t] = "recv"]
        /\ UNCHANGED <<owner, outcome>>
     \/ /\ SendFails
        /\ End(t, "io")
  /\ UNCHANGED <<closed, state, stream, toClient, peerOpen, srv>>

FetchMore(t) ==
  /\ pc[t] = "parse" /\ owner = t
  /\ op[t] \in Queries /\ issued < MaxRequests
  /\ owner' = NoTask
  /\ issued' = issued + 1
  /\ op' = [op EXCEPT ![t] = "fetch"]
  /\ req' = [req EXCEPT ![t] = issued + 1]
  /\ acc' = [acc EXCEPT ![t] = <<>>]
  /\ pc' = [pc EXCEPT ![t] = IF closed THEN "return" ELSE "check"]
  /\ outcome' = [outcome EXCEPT ![t] = IF closed THEN "closed" ELSE @]
  /\ UNCHANGED <<closed, state, stream, sequence_number, wire>>

(***************************************************************************)
(* handle_result: a connection error of execute and query sets the closed  *)
(* flag.  The other operations return their errors past it.                *)
(***************************************************************************)
Return(t) ==
  /\ pc[t] = "return"
  /\ pc' = [pc EXCEPT ![t] = "idle"]
  /\ acc' = [acc EXCEPT ![t] = <<>>]
  /\ closed' = (closed \/ (op[t] \in Handled /\ outcome[t] \in ConnErrors))
  /\ UNCHANGED <<owner, state, stream, sequence_number, op, req, outcome, issued, wire>>

----------------------------------------------------------------------------
\* Closing

(***************************************************************************)
(* close: the flag is swapped before the lock is requested.  A close of a  *)
(* connection whose flag is already set changes nothing.                   *)
(***************************************************************************)
BeginClose(t) ==
  /\ pc[t] = "idle"
  /\ ~closed
  /\ closed' = TRUE
  /\ pc' = [pc EXCEPT ![t] = "closeLock"]
  /\ op' = [op EXCEPT ![t] = "logoff"]
  /\ req' = [req EXCEPT ![t] = 0]
  /\ acc' = [acc EXCEPT ![t] = <<>>]
  /\ outcome' = [outcome EXCEPT ![t] = "none"]
  /\ UNCHANGED <<owner, state, stream, sequence_number, issued, wire>>

\* Mutant: close marks the state but keeps the stream.
DropStreamForgotten(t) ==
  /\ owner' = NoTask
  /\ state' = "Closed"
  /\ toClient' = <<>>
  /\ pc' = [pc EXCEPT ![t] = "idle"]
  /\ UNCHANGED stream

\* State Closed, stream dropped with whatever was unread in it, lock released.
DropStream(t) ==
  /\ owner' = NoTask
  /\ state' = "Closed"
  /\ stream' = FALSE
  /\ toClient' = <<>>
  /\ pc' = [pc EXCEPT ![t] = "idle"]

CloseLocked(t) ==
  /\ pc[t] = "closeLock"
  /\ owner = NoTask
  /\ IF state = "Ready"
     THEN /\ sequence_number' = NextSequenceNumber(sequence_number)
          /\ \/ /\ SendOk(Request(0, "logoff", sequence_number'))
                /\ owner' = t
                /\ pc' = [pc EXCEPT ![t] = "logoff"]
                /\ UNCHANGED <<state, stream, toClient>>
             \/ SendFails /\ DropStream(t)
     ELSE /\ DropStream(t)
          /\ UNCHANGED <<sequence_number, toServer>>
  /\ UNCHANGED <<closed, op, req, acc, outcome, issued, peerOpen, srv>>

(***************************************************************************)
(* The Logoff waits for one packet, whatever it is, or for a read error.   *)
(***************************************************************************)
RecvLogoff(t) ==
  /\ pc[t] = "logoff" /\ owner = t
  /\ toClient # <<>> \/ ~peerOpen
  /\ DropStream(t)
  /\ UNCHANGED <<closed, sequence_number, op, req, acc, outcome, issued, toServer,
                 peerOpen, srv>>

(***************************************************************************)
(* mark_closed is public: a pool may call it at any time.                  *)
(***************************************************************************)
MarkClosed ==
  /\ closed' = TRUE
  /\ UNCHANGED <<owner, state, stream, sequence_number, task, wire>>

(***************************************************************************)
(* The future of an operation is dropped at an await: the mutex guard goes *)
(* with it, and nothing else is undone.                                    *)
(***************************************************************************)
Cancel(t) ==
  /\ MayCancel
  /\ pc[t] \in Receiving \cup {"check", "lock", "closeLock", "logoff"}
  /\ pc' = [pc EXCEPT ![t] = "idle"]
  /\ owner' = IF owner = t THEN NoTask ELSE owner
  /\ UNCHANGED <<closed, state, stream, sequence_number, op, req, acc, outcome, issued,
                 wire>>

----------------------------------------------------------------------------
\* The server and the network (external)

Connected == peerOpen /\ stream

SrvTake ==
  /\ Connected /\ srv = Idle
  /\ toServer # <<>> /\ Head(toServer).type = "REQUEST"
  /\ \E shape \in Replies[Head(toServer).op] :
       srv' = Replying(Head(toServer).req, shape, 0, MayBreak)
  /\ toServer' = Tail(toServer)
  /\ UNCHANGED <<conn, task, toClient, peerOpen>>

SrvSend ==
  /\ Connected /\ srv.mode = "reply"
  /\ toClient' = Append(toClient, Data(srv.req, srv.shape, srv.sent + 1))
  /\ srv' = IF srv.sent + 1 = srv.shape.packets THEN Idle
            ELSE Replying(srv.req, srv.shape, srv.sent + 1, srv.intr)
  /\ UNCHANGED <<conn, task, toServer, peerOpen>>

SrvBreak ==
  /\ Connected /\ srv.mode = "reply" /\ srv.intr
  /\ toClient' = Append(toClient, Marker("BREAK"))
  /\ srv' = Broken(srv.req)
  /\ UNCHANGED <<conn, task, toServer, peerOpen>>

(***************************************************************************)
(* A RESET is acknowledged by no, one or two RESET markers (the client     *)
(* accepts all three) and then answered with the error.                    *)
(***************************************************************************)
Acks == {<<>>, <<Marker("RESET")>>, <<Marker("RESET"), Marker("RESET")>>}

SrvReset ==
  /\ Connected /\ srv.mode = "broken"
  /\ toServer # <<>> /\ Head(toServer).type = "MARKER"
  /\ \E ack \in Acks, shape \in ErrorReplies :
       /\ toClient' = toClient \o ack
       /\ srv' = Replying(srv.req, shape, 0, FALSE)
  /\ toServer' = Tail(toServer)
  /\ UNCHANGED <<conn, task, peerOpen>>

\* Only after a cancelled operation: a request behind a BREAK, a RESET when idle.
SrvDiscard ==
  /\ Connected /\ toServer # <<>>
  /\ \/ srv.mode = "broken" /\ Head(toServer).type = "REQUEST" /\ UNCHANGED toClient
     \/ /\ srv.mode = "idle" /\ Head(toServer).type = "MARKER"
        /\ toClient' = Append(toClient, Marker("RESET"))
  /\ toServer' = Tail(toServer)
  /\ UNCHANGED <<conn, task, peerOpen, srv>>

\* The connection goes down; packets that the client has not read may be lost.
SrvDrop ==
  /\ MayDrop /\ Connected
  /\ peerOpen' = FALSE
  /\ toClient' \in {toClient, <<>>}
  /\ UNCHANGED <<conn, task, toServer, srv>>

----------------------------------------------------------------------------
Read(t) ==
  \/ RecvData(t) \/ RecvMarker(t) \/ SkipMarker(t) \/ TailData(t) \/ TailMarker(t)
  \/ ReadError(t) \/ RecvLogoff(t)

Parsed(t) == Finish(t) \/ SendDefine(t) \/ FetchMore(t)

Acquire(t) == CheckState(t) \/ LockAndSend(t) \/ CloseLocked(t)

TaskStep(t) ==
  \/ \E o \in Ops : Begin(t, o)
  \/ Acquire(t) \/ Read(t) \/ Parsed(t) \/ Return(t)
  \/ BeginClose(t) \/ Cancel(t)

Answering == SrvTake \/ SrvSend \/ SrvReset \/ SrvDiscard

ServerStep == Answering \/ SrvBreak \/ SrvDrop

Next == (\E t \in Tasks : TaskStep(t)) \/ MarkClosed \/ ServerStep

(***************************************************************************)
(* A ready task runs (tokio polls it), the mutex is fair (tokio's is first *)
(* in first out), and a server that is up answers; it need not break or    *)
(* drop, and no caller need start or close anything.                       *)
(***************************************************************************)
Fairness ==
  /\ \A t \in Tasks : /\ SF_vars(Acquire(t))
                      /\ WF_vars(Read(t))
                      /\ WF_vars(Parsed(t))
                      /\ WF_vars(Return(t))
  /\ WF_vars(Answering)

Spec == Init /\ [][Next]_vars

FairSpec == Spec /\ Fairness

----------------------------------------------------------------------------
\* Properties

(***************************************************************************)
(* The type invariant.                                                     *)
(***************************************************************************)
TypeOK ==
  /\ owner \in Tasks \cup {NoTask}
  /\ closed \in BOOLEAN /\ stream \in BOOLEAN /\ peerOpen \in BOOLEAN
  /\ state \in {"Ready", "Closed"}
  /\ sequence_number \in SeqNumbers
  /\ pc \in [Tasks -> Points]
  /\ op \in [Tasks -> OpKinds]
  /\ req \in [Tasks -> ReqIds]
  /\ acc \in [Tasks -> Seq(DataPackets)]
  /\ outcome \in [Tasks -> Outcomes]
  /\ issued \in ReqIds
  /\ toServer \in Seq(Requests \cup Markers)
  /\ toClient \in Seq(DataPackets \cup Markers)
  /\ srv \in ServerStates

\* The response of t is on its way to the caller.
Delivered(t) ==
  \/ pc[t] \in {"parse", "parseError"}
  \/ pc[t] = "return" /\ outcome[t] = "answered"

(***************************************************************************)
(* What an operation takes for its response is made of packets that the    *)
(* server sent for its own request, up to the last of them; no operation   *)
(* ends with a marker for a response (receive_response_or_marker,          *)
(* receive_response, handle_marker_reset_with_partial under the mutex).    *)
(***************************************************************************)
Attribution ==
  \A t \in Tasks :
    /\ Delivered(t) => /\ \A i \in 1..Len(acc[t]) : acc[t][i].req = req[t]
                       /\ acc[t] # <<>> /\ acc[t][Len(acc[t])].last
    /\ outcome[t] # "garbled"

(***************************************************************************)
(* An operation leaves the connection as it found it: while the mutex is   *)
(* free and the connection is up and Ready, no packet is in flight in      *)
(* either direction and the server waits for a request, so the next        *)
(* request cannot meet the rest of an earlier exchange.                    *)
(***************************************************************************)
CleanWire ==
  owner = NoTask /\ stream =>
    /\ toClient = <<>>
    /\ peerOpen => toServer = <<>> /\ srv = Idle

(***************************************************************************)
(* Nothing is ever sent behind a Logoff: close() sends it while it holds   *)
(* the mutex, and drops the stream before it gives the mutex back.         *)
(***************************************************************************)
LogoffLast ==
  \A i \in 1..Len(toServer) :
    toServer[i].type = "REQUEST" /\ toServer[i].op = "logoff" => i = Len(toServer)

(***************************************************************************)
(* A connection is never revived: the closed flag and the Closed state     *)
(* stay, and from the Closed state on no operation is answered, not even   *)
(* one that passed ensure_ready before (mark_closed, close, receive).      *)
(***************************************************************************)
ClosedForGood ==
  [][/\ closed => closed'
     /\ state = "Closed" =>
          /\ state' = "Closed"
          /\ \A t \in Tasks : outcome'[t] = "answered" => outcome[t] = "answered"]_vars

(***************************************************************************)
(* Every operation returns, close() too, although the server may interrupt *)
(* it with a BREAK or close the connection at any point.                   *)
(***************************************************************************)
OpReturns == \A t \in Tasks : pc[t] # "idle" ~> pc[t] = "idle"

(***************************************************************************)
(* The documentation of mark_closed: a connection that was detected as     *)
(* broken is marked closed.  Every operation that returned a connection    *)
(* error leaves is_closed() true.                                          *)
(***************************************************************************)
BrokenIsClosed ==
  \A t \in Tasks : pc[t] = "idle" /\ outcome[t] \in ConnErrors => closed

(***************************************************************************)
(* The exchange implements SerialCalls: the mutex serves one task at a     *)
(* time, and the packets that an operation takes for its response all      *)
(* belong to its request.  A mixed response counts as an answer to no call *)
(* at all, the number past MaxRequests.                                    *)
(***************************************************************************)
AnswerOf(t) ==
  IF ~Delivered(t) THEN 0
  ELSE IF \E i, j \in 1..Len(acc[t]) : acc[t][i].req # acc[t][j].req
  THEN MaxRequests + 1
  ELSE acc[t][1].req

Serial == INSTANCE SerialCalls WITH
  Calls <- ReqIds,
  alive <- state = "Ready",
  serving <- owner,
  call <- req,
  answer <- [t \in Tasks |-> AnswerOf(t)]

ImplementsSerialCalls == Serial!Spec
=============================================================================
