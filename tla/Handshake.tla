----------------------------- MODULE Handshake -----------------------------
(***************************************************************************)
(* Connection::connect_with_config: from a CONNECT just sent to a Ready    *)
(* connection.  One task runs it, so the client strictly alternates        *)
(* between a request and its answer; what varies is the server, which may  *)
(* ask for the CONNECT again, offer or withhold features, answer with an   *)
(* error or a marker, or go away at any point.                             *)
(*                                                                         *)
(* A packet is its type, the format of its header (large: a length of four *)
(* bytes), the TTC messages in it and, in its data flags, whether it ends  *)
(* the response.  Keys and passwords are reduced to who can derive them.   *)
(***************************************************************************)
EXTENDS Naturals, Sequences

CONSTANTS
  Profiles,     \* the servers that may be met, see ServerProfiles
  ClientField,  \* FIELD_VERSION_MAX, the client's TTC field version
  Field19,      \* FIELD_VERSION_19_1_EXT_1, in which fast auth is written
  Field23,      \* FIELD_VERSION_23_4, the oldest with END_OF_RESPONSE
  MaxResends    \* MAX_RESENDS of send_connect_packet

MIN_ACCEPTED == 315
MIN_LARGE_SDU == 315
MIN_OOB_CHECK == 318
MIN_END_OF_RESPONSE == 319

(***************************************************************************)
(* What the code can tell about a server: the version it accepts, whether  *)
(* it requires native encryption, its ACCEPT flags, its field version, the *)
(* password verifier it keeps for the user; whether it is the database     *)
(* that knows that verifier, and whether the client's password matches it. *)
(***************************************************************************)
Verifiers == {"V12C", "V11G", "unsupported", "missing"}

ServerProfiles ==
  [version : 300..319, na_required : BOOLEAN, attention : BOOLEAN, fast_auth : BOOLEAN,
   end_of_response : BOOLEAN, field : Nat, verifier : Verifiers, genuine : BOOLEAN,
   password_ok : BOOLEAN]

ASSUME HandshakeConstants ==
  /\ Profiles \subseteq ServerProfiles
  /\ ClientField \in Nat /\ Field19 \in Nat /\ Field23 \in Nat
  /\ MaxResends \in Nat

VARIABLES
  server,       \* the profile of the server; never changes
  split,        \* the connect data is too long for the CONNECT packet
  pc,           \* the answer that the client waits for, or how it ended
  state,        \* ConnectionInner.state
  large_sdu,    \* ConnectionInner.large_sdu
  caps,         \* ConnectionInner.capabilities, the fields that vary
  resend_count, \* local of send_connect_packet
  phase,        \* AuthMessage.phase
  received,     \* accumulated_payload of receive_response
  sequence_number,
  toServer, toClient, peerOpen,
  session       \* what the server has agreed to

client == <<pc, state, large_sdu, caps, resend_count, phase, received, sequence_number>>
vars == <<server, split, client, toServer, toClient, peerOpen, session>>

Waiting == {"connect", "oob", "protocol", "datatypes", "auth1", "fast", "auth2"}
States == {"Connected", "ProtocolNegotiated", "DataTypesNegotiated", "Ready", "Closed"}
Phases == {"One", "Two", "Complete"}

\* Mutant: the larger header is expected from version 318 on.
UsesLargeSduLate(version) == version >= MIN_OOB_CHECK

\* AcceptMessage::uses_large_sdu
UsesLargeSdu(version) == version >= MIN_LARGE_SDU

Packet(type, large, msgs) == [type |-> type, large |-> large, msgs |-> msgs, ends |-> FALSE]
Msg(kind) == [kind |-> kind]

\* The CONNECT, with its data in a packet of its own when it is too long.
ConnectPackets ==
  <<Packet("CONNECT", FALSE, <<>>)>>
    \o (IF split THEN <<Packet("DATA", FALSE, <<Msg("ConnectData")>>)>> ELSE <<>>)

\* Capabilities::new
NewCapabilities ==
  [field |-> ClientField, fast_auth |-> FALSE, end_of_response |-> FALSE, eor_bit |-> FALSE]

Init ==
  /\ server \in Profiles /\ split \in BOOLEAN
  /\ pc = "connect"
  /\ state = "Connected"
  /\ large_sdu = FALSE
  /\ caps = NewCapabilities
  /\ resend_count = 0
  /\ phase = "One"
  /\ received = <<>>
  /\ sequence_number = 0
  /\ toServer = ConnectPackets
  /\ toClient = <<>>
  /\ peerOpen = TRUE
  /\ session = [stage |-> "listening", large |-> FALSE, field |-> 0, authenticated |-> FALSE,
                proof |-> "absent"]

----------------------------------------------------------------------------
\* Capabilities

\* AcceptMessage::parse: the versions and options that the client can serve.
AcceptParses(a) == a.version >= MIN_ACCEPTED /\ ~a.na_required

\* Flags2 is in an ACCEPT of version 318 or later only.
Flags2(a) ==
  IF a.version >= MIN_OOB_CHECK
  THEN [fast_auth |-> a.fast_auth, end_of_response |-> a.end_of_response]
  ELSE [fast_auth |-> FALSE, end_of_response |-> FALSE]

AdjustForProtocol(c, a) ==
  LET eor == a.version >= MIN_END_OF_RESPONSE /\ Flags2(a).end_of_response
  IN  [c EXCEPT !.fast_auth = @ \/ Flags2(a).fast_auth,
                !.end_of_response = @ \/ eor,
                !.eor_bit = @ \/ eor]

\* Mutant: the downgrade of END_OF_RESPONSE is forgotten.
AdjustForServerKeepingEor(c, field) ==
  [c EXCEPT !.field = IF field < @ THEN field ELSE @]

\* The field version is the lower of the two; END_OF_RESPONSE needs 23.4.
AdjustForServerCompileCaps(c, field) ==
  LET f == IF field < c.field THEN field ELSE c.field
  IN  IF f < Field23 /\ c.end_of_response
      THEN [c EXCEPT !.field = f, !.end_of_response = FALSE, !.eor_bit = FALSE]
      ELSE [c EXCEPT !.field = f]

----------------------------------------------------------------------------
\* Requests

\* send: the packets go out, or the peer is gone and connect returns an error.
Request(packets, next) ==
  \/ toServer' = toServer \o packets /\ pc' = next
  \/ ~peerOpen /\ UNCHANGED toServer /\ pc' = "failed"

Fails == pc' = "failed" /\ UNCHANGED toServer

DataTypes(c) == [kind |-> "DataTypes", field |-> c.field, eor |-> c.eor_bit]
AuthOne(field) == [kind |-> "AuthOne", field |-> field]
AuthTwo(field) == [kind |-> "AuthTwo", field |-> field]

SendProtocol(large) == Request(<<Packet("DATA", large, <<Msg("Protocol")>>)>>, "protocol")

SendDataTypes(c, large) == Request(<<Packet("DATA", large, <<DataTypes(c)>>)>>, "datatypes")

SendAuthOne(c, large) == Request(<<Packet("DATA", large, <<AuthOne(c.field)>>)>>, "auth1")

\* Protocol, data types and phase one in one packet, phase one as of 19c.
SendFastAuth(c, large) ==
  Request(<<Packet("DATA", large, <<Msg("Protocol"), DataTypes(c), AuthOne(Field19)>>)>>, "fast")

SendAuthTwo(c, large) == Request(<<Packet("DATA", large, <<AuthTwo(c.field)>>)>>, "auth2")

\* The raw byte "!" and a RESET marker.
SendOobCheck(large) ==
  Request(<<Packet("BYTE", large, <<>>), Packet("MARKER", large, <<>>)>>, "oob")

Negotiate(c, large) ==
  IF c.fast_auth THEN SendFastAuth(c, large) ELSE SendProtocol(large)

----------------------------------------------------------------------------
\* Answers

Receive(at) == pc = at /\ toClient # <<>> /\ toClient' = Tail(toClient)
Answer == Head(toClient)
First == Answer.msgs[1]
Others == UNCHANGED <<server, split, peerOpen, session>>
Keep == Others /\ UNCHANGED received

(***************************************************************************)
(* send_connect_packet: ACCEPT, or RESEND up to the limit; REFUSE,         *)
(* REDIRECT and anything else end the attempt.                             *)
(***************************************************************************)
RecvAccept ==
  /\ Receive("connect") /\ Answer.type = "ACCEPT"
  /\ IF AcceptParses(First)
     THEN /\ large_sdu' = UsesLargeSdu(First.version)
          /\ caps' = AdjustForProtocol(caps, First)
          /\ state' = "Connected"
          /\ IF First.version >= MIN_OOB_CHECK /\ First.attention
             THEN SendOobCheck(large_sdu')
             ELSE Negotiate(caps', large_sdu')
     ELSE Fails /\ UNCHANGED <<large_sdu, caps, state>>
  /\ UNCHANGED <<resend_count, phase, sequence_number>> /\ Keep

\* Mutant: the limit of resends is not looked at.
RecvResendUnlimited ==
  /\ Receive("connect") /\ Answer.type = "RESEND"
  /\ resend_count' = resend_count + 1
  /\ Request(ConnectPackets, "connect")
  /\ UNCHANGED <<state, large_sdu, caps, phase, sequence_number>> /\ Keep

RecvResend ==
  /\ Receive("connect") /\ Answer.type = "RESEND"
  /\ resend_count' = resend_count + 1
  /\ IF resend_count' > MaxResends THEN Fails ELSE Request(ConnectPackets, "connect")
  /\ UNCHANGED <<state, large_sdu, caps, phase, sequence_number>> /\ Keep

RecvRefusal ==
  /\ Receive("connect") /\ Answer.type \notin {"ACCEPT", "RESEND"}
  /\ Fails
  /\ UNCHANGED <<state, large_sdu, caps, resend_count, phase, sequence_number>> /\ Keep

\* send_oob_check takes any packet for the acknowledgement.
RecvOob ==
  /\ Receive("oob")
  /\ Negotiate(caps, large_sdu)
  /\ UNCHANGED <<state, large_sdu, caps, resend_count, phase, sequence_number>> /\ Keep

\* ProtocolMessage::parse_response
ProtocolParses(p) == p.type = "DATA" /\ p.msgs[1].kind = "Protocol"

RecvProtocol ==
  /\ Receive("protocol")
  /\ IF ProtocolParses(Answer)
     THEN /\ caps' = AdjustForServerCompileCaps(caps, First.field)
          /\ state' = "ProtocolNegotiated"
          /\ SendDataTypes(caps', large_sdu)
     ELSE Fails /\ UNCHANGED <<caps, state>>
  /\ UNCHANGED <<large_sdu, resend_count, phase, sequence_number>> /\ Keep

\* negotiate_data_types looks at the packet type only.
RecvDataTypes ==
  /\ Receive("datatypes")
  /\ IF Answer.type = "DATA"
     THEN /\ state' = "DataTypesNegotiated"
          /\ phase' = "One"
          /\ SendAuthOne(caps, large_sdu)
     ELSE Fails /\ UNCHANGED <<state, phase>>
  /\ UNCHANGED <<large_sdu, caps, resend_count, sequence_number>> /\ Keep

(***************************************************************************)
(* AuthMessage::parse_response in phase one, and generate_verifier: the    *)
(* session keys need AUTH_VFR_DATA of a known type.  On an error the       *)
(* AuthMessage is dropped with the connection.                             *)
(***************************************************************************)
GeneratesVerifier(msg) == msg.verifier \in {"V12C", "V11G"}

Derives(msg) == msg.kind = "AuthParams" /\ GeneratesVerifier(msg)

RecvAuthOne ==
  /\ Receive("auth1")
  /\ IF Answer.type = "DATA" /\ Derives(First)
     THEN phase' = "Two" /\ SendAuthTwo(caps, large_sdu)
     ELSE Fails /\ UNCHANGED phase
  /\ UNCHANGED <<state, large_sdu, caps, resend_count, sequence_number>> /\ Keep

(***************************************************************************)
(* The messages of a fast authentication answer are processed in order up  *)
(* to one that ends the loop.                                              *)
(***************************************************************************)
Before(msgs, i) == {msgs[j] : j \in 1..(i - 1)}
Negotiating == {"Protocol", "DataTypes"}
EndOfLoop(msgs) ==
  IF \E i \in 1..Len(msgs) : msgs[i].kind \notin Negotiating
  THEN CHOOSE i \in 1..Len(msgs) : /\ msgs[i].kind \notin Negotiating
                                   /\ \A j \in 1..(i - 1) : msgs[j].kind \in Negotiating
  ELSE Len(msgs) + 1

FastCaps(seen) ==
  IF \E m \in seen : m.kind = "Protocol"
  THEN AdjustForServerCompileCaps(caps, (CHOOSE m \in seen : m.kind = "Protocol").field)
  ELSE caps

\* Mutant: the data types in a fast answer do not move the state.
FastStateProtocolOnly(msgs, i) == IF i = 1 THEN state ELSE "ProtocolNegotiated"

FastState(msgs, i) ==
  IF i = 1 THEN state
  ELSE IF msgs[i - 1].kind = "DataTypes" THEN "DataTypesNegotiated" ELSE "ProtocolNegotiated"

(***************************************************************************)
(* receive_response, which both authentication answers are read with: DATA *)
(* packets are accumulated until one is flagged as the end, or until what  *)
(* there is begins with a message that scan_for_terminal_message takes for *)
(* the end.  An authentication answer does not say by itself where it      *)
(* ends: the scan believes any byte of it that has the value of ERROR or   *)
(* END_OF_RESPONSE (ended).                                                *)
(***************************************************************************)
TerminalFirst(msgs) ==
  \/ msgs[1].kind \in {"Error", "Status"}
  \/ msgs[1].kind = "AuthDone" /\ msgs[1].ended

\* Mutant: the end of response flag is not looked at.
RecognisedByScan(packet, msgs) == TerminalFirst(msgs)

Recognised(packet, msgs) == packet.ends \/ TerminalFirst(msgs)

Response == received \o Answer.msgs

\* The response is not complete as far as the client can tell: it receives again.
ReceiveMore ==
  /\ \E at \in {"fast", "auth2"} : Receive(at)
  /\ Answer.type = "DATA" /\ ~Recognised(Answer, Response)
  /\ received' = Response
  /\ UNCHANGED <<pc, state, large_sdu, caps, resend_count, phase, sequence_number, toServer>>
  /\ Others

ReceiveResponse(at) ==
  /\ Receive(at)
  /\ Answer.type = "DATA" => Recognised(Answer, Response)
  /\ received' = <<>>

(***************************************************************************)
(* Phase one parameters lead to phase two; a renegotiation leads back to   *)
(* the data types, with a new AuthMessage after it.  Anything else is an   *)
(* error, a marker too.                                                    *)
(***************************************************************************)
RecvFastAuth ==
  /\ ReceiveResponse("fast")
  /\ IF Answer.type # "DATA" THEN Fails /\ UNCHANGED <<caps, state, phase>>
     ELSE LET msgs == Response
              i == EndOfLoop(msgs)
              end == IF i > Len(msgs) THEN Msg("None") ELSE msgs[i]
          IN  /\ caps' = FastCaps(Before(msgs, i))
              /\ state' = FastState(msgs, i)
              /\ IF end.kind = "Renegotiate"
                 THEN SendDataTypes(caps', large_sdu) /\ UNCHANGED phase
                 ELSE IF Derives(end)
                 THEN phase' = "Two" /\ SendAuthTwo(caps', large_sdu)
                 ELSE Fails /\ UNCHANGED phase
  /\ UNCHANGED <<large_sdu, resend_count, sequence_number>> /\ Others

\* Mutant: the proof is not looked at.
ServerTrusted(msg) == msg.kind = "AuthDone"

\* verify_server_response: a proof, when there is one, has to be right.
ServerVerified(msg) == msg.proof \in {"absent", "valid"}

(***************************************************************************)
(* authenticate_phase_two and finish_authentication.                       *)
(***************************************************************************)
RecvAuthTwo ==
  /\ ReceiveResponse("auth2")
  /\ IF Answer.type = "DATA" /\ Response[1].kind = "AuthDone" /\ ServerVerified(Response[1])
     THEN /\ phase' = "Complete"
          /\ sequence_number' = 2
          /\ state' = "Ready"
          /\ pc' = "ready"
          /\ UNCHANGED toServer
     ELSE Fails /\ UNCHANGED <<phase, sequence_number, state>>
  /\ UNCHANGED <<large_sdu, caps, resend_count>> /\ Others

\* receive finds the connection gone.
ReadError ==
  /\ pc \in Waiting /\ toClient = <<>> /\ ~peerOpen
  /\ state' = "Closed" /\ received' = <<>>
  /\ Fails
  /\ UNCHANGED <<large_sdu, caps, resend_count, phase, sequence_number, toClient>> /\ Others

----------------------------------------------------------------------------
\* The server (external)

Reply(type, msgs, large) == toClient' = Append(toClient, Packet(type, large, msgs))

\* The server reads the packets that a request consists of.
Takes(n) ==
  /\ peerOpen /\ pc \in Waiting
  /\ Len(toServer) >= n
  /\ toServer' = SubSeq(toServer, n + 1, Len(toServer))
  /\ UNCHANGED <<server, split, client, peerOpen>>

Asked(kind) ==
  /\ session.stage = "session" /\ toServer # <<>> /\ toServer[1].type = "DATA"
  /\ toServer[1].msgs[1].kind = kind
  /\ Takes(1)

SrvAccept ==
  /\ session.stage = "listening" /\ Takes(Len(ConnectPackets))
  /\ Reply("ACCEPT", <<[version |-> server.version, na_required |-> server.na_required,
                        attention |-> server.attention, fast_auth |-> server.fast_auth,
                        end_of_response |-> server.end_of_response]>>, FALSE)
  /\ session' = [session EXCEPT !.stage = "session", !.large = server.version >= MIN_LARGE_SDU]

SrvResend ==
  /\ session.stage = "listening" /\ Takes(Len(ConnectPackets))
  /\ Reply("RESEND", <<>>, FALSE)
  /\ UNCHANGED session

SrvRefuse ==
  /\ session.stage = "listening" /\ Takes(Len(ConnectPackets))
  /\ \E type \in {"REFUSE", "REDIRECT"} : Reply(type, <<>>, FALSE)
  /\ UNCHANGED session

SrvOob ==
  /\ session.stage = "session" /\ toServer # <<>> /\ toServer[1].type = "BYTE"
  /\ Takes(2)
  /\ \E type \in {"MARKER", "DATA"} : Reply(type, <<>>, session.large)
  /\ UNCHANGED session

Lower(a, b) == IF a < b THEN a ELSE b

ProtocolAnswer == [kind |-> "Protocol", field |-> server.field]
AuthParams == [kind |-> "AuthParams", verifier |-> server.verifier]

SrvProtocol ==
  /\ Asked("Protocol") /\ Len(toServer[1].msgs) = 1
  /\ Reply("DATA", <<ProtocolAnswer>>, session.large)
  /\ UNCHANGED session

SrvDataTypes ==
  /\ Asked("DataTypes")
  /\ session' = [session EXCEPT !.field = Lower(server.field, toServer[1].msgs[1].field)]
  /\ Reply("DATA", <<Msg("DataTypes")>>, session.large)

SrvAuthOne ==
  /\ Asked("AuthOne")
  /\ Reply("DATA", <<AuthParams>>, session.large)
  /\ UNCHANGED session

\* A server flags the end of its responses when both sides have END_OF_RESPONSE.
EndsFlagged ==
  /\ server.version >= MIN_END_OF_RESPONSE /\ server.end_of_response
  /\ Lower(ClientField, server.field) >= Field23

\* A response in one packet, or cut in two after its first n messages.
Respond(msgs, n) ==
  LET cut == IF n = 0 THEN <<>> ELSE <<Packet("DATA", session.large, SubSeq(msgs, 1, n))>>
      last == [Packet("DATA", session.large, SubSeq(msgs, n + 1, Len(msgs)))
                 EXCEPT !.ends = EndsFlagged]
  IN  toClient' = toClient \o cut \o <<last>>

\* Fast authentication is answered in one response, or sent back to the data types.
SrvFastAuth ==
  /\ Asked("Protocol") /\ Len(toServer[1].msgs) = 3
  /\ \/ /\ session' = [session EXCEPT !.field = Lower(server.field, toServer[1].msgs[2].field)]
        /\ \E last \in {AuthParams, Msg("Error"), Msg("Status")}, n \in 0..2 :
             Respond(<<ProtocolAnswer, Msg("DataTypes"), last>>, n)
     \/ /\ \E n \in 0..1 : Respond(<<ProtocolAnswer, Msg("Renegotiate")>>, n)
        /\ UNCHANGED session

\* Only the database that knows the verifier can check the password and prove itself.
Proofs == IF server.genuine THEN {"absent", "valid"} ELSE {"absent", "invalid"}

AuthDone(proof, ended) == [kind |-> "AuthDone", proof |-> proof, ended |-> ended]

SrvAuthTwo ==
  /\ Asked("AuthTwo")
  /\ server.genuine => server.password_ok
  /\ \E proof \in Proofs, ended \in BOOLEAN :
       /\ session' = [session EXCEPT !.authenticated = TRUE, !.proof = proof]
       /\ Respond(<<AuthDone(proof, ended)>>, 0)

(***************************************************************************)
(* Any request of the session may be answered with an error or a BREAK     *)
(* marker; a server that has rejected one rejects what follows.            *)
(***************************************************************************)
SrvReject ==
  /\ session.stage \in {"session", "rejected"}
  /\ toServer # <<>> /\ toServer[1].type = "DATA"
  /\ Takes(1)
  /\ \/ Reply("DATA", <<Msg("Error")>>, session.large)
     \/ Reply("MARKER", <<>>, session.large)
  /\ session' = [session EXCEPT !.stage = "rejected"]

SrvDrop ==
  /\ peerOpen /\ pc \in Waiting
  /\ peerOpen' = FALSE
  /\ toClient' \in {toClient, <<>>}
  /\ UNCHANGED <<server, split, client, toServer, session>>

----------------------------------------------------------------------------
ClientStep ==
  \/ RecvAccept \/ RecvResend \/ RecvRefusal \/ RecvOob \/ RecvProtocol \/ RecvDataTypes
  \/ RecvAuthOne \/ RecvFastAuth \/ RecvAuthTwo \/ ReceiveMore \/ ReadError

SrvAnswer ==
  \/ SrvAccept \/ SrvResend \/ SrvRefuse \/ SrvOob \/ SrvProtocol \/ SrvDataTypes
  \/ SrvAuthOne \/ SrvFastAuth \/ SrvAuthTwo \/ SrvReject

Next == ClientStep \/ SrvAnswer \/ SrvDrop

\* The task is polled, and a server that is up answers.
Fairness == WF_vars(ClientStep) /\ WF_vars(SrvAnswer)

Spec == Init /\ [][Next]_vars

FairSpec == Spec /\ Fairness

----------------------------------------------------------------------------
\* Properties

(***************************************************************************)
(* The type invariant.                                                     *)
(***************************************************************************)
TypeOK ==
  /\ server \in Profiles /\ split \in BOOLEAN
  /\ pc \in Waiting \cup {"ready", "failed"}
  /\ state \in States
  /\ large_sdu \in BOOLEAN
  /\ caps \in [field : Nat, fast_auth : BOOLEAN, end_of_response : BOOLEAN, eor_bit : BOOLEAN]
  /\ resend_count \in 0..(MaxResends + 1)
  /\ phase \in Phases
  /\ received # <<>> => pc \in {"fast", "auth2"}
  /\ sequence_number \in {0, 2}
  /\ peerOpen \in BOOLEAN
  /\ session \in [stage : {"listening", "session", "rejected"}, large : BOOLEAN, field : Nat,
                   authenticated : BOOLEAN, proof : {"absent", "valid", "invalid"}]

(***************************************************************************)
(* A connection handed to the caller is the one that the exchange starts   *)
(* from: Ready, sequence number 2, and nothing of the handshake left in    *)
(* flight (finish_authentication).                                         *)
(***************************************************************************)
ReadyIsClean ==
  pc = "ready" =>
    state = "Ready" /\ sequence_number = 2 /\ toServer = <<>> /\ toClient = <<>>

(***************************************************************************)
(* Ready means that both sides agree: the TTC field version is the lower   *)
(* of the two, on the ordinary path, by fast authentication and after a    *)
(* renegotiation; END_OF_RESPONSE is on exactly if the server offered it   *)
(* and the version has it (adjust_for_protocol and                         *)
(* adjust_for_server_compile_caps).                                        *)
(***************************************************************************)
Negotiated ==
  pc = "ready" =>
    /\ caps.field = session.field
    /\ caps.field = Lower(ClientField, server.field)
    /\ caps.end_of_response =
         (server.version >= MIN_END_OF_RESPONSE /\ server.end_of_response
          /\ caps.field >= Field23)
    /\ caps.eor_bit = caps.end_of_response

(***************************************************************************)
(* What connect promises of a connection that it hands to the caller: the  *)
(* exchange can begin on it.                                               *)
(***************************************************************************)
ReadyForUse == ReadyIsClean /\ Negotiated

(***************************************************************************)
(* Ready means that the server took the password in this session and that  *)
(* it gave no wrong proof of its own, whatever was rejected, renegotiated  *)
(* or ignored on the way (negotiate_data_types accepts an ERROR message).  *)
(* A server that gives no proof at all is accepted                         *)
(* (verify_server_response).                                               *)
(***************************************************************************)
Authenticated ==
  pc = "ready" =>
    /\ session.stage = "session" /\ session.authenticated /\ session.proof # "invalid"
    /\ server.genuine => server.password_ok

(***************************************************************************)
(* Whoever reads a packet expects the header it was written with, and the  *)
(* server reads each authentication message in the field version that it   *)
(* was written in: 19c inside a fast authentication, otherwise the agreed  *)
(* one.                                                                    *)
(***************************************************************************)
Readable ==
  pc \in Waiting =>
    /\ \A i \in 1..Len(toClient) : toClient[i].large = large_sdu
    /\ \A i \in 1..Len(toServer) :
         /\ toServer[i].large = session.large
         /\ \A j \in 1..Len(toServer[i].msgs) :
              LET m == toServer[i].msgs[j] IN
              /\ m.kind = "AuthTwo" => m.field = session.field
              /\ m.kind = "AuthOne" =>
                   \/ m.field = (IF j = 1 THEN session.field ELSE Field19)
                   \/ session.stage = "rejected"

(***************************************************************************)
(* The state only advances, and Ready is entered from DataTypesNegotiated: *)
(* no path skips the negotiation (ConnectionState).                        *)
(***************************************************************************)
Rank(s) ==
  CASE s = "Connected" -> 1 [] s = "ProtocolNegotiated" -> 2
    [] s = "DataTypesNegotiated" -> 3 [] s = "Ready" -> 4 [] s = "Closed" -> 5

StateAdvances ==
  [][/\ Rank(state') >= Rank(state)
     /\ state' = "Ready" => state \in {"DataTypesNegotiated", "Ready"}]_vars

(***************************************************************************)
(* connect returns, however often the listener asks for the CONNECT again  *)
(* (MAX_RESENDS), however the answers are cut into packets and wherever    *)
(* the server rejects or goes away.  The one exception is a server without *)
(* END_OF_RESPONSE: the client cannot tell that an authentication answer   *)
(* is complete unless its first message tells, and waits for more.         *)
(***************************************************************************)
Unrecognised ==
  /\ ~EndsFlagged /\ received # <<>> /\ ~TerminalFirst(received)
  /\ peerOpen /\ toServer = <<>> /\ toClient = <<>>

HandshakeEnds == <>(pc \in {"ready", "failed"} \/ Unrecognised)
=============================================================================
