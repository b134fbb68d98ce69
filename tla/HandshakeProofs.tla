-------------------------- MODULE HandshakeProofs --------------------------
(***************************************************************************)
(* Proofs about Handshake, for every server that the code can meet, every  *)
(* field version of the client and any limit of resends.                   *)
(*                                                                         *)
(* The inductive invariant says what is known at each point of the         *)
(* handshake: what the client has negotiated there (Known), and which      *)
(* single request or answer is in flight (InFlight).                       *)
(***************************************************************************)
EXTENDS Handshake, SequenceTheorems, TLAPS

CapsType == [field : Nat, fast_auth : BOOLEAN, end_of_response : BOOLEAN, eor_bit : BOOLEAN]

SessionType == [stage : {"listening", "session", "rejected"}, large : BOOLEAN, field : Nat,
                authenticated : BOOLEAN, proof : {"absent", "valid", "invalid"}]

AcceptMsg == [version |-> server.version, na_required |-> server.na_required,
              attention |-> server.attention, fast_auth |-> server.fast_auth,
              end_of_response |-> server.end_of_response]

\* The capabilities after the ACCEPT, and after the answer to the protocol request.
Accepted == AdjustForProtocol(NewCapabilities, AcceptMsg)
Final == AdjustForServerCompileCaps(Accepted, server.field)

CapsAt(p) ==
  IF p = "connect" THEN NewCapabilities
  ELSE IF p \in {"oob", "protocol", "fast"} THEN Accepted ELSE Final

LargeAt(p) == p # "connect" /\ server.version >= MIN_LARGE_SDU

StateAt(p) ==
  IF p \in {"connect", "oob", "protocol", "fast"} THEN "Connected"
  ELSE IF p = "datatypes" THEN "ProtocolNegotiated" ELSE "DataTypesNegotiated"

Known(p) ==
  /\ caps = CapsAt(p) /\ large_sdu = LargeAt(p) /\ state = StateAt(p)
  /\ resend_count <= MaxResends

\* The request that the client waits at p for an answer to.
RequestAt(p) ==
  IF p = "connect" THEN ConnectPackets
  ELSE IF p = "oob" THEN <<Packet("BYTE", LargeAt(p), <<>>), Packet("MARKER", LargeAt(p), <<>>)>>
  ELSE <<Packet("DATA", LargeAt(p),
           IF p = "protocol" THEN <<Msg("Protocol")>>
           ELSE IF p = "datatypes" THEN <<DataTypes(Final)>>
           ELSE IF p = "auth1" THEN <<AuthOne(Final.field)>>
           ELSE IF p = "fast" THEN <<Msg("Protocol"), DataTypes(Accepted), AuthOne(Field19)>>
           ELSE <<AuthTwo(Final.field)>>)>>

\* The session before the server has answered the request sent at p.
AskedView(p) ==
  /\ session.large = LargeAt(p)
  /\ session.stage = "listening" <=> p = "connect"
  /\ session.stage = "rejected" => p = "auth1"
  /\ p \in {"auth1", "auth2"} /\ session.stage = "session" => session.field = Final.field

\* The answer, and the session after it was given.
FastAnswers == {AuthParams, Msg("Error"), Msg("Status")}

Answered(p, msgs) ==
  /\ p = "protocol" => msgs = <<ProtocolAnswer>>
  /\ p \in {"datatypes", "auth1", "auth2"} => session.field = Final.field
  /\ p = "auth1" => msgs = <<AuthParams>>
  /\ p = "fast" =>
       \/ /\ \E last \in FastAnswers : msgs = <<ProtocolAnswer, Msg("DataTypes"), last>>
          /\ session.field = Final.field
       \/ msgs = <<ProtocolAnswer, Msg("Renegotiate")>>
  /\ p = "auth2" =>
       /\ \E proof \in Proofs, ended \in BOOLEAN :
            msgs = <<AuthDone(proof, ended)>> /\ session.proof = proof
       /\ session.authenticated
       /\ server.genuine => server.password_ok

AnswerView(p, a) ==
  /\ a.large = LargeAt(p)
  /\ p = "connect" =>
       IF a.type = "ACCEPT"
       THEN a.msgs = <<AcceptMsg>> /\ session.stage = "session"
            /\ session.large = (server.version >= MIN_LARGE_SDU)
       ELSE session.stage = "listening" /\ ~session.large
  /\ p # "connect" =>
       /\ session.large = LargeAt(p)
       /\ session.stage \in {"session", "rejected"}
       /\ p = "oob" => session.stage = "session"
       /\ session.stage = "session" /\ p # "oob" => a.type = "DATA" /\ Answered(p, a.msgs)
       /\ session.stage = "rejected" => a.type # "DATA" \/ a.msgs = <<Msg("Error")>>

\* A packet of a response that the client has begun to receive, or will in two packets.
Joined(a, msgs) == [type |-> a.type, large |-> a.large, msgs |-> msgs \o a.msgs]

Beginning(msgs) == Len(msgs) > 0 /\ msgs[1] = ProtocolAnswer

CutAnswer(a, msgs) ==
  /\ a.type = "DATA" /\ Beginning(msgs) /\ AnswerView("fast", Joined(a, msgs))

Cut ==
  \/ \E a, b : /\ toClient = <<a, b>> /\ received = <<>>
              /\ a.type = "DATA" /\ a.large = LargeAt("fast") /\ ~a.ends
              /\ <<>> \o a.msgs = a.msgs /\ CutAnswer(b, a.msgs)
  \/ \E b : toClient = <<b>> /\ CutAnswer(b, received)

InFlight(p) ==
  \/ received = <<>> /\ toClient = <<>> /\ toServer = RequestAt(p) /\ AskedView(p)
  \/ received = <<>> /\ toServer = <<>> /\ \E a : toClient = <<a>> /\ AnswerView(p, a)
  \/ toServer = <<>> /\ p = "fast" /\ Cut
  \/ toServer = <<>> /\ toClient = <<>>

ReadyView ==
  pc = "ready" =>
    /\ state = "Ready" /\ sequence_number = 2 /\ toServer = <<>> /\ toClient = <<>>
    /\ caps = Final /\ session.field = Final.field
    /\ session.stage = "session" /\ session.authenticated /\ session.proof # "invalid"
    /\ server.genuine => server.password_ok

Waits == pc \in Waiting => Known(pc) /\ InFlight(pc)

IInv == TypeOK /\ Waits /\ ReadyView

----------------------------------------------------------------------------
LEMMA ServerKnown ==
  ASSUME server \in Profiles
  PROVE  /\ server.version \in 300..319 /\ server.field \in Nat
         /\ server.fast_auth \in BOOLEAN /\ server.end_of_response \in BOOLEAN
         /\ server.genuine \in BOOLEAN
<1>1. server \in ServerProfiles
  BY HandshakeConstants
<1> QED BY <1>1 DEF ServerProfiles

LEMMA CapsTyped ==
  ASSUME server \in Profiles
  PROVE  NewCapabilities \in CapsType /\ Accepted \in CapsType /\ Final \in CapsType
<1>1. NewCapabilities \in CapsType
  BY HandshakeConstants DEF NewCapabilities, CapsType
<1>2. Accepted \in CapsType
  <2> DEFINE f == Flags2(AcceptMsg).fast_auth
             e == AcceptMsg.version >= MIN_END_OF_RESPONSE /\ Flags2(AcceptMsg).end_of_response
  <2>1. f \in BOOLEAN /\ e \in BOOLEAN
    BY ServerKnown DEF Flags2, AcceptMsg
  <2>2. Accepted = [NewCapabilities EXCEPT !.fast_auth = @ \/ f, !.end_of_response = @ \/ e,
                                           !.eor_bit = @ \/ e]
    BY DEF Accepted, AdjustForProtocol
  <2> HIDE DEF f, e
  <2> QED BY <1>1, <2>1, <2>2 DEF CapsType
<1>3. Final \in CapsType
  <2> DEFINE f == IF server.field < Accepted.field THEN server.field ELSE Accepted.field
  <2>1. f \in Nat
    BY <1>2, ServerKnown DEF CapsType
  <2>2. \/ Final = [Accepted EXCEPT !.field = f, !.end_of_response = FALSE, !.eor_bit = FALSE]
        \/ Final = [Accepted EXCEPT !.field = f]
    BY DEF Final, AdjustForServerCompileCaps
  <2> HIDE DEF f
  <2> QED BY <1>2, <2>1, <2>2 DEF CapsType
<1> QED BY <1>1, <1>2, <1>3

\* What both sides arrive at.
LEMMA FinalCaps ==
  ASSUME server \in Profiles
  PROVE  /\ Accepted.field = ClientField
         /\ Final.field = Lower(ClientField, server.field)
         /\ Final.field = Lower(server.field, Accepted.field)
         /\ Final.field = Lower(server.field, Final.field)
         /\ Final.end_of_response <=> (/\ server.version >= MIN_END_OF_RESPONSE
                                       /\ server.end_of_response /\ Final.field >= Field23)
         /\ Final.eor_bit = Final.end_of_response
<1> DEFINE e == server.version >= MIN_END_OF_RESPONSE /\ server.end_of_response
           low == Lower(ClientField, server.field)
<1>1. server.version \in Int /\ server.field \in Nat /\ ClientField \in Nat /\ Field23 \in Nat
  BY ServerKnown, HandshakeConstants
<1>2. /\ Accepted \in CapsType /\ Accepted.field = ClientField
      /\ Accepted.end_of_response = e /\ Accepted.eor_bit = e
  <2>1. (AcceptMsg.version >= MIN_END_OF_RESPONSE /\ Flags2(AcceptMsg).end_of_response) = e
    BY <1>1 DEF AcceptMsg, Flags2, MIN_OOB_CHECK, MIN_END_OF_RESPONSE
  <2>2. Accepted = [NewCapabilities EXCEPT !.fast_auth = @ \/ Flags2(AcceptMsg).fast_auth,
                                           !.end_of_response = @ \/ e, !.eor_bit = @ \/ e]
    BY <2>1 DEF Accepted, AdjustForProtocol
  <2>3. Accepted \in CapsType
    BY CapsTyped
  <2>4. Accepted.field = ClientField
    BY <2>2 DEF NewCapabilities
  <2>5. Accepted.end_of_response = (FALSE \/ e) /\ Accepted.eor_bit = (FALSE \/ e)
    BY <2>2 DEF NewCapabilities
  <2> HIDE DEF e
  <2>6. e \in BOOLEAN
    BY DEF e
  <2> QED BY <2>3, <2>4, <2>5, <2>6
<1>3. (IF server.field < Accepted.field THEN server.field ELSE Accepted.field) = low
  BY <1>1, <1>2 DEF Lower
<1>4. low \in Nat /\ low = Lower(server.field, ClientField) /\ low = Lower(server.field, low)
  BY <1>1 DEF Lower
<1>5. /\ Final.field = low
      /\ Final.end_of_response <=> e /\ low >= Field23
      /\ Final.eor_bit <=> e /\ low >= Field23
  <2>1. CASE low < Field23 /\ e
    <3>1. Final = [Accepted EXCEPT !.field = low, !.end_of_response = FALSE, !.eor_bit = FALSE]
      BY <1>2, <1>3, <2>1 DEF Final, AdjustForServerCompileCaps
    <3> HIDE DEF low, e
    <3>2. Final.field = low /\ ~Final.end_of_response /\ ~Final.eor_bit
      BY <1>2, <3>1 DEF CapsType
    <3>3. ~(low >= Field23)
      BY <1>1, <1>4, <2>1
    <3> QED BY <3>2, <3>3
  <2>2. CASE ~(low < Field23 /\ e)
    <3>1. Final = [Accepted EXCEPT !.field = low]
      BY <1>2, <1>3, <2>2 DEF Final, AdjustForServerCompileCaps
    <3> HIDE DEF low, e
    <3>2. Final.field = low /\ Final.end_of_response = e /\ Final.eor_bit = e
      BY <1>2, <3>1 DEF CapsType
    <3>3. e => low >= Field23
      BY <1>1, <1>4, <2>2
    <3> QED BY <3>2, <3>3
  <2> QED BY <2>1, <2>2
<1>6. Final.end_of_response \in BOOLEAN /\ Final.eor_bit \in BOOLEAN
  BY CapsTyped DEF CapsType
<1>7. Final.end_of_response <=> e /\ Final.field >= Field23
  BY <1>5
<1>8. Final.eor_bit = Final.end_of_response
  <2> HIDE DEF e
  <2> QED BY <1>5, <1>6
<1> QED BY <1>2, <1>4, <1>5, <1>7, <1>8

LEMMA HandshakeInit == Init => IInv
<1> SUFFICES ASSUME Init PROVE IInv
  OBVIOUS
<1>1. TypeOK
  <2>1. caps \in CapsType /\ server \in Profiles
    BY CapsTyped DEF Init
  <2>2. session \in SessionType
    BY DEF Init, SessionType
  <2>3. resend_count \in 0..(MaxResends + 1)
    BY HandshakeConstants DEF Init
  <2> QED BY <2>1, <2>2, <2>3 DEF Init, TypeOK, Waiting, States, Phases, CapsType, SessionType
<1>2. Waits
  <2>1. pc = "connect" /\ ~LargeAt("connect") /\ resend_count <= MaxResends
    BY HandshakeConstants DEF Init, LargeAt
  <2>2. Known("connect")
    BY <2>1 DEF Init, Known, CapsAt, StateAt, LargeAt
  <2>3. AskedView("connect")
    BY <2>1 DEF Init, AskedView, LargeAt
  <2>4. InFlight("connect")
    BY <2>3 DEF Init, InFlight, RequestAt
  <2> QED BY <2>1, <2>2, <2>4 DEF Waits
<1>3. ReadyView
  BY DEF Init, ReadyView
<1> QED BY <1>1, <1>2, <1>3 DEF IInv

----------------------------------------------------------------------------
\* The server

LEMMA Pending ==
  ASSUME IInv, NEW n \in Nat \ {0}, Takes(n)
  PROVE  /\ pc \in Waiting /\ Known(pc) /\ toClient = <<>>
         /\ toServer = RequestAt(pc) /\ AskedView(pc) /\ received = <<>>
<1>1. pc \in Waiting /\ Known(pc) /\ InFlight(pc)
  BY DEF Takes, IInv, Waits
<1>2. toServer # <<>>
  BY DEF Takes
<1> QED BY <1>1, <1>2 DEF InFlight

\* The server has read all that was sent and has answered it.
LEMMA Served ==
  ASSUME IInv, NEW n \in Nat \ {0}, Takes(n), n = Len(toServer), session' \in SessionType,
         toServer' = <<>> /\ received' = <<>> => InFlight(pc)'
  PROVE  IInv'
<1>1. /\ pc \in Waiting /\ Known(pc) /\ received = <<>>
      /\ UNCHANGED <<server, split, client, peerOpen>>
  BY Pending DEF Takes
<1>2. toServer' = <<>>
  BY SubSeqEmpty DEF Takes
<1>3. TypeOK'
  BY <1>1 DEF IInv, TypeOK, client, SessionType
<1>4. Known(pc)'
  BY <1>1 DEF Known, client, CapsAt, LargeAt, StateAt, Accepted, Final, AcceptMsg
<1>5. InFlight(pc)'
  BY <1>1, <1>2 DEF client
<1>6. pc' # "ready"
  BY <1>1 DEF client, Waiting
<1> QED BY <1>3, <1>4, <1>5, <1>6 DEF IInv, Waits, ReadyView

\* One packet answers all that was sent.
LEMMA Replying ==
  ASSUME IInv, NEW n \in Nat \ {0}, Takes(n), n = Len(toServer), session' \in SessionType,
         NEW a, toClient' = Append(toClient, a), AnswerView(pc, a)'
  PROVE  IInv'
<1>1. toClient' = <<a>>
  <2>1. toClient = <<>>
    BY Pending
  <2> QED BY <2>1
<1>2. toServer' = <<>> /\ received' = <<>> => InFlight(pc)'
  BY <1>1 DEF InFlight
<1> QED BY <1>2, Served

LEMMA TwoPackets ==
  ASSUME NEW a, NEW b
  PROVE  Append(<<a>>, b) = <<a, b>>
<1>1. <<a>> \in Seq({a, b}) /\ <<a, b>> \in Seq({a, b}) /\ b \in {a, b}
  OBVIOUS
<1>2. Append(<<a>>, b) \in Seq({a, b}) /\ Len(Append(<<a>>, b)) = 2 /\ Len(<<a, b>>) = 2
  BY <1>1, AppendProperties
<1>3. \A i \in 1..2 : Append(<<a>>, b)[i] = <<a, b>>[i]
  BY <1>1, AppendProperties
<1> QED BY <1>1, <1>2, <1>3, SeqEqual

\* A response in one packet or in two.
LEMMA Responding ==
  ASSUME NEW S, NEW msgs \in Seq(S), NEW n \in 0..(Len(msgs) - 1), toClient = <<>>,
         Respond(msgs, n)
  PROVE  \/ \E a : /\ toClient' = <<a>> /\ a.type = "DATA" /\ a.large = session.large
                   /\ a.msgs = msgs
         \/ \E a, b : /\ toClient' = <<a, b>> /\ a.type = "DATA" /\ b.type = "DATA"
                      /\ a.large = session.large /\ b.large = session.large /\ ~a.ends
                      /\ <<>> \o a.msgs = a.msgs /\ Len(a.msgs) > 0 /\ a.msgs[1] = msgs[1]
                      /\ a.msgs \o b.msgs = msgs
<1>1. PICK head : head = SubSeq(msgs, 1, n)
  OBVIOUS
<1>2. PICK tail : tail = SubSeq(msgs, n + 1, Len(msgs))
  OBVIOUS
<1>3. PICK b : b = [Packet("DATA", session.large, tail) EXCEPT !.ends = EndsFlagged]
  OBVIOUS
<1>4. b.type = "DATA" /\ b.large = session.large /\ b.msgs = tail
  BY <1>3 DEF Packet
<1>5. CASE n = 0
  <2>1. tail = msgs
    BY <1>2, <1>5, SubSeqFull
  <2>2. toClient' = <<>> \o <<>> \o <<b>>
    BY <1>2, <1>3, <1>5 DEF Respond
  <2>3. toClient' = <<b>>
    BY <2>2
  <2> QED BY <1>4, <2>1, <2>3
<1>6. CASE n # 0
  <2>1. PICK a : a = Packet("DATA", session.large, head)
    OBVIOUS
  <2>2. a.type = "DATA" /\ a.large = session.large /\ a.msgs = head /\ ~a.ends
    BY <2>1 DEF Packet
  <2>3. toClient' = <<>> \o <<a>> \o <<b>>
    BY <1>1, <1>2, <1>3, <1>6, <2>1 DEF Respond
  <2>4. toClient' = <<a, b>>
    <3>1. <<a>> \in Seq({a, b}) /\ <<b>> \in Seq({a, b})
      OBVIOUS
    <3>2. <<>> \o <<a>> = <<a>>
      BY <3>1, ConcatEmptySeq
    <3>3. Append(<<a>>, b) = <<a>> \o <<b>>
      BY <3>1, AppendIsConcat
    <3>4. Append(<<a>>, b) = <<a, b>>
      BY TwoPackets
    <3> QED BY <2>3, <3>2, <3>3, <3>4
  <2>5. n \in 1..Len(msgs) /\ Len(msgs) \in Nat
    BY <1>6
  <2>6. head \in Seq(S) /\ Len(head) = n /\ Len(head) > 0 /\ head[1] = msgs[1]
    BY <1>1, <2>5, SubSeqProperties
  <2>7. <<>> \o head = head
    BY <2>6, ConcatEmptySeq
  <2>8. head \o tail = msgs
    <3>1. SubSeq(msgs, 1, n) \o SubSeq(msgs, n + 1, Len(msgs)) = SubSeq(msgs, 1, Len(msgs))
      BY <2>5, ConcatAdjacentSubSeq
    <3> QED BY <1>1, <1>2, <3>1, SubSeqFull
  <2>9. /\ toClient' = <<a, b>> /\ a.type = "DATA" /\ b.type = "DATA"
        /\ a.large = session.large /\ b.large = session.large /\ ~a.ends
        /\ <<>> \o a.msgs = a.msgs /\ Len(a.msgs) > 0 /\ a.msgs[1] = msgs[1]
        /\ a.msgs \o b.msgs = msgs
    BY <1>4, <2>2, <2>4, <2>6, <2>7, <2>8
  <2> QED BY <2>9
<1> QED BY <1>5, <1>6

\* What the first packet tells of the point that the client is at.
LEMMA Asking ==
  ASSUME IInv, Takes(1), session.stage # "listening", toServer[1].type = "DATA"
  PROVE  /\ Len(toServer) = 1 /\ pc \in Waiting \ {"connect", "oob"}
         /\ pc = "protocol" => toServer[1].msgs = <<Msg("Protocol")>>
         /\ pc = "datatypes" => toServer[1].msgs = <<DataTypes(Final)>>
         /\ pc = "auth1" => toServer[1].msgs = <<AuthOne(Final.field)>>
         /\ pc = "fast" =>
              toServer[1].msgs = <<Msg("Protocol"), DataTypes(Accepted), AuthOne(Field19)>>
         /\ pc = "auth2" => toServer[1].msgs = <<AuthTwo(Final.field)>>
<1>1. pc \in Waiting /\ toServer = RequestAt(pc) /\ AskedView(pc)
  BY Pending
<1>2. pc # "connect"
  BY <1>1 DEF AskedView
<1>3. pc # "oob"
  BY <1>1 DEF RequestAt, Packet
<1> QED BY <1>1, <1>2, <1>3 DEF RequestAt, Packet, Waiting

LEMMA SessionMoves ==
  ASSUME IInv
  PROVE  /\ session \in SessionType
         /\ \A x \in BOOLEAN : [session EXCEPT !.stage = "session", !.large = x] \in SessionType
         /\ [session EXCEPT !.stage = "rejected"] \in SessionType
         /\ \A f \in Nat : [session EXCEPT !.field = f] \in SessionType
         /\ \A x \in {"absent", "valid", "invalid"} :
              [session EXCEPT !.authenticated = TRUE, !.proof = x] \in SessionType
BY DEF IInv, TypeOK, SessionType

LEMMA SrvAcceptInv == IInv /\ SrvAccept => IInv'
<1> SUFFICES ASSUME IInv, SrvAccept PROVE IInv'
  OBVIOUS
<1>1. PICK n : n = Len(ConnectPackets)
  OBVIOUS
<1>2. PICK a : a = Packet("ACCEPT", FALSE, <<AcceptMsg>>)
  OBVIOUS
<1>3. PICK large \in BOOLEAN : large = (server.version >= MIN_LARGE_SDU)
  <2>1. (server.version >= MIN_LARGE_SDU) \in BOOLEAN
    BY ServerKnown DEF IInv, TypeOK, MIN_LARGE_SDU
  <2> QED BY <2>1, Zenon
<1>4. n \in Nat \ {0} /\ Takes(n)
  BY <1>1 DEF SrvAccept, ConnectPackets
<1>5. pc = "connect" /\ toServer = ConnectPackets /\ AskedView(pc)
  BY <1>4, Pending DEF SrvAccept, AskedView, RequestAt
<1>6. session' = [session EXCEPT !.stage = "session", !.large = large]
  BY <1>3 DEF SrvAccept
<1>7. session' \in SessionType
  BY <1>6, SessionMoves
<1>8. session'.stage = "session" /\ session'.large = large
  BY <1>6, SessionMoves DEF SessionType
<1>9. toClient' = Append(toClient, a)
  BY <1>2 DEF SrvAccept, Reply, AcceptMsg
<1>10. server' = server /\ pc' = pc
  BY <1>4 DEF Takes, client
<1>11. AnswerView(pc, a)'
  BY <1>2, <1>3, <1>5, <1>8, <1>10 DEF AnswerView, LargeAt, Packet, AcceptMsg
<1> QED BY <1>1, <1>4, <1>5, <1>7, <1>9, <1>11, Replying

LEMMA SrvConnectInv == IInv /\ (SrvResend \/ SrvRefuse) => IInv'
<1> SUFFICES ASSUME IInv, SrvResend \/ SrvRefuse PROVE IInv'
  OBVIOUS
<1>1. PICK n : n = Len(ConnectPackets)
  OBVIOUS
<1>2. session.stage = "listening" /\ Takes(n) /\ session' = session
  BY <1>1 DEF SrvResend, SrvRefuse
<1>3. n \in Nat \ {0}
  BY <1>1 DEF ConnectPackets
<1>4. pc = "connect" /\ toServer = ConnectPackets /\ AskedView(pc)
  BY <1>2, <1>3, Pending DEF AskedView, RequestAt
<1>5. PICK type \in {"RESEND", "REFUSE", "REDIRECT"} :
        toClient' = Append(toClient, Packet(type, FALSE, <<>>))
  BY DEF SrvResend, SrvRefuse, Reply
<1>6. PICK a : a = Packet(type, FALSE, <<>>)
  OBVIOUS
<1>7. session' \in SessionType /\ ~session.large
  BY <1>2, <1>4, SessionMoves DEF AskedView, LargeAt
<1>8. server' = server /\ pc' = pc
  BY <1>2 DEF Takes, client
<1>9. AnswerView(pc, a)'
  BY <1>2, <1>4, <1>6, <1>7, <1>8 DEF AnswerView, LargeAt, Packet
<1> QED BY <1>1, <1>2, <1>3, <1>4, <1>5, <1>6, <1>7, <1>9, Replying

LEMMA SrvOobInv == IInv /\ SrvOob => IInv'
<1> SUFFICES ASSUME IInv, SrvOob PROVE IInv'
  OBVIOUS
<1>1. Takes(2) /\ session' = session /\ session.stage = "session" /\ toServer[1].type = "BYTE"
  BY DEF SrvOob
<1>2. toServer = RequestAt(pc) /\ AskedView(pc) /\ pc \in Waiting
  BY <1>1, Pending
<1>3. pc = "oob" /\ Len(toServer) = 2
  <2>1. pc # "connect"
    BY <1>1, <1>2 DEF AskedView
  <2> QED BY <1>1, <1>2, <2>1 DEF RequestAt, Packet
<1>4. PICK type \in {"MARKER", "DATA"} : toClient' = Append(toClient, Packet(type, session.large, <<>>))
  BY DEF SrvOob, Reply
<1>5. PICK a : a = Packet(type, session.large, <<>>)
  OBVIOUS
<1>6. server' = server /\ pc' = pc
  BY <1>1 DEF Takes, client
<1>7. AnswerView(pc, a)'
  BY <1>1, <1>2, <1>3, <1>5, <1>6 DEF AnswerView, AskedView, LargeAt, Packet
<1>8. session' \in SessionType
  BY <1>1, SessionMoves
<1> QED BY <1>1, <1>3, <1>4, <1>5, <1>7, <1>8, Replying

LEMMA SrvProtocolInv == IInv /\ SrvProtocol => IInv'
<1> SUFFICES ASSUME IInv, SrvProtocol PROVE IInv'
  OBVIOUS
<1>1. /\ Takes(1) /\ session' = session /\ session.stage = "session" /\ toServer[1].type = "DATA"
      /\ toServer[1].msgs[1].kind = "Protocol" /\ Len(toServer[1].msgs) = 1
  BY DEF SrvProtocol, Asked
<1>2. pc = "protocol" /\ Len(toServer) = 1 /\ AskedView(pc)
  <2>1. pc # "datatypes" /\ pc # "auth1" /\ pc # "auth2"
    BY <1>1, Asking DEF DataTypes, AuthOne, AuthTwo
  <2>2. pc # "fast"
    BY <1>1, Asking
  <2> QED BY <1>1, <2>1, <2>2, Asking, Pending DEF Waiting
<1>3. PICK a : a = Packet("DATA", session.large, <<ProtocolAnswer>>)
  OBVIOUS
<1>4. server' = server /\ pc' = pc
  BY <1>1 DEF Takes, client
<1>5. AnswerView(pc, a)'
  BY <1>1, <1>2, <1>3, <1>4 DEF AnswerView, AskedView, LargeAt, Packet, Answered, ProtocolAnswer
<1>6. session' \in SessionType
  BY <1>1, SessionMoves
<1>7. toClient' = Append(toClient, a)
  BY <1>3 DEF SrvProtocol, Reply
<1> QED BY <1>1, <1>2, <1>5, <1>6, <1>7, Replying

\* The server takes over the lower of the two field versions.
LEMMA FieldAgreed ==
  ASSUME IInv, NEW f, session.stage = "session", server' = server,
         f = Accepted.field \/ f = Final.field,
         session' = [session EXCEPT !.field = Lower(server.field, f)]
  PROVE  /\ session' \in SessionType /\ session'.field = Final.field
         /\ session'.large = session.large /\ session'.stage = "session"
         /\ Final' = Final
<1>1. server \in Profiles
  BY DEF IInv, TypeOK
<1>2. PICK g \in Nat : g = Final.field
  BY <1>1, CapsTyped DEF CapsType
<1>3. session' = [session EXCEPT !.field = g]
  BY <1>1, <1>2, FinalCaps
<1>4. session' \in SessionType
  BY <1>3, SessionMoves
<1>5. session'.field = g /\ session'.large = session.large /\ session'.stage = "session"
  <2>1. session \in SessionType
    BY SessionMoves
  <2>2. session'.field = g
    BY <1>3, <2>1 DEF SessionType
  <2>3. session'.large = session.large
    BY <1>3, <2>1 DEF SessionType
  <2>4. session'.stage = session.stage
    BY <1>3, <2>1 DEF SessionType
  <2> QED BY <2>2, <2>3, <2>4
<1>6. Final' = Final
  BY DEF Final, Accepted, AcceptMsg
<1> QED BY <1>2, <1>4, <1>5, <1>6

LEMMA SrvDataTypesInv == IInv /\ SrvDataTypes => IInv'
<1> SUFFICES ASSUME IInv, SrvDataTypes PROVE IInv'
  OBVIOUS
<1>1. /\ Takes(1) /\ session.stage = "session" /\ toServer[1].type = "DATA"
      /\ toServer[1].msgs[1].kind = "DataTypes"
      /\ session' = [session EXCEPT !.field = Lower(server.field, toServer[1].msgs[1].field)]
  BY DEF SrvDataTypes, Asked
<1>2. /\ pc = "datatypes" /\ Len(toServer) = 1 /\ AskedView(pc)
      /\ toServer[1].msgs[1].field = Final.field
  <2>1. pc # "protocol" /\ pc # "fast" /\ pc # "auth1" /\ pc # "auth2"
    BY <1>1, Asking DEF Msg, AuthOne, AuthTwo
  <2> QED BY <1>1, <2>1, Asking, Pending DEF Waiting, DataTypes
<1>3. PICK a : a = Packet("DATA", session.large, <<Msg("DataTypes")>>)
  OBVIOUS
<1>4. server' = server /\ pc' = pc
  BY <1>1 DEF Takes, client
<1>5. PICK f : f = Final.field
  OBVIOUS
<1>6. /\ session' \in SessionType /\ session'.field = Final.field
      /\ session'.large = session.large /\ session'.stage = "session"
      /\ Final' = Final
  BY <1>1, <1>2, <1>4, <1>5, FieldAgreed
<1>7. AnswerView(pc, a)'
  BY <1>2, <1>3, <1>4, <1>6 DEF AnswerView, AskedView, LargeAt, Packet, Answered
<1>8. toClient' = Append(toClient, a)
  BY <1>3 DEF SrvDataTypes, Reply
<1> QED BY <1>1, <1>2, <1>6, <1>7, <1>8, Replying

LEMMA SrvAuthOneInv == IInv /\ SrvAuthOne => IInv'
<1> SUFFICES ASSUME IInv, SrvAuthOne PROVE IInv'
  OBVIOUS
<1>1. /\ Takes(1) /\ session.stage = "session" /\ toServer[1].type = "DATA"
      /\ toServer[1].msgs[1].kind = "AuthOne" /\ session' = session
  BY DEF SrvAuthOne, Asked
<1>2. pc = "auth1" /\ Len(toServer) = 1 /\ AskedView(pc)
  <2>1. pc # "protocol" /\ pc # "fast" /\ pc # "datatypes" /\ pc # "auth2"
    BY <1>1, Asking DEF Msg, DataTypes, AuthTwo
  <2> QED BY <1>1, <2>1, Asking, Pending DEF Waiting
<1>3. PICK a : a = Packet("DATA", session.large, <<AuthParams>>)
  OBVIOUS
<1>4. server' = server /\ pc' = pc
  BY <1>1 DEF Takes, client
<1>5. AnswerView(pc, a)'
  BY <1>1, <1>2, <1>3, <1>4
  DEF AnswerView, AskedView, LargeAt, Packet, Answered, AuthParams, Final, Accepted, AcceptMsg
<1>6. session' \in SessionType
  BY <1>1, SessionMoves
<1>7. toClient' = Append(toClient, a)
  BY <1>3 DEF SrvAuthOne, Reply
<1> QED BY <1>1, <1>2, <1>5, <1>6, <1>7, Replying

\* Any cut of a response that answers a fast authentication leads to the invariant.
LEMMA FastResponding ==
  ASSUME IInv, Takes(1), pc = "fast", Len(toServer) = 1, session' \in SessionType,
         session'.large = session.large, session'.stage = "session", AskedView("fast"),
         NEW S, NEW msgs \in Seq(S), NEW n \in 0..(Len(msgs) - 1), Respond(msgs, n),
         msgs[1] = ProtocolAnswer, Answered("fast", msgs)'
  PROVE  IInv'
<1>1. toClient = <<>> /\ UNCHANGED <<server, split, client, peerOpen>>
  BY Pending DEF Takes
<1>2. pc' = "fast" /\ LargeAt("fast")' = LargeAt("fast") /\ ProtocolAnswer' = ProtocolAnswer
  BY <1>1 DEF client, LargeAt, ProtocolAnswer
<1>3. session.large = LargeAt("fast")
  BY DEF AskedView
<1>4. ASSUME NEW a, a.type = "DATA", a.large = session.large, a.msgs = msgs
      PROVE  AnswerView("fast", a)'
  BY <1>2, <1>3, <1>4 DEF AnswerView
<1>5. ASSUME toServer' = <<>>, received' = <<>> PROVE InFlight("fast")'
  <2>1. CASE \E a : /\ toClient' = <<a>> /\ a.type = "DATA" /\ a.large = session.large
                   /\ a.msgs = msgs
    BY <1>4, <1>5, <2>1 DEF InFlight
  <2>2. CASE \E a, b : /\ toClient' = <<a, b>> /\ a.type = "DATA" /\ b.type = "DATA"
                      /\ a.large = session.large /\ b.large = session.large /\ ~a.ends
                      /\ <<>> \o a.msgs = a.msgs /\ Len(a.msgs) > 0 /\ a.msgs[1] = msgs[1]
                      /\ a.msgs \o b.msgs = msgs
    <3>1. PICK a, b : /\ toClient' = <<a, b>> /\ a.type = "DATA" /\ b.type = "DATA"
                      /\ a.large = session.large /\ b.large = session.large /\ ~a.ends
                      /\ <<>> \o a.msgs = a.msgs /\ Len(a.msgs) > 0 /\ a.msgs[1] = msgs[1]
                      /\ a.msgs \o b.msgs = msgs
      BY <2>2
    <3>2. PICK w : w = Joined(b, a.msgs)
      OBVIOUS
    <3>3. w.type = "DATA" /\ w.large = session.large /\ w.msgs = msgs
      BY <3>1, <3>2 DEF Joined
    <3>4. AnswerView("fast", w)'
      BY <1>4, <3>3
    <3>5. CutAnswer(b, a.msgs)'
      BY <1>2, <3>1, <3>2, <3>4 DEF CutAnswer, Beginning, Joined
    <3>6. Cut'
      BY <1>2, <1>3, <1>5, <3>1, <3>5 DEF Cut
    <3> QED BY <1>5, <3>6 DEF InFlight
  <2>3. \/ \E a : /\ toClient' = <<a>> /\ a.type = "DATA" /\ a.large = session.large
                  /\ a.msgs = msgs
        \/ \E a, b : /\ toClient' = <<a, b>> /\ a.type = "DATA" /\ b.type = "DATA"
                     /\ a.large = session.large /\ b.large = session.large /\ ~a.ends
                     /\ <<>> \o a.msgs = a.msgs /\ Len(a.msgs) > 0 /\ a.msgs[1] = msgs[1]
                     /\ a.msgs \o b.msgs = msgs
    BY <1>1, Responding
  <2> QED BY <2>1, <2>2, <2>3
<1>6. toServer' = <<>> /\ received' = <<>> => InFlight(pc)'
  BY <1>2, <1>5
<1> QED BY <1>6, Served

LEMMA SrvFastAuthInv == IInv /\ SrvFastAuth => IInv'
<1> SUFFICES ASSUME IInv, SrvFastAuth PROVE IInv'
  OBVIOUS
<1>1. /\ Takes(1) /\ session.stage = "session" /\ toServer[1].type = "DATA"
      /\ Len(toServer[1].msgs) = 3
  BY DEF SrvFastAuth, Asked
<1>2. /\ pc = "fast" /\ Len(toServer) = 1 /\ AskedView(pc)
      /\ toServer[1].msgs[2].field = Accepted.field
  <2>1. pc # "protocol" /\ pc # "datatypes" /\ pc # "auth1" /\ pc # "auth2"
    BY <1>1, Asking
  <2> QED BY <1>1, <2>1, Asking, Pending DEF Waiting, DataTypes
<1>3. server' = server /\ pc' = pc
  BY <1>1 DEF Takes, client
<1>4. ProtocolAnswer' = ProtocolAnswer /\ FastAnswers' = FastAnswers
  BY <1>3 DEF ProtocolAnswer, FastAnswers, AuthParams
<1>5. ASSUME NEW last \in FastAnswers, NEW n \in 0..2,
             session' = [session EXCEPT !.field = Lower(server.field, toServer[1].msgs[2].field)],
             Respond(<<ProtocolAnswer, Msg("DataTypes"), last>>, n)
      PROVE  IInv'
  <2>1. PICK msgs : msgs = <<ProtocolAnswer, Msg("DataTypes"), last>>
    OBVIOUS
  <2>2. PICK f : f = Accepted.field
    OBVIOUS
  <2>3. /\ session' \in SessionType /\ session'.field = Final.field
        /\ session'.large = session.large /\ session'.stage = "session"
        /\ Final' = Final
    BY <1>1, <1>2, <1>3, <1>5, <2>2, FieldAgreed
  <2>4. PICK S : S = {ProtocolAnswer, Msg("DataTypes"), last}
    OBVIOUS
  <2>5. msgs \in Seq(S) /\ Len(msgs) = 3 /\ msgs[1] = ProtocolAnswer
    <3>1. PICK a, b : a = ProtocolAnswer /\ b = Msg("DataTypes")
      OBVIOUS
    <3>2. msgs = <<a, b, last>> /\ S = {a, b, last}
      BY <2>1, <2>4, <3>1
    <3> QED BY <3>1, <3>2
  <2>6. Answered("fast", msgs)'
    BY <1>4, <1>5, <2>1, <2>3 DEF Answered
  <2>7. n \in 0..(Len(msgs) - 1)
    BY <2>5
  <2> QED BY <1>1, <1>2, <1>5, <2>1, <2>3, <2>5, <2>6, <2>7, FastResponding
<1>6. ASSUME NEW n \in 0..1, Respond(<<ProtocolAnswer, Msg("Renegotiate")>>, n), session' = session
      PROVE  IInv'
  <2>1. PICK msgs : msgs = <<ProtocolAnswer, Msg("Renegotiate")>>
    OBVIOUS
  <2>2. session' \in SessionType
    BY <1>6, SessionMoves
  <2>3. PICK S : S = {ProtocolAnswer, Msg("Renegotiate")}
    OBVIOUS
  <2>4. msgs \in Seq(S) /\ Len(msgs) = 2 /\ msgs[1] = ProtocolAnswer
    <3>1. PICK a, b : a = ProtocolAnswer /\ b = Msg("Renegotiate")
      OBVIOUS
    <3>2. msgs = <<a, b>> /\ S = {a, b}
      BY <2>1, <2>3, <3>1
    <3> QED BY <3>1, <3>2
  <2>5. Answered("fast", msgs)'
    BY <1>4, <2>1 DEF Answered
  <2>6. n \in 0..(Len(msgs) - 1)
    BY <2>4
  <2> QED BY <1>1, <1>2, <1>6, <2>1, <2>2, <2>4, <2>5, <2>6, FastResponding
<1> QED BY <1>5, <1>6 DEF SrvFastAuth, FastAnswers

LEMMA SrvAuthTwoInv == IInv /\ SrvAuthTwo => IInv'
<1> SUFFICES ASSUME IInv, SrvAuthTwo PROVE IInv'
  OBVIOUS
<1>1. /\ Takes(1) /\ session.stage = "session" /\ toServer[1].type = "DATA"
      /\ toServer[1].msgs[1].kind = "AuthTwo"
      /\ server.genuine => server.password_ok
  BY DEF SrvAuthTwo, Asked
<1>2. pc = "auth2" /\ Len(toServer) = 1 /\ AskedView(pc)
  <2>1. pc # "protocol" /\ pc # "fast" /\ pc # "datatypes" /\ pc # "auth1"
    BY <1>1, Asking DEF Msg, DataTypes, AuthOne
  <2> QED BY <1>1, <2>1, Asking, Pending DEF Waiting
<1>3. PICK proof \in Proofs, ended \in BOOLEAN :
        /\ session' = [session EXCEPT !.authenticated = TRUE, !.proof = proof]
        /\ Respond(<<AuthDone(proof, ended)>>, 0)
  BY DEF SrvAuthTwo
<1>4. PICK a : /\ toClient' = Append(toClient, a) /\ a.type = "DATA" /\ a.large = session.large
               /\ a.msgs = <<AuthDone(proof, ended)>>
  <2>1. PICK m : m = AuthDone(proof, ended)
    OBVIOUS
  <2>2. <<m>> \in Seq({m}) /\ Len(<<m>>) = 1
    OBVIOUS
  <2>3. toClient = <<>> /\ Respond(<<m>>, 0)
    BY <1>1, <1>3, <2>1, Pending
  <2>4. SubSeq(<<m>>, 1, 1) = <<m>>
    BY <2>2, SubSeqFull
  <2>5. PICK b : b = [Packet("DATA", session.large, <<m>>) EXCEPT !.ends = EndsFlagged]
    OBVIOUS
  <2>6. toClient' = <<>> \o <<>> \o <<b>>
    <3>1. 0 + 1 = 1
      OBVIOUS
    <3> QED BY <2>2, <2>3, <2>4, <2>5, <3>1 DEF Respond
  <2>7. toClient' = Append(toClient, b)
    BY <2>3, <2>6
  <2>8. b.type = "DATA" /\ b.large = session.large /\ b.msgs = <<m>>
    BY <2>5 DEF Packet
  <2> QED BY <2>1, <2>7, <2>8
<1>5. server' = server /\ pc' = pc
  BY <1>1 DEF Takes, client
<1>6. session' \in SessionType
  BY <1>3, SessionMoves DEF Proofs
<1>7. /\ session'.authenticated /\ session'.proof = proof /\ session'.large = session.large
      /\ session'.stage = "session" /\ session'.field = session.field
  <2>1. session \in SessionType
    BY SessionMoves
  <2> QED BY <1>1, <1>3, <2>1 DEF SessionType
<1>8. Final' = Final /\ Proofs' = Proofs
  BY <1>5 DEF Final, Accepted, AcceptMsg, Proofs
<1>9. AnswerView(pc, a)'
  BY <1>1, <1>2, <1>4, <1>5, <1>7, <1>8 DEF AnswerView, AskedView, LargeAt, Answered
<1> QED BY <1>1, <1>2, <1>4, <1>6, <1>9, Replying

LEMMA SrvRejectInv == IInv /\ SrvReject => IInv'
<1> SUFFICES ASSUME IInv, SrvReject PROVE IInv'
  OBVIOUS
<1>1. /\ Takes(1) /\ session.stage # "listening" /\ toServer[1].type = "DATA"
      /\ session' = [session EXCEPT !.stage = "rejected"]
  BY DEF SrvReject
<1>2. pc \in Waiting \ {"connect", "oob"} /\ Len(toServer) = 1 /\ AskedView(pc)
  BY <1>1, Asking, Pending
<1>3. PICK a : /\ toClient' = Append(toClient, a)
               /\ \/ a = Packet("DATA", session.large, <<Msg("Error")>>)
                  \/ a = Packet("MARKER", session.large, <<>>)
  BY DEF SrvReject, Reply
<1>4. server' = server /\ pc' = pc
  BY <1>1 DEF Takes, client
<1>5. session' \in SessionType
  BY <1>1, SessionMoves
<1>6. session'.stage = "rejected" /\ session'.large = session.large
  BY <1>1, SessionMoves DEF SessionType
<1>7. AnswerView(pc, a)'
  BY <1>2, <1>3, <1>4, <1>6 DEF AnswerView, AskedView, LargeAt, Packet
<1> QED BY <1>1, <1>2, <1>3, <1>5, <1>7, Replying

\* The invariant speaks of these variables only.
LEMMA SameFlight ==
  ASSUME UNCHANGED <<server, split, session>>, NEW p
  PROVE  /\ RequestAt(p)' = RequestAt(p) /\ AskedView(p)' = AskedView(p)
         /\ \A a : AnswerView(p, a)' = AnswerView(p, a)
         /\ CapsAt(p)' = CapsAt(p) /\ LargeAt(p)' = LargeAt(p) /\ StateAt(p)' = StateAt(p)
BY DEF RequestAt, AskedView, AnswerView, Answered, CapsAt, LargeAt, StateAt, Final, Accepted,
       AcceptMsg, ConnectPackets, ProtocolAnswer, AuthParams, FastAnswers, Proofs

LEMMA SameCut ==
  ASSUME UNCHANGED <<server, split, session, toClient, received>>, Cut
  PROVE  Cut'
<1>1. /\ LargeAt("fast")' = LargeAt("fast") /\ ProtocolAnswer' = ProtocolAnswer
      /\ \A w : AnswerView("fast", w)' = AnswerView("fast", w)
  BY SameFlight DEF ProtocolAnswer
<1>2. ASSUME NEW b, NEW msgs, CutAnswer(b, msgs) PROVE CutAnswer(b, msgs)'
  <2>1. PICK w : w = Joined(b, msgs)
    OBVIOUS
  <2>2. AnswerView("fast", w)'
    BY <1>1, <1>2, <2>1 DEF CutAnswer
  <2> QED BY <1>1, <1>2, <2>1, <2>2 DEF CutAnswer, Beginning, Joined
<1> QED BY <1>1, <1>2 DEF Cut

LEMMA SrvDropInv == IInv /\ SrvDrop => IInv'
<1> SUFFICES ASSUME IInv, SrvDrop PROVE IInv'
  OBVIOUS
<1>1. /\ pc \in Waiting /\ peerOpen' = FALSE /\ toClient' \in {toClient, <<>>}
      /\ UNCHANGED <<server, split, client, toServer, session>>
  BY DEF SrvDrop
<1>2. TypeOK'
  <2>1. UNCHANGED <<server, split, pc, state, large_sdu, caps, resend_count, phase, received,
                    sequence_number, session>> /\ peerOpen' \in BOOLEAN
    BY <1>1 DEF client
  <2> QED BY <2>1 DEF IInv, TypeOK
<1>3. PICK p : p = pc /\ p = pc'
  BY <1>1 DEF client
<1>4. Known(p)' /\ InFlight(p)'
  <2>1. Known(p) /\ InFlight(p)
    BY <1>1, <1>3 DEF IInv, Waits
  <2>2. Known(p)'
    BY <1>1, <2>1, SameFlight DEF Known, client
  <2>3. UNCHANGED <<server, split, session, received, toServer>>
    BY <1>1 DEF client
  <2>4. /\ RequestAt(p)' = RequestAt(p) /\ AskedView(p)' = AskedView(p)
        /\ \A a : AnswerView(p, a)' = AnswerView(p, a)
    BY <2>3, SameFlight
  <2>5. InFlight(p)'
    <3>1. CASE toClient' = <<>>
      <4>1. \/ received = <<>> /\ toServer = RequestAt(p) /\ AskedView(p)
            \/ toServer = <<>>
        BY <2>1 DEF InFlight
      <4>2. \/ received' = <<>> /\ toServer' = RequestAt(p)' /\ AskedView(p)'
            \/ toServer' = <<>>
        BY <2>3, <2>4, <4>1
      <4> QED BY <3>1, <4>2 DEF InFlight
    <3>2. CASE toClient' = toClient
      <4>1. Cut => Cut'
        BY <2>3, <3>2, SameCut
      <4>2. CASE received = <<>> /\ toClient = <<>> /\ toServer = RequestAt(p) /\ AskedView(p)
        BY <2>3, <2>4, <3>2, <4>2 DEF InFlight
      <4>3. CASE received = <<>> /\ toServer = <<>> /\ \E a : toClient = <<a>> /\ AnswerView(p, a)
        <5>1. PICK a : toClient = <<a>> /\ AnswerView(p, a)
          BY <4>3
        <5>2. toClient' = <<a>> /\ AnswerView(p, a)'
          BY <2>4, <3>2, <5>1
        <5> QED BY <2>3, <4>3, <5>2 DEF InFlight
      <4>4. CASE toServer = <<>> /\ ((p = "fast" /\ Cut) \/ toClient = <<>>)
        BY <2>3, <3>2, <4>1, <4>4 DEF InFlight
      <4> QED BY <2>1, <4>2, <4>3, <4>4 DEF InFlight
    <3> QED BY <1>1, <3>1, <3>2
  <2> QED BY <2>2, <2>5
<1>5. pc' # "ready"
  BY <1>1 DEF client, Waiting
<1> QED BY <1>1, <1>2, <1>3, <1>4, <1>5 DEF IInv, Waits, ReadyView
----------------------------------------------------------------------------
\* The client

LocalType ==
  /\ state \in States /\ large_sdu \in BOOLEAN /\ caps \in CapsType
  /\ resend_count \in 0..(MaxResends + 1) /\ phase \in Phases /\ sequence_number \in {0, 2}

\* What a step of the client leaves: the rest of the system, and nothing half received.
Rests == Others /\ received' = <<>>

LEMMA Received ==
  ASSUME IInv, NEW p \in Waiting \ {"fast"}, Receive(p)
  PROVE  /\ pc = p /\ Known(p) /\ toServer = <<>> /\ toClient' = <<>> /\ received = <<>>
         /\ AnswerView(p, Answer) /\ LocalType /\ server \in Profiles
<1>1. pc = p /\ toClient # <<>> /\ toClient' = Tail(toClient)
  BY DEF Receive
<1>2. Known(p) /\ InFlight(p)
  BY <1>1 DEF IInv, Waits
<1>3. PICK a : /\ toServer = <<>> /\ toClient = <<a>> /\ AnswerView(p, a)
               /\ received = <<>>
  BY <1>1, <1>2 DEF InFlight
<1>4. Answer = a /\ toClient' = <<>>
  BY <1>1, <1>3 DEF Answer
<1> QED BY <1>1, <1>2, <1>3, <1>4 DEF IInv, TypeOK, LocalType, CapsType

\* What is in flight when a fast authentication is answered.
LEMMA FastFlight ==
  ASSUME IInv, Receive("fast")
  PROVE  /\ pc = "fast" /\ Known("fast") /\ toServer = <<>> /\ LocalType /\ server \in Profiles
         /\ \/ /\ received = <<>> /\ toClient' = <<>> /\ AnswerView("fast", Answer)
            \/ /\ received = <<>> /\ \E b : toClient' = <<b>> /\ CutAnswer(b, Answer.msgs)
               /\ Answer.type = "DATA" /\ ~Answer.ends /\ <<>> \o Answer.msgs = Answer.msgs
            \/ toClient' = <<>> /\ CutAnswer(Answer, received)
<1>1. pc = "fast" /\ toClient # <<>> /\ toClient' = Tail(toClient)
  BY DEF Receive
<1>2. Known("fast") /\ InFlight("fast")
  BY <1>1 DEF IInv, Waits, Waiting
<1>3. toServer = <<>> /\ LocalType /\ server \in Profiles
  BY <1>1, <1>2 DEF InFlight, IInv, TypeOK, LocalType, CapsType
<1>4. CASE received = <<>> /\ \E a : toClient = <<a>> /\ AnswerView("fast", a)
  BY <1>1, <1>2, <1>3, <1>4 DEF Answer
<1>5. ASSUME NEW a, NEW b, toClient = <<a, b>>, received = <<>>, a.type = "DATA", ~a.ends,
             <<>> \o a.msgs = a.msgs, CutAnswer(b, a.msgs)
      PROVE  /\ \E c : toClient' = <<c>> /\ CutAnswer(c, Answer.msgs)
             /\ Answer.type = "DATA" /\ ~Answer.ends /\ <<>> \o Answer.msgs = Answer.msgs
  <2>1. Answer = a /\ toClient' = <<b>>
    BY <1>1, <1>5 DEF Answer
  <2> QED BY <1>5, <2>1
<1>6. ASSUME NEW b, toClient = <<b>>, CutAnswer(b, received)
      PROVE  toClient' = <<>> /\ CutAnswer(Answer, received)
  BY <1>1, <1>6 DEF Answer
<1>7. CASE Cut
  BY <1>1, <1>2, <1>3, <1>5, <1>6, <1>7 DEF Cut
<1> QED BY <1>1, <1>2, <1>4, <1>7 DEF InFlight

\* An answer in one packet with what was received of it.
WholeAnswer(w) ==
  /\ AnswerView("fast", w) /\ w.type = Answer.type
  /\ w.type = "DATA" => w.msgs = Response

\* The response that ends a fast authentication, in however many packets it came.
LEMMA FastReceived ==
  ASSUME IInv, ReceiveResponse("fast")
  PROVE  /\ pc = "fast" /\ Known("fast") /\ toServer = <<>> /\ toClient' = <<>>
         /\ received' = <<>> /\ LocalType /\ server \in Profiles
         /\ \E w : WholeAnswer(w)
<1>1. /\ Receive("fast") /\ received' = <<>>
      /\ Answer.type = "DATA" => Recognised(Answer, Response)
  BY DEF ReceiveResponse
<1>2. CASE received = <<>> /\ toClient' = <<>> /\ AnswerView("fast", Answer)
  <2>1. Answer.type = "DATA" => <<>> \o Answer.msgs = Answer.msgs
    <3>1. ASSUME Answer.type = "DATA" PROVE \E S : Answer.msgs \in Seq(S)
      <4>1. CASE Answer.msgs = <<Msg("Error")>>
        <5>1. PICK m : m = Msg("Error")
          OBVIOUS
        <5>2. Answer.msgs \in Seq({m})
          BY <4>1, <5>1
        <5> QED BY <5>2
      <4>2. CASE Answer.msgs = <<ProtocolAnswer, Msg("Renegotiate")>>
        <5>1. PICK a, b : a = ProtocolAnswer /\ b = Msg("Renegotiate")
          OBVIOUS
        <5>2. Answer.msgs \in Seq({a, b})
          BY <4>2, <5>1
        <5> QED BY <5>2
      <4>3. ASSUME NEW last, Answer.msgs = <<ProtocolAnswer, Msg("DataTypes"), last>>
            PROVE  \E S : Answer.msgs \in Seq(S)
        <5>1. PICK a, b : a = ProtocolAnswer /\ b = Msg("DataTypes")
          OBVIOUS
        <5>2. Answer.msgs \in Seq({a, b, last})
          BY <4>3, <5>1
        <5> QED BY <5>2
      <4>4. session.stage \in {"session", "rejected"}
        BY <1>2 DEF AnswerView
      <4> QED BY <1>2, <3>1, <4>1, <4>2, <4>3, <4>4 DEF AnswerView, Answered
    <3> QED BY <3>1, ConcatEmptySeq
  <2> QED BY <1>1, <1>2, <2>1, FastFlight DEF Response, WholeAnswer
<1>3. CASE /\ received = <<>> /\ \E b : toClient' = <<b>> /\ CutAnswer(b, Answer.msgs)
           /\ Answer.type = "DATA" /\ ~Answer.ends /\ <<>> \o Answer.msgs = Answer.msgs
  <2>1. Response = Answer.msgs /\ Response[1] = ProtocolAnswer
    BY <1>3 DEF Response, CutAnswer, Beginning
  <2>2. ~Recognised(Answer, Response)
    BY <1>3, <2>1 DEF Recognised, TerminalFirst, ProtocolAnswer
  <2> QED BY <1>1, <1>3, <2>2
<1>4. CASE toClient' = <<>> /\ CutAnswer(Answer, received)
  <2>1. PICK w : w = Joined(Answer, received)
    OBVIOUS
  <2>2. AnswerView("fast", w) /\ w.type = Answer.type /\ w.msgs = Response
    BY <1>4, <2>1 DEF CutAnswer, Joined, Response
  <2> QED BY <1>1, <1>4, <2>2, FastFlight DEF WholeAnswer
<1> QED BY <1>1, <1>2, <1>3, <1>4, FastFlight

LEMMA Stopping ==
  ASSUME IInv, Rests, LocalType', pc' = "failed"
  PROVE  IInv'
BY DEF IInv, TypeOK, Waits, ReadyView, Waiting, LocalType, CapsType, Rests, Others

LEMMA RequestSeq ==
  ASSUME NEW p \in Waiting
  PROVE  <<>> \o RequestAt(p) = RequestAt(p)
<1>1. \E S : RequestAt(p) \in Seq(S)
  <2>1. CASE p = "connect"
    <3>1. CASE split
      <4> DEFINE a == Packet("CONNECT", FALSE, <<>>)
                 b == Packet("DATA", FALSE, <<Msg("ConnectData")>>)
      <4>1. RequestAt(p) = <<a>> \o <<b>>
        BY <2>1, <3>1 DEF RequestAt, ConnectPackets
      <4> HIDE DEF a, b
      <4>2. <<a>> \o <<b>> \in Seq({a, b})
        OBVIOUS
      <4> QED BY <4>1, <4>2
    <3>2. CASE ~split
      <4> DEFINE a == Packet("CONNECT", FALSE, <<>>)
      <4>1. RequestAt(p) = <<a>> \o <<>>
        BY <2>1, <3>2 DEF RequestAt, ConnectPackets
      <4> HIDE DEF a
      <4>2. <<a>> \o <<>> \in Seq({a})
        OBVIOUS
      <4> QED BY <4>1, <4>2
    <3> QED BY <3>1, <3>2
  <2>2. CASE p = "oob"
    <3> DEFINE a == Packet("BYTE", LargeAt(p), <<>>)
               b == Packet("MARKER", LargeAt(p), <<>>)
    <3>1. RequestAt(p) = <<a, b>>
      BY <2>2 DEF RequestAt
    <3> HIDE DEF a, b
    <3>2. <<a, b>> \in Seq({a, b})
      OBVIOUS
    <3> QED BY <3>1, <3>2
  <2>3. CASE p \notin {"connect", "oob"}
    <3>1. PICK a : RequestAt(p) = <<a>>
      BY <2>3 DEF RequestAt
    <3>2. <<a>> \in Seq({a})
      OBVIOUS
    <3> QED BY <3>1, <3>2
  <2> QED BY <2>1, <2>2, <2>3
<1> QED BY <1>1, ConcatEmptySeq

\* The client sends the request of its next point of waiting, or finds the peer gone.
LEMMA Sending ==
  ASSUME IInv, Rests, LocalType', NEW next \in Waiting, toServer = <<>>, toClient' = <<>>,
         Request(RequestAt(next), next), Known(next)', AskedView(next)
  PROVE  IInv'
<1>1. CASE pc' = "failed"
  BY <1>1, Stopping
<1>2. CASE pc' # "failed"
  <2>1. pc' = next /\ toServer' = RequestAt(next)
    BY <1>2, RequestSeq DEF Request
  <2>2. RequestAt(next)' = RequestAt(next) /\ AskedView(next)' = AskedView(next)
    BY DEF Rests, Others, RequestAt, AskedView, LargeAt, Final, Accepted, AcceptMsg, ConnectPackets
  <2>3. InFlight(next)'
    BY <2>1, <2>2 DEF InFlight, Rests
  <2>4. Waits'
    BY <2>1, <2>3 DEF Waits
  <2>5. TypeOK'
    BY <2>1 DEF IInv, TypeOK, LocalType, CapsType, Rests, Others
  <2>6. pc' # "ready"
    BY <2>1 DEF Waiting
  <2> QED BY <2>4, <2>5, <2>6 DEF IInv, ReadyView
<1> QED BY <1>1, <1>2

\* What is known at a point depends on the server, which does not change.
LEMMA SameServer ==
  ASSUME Rests, NEW p
  PROVE  /\ CapsAt(p)' = CapsAt(p) /\ LargeAt(p)' = LargeAt(p) /\ StateAt(p)' = StateAt(p)
BY DEF Rests, Others, CapsAt, LargeAt, StateAt, Final, Accepted, AcceptMsg

LEMMA NegotiateSends ==
  ASSUME NEW c, NEW large, c = Accepted, large = LargeAt("protocol"), Negotiate(c, large)
  PROVE  \E next \in {"protocol", "fast"} : Request(RequestAt(next), next)
<1>1. RequestAt("protocol") = <<Packet("DATA", large, <<Msg("Protocol")>>)>>
  BY DEF RequestAt
<1>2. RequestAt("fast") =
        <<Packet("DATA", large, <<Msg("Protocol"), DataTypes(c), AuthOne(Field19)>>)>>
  BY DEF RequestAt, LargeAt
<1> QED BY <1>1, <1>2 DEF Negotiate, SendProtocol, SendFastAuth

LEMMA RecvAcceptInv == IInv /\ RecvAccept => IInv'
<1> SUFFICES ASSUME IInv, RecvAccept PROVE IInv'
  OBVIOUS
<1>1. /\ pc = "connect" /\ Known("connect") /\ toServer = <<>> /\ toClient' = <<>>
      /\ received = <<>> /\ AnswerView("connect", Answer) /\ LocalType /\ server \in Profiles
  BY Received DEF RecvAccept, Waiting
<1>2. Answer.type = "ACCEPT" /\ Rests /\ UNCHANGED <<resend_count, phase, sequence_number>>
  BY <1>1 DEF RecvAccept, Keep, Rests
<1>3. First = AcceptMsg /\ session.stage = "session" /\ session.large = LargeAt("protocol")
  BY <1>1, <1>2 DEF AnswerView, First, LargeAt
<1>4. CASE ~AcceptParses(First)
  <2>1. LocalType' /\ pc' = "failed"
    BY <1>1, <1>2, <1>4 DEF RecvAccept, Fails, LocalType
  <2> QED BY <1>2, <2>1, Stopping
<1>5. CASE AcceptParses(First)
  <2>1. caps' = Accepted /\ state' = "Connected"
    BY <1>1, <1>3, <1>5 DEF RecvAccept, Known, CapsAt, Accepted
  <2>2. large_sdu' = LargeAt("protocol")
    BY <1>3, <1>5 DEF RecvAccept, UsesLargeSdu, LargeAt, AcceptMsg
  <2>3. LargeAt("protocol") \in BOOLEAN
    BY <1>1, ServerKnown DEF LargeAt, MIN_LARGE_SDU
  <2>4. LocalType'
    BY <1>1, <1>2, <2>1, <2>2, <2>3, CapsTyped DEF LocalType, States
  <2>5. PICK c : c = caps'
    OBVIOUS
  <2>6. PICK large : large = large_sdu'
    OBVIOUS
  <2>7. SendOobCheck(large) \/ Negotiate(c, large)
    BY <1>5, <2>5, <2>6 DEF RecvAccept
  <2>8. PICK next \in {"oob", "protocol", "fast"} : Request(RequestAt(next), next)
    <3>1. CASE SendOobCheck(large)
      <4>1. RequestAt("oob") = <<Packet("BYTE", large, <<>>), Packet("MARKER", large, <<>>)>>
        BY <2>2, <2>6 DEF RequestAt, LargeAt
      <4> QED BY <3>1, <4>1 DEF SendOobCheck
    <3>2. CASE Negotiate(c, large)
      BY <3>2, <2>1, <2>2, <2>5, <2>6, NegotiateSends
    <3> QED BY <2>7, <3>1, <3>2
  <2>9. CapsAt(next) = Accepted /\ LargeAt(next) = LargeAt("protocol") /\ StateAt(next) = "Connected"
    BY DEF CapsAt, LargeAt, StateAt
  <2>10. Known(next)'
    BY <1>1, <1>2, <2>1, <2>2, <2>9, SameServer DEF Known
  <2>11. AskedView(next)
    BY <1>3, <2>9 DEF AskedView
  <2> QED BY <1>1, <1>2, <2>4, <2>8, <2>10, <2>11, Sending DEF Waiting
<1> QED BY <1>4, <1>5

LEMMA RecvResendInv == IInv /\ (RecvResend \/ RecvRefusal) => IInv'
<1> SUFFICES ASSUME IInv, RecvResend \/ RecvRefusal PROVE IInv'
  OBVIOUS
<1>1. /\ pc = "connect" /\ Known("connect") /\ toServer = <<>> /\ toClient' = <<>>
      /\ received = <<>> /\ AnswerView("connect", Answer) /\ LocalType
  BY Received DEF RecvResend, RecvRefusal, Waiting
<1>2. Rests /\ UNCHANGED <<state, large_sdu, caps, phase, sequence_number>>
  BY <1>1 DEF RecvResend, Keep, Rests, Others, RecvRefusal
<1>3. resend_count \in 0..MaxResends
  BY <1>1, HandshakeConstants DEF Known, LocalType
<1>4. CASE RecvRefusal
  BY <1>1, <1>2, <1>4, Stopping DEF RecvRefusal, Fails, LocalType
<1>5. CASE RecvResend
  <2>1. resend_count' = resend_count + 1 /\ Answer.type # "ACCEPT"
    BY <1>5 DEF RecvResend
  <2>2. LocalType'
    BY <1>1, <1>2, <1>3, <2>1, HandshakeConstants DEF LocalType
  <2>3. CASE resend_count' > MaxResends
    BY <1>2, <1>5, <2>2, <2>3, Stopping DEF RecvResend, Fails
  <2>4. CASE ~(resend_count' > MaxResends)
    <3>1. Request(RequestAt("connect"), "connect")
      BY <1>5, <2>4 DEF RecvResend, RequestAt
    <3>2. resend_count' <= MaxResends
      BY <1>3, <2>1, <2>4, HandshakeConstants
    <3>3. Known("connect")'
      BY <1>1, <1>2, <3>2, SameServer DEF Known
    <3>4. AskedView("connect")
      <4>1. ~session.large /\ session.stage = "listening"
        BY <1>1, <2>1 DEF AnswerView
      <4>2. session.large \in BOOLEAN
        BY DEF IInv, TypeOK
      <4> QED BY <4>1, <4>2 DEF AskedView, LargeAt
    <3> QED BY <1>1, <1>2, <2>2, <3>1, <3>3, <3>4, Sending DEF Waiting
  <2> QED BY <2>3, <2>4
<1> QED BY <1>4, <1>5

LEMMA RecvOobInv == IInv /\ RecvOob => IInv'
<1> SUFFICES ASSUME IInv, RecvOob PROVE IInv'
  OBVIOUS
<1>1. /\ pc = "oob" /\ Known("oob") /\ toServer = <<>> /\ toClient' = <<>>
      /\ received = <<>> /\ AnswerView("oob", Answer) /\ LocalType
  BY Received DEF RecvOob, Waiting
<1>2. Rests /\ UNCHANGED <<state, large_sdu, caps, resend_count, phase, sequence_number>>
      /\ Negotiate(caps, large_sdu)
  BY <1>1 DEF RecvOob, Keep, Rests
<1>3. caps = Accepted /\ large_sdu = LargeAt("protocol") /\ state = "Connected"
  BY <1>1 DEF Known, CapsAt, LargeAt, StateAt
<1>4. PICK c, large : c = caps /\ large = large_sdu
  OBVIOUS
<1>5. PICK next \in {"protocol", "fast"} : Request(RequestAt(next), next)
  BY <1>2, <1>3, <1>4, NegotiateSends
<1>6. CapsAt(next) = Accepted /\ LargeAt(next) = LargeAt("protocol") /\ StateAt(next) = "Connected"
  BY DEF CapsAt, LargeAt, StateAt
<1>7. Known(next)'
  BY <1>1, <1>2, <1>3, <1>6, SameServer DEF Known
<1>8. AskedView(next)
  BY <1>1, <1>6 DEF AskedView, AnswerView, LargeAt
<1>9. LocalType'
  BY <1>1, <1>2 DEF LocalType
<1> QED BY <1>1, <1>2, <1>5, <1>7, <1>8, <1>9, Sending DEF Waiting

LEMMA RecvProtocolInv == IInv /\ RecvProtocol => IInv'
<1> SUFFICES ASSUME IInv, RecvProtocol PROVE IInv'
  OBVIOUS
<1>1. /\ pc = "protocol" /\ Known("protocol") /\ toServer = <<>> /\ toClient' = <<>>
      /\ received = <<>> /\ AnswerView("protocol", Answer) /\ LocalType /\ server \in Profiles
  BY Received DEF RecvProtocol, Waiting
<1>2. Rests /\ UNCHANGED <<large_sdu, resend_count, phase, sequence_number>>
  BY <1>1 DEF RecvProtocol, Keep, Rests, Others
<1>3. CASE ~ProtocolParses(Answer)
  <2>1. LocalType' /\ pc' = "failed"
    BY <1>1, <1>2, <1>3 DEF RecvProtocol, Fails, LocalType
  <2> QED BY <1>2, <2>1, Stopping
<1>4. CASE ProtocolParses(Answer)
  <2>1. session.stage = "session" /\ Answer.msgs = <<ProtocolAnswer>>
    <3>1. session.stage # "rejected"
      BY <1>1, <1>4 DEF AnswerView, ProtocolParses, Msg
    <3> QED BY <1>1, <3>1 DEF AnswerView, Answered
  <2>2. caps' = Final /\ state' = "ProtocolNegotiated" /\ SendDataTypes(caps', large_sdu)
    BY <1>1, <1>4, <2>1 DEF RecvProtocol, First, ProtocolAnswer, Known, CapsAt, Final
  <2>3. Request(RequestAt("datatypes"), "datatypes")
    BY <1>1, <2>2 DEF SendDataTypes, RequestAt, Known, LargeAt
  <2>4. LocalType'
    BY <1>1, <1>2, <2>2, CapsTyped DEF LocalType, States
  <2>5. Known("datatypes")'
    BY <1>1, <1>2, <2>2, SameServer DEF Known, CapsAt, LargeAt, StateAt
  <2>6. AskedView("datatypes")
    BY <1>1, <2>1 DEF AskedView, AnswerView, LargeAt
  <2> QED BY <1>1, <1>2, <2>3, <2>4, <2>5, <2>6, Sending DEF Waiting
<1> QED BY <1>3, <1>4

LEMMA RecvDataTypesInv == IInv /\ RecvDataTypes => IInv'
<1> SUFFICES ASSUME IInv, RecvDataTypes PROVE IInv'
  OBVIOUS
<1>1. /\ pc = "datatypes" /\ Known("datatypes") /\ toServer = <<>> /\ toClient' = <<>>
      /\ received = <<>> /\ AnswerView("datatypes", Answer) /\ LocalType
  BY Received DEF RecvDataTypes, Waiting
<1>2. Rests /\ UNCHANGED <<large_sdu, caps, resend_count, sequence_number>>
  BY <1>1 DEF RecvDataTypes, Keep, Rests, Others
<1>3. CASE Answer.type # "DATA"
  <2>1. LocalType' /\ pc' = "failed"
    BY <1>1, <1>2, <1>3 DEF RecvDataTypes, Fails, LocalType
  <2> QED BY <1>2, <2>1, Stopping
<1>4. CASE Answer.type = "DATA"
  <2>1. state' = "DataTypesNegotiated" /\ phase' = "One" /\ SendAuthOne(caps, large_sdu)
    BY <1>4 DEF RecvDataTypes
  <2>2. Request(RequestAt("auth1"), "auth1")
    BY <1>1, <2>1 DEF SendAuthOne, RequestAt, Known, CapsAt, LargeAt
  <2>3. LocalType'
    BY <1>1, <1>2, <2>1 DEF LocalType, States, Phases
  <2>4. Known("auth1")'
    BY <1>1, <1>2, <2>1, SameServer DEF Known, CapsAt, LargeAt, StateAt
  <2>5. AskedView("auth1")
    BY <1>1, <1>4 DEF AskedView, AnswerView, LargeAt, Answered
  <2> QED BY <1>1, <1>2, <2>2, <2>3, <2>4, <2>5, Sending DEF Waiting
<1> QED BY <1>3, <1>4

LEMMA RecvAuthOneInv == IInv /\ RecvAuthOne => IInv'
<1> SUFFICES ASSUME IInv, RecvAuthOne PROVE IInv'
  OBVIOUS
<1>1. /\ pc = "auth1" /\ Known("auth1") /\ toServer = <<>> /\ toClient' = <<>>
      /\ received = <<>> /\ AnswerView("auth1", Answer) /\ LocalType
  BY Received DEF RecvAuthOne, Waiting
<1>2. Rests /\ UNCHANGED <<state, large_sdu, caps, resend_count, sequence_number>>
  BY <1>1 DEF RecvAuthOne, Keep, Rests, Others
<1>3. CASE ~(Answer.type = "DATA" /\ Derives(First))
  <2>1. LocalType' /\ pc' = "failed"
    BY <1>1, <1>2, <1>3 DEF RecvAuthOne, Fails, LocalType
  <2> QED BY <1>2, <2>1, Stopping
<1>4. CASE Answer.type = "DATA" /\ Derives(First)
  <2>1. phase' = "Two" /\ SendAuthTwo(caps, large_sdu)
    BY <1>4 DEF RecvAuthOne
  <2>2. session.stage = "session"
    BY <1>1, <1>4 DEF AnswerView, Derives, First, Msg
  <2>3. Request(RequestAt("auth2"), "auth2")
    BY <1>1, <2>1 DEF SendAuthTwo, RequestAt, Known, CapsAt, LargeAt
  <2>4. LocalType'
    BY <1>1, <1>2, <2>1 DEF LocalType, Phases
  <2>5. Known("auth2")'
    BY <1>1, <1>2, <2>1, SameServer DEF Known, CapsAt, LargeAt, StateAt
  <2>6. AskedView("auth2")
    BY <1>1, <2>2 DEF AskedView, AnswerView, LargeAt, Answered
  <2> QED BY <1>1, <1>2, <2>3, <2>4, <2>5, <2>6, Sending DEF Waiting
<1> QED BY <1>3, <1>4

\* The message that ends the loop over a fast answer, and the ones before it.
LEMMA LoopEnds ==
  ASSUME NEW msgs, NEW i \in 1..Len(msgs), Len(msgs) \in Nat,
         msgs[i].kind \notin Negotiating, \A j \in 1..(i - 1) : msgs[j].kind \in Negotiating
  PROVE  EndOfLoop(msgs) = i
<1> DEFINE Ends(k) == /\ k \in 1..Len(msgs) /\ msgs[k].kind \notin Negotiating
                      /\ \A j \in 1..(k - 1) : msgs[j].kind \in Negotiating
<1>1. PICK k : k = EndOfLoop(msgs)
  OBVIOUS
<1>2. k = CHOOSE m \in 1..Len(msgs) : /\ msgs[m].kind \notin Negotiating
                                     /\ \A j \in 1..(m - 1) : msgs[j].kind \in Negotiating
  BY <1>1 DEF EndOfLoop
<1>3. Ends(k)
  BY <1>2
<1>4. k = i
  <2>1. ~(k < i) /\ ~(i < k)
    BY <1>3
  <2> QED BY <1>3, <2>1
<1> QED BY <1>1, <1>4

LEMMA OneProtocol ==
  ASSUME caps = Accepted, NEW seen, ProtocolAnswer \in seen,
         \A m \in seen : m.kind = "Protocol" => m = ProtocolAnswer
  PROVE  FastCaps(seen) = Final
<1>1. ProtocolAnswer.kind = "Protocol" /\ ProtocolAnswer.field = server.field
  BY DEF ProtocolAnswer
<1>2. (CHOOSE m \in seen : m.kind = "Protocol") = ProtocolAnswer
  BY <1>1
<1> QED BY <1>1, <1>2 DEF FastCaps, Final

LEMMA RecvFastAuthInv == IInv /\ RecvFastAuth => IInv'
<1> SUFFICES ASSUME IInv, RecvFastAuth PROVE IInv'
  OBVIOUS
<1>1. /\ pc = "fast" /\ Known("fast") /\ toServer = <<>> /\ toClient' = <<>>
      /\ received' = <<>> /\ LocalType /\ server \in Profiles
  BY FastReceived DEF RecvFastAuth
<1>0. PICK w : /\ AnswerView("fast", w) /\ w.type = Answer.type
               /\ w.type = "DATA" => w.msgs = Response
  <2>1. PICK w : WholeAnswer(w)
    BY FastReceived DEF RecvFastAuth
  <2> QED BY <2>1 DEF WholeAnswer
<1>2. Rests /\ UNCHANGED <<large_sdu, resend_count, sequence_number>>
  BY <1>1 DEF RecvFastAuth, Keep, Rests, Others
<1>3. caps = Accepted /\ large_sdu = LargeAt("fast") /\ state = "Connected"
  BY <1>1 DEF Known, CapsAt, StateAt
<1>4. CASE Answer.type # "DATA"
  <2>1. LocalType' /\ pc' = "failed"
    BY <1>1, <1>2, <1>4 DEF RecvFastAuth, Fails, LocalType
  <2> QED BY <1>2, <2>1, Stopping
<1>5. PICK msgs : msgs = Response
  OBVIOUS
<1> DEFINE i == EndOfLoop(msgs)
           end == IF i > Len(msgs) THEN Msg("None") ELSE msgs[i]
<1>6. ASSUME Answer.type = "DATA"
      PROVE  /\ caps' = FastCaps(Before(msgs, i)) /\ state' = FastState(msgs, i)
             /\ IF end.kind = "Renegotiate"
                THEN SendDataTypes(caps', large_sdu) /\ UNCHANGED phase
                ELSE IF Derives(end)
                THEN phase' = "Two" /\ SendAuthTwo(caps', large_sdu)
                ELSE Fails /\ UNCHANGED phase
  BY <1>5, <1>6 DEF RecvFastAuth
<1>7. CASE Answer.type = "DATA" /\ session.stage = "rejected"
  <2>1. msgs = <<Msg("Error")>>
    BY <1>0, <1>5, <1>7 DEF AnswerView
  <2>2. i = 1
    BY <2>1, LoopEnds DEF Msg, Negotiating
  <2>3. end.kind = "Error"
    BY <2>1, <2>2 DEF Msg
  <2>4. Before(msgs, 1) = {}
    BY DEF Before
  <2>5. caps' = caps /\ state' = state
    BY <1>6, <1>7, <2>2, <2>4 DEF FastCaps, FastState
  <2>6. pc' = "failed" /\ phase' = phase
    BY <1>6, <1>7, <2>3 DEF Derives, Fails
  <2>7. LocalType'
    BY <1>1, <1>2, <2>5, <2>6 DEF LocalType
  <2> QED BY <1>2, <2>6, <2>7, Stopping
<1>8. CASE Answer.type = "DATA" /\ session.stage = "session" /\ msgs = <<ProtocolAnswer, Msg("Renegotiate")>>
  <2>1. i = 2
    BY <1>8, LoopEnds DEF Msg, ProtocolAnswer, Negotiating
  <2>2. end.kind = "Renegotiate"
    BY <1>8, <2>1 DEF Msg
  <2>3. Before(msgs, 2) = {ProtocolAnswer} \cup {}
    BY <1>8 DEF Before
  <2>4. caps' = Final
    <3>1. PICK seen : seen = Before(msgs, 2)
      OBVIOUS
    <3>2. caps' = FastCaps(seen)
      BY <1>6, <1>8, <2>1, <3>1
    <3>3. ProtocolAnswer \in seen /\ \A m \in seen : m = ProtocolAnswer
      BY <2>3, <3>1
    <3> QED BY <1>3, <3>2, <3>3, OneProtocol
  <2>5. state' = "ProtocolNegotiated"
    BY <1>6, <1>8, <2>1 DEF FastState, ProtocolAnswer
  <2>6. SendDataTypes(caps', large_sdu) /\ phase' = phase
    BY <1>6, <1>8, <2>2
  <2>7. Request(RequestAt("datatypes"), "datatypes")
    BY <1>3, <2>4, <2>6 DEF SendDataTypes, RequestAt, LargeAt
  <2>8. LocalType'
    BY <1>1, <1>2, <2>4, <2>5, <2>6, CapsTyped DEF LocalType, States
  <2>9. Known("datatypes")'
    BY <1>1, <1>2, <1>3, <2>4, <2>5, SameServer DEF Known, CapsAt, LargeAt, StateAt
  <2>10. AskedView("datatypes")
    BY <1>0, <1>1, <1>8 DEF AskedView, AnswerView, LargeAt
  <2> QED BY <1>1, <1>2, <2>7, <2>8, <2>9, <2>10, Sending DEF Waiting
<1>9. ASSUME NEW last \in FastAnswers, Answer.type = "DATA", session.stage = "session",
             msgs = <<ProtocolAnswer, Msg("DataTypes"), last>>, session.field = Final.field
      PROVE  IInv'
  <2>1. last.kind \in {"AuthParams", "Error", "Status"}
    BY <1>9 DEF FastAnswers, AuthParams, Msg
  <2>2. i = 3
    BY <1>9, <2>1, LoopEnds DEF Msg, ProtocolAnswer, Negotiating
  <2>3. end = last
    BY <1>9, <2>2
  <2>4. Before(msgs, 3) = {ProtocolAnswer} \cup {Msg("DataTypes")}
    BY <1>9 DEF Before
  <2>5. caps' = Final
    <3>1. PICK seen : seen = Before(msgs, 3)
      OBVIOUS
    <3>2. caps' = FastCaps(seen)
      BY <1>6, <1>9, <2>2, <3>1
    <3>3. Msg("DataTypes").kind # "Protocol"
      BY DEF Msg
    <3>4. ProtocolAnswer \in seen /\ \A m \in seen : m = ProtocolAnswer \/ m = Msg("DataTypes")
      BY <2>4, <3>1
    <3> QED BY <1>3, <3>2, <3>3, <3>4, OneProtocol
  <2>6. state' = "DataTypesNegotiated"
    BY <1>6, <1>9, <2>2 DEF FastState, Msg
  <2>7. CASE Derives(end)
    <3>1. phase' = "Two" /\ SendAuthTwo(caps', large_sdu)
      BY <1>6, <1>9, <2>1, <2>3, <2>7
    <3>2. Request(RequestAt("auth2"), "auth2")
      BY <1>3, <2>5, <3>1 DEF SendAuthTwo, RequestAt, LargeAt
    <3>3. LocalType'
      BY <1>1, <1>2, <2>5, <2>6, <3>1, CapsTyped DEF LocalType, States, Phases
    <3>4. Known("auth2")'
      BY <1>1, <1>2, <1>3, <2>5, <2>6, SameServer DEF Known, CapsAt, LargeAt, StateAt
    <3>5. AskedView("auth2")
      BY <1>0, <1>1, <1>9 DEF AskedView, AnswerView, LargeAt
    <3> QED BY <1>1, <1>2, <3>2, <3>3, <3>4, <3>5, Sending DEF Waiting
  <2>8. CASE ~Derives(end)
    <3>1. pc' = "failed" /\ phase' = phase
      BY <1>6, <1>9, <2>1, <2>3, <2>8 DEF Fails
    <3>2. LocalType'
      BY <1>1, <1>2, <2>5, <2>6, <3>1, CapsTyped DEF LocalType, States
    <3> QED BY <1>2, <3>1, <3>2, Stopping
  <2> QED BY <2>7, <2>8
<1> QED BY <1>0, <1>4, <1>5, <1>7, <1>8, <1>9 DEF AnswerView, Answered

LEMMA RecvAuthTwoInv == IInv /\ RecvAuthTwo => IInv'
<1> SUFFICES ASSUME IInv, RecvAuthTwo PROVE IInv'
  OBVIOUS
<1>1. /\ pc = "auth2" /\ Known("auth2") /\ toServer = <<>> /\ toClient' = <<>>
      /\ AnswerView("auth2", Answer) /\ LocalType /\ received = <<>> /\ received' = <<>>
  BY Received DEF RecvAuthTwo, ReceiveResponse, Waiting
<1>2. Rests /\ UNCHANGED <<large_sdu, caps, resend_count>>
  BY <1>1 DEF RecvAuthTwo, Keep, Rests, Others
<1>3. CASE ~(Answer.type = "DATA" /\ Response[1].kind = "AuthDone" /\ ServerVerified(Response[1]))
  <2>1. LocalType' /\ pc' = "failed"
    BY <1>1, <1>2, <1>3 DEF RecvAuthTwo, Fails, LocalType
  <2> QED BY <1>2, <2>1, Stopping
<1>4. CASE Answer.type = "DATA" /\ Response[1].kind = "AuthDone" /\ ServerVerified(Response[1])
  <2>1. /\ phase' = "Complete" /\ sequence_number' = 2 /\ state' = "Ready" /\ pc' = "ready"
        /\ toServer' = toServer
    BY <1>4 DEF RecvAuthTwo
  <2>2. session.stage = "session"
    <3>1. CASE Answer.msgs = <<Msg("Error")>>
      <4>1. PICK m : m = Msg("Error")
        OBVIOUS
      <4>2. Response = <<>> \o <<m>>
        BY <1>1, <3>1, <4>1 DEF Response
      <4>3. Response[1] = m
        BY <4>2
      <4> QED BY <1>4, <4>1, <4>3 DEF Msg
    <3> QED BY <1>1, <1>4, <3>1 DEF AnswerView
  <2>3. Answered("auth2", Answer.msgs)
    BY <1>1, <2>2 DEF AnswerView
  <2>4. PICK proof \in Proofs, ended \in BOOLEAN :
          Answer.msgs = <<AuthDone(proof, ended)>> /\ session.proof = proof
    BY <2>3 DEF Answered
  <2>5. session.proof # "invalid"
    <3>1. PICK m : m = AuthDone(proof, ended)
      OBVIOUS
    <3>2. Response = <<>> \o <<m>>
      BY <1>1, <2>4, <3>1 DEF Response
    <3>3. Response[1] = m
      BY <3>2
    <3> QED BY <1>4, <2>4, <3>1, <3>3 DEF AuthDone, ServerVerified
  <2>6. caps = Final /\ Final' = Final
    BY <1>1, <1>2 DEF Known, CapsAt, Rests, Others, Final, Accepted, AcceptMsg
  <2>7. ReadyView'
    BY <1>1, <1>2, <2>1, <2>2, <2>3, <2>5, <2>6 DEF ReadyView, Answered, Rests, Others
  <2>8. TypeOK'
    BY <1>1, <1>2, <2>1 DEF IInv, TypeOK, LocalType, CapsType, Rests, Others, States, Phases
  <2>9. Waits'
    BY <2>1 DEF Waits, Waiting
  <2> QED BY <2>7, <2>8, <2>9 DEF IInv
<1> QED BY <1>3, <1>4

LEMMA ReadErrorInv == IInv /\ ReadError => IInv'
<1> SUFFICES ASSUME IInv, ReadError PROVE IInv'
  OBVIOUS
<1>1. /\ pc' = "failed" /\ state' = "Closed" /\ Rests
      /\ UNCHANGED <<large_sdu, caps, resend_count, phase, sequence_number>>
  BY DEF ReadError, Fails, Rests
<1>2. LocalType'
  BY <1>1 DEF IInv, TypeOK, LocalType, CapsType, States
<1> QED BY <1>1, <1>2, Stopping

\* More of a response: what has come of it is kept.
LEMMA ReceiveMoreInv == IInv /\ ReceiveMore => IInv'
<1> SUFFICES ASSUME IInv, ReceiveMore PROVE IInv'
  OBVIOUS
<1>1. /\ pc \in {"fast", "auth2"} /\ Receive(pc) /\ received' = Response /\ Others
      /\ UNCHANGED <<pc, state, large_sdu, caps, resend_count, phase, sequence_number, toServer>>
  BY DEF ReceiveMore, Receive
<1>2. TypeOK'
  BY <1>1 DEF IInv, TypeOK, Others
<1>3. Known(pc)'
  BY <1>1 DEF IInv, Waits, Waiting, Known, CapsAt, LargeAt, StateAt, Final, Accepted, AcceptMsg,
     Others
<1>4. CASE toServer = <<>> /\ toClient' = <<>>
  BY <1>1, <1>2, <1>3, <1>4 DEF IInv, Waits, InFlight, ReadyView
<1>5. ASSUME pc = "fast", received = <<>>, <<>> \o Answer.msgs = Answer.msgs, toServer = <<>>,
             NEW b, toClient' = <<b>>, CutAnswer(b, Answer.msgs)
      PROVE  IInv'
  <2>1. received' = Answer.msgs
    BY <1>1, <1>5 DEF Response
  <2>2. UNCHANGED <<server, split, session>> /\ ProtocolAnswer' = ProtocolAnswer
    BY <1>1 DEF Others, ProtocolAnswer
  <2>3. PICK w : w = Joined(b, Answer.msgs)
    OBVIOUS
  <2>4. AnswerView("fast", w)'
    BY <1>5, <2>2, <2>3, SameFlight DEF CutAnswer
  <2>5. PICK msgs : msgs = Answer.msgs
    OBVIOUS
  <2>6. CutAnswer(b, msgs)'
    BY <1>5, <2>2, <2>3, <2>4, <2>5 DEF CutAnswer, Beginning, Joined
  <2>7. CutAnswer(b, received)'
    BY <2>1, <2>5, <2>6 DEF CutAnswer, Beginning, Joined
  <2>8. InFlight("fast")'
    BY <1>1, <1>5, <2>7 DEF InFlight, Cut
  <2> QED BY <1>1, <1>2, <1>3, <1>5, <2>8 DEF IInv, Waits, ReadyView
<1>6. CASE pc = "auth2"
  BY <1>1, <1>4, <1>6, Received DEF Waiting
<1>7. CASE pc = "fast"
  BY <1>1, <1>4, <1>5, <1>7, FastFlight
<1> QED BY <1>1, <1>6, <1>7

(***************************************************************************)
(* What is known and in flight at every point of the handshake.            *)
(***************************************************************************)
THEOREM HandshakeInvariant == Spec => []IInv
<1>1. IInv /\ [Next]_vars => IInv'
  <2> SUFFICES ASSUME IInv, [Next]_vars PROVE IInv'
    OBVIOUS
  <2>1. CASE ClientStep
    BY <2>1, RecvAcceptInv, RecvResendInv, RecvOobInv, RecvProtocolInv, RecvDataTypesInv,
       RecvAuthOneInv, RecvFastAuthInv, RecvAuthTwoInv, ReceiveMoreInv, ReadErrorInv
       DEF ClientStep
  <2>2. CASE SrvAnswer
    BY <2>2, SrvAcceptInv, SrvConnectInv, SrvOobInv, SrvProtocolInv, SrvDataTypesInv,
       SrvAuthOneInv, SrvFastAuthInv, SrvAuthTwoInv, SrvRejectInv DEF SrvAnswer
  <2>3. CASE SrvDrop
    BY <2>3, SrvDropInv
  <2>4. CASE UNCHANGED vars
    <3> USE <2>4 DEF vars, client
    <3>1. TypeOK'
      BY DEF IInv, TypeOK
    <3>2. Waits'
      <4>1. PICK p : p = pc /\ p = pc'
        OBVIOUS
      <4>2. ASSUME p \in Waiting PROVE Known(p)' /\ InFlight(p)'
        <5>1. Known(p) /\ InFlight(p)
          BY <4>1, <4>2 DEF IInv, Waits
        <5>2. Cut => Cut'
          BY SameCut
        <5> QED BY <5>1, <5>2, SameFlight DEF Known, InFlight
      <4> QED BY <4>1, <4>2 DEF Waits
    <3>3. ReadyView'
      BY DEF IInv, ReadyView, Final, Accepted, AcceptMsg
    <3> QED BY <3>1, <3>2, <3>3 DEF IInv
  <2> QED BY <2>1, <2>2, <2>3, <2>4 DEF Next
<1> QED BY <1>1, HandshakeInit, PTL DEF Spec

(***************************************************************************)
(* Every variable of the handshake has its type; the resends stay within   *)
(* the limit.                                                              *)
(***************************************************************************)
THEOREM HandshakeTypeCorrect == Spec => []TypeOK
<1>1. IInv => TypeOK
  BY DEF IInv
<1> QED BY <1>1, HandshakeInvariant, PTL

(***************************************************************************)
(* A connection handed to the caller has nothing of the handshake in       *)
(* flight (finish_authentication).                                         *)
(***************************************************************************)
THEOREM HandshakeLeavesNothing == Spec => []ReadyIsClean
<1>1. IInv => ReadyIsClean
  BY DEF IInv, ReadyView, ReadyIsClean
<1> QED BY <1>1, HandshakeInvariant, PTL

(***************************************************************************)
(* Client and server agree on the capabilities when the connection is      *)
(* Ready, whatever their versions and whichever path they took.            *)
(***************************************************************************)
THEOREM BothSidesAgree == Spec => []Negotiated
<1>1. IInv => Negotiated
  <2> SUFFICES ASSUME IInv, pc = "ready" PROVE Negotiated
    BY DEF Negotiated
  <2>1. caps = Final /\ session.field = Final.field /\ server \in Profiles
    BY DEF IInv, ReadyView, TypeOK
  <2>2. Final.end_of_response \in BOOLEAN
    BY <2>1, CapsTyped DEF CapsType
  <2>3. (server.version >= MIN_END_OF_RESPONSE /\ server.end_of_response
          /\ Final.field >= Field23) \in BOOLEAN
    BY <2>1, ServerKnown, CapsTyped, HandshakeConstants DEF CapsType, MIN_END_OF_RESPONSE
  <2>4. Final.end_of_response = (server.version >= MIN_END_OF_RESPONSE /\ server.end_of_response
                                 /\ Final.field >= Field23)
    BY <2>1, <2>2, <2>3, FinalCaps, Zenon
  <2> QED BY <2>1, <2>4, FinalCaps DEF Negotiated
<1> QED BY <1>1, HandshakeInvariant, PTL

(***************************************************************************)
(* Every connection that connect hands to the caller is one that the       *)
(* exchange can begin on, whichever server accepted it.                    *)
(***************************************************************************)
THEOREM ReadyAlwaysUsable == Spec => []ReadyForUse
<1>1. ReadyIsClean /\ Negotiated => ReadyForUse
  BY DEF ReadyForUse
<1> QED BY <1>1, HandshakeLeavesNothing, BothSidesAgree, PTL

(***************************************************************************)
(* Nobody gets a Ready connection without a password that the server took  *)
(* in this session, or from a server whose proof was wrong.  A server that *)
(* gives no proof is accepted, as verify_server_response accepts it.       *)
(***************************************************************************)
THEOREM ReadyIsAuthenticated == Spec => []Authenticated
<1>1. IInv => Authenticated
  BY DEF IInv, ReadyView, Authenticated
<1> QED BY <1>1, HandshakeInvariant, PTL

(***************************************************************************)
(* Each side can read what the other one sends at every point.             *)
(***************************************************************************)
THEOREM EverythingReadable == Spec => []Readable
<1>1. IInv => Readable
  <2> SUFFICES ASSUME IInv, pc \in Waiting
               PROVE  /\ \A i \in 1..Len(toClient) : toClient[i].large = large_sdu
                      /\ \A i \in 1..Len(toServer) :
                           /\ toServer[i].large = session.large
                           /\ \A j \in 1..Len(toServer[i].msgs) :
                                LET m == toServer[i].msgs[j] IN
                                /\ m.kind = "AuthTwo" => m.field = session.field
                                /\ m.kind = "AuthOne" =>
                                     \/ m.field = (IF j = 1 THEN session.field ELSE Field19)
                                     \/ session.stage = "rejected"
    BY DEF Readable
  <2>1. Known(pc) /\ InFlight(pc)
    BY DEF IInv, Waits
  <2>2. CASE toServer = <<>>
    <3>1. CASE toClient = <<>> \/ \E a : toClient = <<a>> /\ AnswerView(pc, a)
      BY <2>1, <2>2, <3>1 DEF AnswerView, Known
    <3>2. CASE pc = "fast" /\ Cut
      <4>1. large_sdu = LargeAt("fast")
        BY <2>1, <3>2 DEF Known
      <4>2. \A b, msgs : CutAnswer(b, msgs) => b.large = LargeAt("fast")
        BY DEF CutAnswer, Joined, AnswerView
      <4> QED BY <2>2, <3>2, <4>1, <4>2 DEF Cut
    <3> QED BY <2>1, <2>2, <3>1, <3>2 DEF InFlight
  <2>3. session.stage \in {"listening", "session", "rejected"}
    BY DEF IInv, TypeOK
  <2>4. CASE toClient = <<>> /\ toServer = RequestAt(pc) /\ AskedView(pc)
    <3>1. CASE pc = "connect"
      <4>1. \A i \in 1..Len(toServer) : toServer[i].large = FALSE /\ \A j \in 1..Len(toServer[i].msgs) :
               toServer[i].msgs[j].kind = "ConnectData"
        BY <2>4, <3>1 DEF RequestAt, ConnectPackets, Packet, Msg
      <4>2. session.large = FALSE
        BY <2>4, <3>1 DEF AskedView, LargeAt
      <4>3. \A i \in 1..Len(toClient) : toClient[i].large = large_sdu
        BY <2>4
      <4>4. \A i \in 1..Len(toServer) : toServer[i].large = session.large
        BY <4>1, <4>2, Zenon
      <4>5. \A i \in 1..Len(toServer) : \A j \in 1..Len(toServer[i].msgs) :
              toServer[i].msgs[j].kind # "AuthTwo" /\ toServer[i].msgs[j].kind # "AuthOne"
        BY <4>1
      <4> QED BY <4>3, <4>4, <4>5, Zenon
    <3>2. CASE pc = "oob"
      BY <2>4, <3>2 DEF RequestAt, AskedView, Packet
    <3>3. CASE pc \in {"protocol", "datatypes"}
      BY <2>4, <3>3 DEF RequestAt, AskedView, Packet, Msg, DataTypes
    <3>4. CASE pc = "auth1"
      BY <2>3, <2>4, <3>4 DEF RequestAt, AskedView, Packet, AuthOne
    <3>5. CASE pc = "fast"
      BY <2>4, <3>5 DEF RequestAt, AskedView, Packet, Msg, DataTypes, AuthOne
    <3>6. CASE pc = "auth2"
      BY <2>3, <2>4, <3>6 DEF RequestAt, AskedView, Packet, AuthTwo
    <3> QED BY <3>1, <3>2, <3>3, <3>4, <3>5, <3>6 DEF Waiting
  <2> QED BY <2>1, <2>2, <2>4 DEF InFlight
<1> QED BY <1>1, HandshakeInvariant, PTL

(***************************************************************************)
(* The state of the connection only advances, and Ready is entered from    *)
(* DataTypesNegotiated (ConnectionState).                                  *)
(***************************************************************************)
THEOREM StateOnlyAdvances == Spec => StateAdvances
<1> DEFINE Advances == /\ Rank(state') >= Rank(state)
                       /\ state' = "Ready" => state \in {"DataTypesNegotiated", "Ready"}
<1>1. IInv /\ [Next]_vars => [Advances]_vars
  <2> SUFFICES ASSUME IInv, Next PROVE Advances
    OBVIOUS
  <2>1. state \in States
    BY DEF IInv, TypeOK
  <2>2. CASE state' = state
    BY <2>1, <2>2 DEF States, Rank
  <2>3. CASE state' = "Closed"
    BY <2>1, <2>3 DEF States, Rank
  <2>4. CASE /\ state = "Connected"
             /\ state' \in {"Connected", "ProtocolNegotiated", "DataTypesNegotiated"}
    BY <2>4 DEF Rank
  <2>5. CASE RecvAccept
    <3>1. state = "Connected"
      BY <2>5, Received DEF RecvAccept, Waiting, Known, StateAt
    <3>2. state' = state \/ state' = "Connected"
      BY <2>5 DEF RecvAccept
    <3> QED BY <3>1, <3>2, <2>2
  <2>6. CASE RecvProtocol
    <3>1. state = "Connected"
      BY <2>6, Received DEF RecvProtocol, Waiting, Known, StateAt
    <3>2. state' = state \/ state' = "ProtocolNegotiated"
      BY <2>6 DEF RecvProtocol
    <3> QED BY <3>1, <3>2, <2>2, <2>4
  <2>7. CASE RecvDataTypes
    <3>1. state = "ProtocolNegotiated"
      BY <2>7, Received DEF RecvDataTypes, Waiting, Known, StateAt
    <3>2. state' = state \/ state' = "DataTypesNegotiated"
      BY <2>7 DEF RecvDataTypes
    <3> QED BY <3>1, <3>2, <2>2 DEF Rank
  <2>8. CASE RecvFastAuth
    <3>1. state = "Connected"
      BY <2>8, FastReceived DEF RecvFastAuth, Known, StateAt
    <3>2. state' = state \/ \E msgs, i : state' = FastState(msgs, i)
      BY <2>8 DEF RecvFastAuth
    <3> QED BY <3>1, <3>2, <2>2, <2>4 DEF FastState
  <2>9. CASE RecvAuthTwo
    <3>1. state = "DataTypesNegotiated"
      BY <2>9, Received DEF RecvAuthTwo, ReceiveResponse, Waiting, Known, StateAt
    <3>2. state' = state \/ state' = "Ready"
      BY <2>9 DEF RecvAuthTwo
    <3> QED BY <3>1, <3>2, <2>2 DEF Rank
  <2>10. CASE ReadError \/ RecvResend \/ RecvRefusal \/ RecvOob \/ RecvAuthOne
                  \/ ReceiveMore
    BY <2>2, <2>3, <2>10 DEF ReceiveMore, ReadError, RecvResend, RecvRefusal, RecvOob, RecvAuthOne
  <2>11. CASE SrvAnswer \/ SrvDrop
    BY <2>2, <2>11 DEF SrvAnswer, SrvDrop, SrvAccept, SrvResend, SrvRefuse, SrvOob, SrvProtocol,
         SrvDataTypes, SrvAuthOne, SrvFastAuth, SrvAuthTwo, SrvReject, Asked, Takes, client
  <2> QED BY <2>5, <2>6, <2>7, <2>8, <2>9, <2>10, <2>11 DEF Next, ClientStep
<1> QED BY <1>1, HandshakeInvariant, PTL DEF Spec, StateAdvances
=============================================================================
