----------------------------- MODULE LobMessage -----------------------------
(***************************************************************************)
(* LobOpMessage: the one request behind all LOB and BFILE operations (see  *)
(* LobOps).  Its fixed part announces with pointers which of the locator,  *)
(* the character set, the data and the amount follow.                      *)
(*                                                                         *)
(* Offsets, amounts and data are sequences of bytes (see WireBuffers).     *)
(***************************************************************************)
EXTENDS WireBuffers

\* What the constructors set; the rest of the fields is zero.
NoLobOp == [code |-> <<>>, source |-> <<>>, dest |-> <<>>, amount |-> <<>>, dest_length |-> <<>>,
            send_amount |-> FALSE, data |-> NoBytes]

SESSION == <<10>>
UTF8 == <<3, 105>>
LOB_DATA == <<14>>

LobRead(offset, amount) ==
  [NoLobOp EXCEPT !.code = <<2>>, !.source = offset, !.amount = amount, !.send_amount = TRUE]
LobWrite(offset, data) == [NoLobOp EXCEPT !.code = <<64>>, !.source = offset, !.data = data]
LobTrimTo(size) == [NoLobOp EXCEPT !.code = <<32>>, !.amount = size, !.send_amount = TRUE]
LobGetLength == [NoLobOp EXCEPT !.code = <<1>>, !.send_amount = TRUE]
LobGetChunkSize == [NoLobOp EXCEPT !.code = <<64, 0>>, !.send_amount = TRUE]
FileExists == [NoLobOp EXCEPT !.code = <<8, 0>>]
FileOpen == [NoLobOp EXCEPT !.code = <<1, 0>>, !.amount = <<11>>, !.send_amount = TRUE]
FileClose == [NoLobOp EXCEPT !.code = <<2, 0>>]
FileIsOpen == [NoLobOp EXCEPT !.code = <<4, 0>>]
\* The character form is the source offset, the type the destination offset.
CreateTemp(csfrm, type) ==
  [NoLobOp EXCEPT !.code = <<1, 16>>, !.source = csfrm, !.dest = type, !.amount = SESSION,
                  !.dest_length = SESSION, !.send_amount = TRUE]

IsCreateTemp(op) == op.code = <<1, 16>>
\* Whether the amount follows; its pointer says so.
AmountFollows(op) == op.send_amount

Fixed(bytes) == [type |-> "fixed", width |-> Len(bytes), value |-> bytes]

Bit(b) == <<IF b THEN 1 ELSE 0>>

\* LobOpMessage::write_message: the function header; token: the server's TTC field version is
\* 18 or later.
Opening(seq, token) == <<Fixed(<<3, 96, seq>>)>> \o (IF token THEN <<Ub(8, <<>>)>> ELSE <<>>)

\* LobOpMessage::write_message: the fixed part.
Pointers(op, locator) ==
  LET nullLob == IsCreateTemp(op) \/ op.code \in {<<8, 0>>, <<4, 0>>}
  IN  <<Fixed(Bit(locator # <<>>)), Ub(4, BytesOf(Len(locator))), Fixed(<<0>>),
        Ub(4, op.dest_length), Ub(4, <<>>), Ub(4, <<>>),
        Fixed(Bit(IsCreateTemp(op)) \o <<0>> \o Bit(nullLob)), Ub(4, op.code), Fixed(<<0, 0>>),
        Ub(8, op.source), Ub(8, op.dest), Fixed(Bit(op.send_amount)), Fixed(Zeros(6))>>

\* LobOpMessage::write_message: what the pointers announce.
TailFields(op, locator) ==
  (IF locator # <<>> THEN <<Fixed(locator)>> ELSE <<>>)
    \o (IF IsCreateTemp(op) THEN <<Ub(4, UTF8)>> ELSE <<>>)
    \o (IF op.data # NoBytes THEN <<Fixed(LOB_DATA), [type |-> "bytes", value |-> op.data]>>
        ELSE <<>>)
    \o (IF AmountFollows(op) THEN <<Ub(8, op.amount)>> ELSE <<>>)

WriteLobMessage(op, locator, seq, token) ==
  Message(Opening(seq, token) \o Pointers(op, locator)) \o Message(TailFields(op, locator))

\* The server (external): the fields one behind the other, then what the pointers announce.
Raw(n) == [type |-> "fixed", width |-> n]
Number(w) == [type |-> "ub", width |-> w]

OpeningShape(token) == <<Raw(3)>> \o (IF token THEN <<Number(8)>> ELSE <<>>)
PointersShape ==
  <<Raw(1), Number(4), Raw(1), Number(4), Number(4), Number(4), Raw(3), Number(4), Raw(2),
    Number(8), Number(8), Raw(1), Raw(6)>>

\* v: the values of the pointers.
TailShape(v) ==
  (IF v[1] = <<1>> THEN <<Raw(FromBe(v[2]))>> ELSE <<>>)
    \o (IF v[7][1] = 1 THEN <<Number(4)>> ELSE <<>>)
    \o (IF v[8] = <<64>> THEN <<Raw(1), [type |-> "bytes"]>> ELSE <<>>)
    \o (IF v[12] = <<1>> THEN <<Number(8)>> ELSE <<>>)

ReadLobMessage(buf, token) ==
  LET head == ReadFields(OpeningShape(token) \o PointersShape, buf)
      v == SubSeq(head.value, Len(OpeningShape(token)) + 1, Len(head.value))
      tail == ReadFields(TailShape(v), SubSeq(buf, head.pos + 1, Len(buf)))
  IN  [ok |-> head.ok /\ tail.ok /\ head.pos + tail.pos = Len(buf), code |-> v[8],
       source |-> v[10], dest |-> v[11], parts |-> tail.value]

(***************************************************************************)
(* A server that follows the pointers of a LOB request reads the operation *)
(* with its offsets and exactly the parts it needs, up to the last byte.   *)
(***************************************************************************)
LobRequestExact(op, locator, token) ==
  LET read == ReadLobMessage(WriteLobMessage(op, locator, 7, token), token)
  IN  /\ read.ok /\ read.code = op.code /\ read.source = op.source /\ read.dest = op.dest
      /\ read.parts = (IF locator = <<>> THEN <<>> ELSE <<locator>>)
                        \o (IF IsCreateTemp(op) THEN <<UTF8>> ELSE <<>>)
                        \o (IF op.data # NoBytes THEN <<LOB_DATA, op.data>> ELSE <<>>)
                        \o (IF op.send_amount THEN <<op.amount>> ELSE <<>>)
=============================================================================
