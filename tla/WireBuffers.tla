---------------------------- MODULE WireBuffers ----------------------------
(***************************************************************************)
(* WriteBuffer and ReadBuffer: the variable-length fields of TTC messages, *)
(* and send_multi_packet, which cuts a message into packets.               *)
(*                                                                         *)
(* Bytes are numbers from 0 to 255.  A number of up to eight bytes is the  *)
(* sequence of its significant bytes, the highest first, so that widths    *)
(* are exact; 0 is the empty sequence.  A read returns                     *)
(* [ok, value, pos], pos being the bytes consumed of the buffer; every     *)
(* read that the buffer is too short for is an Err.                        *)
(***************************************************************************)
EXTENDS Integers, Sequences, SequencesExt

CONSTANT ChunkSize  \* of long data: 32767 in the code

ASSUME WireConstants == ChunkSize \in Nat \ {0}

MAX_SHORT == 252
ESCAPE_CHAR == 253
LONG_INDICATOR == 254
NULL_INDICATOR == 255

\* None of Option<&[u8]>, distinct from every sequence of bytes.
NoBytes == <<-1>>

Zeros(n) == [i \in 1..n |-> 0]

\* to_be_bytes and from_be_bytes of u16 and u32 (a negative i32 as its two's complement).
Be2(v) == <<(v \div 256) % 256, v % 256>>
Be4(v) == <<(v \div 16777216) % 256, (v \div 65536) % 256, (v \div 256) % 256, v % 256>>
FromBe2(b) == b[1] * 256 + b[2]
FromBe4(b) == b[1] * 16777216 + b[2] * 65536 + b[3] * 256 + b[4]

\* Without its leading zero bytes.
Significant(bytes) ==
  LET k == CHOOSE k \in 0..Len(bytes) :
             /\ \A i \in 1..k : bytes[i] = 0
             /\ k = Len(bytes) \/ bytes[k + 1] # 0
  IN  SubSeq(bytes, k + 1, Len(bytes))

\* The significant bytes of a length, and back.
BytesOf(n) == Significant(Be4(n))
FromBe(bytes) ==
  LET sum[i \in 0..Len(bytes)] == IF i = 0 THEN 0 ELSE sum[i - 1] * 256 + bytes[i]
  IN  sum[Len(bytes)]

----------------------------------------------------------------------------
\* WriteBuffer

\* The bytes written for a number of k significant bytes by write_ub2, ub4, ub8.
UbWidth(k) == CHOOSE w \in {0, 1, 2, 4, 8} : w >= k /\ \A v \in {0, 1, 2, 4, 8} : v >= k => v >= w

WriteUb(n) == <<UbWidth(Len(n))>> \o Zeros(UbWidth(Len(n)) - Len(n)) \o n

\* write_oracle_uint, and write_oracle_int with the sign in the length byte.
WriteOracleInt(n, negative) == <<Len(n) + IF negative /\ n # <<>> THEN 128 ELSE 0>> \o n

\* Mutant: the short form is used up to the largest length byte below the indicators.
IsShortTo253(n) == n <= 253

IsShort(n) == n <= MAX_SHORT

\* write_bytes_with_length, and write_string_with_length
WriteBytesWithLength(data) ==
  LET len == Len(data)
      chunks == (len + ChunkSize - 1) \div ChunkSize
      Chunk(i) == SubSeq(data, (i - 1) * ChunkSize + 1,
                         IF i * ChunkSize < len THEN i * ChunkSize ELSE len)
  IN  CASE data = NoBytes -> <<NULL_INDICATOR>>
        [] data # NoBytes /\ IsShort(len) -> <<len>> \o data
        [] OTHER -> <<LONG_INDICATOR>>
                      \o FlattenSeq([i \in 1..chunks |-> WriteUb(BytesOf(Len(Chunk(i))))
                                                           \o Chunk(i)])
                      \o WriteUb(<<>>)

----------------------------------------------------------------------------
\* ReadBuffer

ReadErr == [ok |-> FALSE, value |-> <<>>, pos |-> 0]

\* read_bytes_vec of n bytes behind the first pos bytes.
ReadBytes(buf, pos, n) ==
  IF pos + n <= Len(buf) THEN [ok |-> TRUE, value |-> SubSeq(buf, pos + 1, pos + n), pos |-> pos + n]
  ELSE ReadErr

\* read_ub2, read_ub4 and read_ub8: the sign bit of the length is ignored.
ReadUb(buf, pos, width) ==
  LET len == ReadBytes(buf, pos, 1)
      n == len.value[1] % 128
      bytes == ReadBytes(buf, len.pos, n)
  IN  CASE ~len.ok -> ReadErr
        [] len.ok /\ n > width -> ReadErr
        [] OTHER -> IF bytes.ok THEN [bytes EXCEPT !.value = Significant(@)] ELSE ReadErr

\* skip_ub2, skip_ub4 and skip_ub8
SkipUb(buf, pos) ==
  LET len == ReadBytes(buf, pos, 1)
  IN  IF len.ok THEN ReadBytes(buf, len.pos, len.value[1] % 128) ELSE ReadErr

\* read_oracle_uint and read_oracle_int; the value with its sign.
ReadOracleInt(buf, pos, signed) ==
  LET len == ReadBytes(buf, pos, 1)
      n == IF signed THEN len.value[1] % 128 ELSE len.value[1]
      bytes == ReadBytes(buf, len.pos, n)
  IN  CASE ~len.ok -> ReadErr
        [] len.ok /\ n > 8 -> ReadErr
        [] OTHER -> IF ~bytes.ok THEN ReadErr
                    ELSE [bytes EXCEPT !.value = [negative |-> signed /\ len.value[1] >= 128 /\ n > 0,
                                                  n |-> Significant(@)]]

\* The loop over the chunks of long data, from position p, up to the chunk of length 0.
ReadChunks(buf, start) ==
  LET Size(p) == ReadUb(buf, p, 4)
      Chunk(p) == ReadBytes(buf, Size(p).pos, FromBe(Size(p).value))
      chunks[p \in 0..Len(buf)] ==
        IF ~Size(p).ok \/ ~Chunk(p).ok THEN ReadErr
        ELSE IF Size(p).value = <<>> THEN Size(p)
        ELSE LET tail == chunks[Chunk(p).pos]
             IN  IF tail.ok THEN [ok |-> TRUE, value |-> Chunk(p).value \o tail.value, pos |-> tail.pos]
                 ELSE ReadErr
  IN  chunks[start]

\* read_bytes_with_length, and read_string_with_length
ReadBytesWithLength(buf, pos) ==
  LET len == ReadBytes(buf, pos, 1)
      escaped == ReadBytes(buf, len.pos, 1)
  IN  CASE ~len.ok -> ReadErr
        [] len.ok /\ len.value[1] = NULL_INDICATOR -> [len EXCEPT !.value = NoBytes]
        [] len.ok /\ len.value[1] = LONG_INDICATOR -> ReadChunks(buf, len.pos)
        [] len.ok /\ len.value[1] = ESCAPE_CHAR ->
             IF escaped.ok THEN ReadBytes(buf, escaped.pos, escaped.value[1]) ELSE ReadErr
        [] OTHER -> ReadBytes(buf, len.pos, len.value[1])

\* read_raw_bytes_chunked and skip_raw_bytes_chunked know neither NULL nor the escape.
ReadRawBytesChunked(buf, pos) ==
  LET len == ReadBytes(buf, pos, 1)
  IN  CASE ~len.ok -> ReadErr
        [] len.ok /\ len.value[1] = LONG_INDICATOR -> ReadChunks(buf, len.pos)
        [] OTHER -> ReadBytes(buf, len.pos, len.value[1])

\* read_string_with_ub4_length: an outer length of 0 stands for None.
ReadStringWithUb4Length(buf, pos) ==
  LET outer == ReadUb(buf, pos, 4)
  IN  CASE ~outer.ok -> ReadErr
        [] outer.ok /\ outer.value = <<>> -> [outer EXCEPT !.value = NoBytes]
        [] OTHER -> ReadBytesWithLength(buf, outer.pos)

----------------------------------------------------------------------------
\* Packets

PACKET_HEADER_SIZE == 8
DATA == 6

\* PacketHeader::write: without large SDU the length has two bytes.
WriteHeader(length, type, large) ==
  (IF large THEN Be4(length) ELSE Be2(length) \o <<0, 0>>) \o <<type, 0, 0, 0>>

\* PacketHeader::read, and the length that receive takes from a header.
ReadHeader(bytes, large) ==
  [length |-> IF large THEN FromBe4(bytes) ELSE FromBe2(bytes), type |-> bytes[5]]

(***************************************************************************)
(* send_multi_packet: for each packet its header, whether it carries       *)
(* END_OF_REQUEST, and its part of the payload.                            *)
(***************************************************************************)
SendMultiPacket(payload, sdu, large) ==
  LET max_payload == sdu - PACKET_HEADER_SIZE - 2
      packets == (Len(payload) + max_payload - 1) \div max_payload
      Part(i) == SubSeq(payload, (i - 1) * max_payload + 1,
                        IF i * max_payload < Len(payload) THEN i * max_payload ELSE Len(payload))
  IN  [i \in 1..packets |->
         [header |-> WriteHeader(PACKET_HEADER_SIZE + 2 + Len(Part(i)), DATA, large),
          end_of_request |-> i = packets, part |-> Part(i)]]

\* What receive reads in the header of each packet is what the packet holds.
PacketsAnnounced(packets, sdu, large) ==
  \A i \in DOMAIN packets :
    LET header == ReadHeader(packets[i].header, large)
    IN  /\ Len(packets[i].header) = PACKET_HEADER_SIZE /\ header.type = DATA
        /\ header.length = PACKET_HEADER_SIZE + 2 + Len(packets[i].part)
        /\ header.length <= sdu
        /\ packets[i].end_of_request <=> i = Len(packets)

----------------------------------------------------------------------------
\* Fields: what a message writer writes and the parser of the same field reads

WriteField(f) ==
  CASE f.type = "ub" -> WriteUb(f.value)
    [] f.type = "int" -> WriteOracleInt(f.value.n, f.value.negative)
    [] f.type = "fixed" -> f.value
    [] f.type \in {"bytes", "raw"} -> WriteBytesWithLength(f.value)
    [] f.type = "string" -> IF f.value = NoBytes THEN WriteUb(<<>>)
                            ELSE WriteUb(BytesOf(Len(f.value))) \o WriteBytesWithLength(f.value)

ReadField(f, buf, pos) ==
  CASE f.type = "ub" -> ReadUb(buf, pos, f.width)
    [] f.type = "fixed" -> ReadBytes(buf, pos, f.width)
    [] f.type = "int" -> ReadOracleInt(buf, pos, f.signed)
    [] f.type = "bytes" -> ReadBytesWithLength(buf, pos)
    [] f.type = "raw" -> ReadRawBytesChunked(buf, pos)
    [] f.type = "string" -> ReadStringWithUb4Length(buf, pos)

SkipField(f, buf, pos) == IF f.type = "ub" THEN SkipUb(buf, pos) ELSE ReadField(f, buf, pos)

\* Fields of a message, in order; the values read and the position behind each.
ReadNext(st, f, buf) ==
  LET r == ReadField(f, buf, st.pos)
  IN  IF st.ok /\ r.ok THEN [ok |-> TRUE, value |-> Append(st.value, r.value), pos |-> r.pos]
      ELSE [st EXCEPT !.ok = FALSE]

ReadFields(fields, buf) ==
  LET read[i \in 0..Len(fields)] ==
        IF i = 0 THEN [ok |-> TRUE, value |-> <<>>, pos |-> 0]
        ELSE ReadNext(read[i - 1], fields[i], buf)
  IN  read[Len(fields)]

\* The field that write_ub2, ub4 or ub8 writes.
Ub(width, n) == [type |-> "ub", width |-> width, value |-> n]

Message(fields) == FlattenSeq([i \in DOMAIN fields |-> WriteField(fields[i])])
Joined(packets) == FlattenSeq([i \in DOMAIN packets |-> packets[i].part])
Values(fields) == [i \in DOMAIN fields |-> fields[i].value]

(***************************************************************************)
(* Fields written one behind the other and sent in packets of any SDU are  *)
(* read back with their values and nothing is left over, long data and the *)
(* lengths next to the indicator bytes included; skipping a field ends     *)
(* where reading it does.  Every header announces the bytes of its packet, *)
(* with and without large SDU, only the last packet ends the request, and  *)
(* none is longer than the SDU.  A message cut short is an Err, never a    *)
(* value: the fields before the cut are read, the one it falls in is not.  *)
(***************************************************************************)
FieldsReadBack(fields, sdu, large, cut) ==
  LET packets == SendMultiPacket(Message(fields), sdu, large)
      buf == Joined(packets)
      result == ReadFields(fields, buf)
      short == ReadFields(fields, SubSeq(buf, 1, Len(buf) - cut))
  IN  /\ PacketsAnnounced(packets, sdu, large)
      /\ result.ok /\ result.value = Values(fields) /\ result.pos = Len(buf)
      /\ SkipField(fields[1], buf, 0).pos = ReadField(fields[1], buf, 0).pos
      /\ cut \in 1..Len(buf) => ~short.ok /\ IsPrefix(short.value, Values(fields))

\* The data of n bytes, whose bytes take every value.
Data(n) == [i \in 1..n |-> i % 256]

\* Sample fields: numbers of 0 to 8 bytes, data of the lengths ns or None.
SampleFields(ns) ==
  LET bytes == {Data(n) : n \in ns}
      numbers == {[i \in 1..k |-> b] : k \in 0..8, b \in {1, 128, 255}}
  IN  UNION {{[type |-> "ub", width |-> w, value |-> n] : n \in {m \in numbers : Len(m) <= w}}
               : w \in {2, 4, 8}}
        \cup {[type |-> "int", signed |-> s, value |-> [negative |-> FALSE, n |-> n]]
                : s \in BOOLEAN, n \in numbers}
        \cup {[type |-> "int", signed |-> TRUE, value |-> [negative |-> TRUE, n |-> n]]
                : n \in numbers \ {<<>>}}
        \cup {[type |-> "fixed", width |-> Len(d), value |-> d] : d \in bytes \ {<<>>}}
        \cup {[type |-> t, value |-> d] : t \in {"bytes", "raw", "string"}, d \in bytes \ {<<>>}}
        \cup {[type |-> t, value |-> NoBytes] : t \in {"bytes", "string"}}
        \cup {[type |-> t, value |-> <<>>] : t \in {"bytes", "raw"}}
=============================================================================
