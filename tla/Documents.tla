----------------------------- MODULE Documents -----------------------------
(***************************************************************************)
(* The two nested encodings: OSON, the binary form of JSON documents, and  *)
(* the pickle format of collections.                                       *)
(*                                                                         *)
(* A JSON value is an array [t, items], an object [t, fields] with its     *)
(* [name, value] in the order of the map, or a scalar [t, v] with its      *)
(* bytes (codecs of their own, see TypeCodecs).  OSON puts the nodes of a  *)
(* document one behind the other in a tree segment, in which a container   *)
(* finds its children by offsets.                                          *)
(* OsonEncoder writes one variant of the format, ClientFormat; the server  *)
(* may send any, and OsonDecoder has to read them all.                     *)
(***************************************************************************)
EXTENDS WireBuffers, TLC

LOCAL INSTANCE Bitwise

\* n in w bytes, cut to its low bytes.
Be(w, n) == [i \in 1..w |-> (n \div (256 ^ (w - i))) % 256]

(***************************************************************************)
(* Long sequences are built by halves, not item by item: the same result,  *)
(* and a recursion that is not deep.                                       *)
(***************************************************************************)
Concat(seqs) ==
  LET from[lo \in 1..(Len(seqs) + 1), hi \in 0..Len(seqs)] ==
        CASE lo > hi -> <<>>
          [] lo = hi -> seqs[lo]
          [] lo < hi -> LET mid == (lo + hi) \div 2 IN from[lo, mid] \o from[mid + 1, hi]
  IN  from[1, Len(seqs)]

----------------------------------------------------------------------------
\* OSON: names

\* bernstein_hash(name) & 0xff: the low byte depends on the low bytes only.
HashByte(name) ==
  LET hash[h \in 0..255, lo \in 1..(Len(name) + 1), hi \in 0..Len(name)] ==  \* on, from lo to hi
        CASE lo > hi -> h
          [] lo = hi -> ((h ^^ name[lo]) * 147) % 256
          [] lo < hi -> LET mid == (lo + hi) \div 2
                        IN  hash[hash[h, lo, mid], mid + 1, hi]
  IN  hash[197, 1, Len(name)]

\* The names of a document in its order, as often as they occur.
RECURSIVE FieldNames(_)
FieldNames(doc) ==
  CASE doc.t = "object" ->
         Concat([i \in DOMAIN doc.fields |->
                       <<doc.fields[i].name>> \o FieldNames(doc.fields[i].value)])
    [] doc.t = "array" -> Concat([i \in DOMAIN doc.items |-> FieldNames(doc.items[i])])
    [] OTHER -> <<>>

\* collect_field_names: each name once, where it occurs first.
CollectFieldNames(doc) ==
  LET names == FieldNames(doc)
      First(i) == \A j \in 1..(i - 1) : names[j] # names[i]
      first == SelectSeq([i \in DOMAIN names |-> i], First)
  IN  [k \in DOMAIN first |-> names[first[k]]]

\* sort_and_update_field_ids: by hash and length.
SortedNames(names) ==
  LET Before(a, b) ==
        LET ha == HashByte(a)  hb == HashByte(b)
        IN  ha < hb \/ (ha = hb /\ Len(a) < Len(b))
  IN  SortSeq(names, Before)

\* Mutant: the tree refers to the names by the order in which they were collected.
NameIdsAsCollected(names, sorted) == names

\* field_name_to_id: the names in the order of the ids the tree refers to them by.
NameIds(names, sorted) == sorted

FieldId(names, name) == CHOOSE i \in DOMAIN names : names[i] = name

\* build_field_names_components: hash ids, offsets, and the names with their lengths.
FieldNamesSegment(sorted, fmt) ==
  LET Entry(i) == Be(fmt.name, Len(sorted[i])) \o sorted[i]
      data == Concat([i \in DOMAIN sorted |-> Entry(i)])
      offset == [i \in DOMAIN sorted |-> Len(Concat([j \in 1..(i - 1) |-> Entry(j)]))]
  IN  [hashes |-> Concat([i \in DOMAIN sorted |->
                                Zeros(fmt.name - 1) \o <<HashByte(sorted[i])>>]),
       offsets |-> Concat([i \in DOMAIN sorted |-> Be(fmt.nameOffset, offset[i])]),
       data |-> data]

----------------------------------------------------------------------------
\* OSON: the tree

(***************************************************************************)
(* A format: the bytes of a field id, of a child's offset, of a name's     *)
(* length and offset; whether offsets count from the container, whether    *)
(* strings and numbers have their length in the node type, and whether the *)
(* objects of an array refer to the field ids of its first item.           *)
(***************************************************************************)
ClientFormat == [id |-> 1, offset |-> 4, name |-> 1, nameOffset |-> 2, relative |-> FALSE,
                 inline |-> FALSE, shared |-> FALSE]

\* Nodes of fixed length, sent by the server: node type and bytes.
FixedNodes == [null |-> <<48, 0>>, true |-> <<49, 0>>, false |-> <<50, 0>>, double |-> <<54, 8>>,
               float |-> <<127, 4>>, date |-> <<60, 7>>, timestamp7 |-> <<125, 7>>,
               timestamp |-> <<57, 11>>, timestamp_tz |-> <<124, 13>>]

EncodeScalar(doc, fmt) ==
  LET len == Len(doc.v)
  IN  CASE doc.t \in DOMAIN FixedNodes ->
             <<FixedNodes[doc.t][1]>> \o doc.v \o Zeros(FixedNodes[doc.t][2] - len)
        [] doc.t = "number" ->
             (IF fmt.inline THEN <<32 + len - 1>> ELSE <<52, len>>) \o doc.v
        [] doc.t = "binary" -> <<58>> \o Be(2, len) \o doc.v
        [] doc.t = "vector" -> <<123, 1>> \o Be(4, len) \o doc.v  \* an extended type
        [] doc.t = "string" ->
             (CASE fmt.inline /\ len < 32 -> <<len>>
                [] ~(fmt.inline /\ len < 32) /\ len < 256 -> <<51, len>>
                [] len \in 256..65535 -> <<55>> \o Be(2, len)
                [] OTHER -> <<56>> \o Be(4, len)) \o doc.v

NoShared == [ids |-> <<-1>>, at |-> 0]

\* encode_node, encode_array and encode_object: the bytes of a node that begins at `at`.
RECURSIVE EncodeNode(_, _, _, _, _)
EncodeNode(doc, at, names, fmt, shared) ==
  LET isObject == doc.t = "object"
      items == IF isObject THEN [i \in DOMAIN doc.fields |-> doc.fields[i].value] ELSE doc.items
      n == Len(items)
      Ids(object) == [i \in DOMAIN object.fields |-> FieldId(names, object.fields[i].name)]
      ids == IF isObject THEN Ids(doc) ELSE <<>>
      isShared == isObject /\ ids = shared.ids
      width == CASE n < 256 -> 1 [] n \in 256..65535 -> 2 [] OTHER -> 4  \* of the count
      type == (IF isObject THEN 132 ELSE 192) + (IF fmt.offset = 4 THEN 32 ELSE 0)
                + (IF isShared THEN 24 ELSE CASE width = 1 -> 0 [] width = 2 -> 8 [] width = 4 -> 16)
      head == IF isShared THEN <<type>> \o Be(fmt.offset, shared.at)
              ELSE <<type>> \o Be(width, n)
                     \o Concat([i \in DOMAIN ids |-> Be(fmt.id, ids[i])])
      start == at + Len(head) + n * fmt.offset
      sharing == ~isObject /\ fmt.shared /\ n > 1 /\ items[1].t = "object"
      Child(i, pos) ==
        EncodeNode(items[i], pos, names, fmt,
                   IF sharing /\ i > 1 THEN [ids |-> Ids(items[1]), at |-> start] ELSE NoShared)
      children[lo \in 1..(n + 1), hi \in 0..n, pos \in Nat] ==  \* items lo..hi, from pos on
        CASE lo > hi -> [offsets |-> <<>>, bytes |-> <<>>]
          [] lo = hi -> [offsets |-> Be(fmt.offset, IF fmt.relative THEN pos - at ELSE pos),
                         bytes |-> Child(lo, pos)]
          [] lo < hi -> LET mid == (lo + hi) \div 2
                            left == children[lo, mid, pos]
                            right == children[mid + 1, hi, pos + Len(left.bytes)]
                        IN  [offsets |-> left.offsets \o right.offsets,
                             bytes |-> left.bytes \o right.bytes]
      all == children[1, n, start]
  IN  IF doc.t \notin {"object", "array"} THEN EncodeScalar(doc, fmt)
      ELSE head \o all.offsets \o all.bytes

\* OsonEncoder::encode_value: the segments (header, index of the names, names and tree) and
\* the document they make.
\* The sizes of the names and of the tree take four bytes, and a flag, when two are too few.
OsonSegments(doc, fmt) ==
  LET names == CollectFieldNames(doc)
      sorted == SortedNames(names)
      segment == FieldNamesSegment(sorted, fmt)
      tree == EncodeNode(doc, 0, NameIds(names, sorted), fmt, NoShared)
      scalar == doc.t \notin {"object", "array"}
      long == fmt.name = 2
      bigNames == ~scalar /\ (Len(segment.data) > 65535 \/ (~long /\ fmt.nameOffset = 4))
      bigTree == Len(tree) > 65535
      flags == 2 + (IF fmt.relative THEN 1 ELSE 0)
                 + (IF scalar THEN 16
                    ELSE 256 + 8192 + (CASE fmt.id = 1 -> 0 [] fmt.id = 2 -> 1024 [] fmt.id = 4 -> 8))
                 + (IF bigNames THEN 2048 ELSE 0) + (IF bigTree THEN 4096 ELSE 0)
      treeSize == Be(IF bigTree THEN 4 ELSE 2, Len(tree))
      \* Version 3 has the numbers and sizes of the long names behind those of the short ones.
      counts == IF long
                THEN Zeros(fmt.id) \o <<0, 0>> \o (IF fmt.nameOffset = 2 THEN <<1, 0>> ELSE <<0, 0>>)
                       \o Be(4, Len(names)) \o Be(4, Len(segment.data))
                ELSE Be(fmt.id, Len(names)) \o Be(IF bigNames THEN 4 ELSE 2, Len(segment.data))
      start == <<255, 74, 90, IF long THEN 3 ELSE 1>> \o Be(2, flags)
  IN  IF scalar THEN [header |-> start \o treeSize, index |-> <<>>, names |-> <<>>, tree |-> tree]
      ELSE [header |-> start \o counts \o treeSize \o <<0, 0>>,
            index |-> segment.hashes \o segment.offsets, names |-> segment.data, tree |-> tree]

EncodeOson(s) == s.header \o s.index \o s.names \o s.tree

----------------------------------------------------------------------------
\* OSON: OsonDecoder

DecodeErr == [ok |-> FALSE, value |-> [t |-> "err", v |-> <<>>]]
Decoded(t, v) == [ok |-> TRUE, value |-> [t |-> t, v |-> v]]

\* A value with its length in w bytes behind the node type, or the length itself.
Prefixed(d, pos, w, t) ==
  LET len == ReadBytes(d.buf, pos, w)
      bytes == ReadBytes(d.buf, len.pos, FromBe(len.value))
  IN  IF len.ok /\ bytes.ok THEN Decoded(t, bytes.value) ELSE DecodeErr

Inline(d, pos, len, t) ==
  LET bytes == ReadBytes(d.buf, pos, len) IN  IF bytes.ok THEN Decoded(t, bytes.value) ELSE DecodeErr

\* The scalar nodes of decode_node; the zone of a timestamp is dropped, and a VECTOR is
\* skipped: an empty array stands for it.  Intervals and other types are an Err.
DecodeScalar(d, pos, type) ==
  LET fixed == {t \in DOMAIN FixedNodes : FixedNodes[t][1] = type}
      t == CHOOSE f \in fixed : TRUE
      bytes == ReadBytes(d.buf, pos, FixedNodes[t][2])
      extended == ReadBytes(d.buf, pos, 1)
      high == type \div 16
  IN  CASE fixed # {} ->
             IF ~bytes.ok THEN DecodeErr
             ELSE Decoded(t, SubSeq(bytes.value, 1, IF t = "timestamp_tz" THEN 11 ELSE Len(bytes.value)))
        [] fixed = {} /\ type = 51 -> Prefixed(d, pos, 1, "string")
        [] fixed = {} /\ type = 55 -> Prefixed(d, pos, 2, "string")
        [] fixed = {} /\ type = 52 -> Prefixed(d, pos, 1, "number")
        [] fixed = {} /\ type = 56 -> Prefixed(d, pos, 4, "string")
        [] fixed = {} /\ type = 58 -> Prefixed(d, pos, 2, "binary")
        [] fixed = {} /\ type = 59 -> Prefixed(d, pos, 4, "binary")
        [] fixed = {} /\ type = 126 -> Prefixed(d, pos, 1, "binary")
        [] fixed = {} /\ type = 123 ->
             IF extended.value = <<1>> /\ Prefixed(d, pos + 1, 4, "vector").ok
             THEN [ok |-> TRUE, value |-> [t |-> "array", items |-> <<>>]] ELSE DecodeErr
        [] fixed = {} /\ high \in {2, 6} -> Inline(d, pos, (type % 16) + 1, "number")
        [] fixed = {} /\ high \in {4, 5} -> Inline(d, pos, type % 16, "number")
        [] fixed = {} /\ type < 32 -> Inline(d, pos, type, "string")
        [] OTHER -> DecodeErr

\* The children of a container: their number, the place of their ids and of their offsets.
Layout(d, pos, type) ==
  LET CountAt(p, nodeType) ==
        LET w == CASE (nodeType \div 8) % 4 = 0 -> 1 [] (nodeType \div 8) % 4 = 1 -> 2
                   [] (nodeType \div 8) % 4 = 2 -> 4 [] OTHER -> 0
        IN  [ReadBytes(d.buf, p, w) EXCEPT !.value = FromBe(@)]
      offset == IF (type \div 32) % 2 = 1 THEN 4 ELSE 2
      count == CountAt(pos, type)
      isObject == (type \div 64) % 2 = 0
      \* Shared: the ids are those of another node, found by its offset.
      target == ReadBytes(d.buf, pos, offset)
      node == d.tree + FromBe(target.value)
      other == CountAt(node + 1, d.buf[node + 1])
  IN  CASE (type \div 8) % 4 = 3 ->
             [ok |-> target.ok /\ other.ok, n |-> other.value, ids |-> other.pos,
              offsets |-> target.pos, width |-> offset]
        [] OTHER -> [ok |-> count.ok, n |-> count.value, ids |-> count.pos,
                     offsets |-> count.pos + IF isObject THEN d.id * count.value ELSE 0,
                     width |-> offset]

\* decode_node and decode_container: the value of the node at pos.
RECURSIVE DecodeNode(_, _)
DecodeNode(d, pos) ==
  LET first == ReadBytes(d.buf, pos, 1)
      type == first.value[1]
      layout == Layout(d, pos + 1, type)
      isObject == (type \div 64) % 2 = 0
      Child(i) ==
        LET offset == ReadBytes(d.buf, layout.offsets + (i - 1) * layout.width, layout.width)
        IN  IF ~offset.ok THEN DecodeErr
            ELSE DecodeNode(d, FromBe(offset.value) + IF d.relative THEN pos ELSE d.tree)
      Name(i) ==
        LET id == FromBe(ReadBytes(d.buf, layout.ids + (i - 1) * d.id, d.id).value)
        IN  IF id \in DOMAIN d.names THEN d.names[id] ELSE <<-id>>
      children == [i \in 1..layout.n |-> Child(i)]
  IN  IF ~first.ok THEN DecodeErr
      ELSE IF type < 128 THEN DecodeScalar(d, pos + 1, type)
      ELSE IF ~layout.ok \/ \E i \in 1..layout.n : ~children[i].ok THEN DecodeErr
      ELSE IF isObject
      THEN [ok |-> TRUE,
            value |-> [t |-> "object", fields |-> [i \in 1..layout.n |->
                        [name |-> Name(i), value |-> children[i].value]]]]
      ELSE [ok |-> TRUE,
            value |-> [t |-> "array", items |-> [i \in 1..layout.n |-> children[i].value]]]

(***************************************************************************)
(* read_short_field_names and read_long_field_names, with lengths of w     *)
(* bytes.  The offsets are read with a check; the names are slices, which  *)
(* panic when they reach beyond the document.                              *)
(***************************************************************************)
ReadFieldNames(buf, pos, count, offsetSize, w, size) ==
  LET data == pos + count * (w + offsetSize)
      end == data + size
      At(i) == data + FromBe(ReadBytes(buf, pos + count * w + (i - 1) * offsetSize, offsetSize).value)
      Name(i) == ReadBytes(buf, At(i) + w, FromBe(ReadBytes(buf, At(i), w).value))
      Inside(i) == At(i) + w <= end /\ Name(i).ok /\ Name(i).pos <= end
      Read(outcome, names, at) == [outcome |-> outcome, names |-> names, pos |-> at]
  IN  CASE count = 0 -> Read("ok", <<>>, pos)
        [] count > 0 /\ Len(buf) < data -> Read("err", <<>>, data)
        [] count > 0 /\ Len(buf) >= data /\ (Len(buf) < end \/ \E i \in 1..count : ~Inside(i)) ->
             Read("panic", <<>>, data)
        [] OTHER -> Read("ok", [i \in 1..count |-> Name(i).value], end)

\* What OsonDecoder::decode ends with: a value, an Err or a panic.
Outcome(node) == [outcome |-> IF node.ok THEN "ok" ELSE "err", value |-> node.value]
NoOutcome(how) == [outcome |-> how, value |-> DecodeErr.value]

\* OsonDecoder::parse
DecodeOson(buf) ==
  LET At(p, w) == FromBe(ReadBytes(buf, p, w).value)
      flags == At(4, 2)
      Flag(bit) == (flags \div bit) % 2 = 1
      long == buf[4] = 3
      id == IF Flag(8) THEN 4 ELSE IF Flag(1024) THEN 2 ELSE 1
      size == IF Flag(2048) THEN 4 ELSE 2
      treeSize == IF Flag(4096) THEN 4 ELSE 2
      p1 == 6 + id + size                   \* behind the number and size of the short names
      longSize == IF (At(p1, 2) \div 256) % 2 = 1 THEN 2 ELSE 4
      p2 == (IF long THEN p1 + 10 ELSE p1) + treeSize + 2   \* behind the header
      short == ReadFieldNames(buf, p2, At(6, id), size, 1, At(6 + id, size))
      longs == ReadFieldNames(buf, short.pos, IF long THEN At(p1 + 2, 4) ELSE 0, longSize, 2,
                              IF long THEN At(p1 + 6, 4) ELSE 0)
  IN  CASE \/ Len(buf) < 6 \/ SubSeq(buf, 1, 3) # <<255, 74, 90>> \/ buf[4] \notin {1, 3}
           \/ ~Flag(16) /\ Len(buf) < p2 -> NoOutcome("err")
        [] OTHER ->
             CASE Flag(16) ->
                    Outcome(DecodeNode([buf |-> buf, names |-> <<>>, id |-> 1, tree |-> 0,
                                        relative |-> Flag(1)], 6 + treeSize))
               [] ~Flag(16) /\ short.outcome # "ok" -> NoOutcome(short.outcome)
               [] ~Flag(16) /\ short.outcome = "ok" /\ longs.outcome # "ok" -> NoOutcome(longs.outcome)
               [] OTHER ->
                    Outcome(DecodeNode([buf |-> buf, names |-> short.names \o longs.names, id |-> id,
                                        tree |-> longs.pos, relative |-> Flag(1)], longs.pos))

\* An extended VECTOR is not decoded; everything else is what was encoded.
ExpectedJson(doc) == IF doc.t = "vector" THEN [t |-> "array", items |-> <<>>] ELSE doc

(***************************************************************************)
(* A document is decoded to what was encoded, in the client's format and   *)
(* in those of the server: names found by their ids, children by their     *)
(* offsets.  A document cut short is never taken for a whole one: it is an *)
(* Err, but for one cut inside the names, on which the decoder panics.     *)
(* Every segment is cut before its last byte.                              *)
(***************************************************************************)
JsonReadBack(doc, fmt) ==
  LET s == OsonSegments(doc, fmt)
      header == Len(s.header)
      index == header + Len(s.index)
      names == index + Len(s.names)
      bytes == EncodeOson(s)
      Cut(n) == DecodeOson(SubSeq(bytes, 1, n - 1)).outcome
  IN  /\ DecodeOson(bytes) = [outcome |-> "ok", value |-> ExpectedJson(doc)]
      /\ \A n \in {4, header, index, Len(bytes)} : Cut(n) = "err"
      /\ s.names # <<>> => Cut(names) = "panic"

----------------------------------------------------------------------------
\* Collections

LONG_LENGTH_INDICATOR == 254
MAX_SHORT_LENGTH == 245
ATOMIC_NULL == 253

CollectionTypes == [PlsqlIndexTable |-> 1, NestedTable |-> 2, Varray |-> 3]

WriteLength(n) ==
  IF n <= MAX_SHORT_LENGTH THEN <<n>> ELSE <<LONG_LENGTH_INDICATOR>> \o Be(4, n)

\* read_length
ReadLength(buf, pos) ==
  LET short == ReadBytes(buf, pos, 1)
      read == IF short.ok /\ short.value[1] = LONG_LENGTH_INDICATOR
              THEN ReadBytes(buf, short.pos, 4) ELSE short
  IN  IF read.ok THEN [read EXCEPT !.value = FromBe(@)] ELSE ReadErr

\* An element is NULL or its bytes; an integer is the eight bytes of an i64.
NullElement == <<-1>>

\* encode_value: a BINARY_INTEGER keeps the low four bytes.
EncodeValue(value, type) ==
  CASE value = NullElement -> <<NULL_INDICATOR>>
    [] value # NullElement /\ type = "BinaryInteger" -> <<4>> \o SubSeq(value, 5, 8)
    [] value # NullElement /\ type = "Boolean" -> <<4, 0, 0, 0>> \o value
    [] OTHER -> WriteLength(Len(value)) \o value

\* decode_value: no bytes are NULL, and a u32 becomes the i64.
DecodeValue(buf, pos, type) ==
  LET first == ReadBytes(buf, pos, 1)
      len == ReadLength(buf, pos)
      isFlag == type = "Boolean"
      bytes == ReadBytes(buf, len.pos, IF isFlag /\ len.value > 4 THEN 4 ELSE len.value)
      Truth(b) == <<IF (Len(b) = 4 /\ FromBe(b) # 0) \/ b[Len(b)] # 0 THEN 1 ELSE 0>>
  IN  CASE ~first.ok -> ReadErr
        [] first.ok /\ first.value[1] \in {ATOMIC_NULL, NULL_INDICATOR} ->
             [first EXCEPT !.value = NullElement]
        [] OTHER ->
             CASE ~len.ok -> ReadErr
               [] len.ok /\ len.value = 0 -> [len EXCEPT !.value = NullElement]
               [] OTHER ->
                    IF ~bytes.ok THEN ReadErr
                    ELSE [bytes EXCEPT !.value =
                            CASE type = "BinaryInteger" ->
                                   IF Len(@) >= 4 THEN Zeros(4) \o SubSeq(@, 1, 4) ELSE NullElement
                              [] isFlag -> Truth(@)
                              [] OTHER -> @]

\* encode_collection; the length is that of the whole.
EncodeCollection(elements, kind, type) ==
  LET body == Concat([i \in DOMAIN elements |->
                (IF kind = "PlsqlIndexTable" THEN Be(4, i - 1) ELSE <<>>)
                  \o EncodeValue(elements[i], type)])
      rest == <<1, 1, CollectionTypes[kind]>> \o WriteLength(Len(elements)) \o body
  IN  <<136, 1, LONG_LENGTH_INDICATOR>> \o Be(4, 7 + Len(rest)) \o rest

\* decode_collection and read_header: a byte 1 is taken for the prefix segment.
DecodeCollection(buf, kind, type) ==
  LET size == ReadLength(buf, 2)
      prefix == ReadBytes(buf, size.pos, 2)
      start == IF prefix.ok /\ prefix.value[1] = 1 THEN prefix.pos ELSE size.pos
      count == ReadLength(buf, start + 1)
      Element(pos) ==
        LET index == ReadBytes(buf, pos, IF kind = "PlsqlIndexTable" THEN 4 ELSE 0)
            value == DecodeValue(buf, index.pos, type)
        IN  IF index.ok /\ value.ok THEN [value EXCEPT !.value = <<@>>] ELSE ReadErr
      elements[n \in Nat, pos \in Nat] ==  \* n elements, from pos on
        CASE n = 0 -> [ok |-> TRUE, value |-> <<>>, pos |-> pos]
          [] n = 1 -> Element(pos)
          [] n > 1 -> LET left == elements[n \div 2, pos]
                          right == elements[n - (n \div 2), left.pos]
                      IN  IF left.ok /\ right.ok
                          THEN [right EXCEPT !.value = left.value \o @] ELSE ReadErr
  IN  CASE buf = <<>> -> [ok |-> TRUE, value |-> <<>>, pos |-> 0]
        [] buf # <<>> /\ (~size.ok \/ (buf[1] \div 16) % 2 = 1 \/ ~count.ok) -> ReadErr
        [] OTHER -> elements[count.value, count.pos]

(***************************************************************************)
(* What comes back of an element.  An empty text is NULL, as in the        *)
(* database.  Of a BINARY_INTEGER the low 32 bits come back without a      *)
(* sign: a negative integer, or a longer one, becomes another value        *)
(* (-1 becomes 4294967295), although the type is a signed one.             *)
(***************************************************************************)
ExpectedElement(e, type) ==
  CASE e \in {<<>>, NullElement} -> NullElement
    [] e \notin {<<>>, NullElement} /\ type = "BinaryInteger" -> Zeros(4) \o SubSeq(e, 5, 8)
    [] OTHER -> e

(***************************************************************************)
(* The elements of a collection are read back in order and nothing is left *)
(* over: the same values, but for empty texts and for BINARY_INTEGERs that *)
(* are negative or longer than 32 bits.  A collection cut short is an Err. *)
(***************************************************************************)
CollectionReadBack(elements, kind, type) ==
  LET bytes == EncodeCollection(elements, kind, type)
      result == DecodeCollection(bytes, kind, type)
  IN  /\ result.ok /\ result.pos = Len(bytes)
      /\ result.value = [i \in DOMAIN elements |-> ExpectedElement(elements[i], type)]
      /\ ReadLength(bytes, 2).value = Len(bytes)
      /\ ~DecodeCollection(SubSeq(bytes, 1, Len(bytes) - 1), kind, type).ok
=============================================================================
