---------------------------- MODULE MCOperations ----------------------------
(***************************************************************************)
(* Small instances of Operations: LOBs and tables of a few rows, and       *)
(* sample inputs on both sides of every limit of the encodings.            *)
(***************************************************************************)
EXTENDS Operations, Documents

CONSTANTS l1, f1, m1  \* a CLOB, a BFILE and a temporary LOB

MCKindOf == [l \in {l1, f1, m1} |->
               CASE l = l1 -> "clob" [] l = f1 -> "bfile" [] l = m1 -> "temp"]
MCContents == [l \in {l1, f1, m1} |-> IF l = l1 THEN <<"a", "b", "c">> ELSE <<"a", "b">>]

MCOffsets == {-2, 2}

\* Nine columns, so that a bit vector has a second byte; the first and the last vary.
MkRow(x, y) == [c \in 1..9 |-> CASE c = 1 -> x [] c = 9 -> y [] OTHER -> "k"]
MCTables == UNION {[1..n -> {MkRow("a", "a"), MkRow("a", "b"), MkRow("b", "b")}] : n \in 0..4}

----------------------------------------------------------------------------
UpTo(n, S) == UNION {[1..k -> S] : k \in 0..n}

MCFields ==
  LET fields == SampleFields({0, 1, 252, 253, 256, 257, 300})
      mixed == {f \in fields : \/ f.type \in {"bytes", "raw", "string"}
                               \/ f.type = "ub" /\ Len(f.value) \in {0, 3}}
  IN  [fields : [1..1 -> fields] \cup [1..2 -> mixed], sdu : {13, 270}, large : BOOLEAN,
       cut : 0..2]

MCNumbers ==
  [neg : BOOLEAN, int : UpTo(3, {0, 5, 9}), frac : UpTo(3, {0, 5, 9}), exp : {-128, -3, 0, 1, 125}]

MCTimestamps ==
  [year : {-44, 1, 99, 1999, 2024, 9999}, month : {1, 12}, day : {1, 31}, hour : {0, 23},
   minute : {0, 59}, second : {0, 59}, microsecond : {0, 1, 999999},
   tz_hour : {-12, 0, 5, 14}, tz_minute : {-30, 0, 45}]

MCIntervals ==
  LET big == {-999999999, -1, 0, 1, 256, 999999999}
  IN  [years : big, months : {-11, 0, 11}]
        \cup [days : big, hours : {-23, 0, 23}, minutes : {-59, 0, 59}, seconds : {-59, 0, 59},
              fseconds : big]

MCBinaries ==
  [a : [1..4 -> {0, 1, 127, 128, 255}],
   b : {<<0, 0, 0, 0>>, <<128, 0, 0, 0>>, <<63, 128, 1, 255>>, <<255, 127, 0, 1>>}]

MCRowIds ==
  [rba : {0, 1, 64, 16777216, 2147483647}, partition_id : {0, 63, 1024, 65535},
   block_num : {0, 1, 4095, 2147483647}, slot_num : {0, 64, 65535}]

MCVectors ==
  LET values == [float32 |-> {<<63, 128, 0, 0>>, <<191, 128, 0, 0>>},
                 float64 |-> {<<192, 1, 2, 3, 4, 5, 6, 7>>},
                 int8 |-> {<<0>>, <<200>>}, binary |-> {<<255>>, <<1>>}]
      Dense(f) == {[format |-> f, sparse |-> FALSE, dims |-> Len(v), indices |-> <<>>,
                    values |-> v] : v \in UpTo(2, values[f])}
      Each(f) == IF f = "binary" THEN 8 ELSE 1
      Sparse(f) == {[format |-> f, sparse |-> TRUE, dims |-> 300,
                     indices |-> [i \in 1..(Each(f) * Len(v)) |-> 17 * i], values |-> v]
                      : v \in UpTo(2, values[f])}
  IN  UNION {Dense(f) \cup Sparse(f) : f \in DOMAIN values}

\* Two names of the same length whose hashes end in the same byte.
Colliding == <<<<97, 98>>, <<119, 120>>>>

MCJson ==
  LET Leaf(t, n) == [t |-> t, v |-> Data(n)]
      Obj(names, value) == [t |-> "object",
                            fields |-> [i \in DOMAIN names |-> [name |-> names[i], value |-> value]]]
      Arr(items) == [t |-> "array", items |-> items]
      sent == {Leaf("null", 0), Leaf("true", 0), Leaf("number", 3), Leaf("string", 0),
               Leaf("string", 31), Leaf("string", 32), Leaf("string", 255), Leaf("string", 256)}
      received == {Leaf("false", 0), Leaf("double", 8), Leaf("float", 4), Leaf("date", 7),
                   Leaf("timestamp7", 7), Leaf("timestamp", 11), Leaf("timestamp_tz", 11),
                   Leaf("binary", 3), Leaf("vector", 20), Leaf("number", 16)}
      three == <<Data(3), Data(1), Data(2)>>
      names == {<<>>, three, Colliding}
      leaves == {Leaf("null", 0), Leaf("string", 32)}
      objects == {Obj(n, x) : n \in names, x \in leaves}
      nested == {Arr(<<a, b, a>>) : a, b \in objects \cup leaves}
                  \cup {Obj(n, o) : n \in names, o \in objects} \cup {Arr(<<>>)}
      \* As many names and items, and as long a name, as one byte counts, and more items; and
      \* trees of more bytes than two bytes count.
      wide == {Arr([i \in 1..n |-> Leaf("true", 0)]) : n \in {255, 256, 65536}}
                \cup {Leaf("string", 65536), Arr(<<Leaf("string", 65535), Leaf("null", 0)>>)}
                \cup {Obj([i \in 1..255 |-> <<i>>], Leaf("null", 0)),
                      Obj(<<Data(0), Data(255)>>, Leaf("true", 0))}
      server == [id : {1, 2, 4}, offset : {2, 4}, name : {1}, nameOffset : {2, 4}, relative : BOOLEAN,
                 inline : BOOLEAN, shared : BOOLEAN]
                  \cup [id : {1, 2}, offset : {2}, name : {2}, nameOffset : {2, 4},
                        relative : {FALSE}, inline : {TRUE}, shared : {FALSE}]
      arrays == {Arr(<<Obj(m, x), Obj(n, x), Obj(m, x)>>)
                   : m, n \in {three, Colliding}, x \in {Leaf("number", 3)}}
  IN  [doc : sent \cup nested \cup wide, fmt : {ClientFormat}]
        \cup [doc : received, fmt : {ClientFormat, [ClientFormat EXCEPT !.inline = TRUE]}]
        \cup [doc : arrays, fmt : server]

MCCollections ==
  LET elements(type) ==
        CASE type = "BinaryInteger" -> \* 0, 4278190081, -1 and -2^40
                                    {Zeros(8), Zeros(4) \o <<255, 0, 0, 1>>,
                                     [i \in 1..8 |-> 255],
                                     <<255, 255, 255>> \o Zeros(5)}
          [] type = "Boolean" -> {<<0>>, <<1>>}
          [] OTHER -> {Data(n) : n \in {0, 1, 245, 246, 254, 300}}
      Lists(type) == UpTo(3, elements(type) \cup {NullElement})
                       \cup {[i \in 1..n |-> CHOOSE e \in elements(type) : TRUE] : n \in {245, 246}}
  IN  UNION {[elements : Lists(t), kind : DOMAIN CollectionTypes, type : {t}]
               : t \in {"BinaryInteger", "Boolean", "Varchar"}}

\* Bind values of a kind; the lengths of text are those of ns.
Value(kind, ns) ==
  CASE kind = "Lob" -> [kind : {kind}, type : {"CLOB"}, data : {Data(40), NoBytes}]
    [] kind = "Json" -> {[kind |-> kind, size |-> n, data |-> d] :
                            <<n, d>> \in {<<3, Data(9)>>, <<300, Data(252)>>, <<3, NoBytes>>}}
    [] kind = "Vector" -> [kind : {kind}, size : {24}, data : {Data(29)}]
    [] kind = "Cursor" -> [kind : {kind}, data : {<<>>, <<1, 44>>}]
    [] kind = "Collection" -> [kind : {kind}, oid : {Data(16)}, data : {Data(5), NoBytes}]
    [] kind = "String" -> [kind : {kind}, data : {Data(n) : n \in ns}]
    [] OTHER -> [kind : {kind},
                 data : {Data(n) : n \in CASE kind = "Bytes" -> {3}
                                           [] kind = "Integer" -> {2, 21}
                                           [] kind = "Date" -> {7}}]

\* One or two rows of two columns; the first declares the types, by a value or a typed NULL.
MCRows(ns) ==
  LET kinds == {"String", "Bytes", "Integer", "Date", "Lob", "Json", "Vector", "Cursor",
                "Collection"}
      Typed(k) == {TypedNull(InferOracleType(v)) : v \in Value(k, ns)}
      Text == Value("String", {1})
      First(k) == {<<a, b>> : a \in Value(k, ns) \cup Typed(k), b \in Text}
      Later(k) == {<<a, b>> : a \in Value(k, ns) \cup {Null}, b \in Text \cup Typed("String")}
  IN  {<<>>, <<<<>>>>}
        \cup {<<<<a, b>>>> : a \in Value("Lob", ns), b \in UNION {Value(k, ns) : k \in kinds}}
        \cup UNION {{<<a>> : a \in First(k)} : k \in kinds}
        \cup UNION {{<<a, b>> : a \in First(k), b \in Later(k)} : k \in kinds}

\* Parameters of PL/SQL calls: IN, OUT and IN OUT, with a size that covers the value or none.
MCParams(ns) ==
  LET values == UNION {Value(k, ns) : k \in {"String", "Bytes", "Integer", "Date", "Lob", "Json",
                                             "Vector", "Cursor", "Collection"}}
                  \cup {Null, TypedNull("DATE")}
      texts == {Input(v) : v \in Value("String", ns)}
      params == {Input(v) : v \in values} \cup {InputOutput(v, n) : v \in values, n \in {0, 300}}
                  \cup {OutputObject(v) : v \in Value("Cursor", ns) \cup Value("Collection", ns)}
                  \cup {Output(t, n) : t \in {"VARCHAR", "NUMBER", "BINARY_DOUBLE", "RAW", "DATE",
                                             "CLOB", "CURSOR"}, n \in {0, 100}}
  IN  {<<>>} \cup {<<p>> : p \in params} \cup {<<p, q>> : p \in params, q \in texts}

MCRequests(ns) ==
  UNION {Requests(r, 7, 2) : r \in MCRows(ns)} \cup {PlsqlRequest(p) : p \in MCParams(ns)}

MCLobRequests ==
  LET numbers == {<<>>, <<1>>, <<1, 0>>, <<128, 0, 0, 1>>, <<1, 0, 0, 0, 0>>}
      ops == {LobRead(o, n) : o, n \in numbers} \cup {LobTrimTo(n) : n \in numbers}
               \cup {LobWrite(o, Data(n)) : o \in numbers, n \in {0, 1, 252, 253, 600}}
               \cup {LobGetLength, LobGetChunkSize, FileExists, FileOpen, FileClose, FileIsOpen}
  IN  [op : ops, locator : {Data(n) : n \in {0, 40, 256}}, token : BOOLEAN]
        \cup [op : {CreateTemp(f, t) : f \in {<<>>, <<1>>}, t \in {<<112>>, <<113>>}},
              locator : {Zeros(40)}, token : BOOLEAN]

----------------------------------------------------------------------------
MCSamples ==
  [sql |-> [text : Texts(4), type : StatementTypes],
   call |-> CallTexts(5),
   fields |-> MCFields,
   number |-> {x \in MCNumbers : ~IsSmallFraction(x)},
   timestamp |-> [ts : MCTimestamps, zoned : BOOLEAN],
   interval |-> MCIntervals,
   binary |-> MCBinaries,
   rowid |-> [id : MCRowIds, typed : BOOLEAN],
   vector |-> MCVectors,
   json |-> MCJson,
   collection |-> MCCollections,
   request |-> MCRequests({0, 1, 252}),
   lobRequest |-> MCLobRequests]

(***************************************************************************)
(* JSON documents and collections that are encoded and decoded again come  *)
(* back with every name and element in its place, but for those that       *)
(* ExpectedJson and ExpectedElement name (negative integers, a VECTOR in a *)
(* document); cut short they are an Err or, within the names of a          *)
(* document, a panic, and never another value (see Documents, whose        *)
(* definitions are recursive and are kept out of the modules of proofs).   *)
(***************************************************************************)
DocumentsRoundTrip ==
  [][/\ Sample("json", LAMBDA v : JsonReadBack(v.doc, v.fmt))
     /\ Sample("collection", LAMBDA v : CollectionReadBack(v.elements, v.kind, v.type))]_sample

\* Numbers with fractions such as 0.05 too.
MCAllNumbers == [number |-> MCNumbers]
=============================================================================
