----------------------------- MODULE TypeCodecs -----------------------------
(***************************************************************************)
(* The encoders and decoders of column values: NUMBER, DATE and TIMESTAMP, *)
(* the INTERVAL types, BINARY_FLOAT and BINARY_DOUBLE, ROWID and VECTOR.   *)
(*                                                                         *)
(* Bytes are numbers from 0 to 255.  A decimal number is                   *)
(* [neg, int, frac, exp]: its sign, the digits before and behind the point *)
(* and the exponent, as encode_oracle_number scans them from a text.       *)
(* Arithmetic on bytes wraps, as in a release build; the years before      *)
(* Christ, for which a debug build panics, depend on it.                   *)
(***************************************************************************)
EXTENDS WireBuffers, FiniteSetsExt

\* Rust's / and % truncate.
Quot(a, b) == IF a < 0 THEN -((-a) \div b) ELSE a \div b
Rem(a, b) == a - b * Quot(a, b)

----------------------------------------------------------------------------
\* NUMBER

LeadingZeros(s) == CHOOSE k \in 0..Len(s) : /\ \A i \in 1..k : s[i] = 0
                                            /\ k = Len(s) \/ s[k + 1] # 0

\* Without leading and trailing zeros.
Stripped(s) ==
  LET nonzero == {i \in DOMAIN s : s[i] # 0}
  IN  IF nonzero = {} THEN <<>> ELSE SubSeq(s, Min(nonzero), Max(nonzero))

\* The digits that are left, and the place of the decimal point in them.
Digits(x) == Stripped(x.int \o x.frac)
DecimalPointIndex(x) == Len(x.int) - LeadingZeros(x.int \o x.frac) + x.exp

\* Beyond these bounds encode_oracle_number gives an Err.
MAX_DIGITS == 40
InRange(x) == Len(Digits(x)) <= MAX_DIGITS /\ DecimalPointIndex(x) \in -129..126

\* decimal_point_index % 2 == 1, which no negative number satisfies.
PrependZero(point) == Rem(point, 2) = 1

\* An even number of digits, from the point in both directions.
EvenDigits(digits, prepend) ==
  LET aligned == (IF prepend THEN <<0>> ELSE <<>>) \o digits
  IN  aligned \o Zeros(Len(aligned) % 2)

EncodeOracleNumber(x) ==
  LET point == DecimalPointIndex(x)
      even == EvenDigits(Digits(x), PrependZero(point))
      exponent == (Quot(IF PrependZero(point) THEN point + 1 ELSE point, 2) + 192) % 256
      Pair(i) == even[2 * i - 1] * 10 + even[2 * i]
      pairs == [i \in 1..(Len(even) \div 2) |-> IF x.neg THEN 101 - Pair(i) ELSE Pair(i) + 1]
  IN  IF Digits(x) = <<>> THEN <<128>>
      ELSE <<IF x.neg THEN 255 - exponent ELSE exponent>> \o pairs
             \o (IF x.neg /\ Len(pairs) < 20 THEN <<102>> ELSE <<>>)

\* The first digit of a pair: leading zeros move the point instead.
FirstDigit(st, first) ==
  CASE first = 0 /\ st.digits = <<>> -> [st EXCEPT !.point = @ - 1]
    [] first = 10 -> [digits |-> st.digits \o <<1, 0>>, point |-> st.point + 1]
    [] OTHER -> [st EXCEPT !.digits = Append(@, first)]

\* One mantissa byte: two digits, without a zero at the end.
DecodePair(st, value, last) ==
  LET st1 == FirstDigit(st, value \div 10)
      second == value % 10
  IN  IF second # 0 \/ ~last THEN [st1 EXCEPT !.digits = Append(@, second)] ELSE st1

\* The digits and the point behind each mantissa byte.
PairScans(values, exponent) ==
  LET scan[i \in 0..Len(values)] ==
        IF i = 0 THEN [digits |-> <<>>, point |-> exponent * 2 + 2]
        ELSE DecodePair(scan[i - 1], values[i], i = Len(values))
  IN  scan

\* Zeros behind the point are dropped from the end.
WithoutTrailingZeros(digits, point) ==
  SubSeq(digits, 1, CHOOSE k \in 0..Len(digits) :
                      /\ \A i \in (k + 1)..Len(digits) : digits[i] = 0 /\ i > point
                      /\ k > 0 => digits[k] # 0 \/ k <= point)

\* The text of a number: its digits before and behind the point.
NumberText(negative, digits, point) ==
  [neg |-> negative,
   int |-> IF point <= 0 THEN <<0>>
           ELSE [i \in 1..point |-> IF i <= Len(digits) THEN digits[i] ELSE 0],
   frac |-> IF point <= 0 THEN Zeros(-point) \o digits ELSE SubSeq(digits, point + 1, Len(digits)),
   exp |-> 0]

DecodeOracleNumber(data) ==
  LET positive == data[1] >= 128
      exponent == (IF positive THEN data[1] ELSE 255 - data[1]) - 193
      mantissa == IF ~positive /\ data[Len(data)] = 102 THEN Len(data) - 2 ELSE Len(data) - 1
      values == [i \in 1..mantissa |-> (IF positive THEN data[i + 1] - 1 ELSE 101 - data[i + 1]) % 256]
      end == PairScans(values, exponent)[mantissa]
  IN  IF Len(data) = 1 THEN NumberText(~positive, <<>>, 1)
      ELSE NumberText(~positive, WithoutTrailingZeros(end.digits, end.point), end.point)

\* The number a text stands for.
NumberValue(x) ==
  IF Digits(x) = <<>> THEN [neg |-> FALSE, digits |-> <<>>, point |-> 0]
  ELSE [neg |-> x.neg, digits |-> Digits(x), point |-> DecimalPointIndex(x)]

(***************************************************************************)
(* A number that is bound and read back is the same number: sign, digits   *)
(* and magnitude survive the base-100 form and its complements.            *)
(***************************************************************************)
NumberReadBack(x) ==
  InRange(x) => NumberValue(DecodeOracleNumber(EncodeOracleNumber(x))) = NumberValue(x)

\* A fraction with an odd number of zeros behind the point, such as 0.05.
IsSmallFraction(x) == LET p == DecimalPointIndex(x) IN p < 0 /\ p % 2 = 1

----------------------------------------------------------------------------
\* DATE and TIMESTAMP

EncodeOracleDate(d) ==
  <<(Quot(d.year, 100) + 100) % 256, (Rem(d.year, 100) + 100) % 256, d.month, d.day,
    d.hour + 1, d.minute + 1, d.second + 1>>

\* Mutant: a time zone without a fraction follows the date directly.
HasFractionIfNotZero(ts, include_tz) == ts.microsecond > 0

HasFraction(ts, include_tz) == ts.microsecond > 0 \/ include_tz

EncodeOracleTimestamp(ts, include_tz) ==
  EncodeOracleDate(ts)
    \o (IF HasFraction(ts, include_tz) THEN Be4(ts.microsecond * 1000) ELSE <<>>)
    \o (IF include_tz THEN <<(ts.tz_hour + 20) % 256, (ts.tz_minute + 60) % 256>> ELSE <<>>)

Minus1(b) == IF b = 0 THEN 0 ELSE b - 1

DecodeOracleDate(data) ==
  [year |-> (data[1] - 100) * 100 + (data[2] - 100), month |-> data[3], day |-> data[4],
   hour |-> Minus1(data[5]), minute |-> Minus1(data[6]), second |-> Minus1(data[7])]

\* The region of a time zone (the high bit) is an Err, not modelled: offsets only.
DecodeOracleTimestamp(data) ==
  LET date == DecodeOracleDate(data)
      zoned == Len(data) >= 13 /\ data[12] # 0 /\ data[13] # 0
  IN  [year |-> date.year, month |-> date.month, day |-> date.day, hour |-> date.hour,
       minute |-> date.minute, second |-> date.second,
       microsecond |-> IF Len(data) >= 11 THEN FromBe4(SubSeq(data, 8, 11)) \div 1000 ELSE 0,
       tz_hour |-> IF zoned THEN data[12] - 20 ELSE 0,
       tz_minute |-> IF zoned THEN data[13] - 60 ELSE 0]

TimestampReadBack(ts, include_tz) ==
  DecodeOracleTimestamp(EncodeOracleTimestamp(ts, include_tz)) =
    IF include_tz THEN ts ELSE [ts EXCEPT !.tz_hour = 0, !.tz_minute = 0]

----------------------------------------------------------------------------
\* INTERVAL

\* write_excess_i32 and read_excess_i32: the offset 2^31 (DURATION_MID) only moves the
\* first byte.
WriteExcess(v) == LET b == Be4(v) IN <<(b[1] + 128) % 256, b[2], b[3], b[4]>>
ReadExcess(b) == (b[1] - 128) * 16777216 + b[2] * 65536 + b[3] * 256 + b[4]

EncodeIntervalYM(v) == WriteExcess(v.years) \o <<(v.months + 60) % 256>>
DecodeIntervalYM(b) == [years |-> ReadExcess(SubSeq(b, 1, 4)), months |-> b[5] - 60]

EncodeIntervalDS(v) ==
  WriteExcess(v.days) \o <<(v.hours + 60) % 256, (v.minutes + 60) % 256, (v.seconds + 60) % 256>>
    \o WriteExcess(v.fseconds)
DecodeIntervalDS(b) ==
  [days |-> ReadExcess(SubSeq(b, 1, 4)), hours |-> b[5] - 60, minutes |-> b[6] - 60,
   seconds |-> b[7] - 60, fseconds |-> ReadExcess(SubSeq(b, 8, 11))]

IntervalReadBack(v) ==
  IF "years" \in DOMAIN v THEN DecodeIntervalYM(EncodeIntervalYM(v)) = v
  ELSE DecodeIntervalDS(EncodeIntervalDS(v)) = v

----------------------------------------------------------------------------
\* BINARY_FLOAT and BINARY_DOUBLE: the bytes of the IEEE value, four or eight

EncodeBinary(bits) ==
  [i \in DOMAIN bits |-> CASE bits[1] >= 128 -> 255 - bits[i]
                           [] bits[1] < 128 -> IF i = 1 THEN bits[i] + 128 ELSE bits[i]]

DecodeBinary(data) ==
  [i \in DOMAIN data |-> CASE data[1] < 128 -> 255 - data[i]
                           [] data[1] >= 128 -> IF i = 1 THEN data[i] - 128 ELSE data[i]]

LexLess(a, b) == \E i \in DOMAIN a : a[i] < b[i] /\ \A j \in 1..(i - 1) : a[j] = b[j]

\* The order of the values: by sign, then by magnitude.
IeeeLess(a, b) ==
  CASE a[1] < 128 /\ b[1] < 128 -> LexLess(a, b)
    [] a[1] >= 128 /\ b[1] >= 128 -> LexLess(b, a)
    [] OTHER -> a[1] >= 128

\* The value is read back, and the encodings sort as the values do.
BinaryReadBack(a, b) ==
  DecodeBinary(EncodeBinary(a)) = a /\ (IeeeLess(a, b) <=> LexLess(EncodeBinary(a), EncodeBinary(b)))

----------------------------------------------------------------------------
\* ROWID

MAX_ROWID_LENGTH == 18

\* convert_base64 and decode_base64: three digits of six bits, or six, the highest first.
Base64Digits(value) == <<(value \div 4096) % 64, (value \div 64) % 64, value % 64>>
ConvertBase64(value, num_chars) ==
  (IF num_chars = 6 THEN Base64Digits(value \div 262144) ELSE <<>>) \o Base64Digits(value)

DigitsValue(chars, at) == chars[at] * 4096 + chars[at + 1] * 64 + chars[at + 2]
DecodeBase64(chars, at, num_chars) ==
  IF num_chars = 6 THEN DigitsValue(chars, at) * 262144 + DigitsValue(chars, at + 3)
  ELSE DigitsValue(chars, at)

\* to_string: None, here <<>>, for the ROWID of zeros only.
IsValid(r) == r.rba # 0 \/ r.partition_id # 0 \/ r.block_num # 0 \/ r.slot_num # 0

RowIdToString(r) ==
  IF ~IsValid(r) THEN <<>>
  ELSE ConvertBase64(r.rba, 6) \o ConvertBase64(r.partition_id, 3)
         \o ConvertBase64(r.block_num, 6) \o ConvertBase64(r.slot_num, 3)

ParseRowIdString(s) ==
  [rba |-> DecodeBase64(s, 1, 6), partition_id |-> DecodeBase64(s, 7, 3),
   block_num |-> DecodeBase64(s, 10, 6), slot_num |-> DecodeBase64(s, 16, 3)]

\* decode_rowid of the form with a type byte, and of the shorter one without.
DecodeRowId(data) ==
  LET at == IF data[1] = 1 /\ Len(data) >= 13 THEN 1 ELSE 0
      slot == at + 10
  IN  [rba |-> FromBe4(SubSeq(data, at + 1, at + 4)),
       partition_id |-> FromBe2(SubSeq(data, at + 5, at + 6)),
       block_num |-> FromBe4(SubSeq(data, at + 7, at + 10)),
       slot_num |-> IF Len(data) >= slot + 2 THEN FromBe2(SubSeq(data, slot + 1, slot + 2)) ELSE 0]

\* The server's bytes (external), with and without the type byte.
RowIdBytes(r, typed) ==
  (IF typed THEN <<1>> ELSE <<>>) \o Be4(r.rba) \o Be2(r.partition_id) \o Be4(r.block_num)
    \o Be2(r.slot_num)

RowIdReadBack(r, typed) ==
  LET text == RowIdToString(DecodeRowId(RowIdBytes(r, typed)))
  IN  IF IsValid(r) THEN Len(text) = MAX_ROWID_LENGTH /\ ParseRowIdString(text) = r
      ELSE text = <<>>

----------------------------------------------------------------------------
\* VECTOR: [format, sparse, dims, indices, values], a value being its bytes

ElementSize == [float32 |-> 4, float64 |-> 8, int8 |-> 1, binary |-> 1]
FormatOnWire == [float32 |-> 2, float64 |-> 3, int8 |-> 4, binary |-> 5]
Format(byte) == CHOOSE f \in DOMAIN FormatOnWire : FormatOnWire[f] = byte

EncodeElement(format, bytes) ==
  IF format \in {"float32", "float64"} THEN EncodeBinary(bytes) ELSE bytes
DecodeElement(format, bytes) ==
  IF format \in {"float32", "float64"} THEN DecodeBinary(bytes) ELSE bytes

VECTOR_FLAG_NORM == 2
VECTOR_FLAG_NORM_RESERVED == 16
VECTOR_FLAG_SPARSE == 32

EncodeVector(v) ==
  LET version == CASE v.sparse -> 2 [] ~v.sparse /\ v.format = "binary" -> 1 [] OTHER -> 0
      flags == VECTOR_FLAG_NORM_RESERVED
                 + (IF v.sparse THEN VECTOR_FLAG_SPARSE ELSE 0)
                 + (IF v.sparse \/ v.format # "binary" THEN VECTOR_FLAG_NORM ELSE 0)
      num_elements == IF v.sparse THEN v.dims
                      ELSE Len(v.values) * (IF v.format = "binary" THEN 8 ELSE 1)
  IN  <<219, version>> \o Be2(flags) \o <<FormatOnWire[v.format]>> \o Be4(num_elements)
        \o Zeros(8)
        \o (IF v.sparse THEN Be2(Len(v.indices)) \o FlattenSeq([i \in DOMAIN v.indices |-> Be4(v.indices[i])])
            ELSE <<>>)
        \o FlattenSeq([i \in DOMAIN v.values |-> EncodeElement(v.format, v.values[i])])

HasFlag(flags, bit) == (flags \div bit) % 2 = 1

DecodeVector(data) ==
  LET flags == FromBe2(SubSeq(data, 3, 4))
      format == Format(data[5])
      num_elements == FromBe4(SubSeq(data, 6, 9))
      at == IF HasFlag(flags, VECTOR_FLAG_NORM_RESERVED) \/ HasFlag(flags, VECTOR_FLAG_NORM)
            THEN 17 ELSE 9
      sparse == HasFlag(flags, VECTOR_FLAG_SPARSE)
      num_sparse == FromBe2(SubSeq(data, at + 1, at + 2))
      first == IF sparse THEN at + 2 + 4 * num_sparse ELSE at
      n == IF sparse THEN num_sparse ELSE num_elements
      count == IF format = "binary" THEN n \div 8 ELSE n
      size == ElementSize[format]
      Element(i) == SubSeq(data, first + (i - 1) * size + 1, first + i * size)
  IN  [format |-> format, sparse |-> sparse, dims |-> IF sparse THEN num_elements ELSE count,
       indices |-> IF sparse THEN [i \in 1..num_sparse |->
                                     FromBe4(SubSeq(data, at + 4 * i - 1, at + 4 * i + 2))]
                   ELSE <<>>,
       values |-> [i \in 1..count |-> DecodeElement(format, Element(i))]]

VectorReadBack(v) == DecodeVector(EncodeVector(v)) = v
=============================================================================
