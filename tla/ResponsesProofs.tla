-------------------------- MODULE ResponsesProofs --------------------------
(***************************************************************************)
(* Proofs about Responses, for results of any number of rows and columns   *)
(* with any values, any division into fetches, any number of binds and     *)
(* batch rows, and every order of messages of the server's model; and      *)
(* about ScrollableCursor, for a result of any length, any offsets and a   *)
(* cursor that ran any distance past either end.                           *)
(***************************************************************************)
EXTENDS Responses, ScrollableCursor, FiniteSetTheorems, FunctionTheorems, SequenceTheorems, TLAPS

----------------------------------------------------------------------------
\* The inductive invariant

Kinds == {"query", "fetch", "plsql", "dml", "batch"}

ReplyStates ==
  [stage : {"start", "rows", "outs", "end"}, sent : Nat, first : Nat, bv : SUBSET Cols,
   extras : SUBSET {"flush", "parameter", "odd", "piggyback", "status"}, outs : SUBSET Params,
   implicit : Nat, affected : Nat, failed : SUBSET (1..BatchSize),
   code : {0, NO_DATA_FOUND, OTHER_ERROR}]

\* parse is a record with the fields of Parser.
ParserShape ==
  parse = [kind |-> parse.kind, described |-> parse.described, rows |-> parse.rows,
           from |-> parse.from, bit_vector |-> parse.bit_vector, prev |-> parse.prev,
           more |-> parse.more, skipping |-> parse.skipping, out_columns |-> parse.out_columns,
           out_values |-> parse.out_values, implicit |-> parse.implicit,
           affected |-> parse.affected, errors |-> parse.errors,
           row_counts |-> parse.row_counts, outcome |-> parse.outcome]

Typed == call \in Calls /\ reply \in ReplyStates /\ ParserShape

\* The parser at work is one of the call's; other calls have no rows.
KindInv ==
  IF call.kind = "query" THEN parse.kind \in {"query", "fetch"}
  ELSE parse.kind = call.kind /\ parse.rows = <<>> /\ reply.sent = 0

(***************************************************************************)
(* Behind every message of a query the rows are a prefix of the result,    *)
(* the row before is the last one of this response, and the bit vector is  *)
(* the one of the columns that the server is about to leave out.           *)
(***************************************************************************)
RowsInv ==
  call.kind = "query" =>
    /\ reply.sent \in 0..Len(call.table) /\ reply.first \in 0..reply.sent
    /\ parse.rows = SubSeq(call.table, 1, reply.sent) /\ parse.from = reply.first
    /\ parse.kind = "query" => reply.first = 0
    /\ InResponse > 0 => parse.prev = call.table[reply.sent]
    /\ reply.bv = {} => parse.bit_vector \in {Absent, BitVectorOf({})}
    /\ reply.bv # {} => /\ MoreToSend /\ reply.bv = Repeated
                        /\ parse.bit_vector = BitVectorOf(reply.bv)
    /\ parse.outcome = "ok" => reply.sent = Len(call.table)
    /\ parse.outcome = "fetch" => ~MoreToSend

\* The parser ends with the Error message, and reads on behind it for DML and batches only.
StageInv ==
  /\ parse.outcome \in {"parsing", "fetch", "ok", "err"}
  /\ parse.outcome # "parsing" => reply.stage = "end"
  /\ parse.outcome = "parsing" /\ reply.stage = "end" => parse.kind \in {"dml", "batch"}
  /\ reply.stage # "end" => parse.errors = <<>>
  /\ parse.outcome = "fetch" => parse.kind \in {"query", "fetch"}

\* What the parser has concluded when the Error message is read.
AnswerInv ==
  /\ reply.stage = "end" =>
       /\ parse.outcome = "err" <=> (ServerFails /\ parse.errors = <<>>)
       /\ parse.kind = "batch" => /\ parse.errors = BatchErrorsOf(reply.failed)
                                  /\ parse.affected = reply.affected
  /\ parse.row_counts # Absent => call.kind = "batch" /\ call.row_counts

\* The values of the OUT binds, from their row on.
OutInv ==
  call.kind = "plsql" /\ reply.outs # {} /\ (reply.stage = "outs" \/ parse.outcome = "ok")
    => parse.out_values = [k \in 1..Cardinality(reply.outs) |-> Nth(reply.outs, k)]

RespInv == Typed /\ KindInv /\ RowsInv /\ StageInv /\ OutInv

----------------------------------------------------------------------------
\* Ranks in finite sets of numbers, bit vectors and rows

Rank(S, a) == Cardinality({y \in S : y <= a})

LEMMA RankInjective ==
  ASSUME NEW S, S \subseteq Int, IsFiniteSet(S), NEW a \in S
  PROVE  /\ Rank(S, a) \in 1..Cardinality(S)
         /\ \A b \in S : Rank(S, b) = Rank(S, a) => b = a
<1> DEFINE Upto(b) == {y \in S : y <= b}
<1>1. \A b \in S : Upto(b) \in SUBSET S /\ IsFiniteSet(Upto(b)) /\ b \in Upto(b)
  <2>1. \A b : Upto(b) \in SUBSET S
    OBVIOUS
  <2>2. \A b : IsFiniteSet(Upto(b))
    BY <2>1, FS_Subset
  <2> QED BY <2>1, <2>2
<1>2. Cardinality(Upto(a)) \in Nat /\ Cardinality(Upto(a)) <= Cardinality(S)
  BY <1>1, FS_Subset, FS_CardinalityType
<1>3. Cardinality(Upto(a)) # 0
  BY <1>1, FS_EmptySet
<1>4. Cardinality(S) \in Nat
  BY FS_CardinalityType
<1>5. ASSUME NEW b \in S, NEW c \in S, b < c PROVE Cardinality(Upto(b)) # Cardinality(Upto(c))
  <2>1. b \in Int /\ c \in Int /\ ~(c <= b)
    BY <1>5
  <2>2. c \notin Upto(b)
    BY <2>1
  <2>3. \A y \in S : y <= b => y <= c
    BY <1>5
  <2>4. Upto(b) \in SUBSET Upto(c)
    BY <2>3
  <2>5. IsFiniteSet(Upto(c)) /\ c \in Upto(c)
    BY <1>1
  <2> HIDE DEF Upto
  <2> QED BY <2>2, <2>4, <2>5, FS_Subset
<1>6. ASSUME NEW b \in S, Cardinality(Upto(b)) = Cardinality(Upto(a)) PROVE b = a
  <2> HIDE DEF Upto
  <2> QED BY <1>5, <1>6
<1> QED BY <1>2, <1>3, <1>4, <1>6 DEF Rank

LEMMA NthOfRank ==
  ASSUME NEW S, S \subseteq Int, IsFiniteSet(S), NEW a \in S
  PROVE  Nth(S, Rank(S, a)) = a
<1>1. \E x \in S : Rank(S, x) = Rank(S, a)
  OBVIOUS
<1>2. \A x \in S : Rank(S, x) = Rank(S, a) => x = a
  BY RankInjective
<1>3. Nth(S, Rank(S, a)) = CHOOSE x \in S : Rank(S, x) = Rank(S, a)
  BY DEF Nth, Rank
<1> QED BY <1>1, <1>2, <1>3

LEMMA NthInSet ==
  ASSUME NEW S, S \subseteq Int, IsFiniteSet(S), NEW k \in 1..Cardinality(S)
  PROVE  Nth(S, k) \in S /\ Rank(S, Nth(S, k)) = k
<1> DEFINE f == [a \in S |-> Rank(S, a)]
<1>1. f \in [S -> 1..Cardinality(S)] /\ \A a, b \in S : f[a] = f[b] => a = b
  BY RankInjective
<1>2. f \in Injection(S, 1..Cardinality(S))
  <2> HIDE DEF f
  <2> QED BY <1>1, Fun_IsInj
<1>3. Cardinality(S) \in Nat
  BY FS_CardinalityType
<1>4. IsFiniteSet(1..Cardinality(S)) /\ Cardinality(1..Cardinality(S)) = Cardinality(S)
  BY <1>3, FS_Interval
<1>5. f \in Surjection(S, 1..Cardinality(S))
  BY <1>2, <1>4, FS_Injection
<1>6. PICK a \in S : f[a] = k
  BY <1>5 DEF Surjection
<1>7. Rank(S, a) = k
  BY <1>6
<1> QED BY <1>7, NthOfRank

LEMMA BitVectorExact ==
  ASSUME NEW left_out, NEW c \in Cols
  PROVE  /\ Len(BitVectorOf(left_out)) = NumBytes(NumCols)
         /\ IsDuplicate(BitVectorOf(left_out), c - 1) <=> c \in left_out
<1> DEFINE n == (NumCols + 7) \div 8
           bv == BitVectorOf(left_out)
           b == (c - 1) \div 8
           i == (c - 1) % 8
<1>1. NumCols \in Nat \ {0} /\ c \in Nat \ {0} /\ c <= NumCols
  BY ResponseConstants DEF Cols
<1>2. n \in Nat /\ b \in Nat /\ b < n /\ i \in 0..7 /\ b * 8 + i + 1 = c
  BY <1>1
<1>3. bv \in Seq(SUBSET (0..7)) /\ Len(bv) = n
  BY <1>2 DEF BitVectorOf
<1>4. bv # Absent
  BY <1>3, ResponseConstants
<1>5. bv[b + 1] = {j \in 0..7 : (b + 1 - 1) * 8 + j + 1 \in Cols \ left_out}
  BY <1>2 DEF BitVectorOf
<1>6. i \notin bv[b + 1] <=> c \in left_out
  BY <1>2, <1>5
<1> HIDE DEF bv, b, i
<1> QED BY <1>2, <1>3, <1>4, <1>6 DEF IsDuplicate, NumBytes, bv, b, i

LEMMA CallTyped ==
  ASSUME call \in Calls
  PROVE  /\ call.kind = "query" => call.table \in Seq([Cols -> CellValues])
         /\ call.kind = "batch" => call.batch_errors \in BOOLEAN /\ call.row_counts \in BOOLEAN
         /\ call.kind \in {"query", "plsql", "dml", "batch"}
BY ResponseConstants DEF Calls

LEMMA RowExact ==
  ASSUME call.table \in Seq([Cols -> CellValues]), reply.sent \in 0..(Len(call.table) - 1),
         NEW left_out \in SUBSET Cols, NEW bit_vector, NEW prev,
         \/ left_out = {} /\ bit_vector = Absent
         \/ /\ bit_vector = BitVectorOf(left_out)
            /\ \A c \in left_out :
                 /\ reply.sent > 0 /\ prev = call.table[reply.sent]
                 /\ call.table[reply.sent + 1][c] = call.table[reply.sent][c]
  PROVE  RowOf(Wire(left_out), bit_vector, prev) = call.table[reply.sent + 1]
<1> DEFINE row == call.table[reply.sent + 1]
           wire == Wire(left_out)
           sent == Cols \ left_out
<1>1. row \in [Cols -> CellValues] /\ reply.sent \in Nat
      /\ reply.sent > 0 => call.table[reply.sent] \in [Cols -> CellValues]
  OBVIOUS
<1>2. NumCols \in Nat /\ Cols \subseteq Int /\ IsFiniteSet(Cols)
  <2>1. NumCols \in Int /\ 1 \in Int /\ NumCols \in Nat
    BY ResponseConstants
  <2>2. IsFiniteSet(1..NumCols)
    BY <2>1, FS_Interval
  <2> QED BY <2>1, <2>2 DEF Cols
<1>3. sent \subseteq Int /\ IsFiniteSet(sent)
  BY <1>2, FS_Subset
<1>4. ASSUME NEW c \in Cols PROVE IsDuplicate(bit_vector, c - 1) <=> c \in left_out
  <2>1. CASE bit_vector = Absent /\ left_out = {}
    BY <2>1 DEF IsDuplicate
  <2>2. CASE bit_vector = BitVectorOf(left_out)
    BY <2>2, BitVectorExact
  <2> QED BY <2>1, <2>2
<1>5. ASSUME NEW c \in sent
      PROVE  ColumnValue(wire, Cardinality({d \in 1..c : ~IsDuplicate(bit_vector, d - 1)})) = row[c]
  <2>1. c \in Cols /\ c \in Nat /\ 1..c \subseteq Cols
    BY <1>2 DEF Cols
  <2>2. {d \in 1..c : ~IsDuplicate(bit_vector, d - 1)} = {d \in sent : d <= c}
    <3>1. \A d \in 1..c : d \in Cols /\ (~IsDuplicate(bit_vector, d - 1) <=> d \in sent)
      BY <1>4, <2>1
    <3>2. \A d \in sent : d <= c => d \in 1..c
      BY <2>1 DEF Cols
    <3>3. \A d \in 1..c : d <= c
      BY <2>1
    <3> HIDE DEF sent
    <3> QED BY <3>1, <3>2, <3>3
  <2>3. Rank(sent, c) \in 1..Cardinality(sent) /\ Nth(sent, Rank(sent, c)) = c
    BY <1>3, RankInjective, NthOfRank
  <2>4. wire = [k \in 1..Cardinality(sent) |-> row[Nth(sent, k)]]
    BY DEF Wire
  <2>5. Rank(sent, c) \in DOMAIN wire /\ wire[Rank(sent, c)] = row[c]
    BY <2>3, <2>4
  <2> HIDE DEF wire, sent
  <2> QED BY <2>2, <2>5 DEF ColumnValue, Rank
<1>6. ASSUME NEW c \in left_out PROVE prev # Absent /\ prev[c] = row[c]
  BY <1>1, <1>6, ResponseConstants
<1>7. RowOf(wire, bit_vector, prev) = [c \in Cols |-> row[c]]
  <2> HIDE DEF wire, row
  <2>1. ASSUME NEW c \in Cols
        PROVE  (IF IsDuplicate(bit_vector, c - 1)
                THEN IF prev = Absent THEN Absent ELSE prev[c]
                ELSE ColumnValue(wire,
                       Cardinality({d \in 1..c : ~IsDuplicate(bit_vector, d - 1)}))) = row[c]
    BY <1>4, <1>5, <1>6
  <2> QED BY <2>1 DEF RowOf
<1> QED BY <1>1, <1>7

LEMMA BatchErrorsExact ==
  ASSUME NEW failed \in SUBSET (1..BatchSize)
  PROVE  /\ {BatchErrorsOf(failed)[k].row_index : k \in DOMAIN BatchErrorsOf(failed)} = failed
         /\ Len(BatchErrorsOf(failed)) = Cardinality(failed)
         /\ BatchErrorsOf(failed) = <<>> <=> failed = {}
<1>1. /\ failed \subseteq Int /\ IsFiniteSet(failed)
      /\ Cardinality(failed) \in Nat /\ (Cardinality(failed) = 0 <=> failed = {})
  <2>1. BatchSize \in Int /\ 1 \in Int
    BY ResponseConstants
  <2>2. IsFiniteSet(1..BatchSize)
    BY <2>1, FS_Interval
  <2>3. IsFiniteSet(failed)
    BY <2>2, FS_Subset
  <2>4. failed \subseteq Int
    BY <2>1
  <2>5. Cardinality(failed) \in Nat /\ (Cardinality(failed) = 0 <=> failed = {})
    BY <2>3, FS_CardinalityType, FS_EmptySet
  <2> QED BY <2>3, <2>4, <2>5
<1> DEFINE n == Cardinality(failed)
           errors == BatchErrorsOf(failed)
<1>2. \A k \in 1..n : Nth(failed, k) \in failed
  BY <1>1, NthInSet
<1>3. \A a \in failed : \E k \in 1..n : Nth(failed, k) = a
  BY <1>1, RankInjective, NthOfRank
<1>4. errors \in Seq([row_index : failed, code : {OTHER_ERROR}]) /\ Len(errors) = n
  <2>1. \A k \in 1..n : [row_index |-> Nth(failed, k), code |-> OTHER_ERROR]
                           \in [row_index : failed, code : {OTHER_ERROR}]
    BY <1>2
  <2>2. errors = [k \in 1..n |-> [row_index |-> Nth(failed, k), code |-> OTHER_ERROR]]
    BY DEF BatchErrorsOf
  <2>3. n \in Nat
    BY <1>1
  <2> HIDE DEF errors, n
  <2>4. errors \in [1..n -> [row_index : failed, code : {OTHER_ERROR}]]
    BY <2>1, <2>2
  <2>5. \A S : \A f \in [1..n -> S] : f \in Seq(S) /\ Len(f) = n
    BY <2>3
  <2> QED BY <2>4, <2>5
<1>5. DOMAIN errors = 1..n /\ \A k \in 1..n : errors[k].row_index = Nth(failed, k)
  BY DEF BatchErrorsOf
<1>6. {errors[k].row_index : k \in DOMAIN errors} = failed
  <2> HIDE DEF errors, n
  <2> QED BY <1>2, <1>3, <1>5
<1>7. errors = <<>> <=> n = 0
  <2> HIDE DEF errors, n
  <2> QED BY <1>1, <1>4, EmptySeq
<1> QED BY <1>1, <1>4, <1>6, <1>7
----------------------------------------------------------------------------
\* The steps

LEMMA RespInvInit == RespInit => RespInv /\ AnswerInv
<1> SUFFICES ASSUME RespInit PROVE RespInv /\ AnswerInv
  OBVIOUS
<1>1. /\ call \in Calls /\ reply = NewReply
      /\ parse = Parser(call.kind, call.kind = "query" /\ call.known, <<>>)
  BY DEF RespInit
<1>2. call.kind \in {"query", "plsql", "dml", "batch"}
  BY <1>1, CallTyped
<1>3. /\ parse.kind = call.kind /\ parse.rows = <<>> /\ parse.from = 0 /\ parse.errors = <<>>
      /\ parse.bit_vector = Absent /\ parse.outcome = "parsing" /\ parse.row_counts = Absent
      /\ ParserShape
  BY <1>1 DEF Parser, ParserShape
<1>4. /\ reply \in ReplyStates /\ reply.stage = "start" /\ reply.sent = 0 /\ reply.first = 0
      /\ reply.bv = {} /\ reply.outs = {}
  BY <1>1 DEF NewReply, ReplyStates
<1>5. RowsInv
  <2> SUFFICES ASSUME call.kind = "query" PROVE RowsInv
    BY DEF RowsInv
  <2>1. call.table \in Seq([Cols -> CellValues])
    BY <1>1, CallTyped
  <2>2. SubSeq(call.table, 1, 0) = <<>> /\ Len(call.table) \in Nat
    BY <2>1, SubSeqEmpty
  <2> QED BY <1>3, <1>4, <2>2 DEF RowsInv, InResponse
<1> QED BY <1>1, <1>2, <1>3, <1>4, <1>5 DEF RespInv, Typed, KindInv, StageInv, AnswerInv, OutInv

\* What steps that bring no rows leave alone.
RowsUnchanged ==
  /\ reply'.sent = reply.sent /\ reply'.first = reply.first /\ reply'.bv = reply.bv
  /\ parse'.rows = parse.rows /\ parse'.from = parse.from /\ parse'.kind = parse.kind
  /\ parse'.prev = parse.prev /\ parse'.bit_vector = parse.bit_vector
  /\ call' = call

LEMMA RowsKept ==
  ASSUME RowsInv, KindInv, RowsUnchanged,
         parse'.outcome = parse.outcome \/ parse'.outcome \in {"parsing", "err"}
  PROVE  RowsInv' /\ KindInv'
BY DEF RowsInv, KindInv, RowsUnchanged, InResponse, MoreToSend, Repeated

\* A message in front of the completion that changes neither rows nor OUT binds.
LEMMA Passing ==
  ASSUME RespInv, parse.outcome = "parsing", reply.stage # "end", RowsUnchanged,
         reply' \in ReplyStates, ParserShape',
         reply'.stage \in {"rows", reply.stage}, reply'.outs = reply.outs,
         reply'.stage = reply.stage \/ reply.stage = "start",
         parse'.outcome = "parsing", parse'.errors = parse.errors,
         parse'.out_values = parse.out_values
  PROVE  RespInv'
<1>1. RowsInv' /\ KindInv'
  BY RowsKept DEF RespInv
<1>2. Typed'
  BY DEF RespInv, Typed, RowsUnchanged
<1>3. StageInv'
  BY DEF RespInv, StageInv, RowsUnchanged
<1>4. OutInv'
  BY DEF RespInv, OutInv, RowsUnchanged
<1> QED BY <1>1, <1>2, <1>3, <1>4 DEF RespInv

LEMMA PassingSteps ==
  ASSUME RespInv,
         \/ DescribeInfo \/ RowHeader \/ FlushOutBinds
         \/ \E n \in 1..2 : ImplicitResultset(n)
         \/ \E odd \in BOOLEAN : ReturnParameters(odd)
         \/ \E m \in {"piggyback", "status"} : ServerSidePiggyback(m)
  PROVE  RespInv'
<1>1. reply \in ReplyStates /\ ParserShape
  BY DEF RespInv, Typed
<1>2. CASE DescribeInfo
  <2>1. ParserShape' /\ parse'.errors = parse.errors /\ parse'.out_values = parse.out_values
    BY <1>1, <1>2 DEF DescribeInfo, ParserShape
  <2>2. RowsUnchanged /\ parse'.outcome = "parsing"
    BY <1>1, <1>2 DEF DescribeInfo, ParserShape, RowsUnchanged, Parsing
  <2> QED BY <1>1, <1>2, <2>1, <2>2, Passing DEF DescribeInfo, Parsing
<1>3. CASE RowHeader
  <2>1. ParserShape' /\ parse' = parse /\ reply' \in ReplyStates
    BY <1>1, <1>3 DEF RowHeader, ParserShape, ReplyStates
  <2>2. RowsUnchanged /\ reply'.stage = "rows" /\ reply'.outs = reply.outs
    BY <1>1, <1>3 DEF RowHeader, RowsUnchanged, ReplyStates
  <2> QED BY <1>3, <2>1, <2>2, Passing DEF RowHeader, Parsing
<1>4. CASE FlushOutBinds
  <2>1. ParserShape' /\ parse' = parse /\ reply' \in ReplyStates
    BY <1>1, <1>4 DEF FlushOutBinds, ParserShape, ReplyStates
  <2>2. RowsUnchanged /\ reply'.stage = reply.stage /\ reply'.outs = reply.outs
    BY <1>1, <1>4 DEF FlushOutBinds, RowsUnchanged, ReplyStates
  <2> QED BY <1>4, <2>1, <2>2, Passing DEF FlushOutBinds, Parsing
<1>5. ASSUME NEW n \in 1..2, ImplicitResultset(n) PROVE RespInv'
  <2>1. ParserShape' /\ parse'.errors = parse.errors /\ parse'.out_values = parse.out_values
    BY <1>1, <1>5 DEF ImplicitResultset, ParserShape
  <2>2. reply' \in ReplyStates /\ reply'.stage = reply.stage /\ reply'.outs = reply.outs
    BY <1>1, <1>5 DEF ImplicitResultset, ReplyStates
  <2>3. RowsUnchanged /\ parse'.outcome = "parsing"
    BY <1>1, <1>5 DEF ImplicitResultset, ParserShape, ReplyStates, RowsUnchanged, Parsing
  <2> QED BY <1>5, <2>1, <2>2, <2>3, Passing DEF ImplicitResultset, Parsing
<1>6. ASSUME NEW odd \in BOOLEAN, ReturnParameters(odd) PROVE RespInv'
  <2>1. ParserShape' /\ parse'.errors = parse.errors /\ parse'.out_values = parse.out_values
    BY <1>1, <1>6 DEF ReturnParameters, ParserShape
  <2>2. reply' \in ReplyStates /\ reply'.stage = reply.stage /\ reply'.outs = reply.outs
    BY <1>1, <1>6 DEF ReturnParameters, ReplyStates
  <2>3. RowsUnchanged /\ parse'.outcome = "parsing"
    BY <1>1, <1>6 DEF ReturnParameters, ParserShape, ReplyStates, RowsUnchanged, Parsing
  <2> QED BY <1>6, <2>1, <2>2, <2>3, Passing DEF ReturnParameters, Parsing
<1>7. ASSUME NEW m \in {"piggyback", "status"}, ServerSidePiggyback(m) PROVE RespInv'
  <2>1. ParserShape' /\ parse' = parse /\ reply' \in ReplyStates
    BY <1>1, <1>7 DEF ServerSidePiggyback, ParserShape, ReplyStates
  <2>2. RowsUnchanged /\ reply'.stage = reply.stage /\ reply'.outs = reply.outs
    BY <1>1, <1>7 DEF ServerSidePiggyback, RowsUnchanged, ReplyStates
  <2> QED BY <1>7, <2>1, <2>2, Passing DEF ServerSidePiggyback, Parsing
<1> QED BY <1>2, <1>3, <1>4, <1>5, <1>6, <1>7

(***************************************************************************)
(* A bit vector is kept as the server sent it: its bytes are all taken.    *)
(***************************************************************************)
LEMMA BitVectorStep == ASSUME RespInv, BitVector PROVE RespInv'
<1>1. /\ call.kind = "query" /\ reply.stage = "rows" /\ MoreToSend /\ Repeated # {}
      /\ reply.bv = {} /\ reply \in ReplyStates /\ ParserShape /\ parse.outcome = "parsing"
  BY CallTyped DEF RespInv, Typed, KindInv, BitVector, Parsing
<1>2. reply' = [reply EXCEPT !.bv = Repeated] /\ call' = call
  BY DEF BitVector
<1>3. parse' = [parse EXCEPT !.bit_vector = BitVectorOf(Repeated)]
  <2> DEFINE bv == BitVectorOf(Repeated)
             n == (NumCols + 7) \div 8
  <2>1. n \in Nat
    BY ResponseConstants
  <2>2. bv \in Seq(SUBSET (0..7)) /\ Len(bv) = n
    BY <2>1 DEF BitVectorOf
  <2>3. SubSeq(bv, 1, NumBytes(NumCols)) = bv
    <3> HIDE DEF bv
    <3> QED BY <2>2, SubSeqFull DEF NumBytes
  <2> QED BY <2>3 DEF BitVector
<1>4. /\ reply'.sent = reply.sent /\ reply'.first = reply.first /\ reply'.bv = Repeated
      /\ reply'.stage = reply.stage /\ reply'.outs = reply.outs
  BY <1>1, <1>2 DEF ReplyStates
<1>5. /\ parse'.rows = parse.rows /\ parse'.from = parse.from /\ parse'.kind = parse.kind
      /\ parse'.prev = parse.prev /\ parse'.bit_vector = BitVectorOf(Repeated)
      /\ parse'.outcome = "parsing" /\ parse'.errors = parse.errors
      /\ parse'.out_values = parse.out_values /\ ParserShape'
  BY <1>1, <1>3 DEF ParserShape
<1>6. Typed'
  <2>1. Repeated \in SUBSET Cols
    BY DEF Repeated
  <2>2. reply' \in ReplyStates
    BY <1>1, <1>2, <2>1 DEF ReplyStates
  <2> QED BY <1>2, <1>5, <2>2 DEF RespInv, Typed
<1>7. MoreToSend' = MoreToSend /\ Repeated' = Repeated /\ InResponse' = InResponse
      /\ BitVectorOf(reply.bv)' = BitVectorOf(Repeated)
  BY <1>2, <1>4 DEF MoreToSend, Repeated, InResponse, BitVectorOf
<1>8. RowsInv'
  BY <1>1, <1>2, <1>4, <1>5, <1>7 DEF RespInv, RowsInv
<1>9. KindInv' /\ StageInv' /\ OutInv'
  BY <1>1, <1>2, <1>4, <1>5 DEF RespInv, KindInv, StageInv, OutInv
<1> QED BY <1>6, <1>8, <1>9 DEF RespInv
\* So is that of a row header, which may leave no column out.
LEMMA RowHeaderStep == ASSUME RespInv, RowHeaderWithBitVector PROVE RespInv'
<1>1. /\ call.kind = "query" /\ reply.stage \in {"start", "rows"} /\ MoreToSend
      /\ reply.bv = {} /\ reply \in ReplyStates /\ ParserShape /\ parse.outcome = "parsing"
  BY CallTyped DEF RespInv, Typed, KindInv, RowHeaderWithBitVector, Parsing
<1>2. reply' = [reply EXCEPT !.stage = "rows", !.bv = Repeated] /\ call' = call
  BY DEF RowHeaderWithBitVector
<1>3. parse' = [parse EXCEPT !.bit_vector = BitVectorOf(Repeated)]
  BY DEF RowHeaderWithBitVector
<1>4. /\ reply'.sent = reply.sent /\ reply'.first = reply.first /\ reply'.bv = Repeated
      /\ reply'.stage = "rows" /\ reply'.outs = reply.outs
  BY <1>1, <1>2 DEF ReplyStates
<1>5. /\ parse'.rows = parse.rows /\ parse'.from = parse.from /\ parse'.kind = parse.kind
      /\ parse'.prev = parse.prev /\ parse'.bit_vector = BitVectorOf(Repeated)
      /\ parse'.outcome = "parsing" /\ parse'.errors = parse.errors
      /\ parse'.out_values = parse.out_values /\ ParserShape'
  BY <1>1, <1>3 DEF ParserShape
<1>6. Typed'
  <2>1. Repeated \in SUBSET Cols
    BY DEF Repeated
  <2>2. reply' \in ReplyStates
    BY <1>1, <1>2, <2>1 DEF ReplyStates
  <2> QED BY <1>2, <1>5, <2>2 DEF RespInv, Typed
<1>7. /\ MoreToSend' = MoreToSend /\ Repeated' = Repeated /\ InResponse' = InResponse
      /\ BitVectorOf(reply.bv)' = BitVectorOf(Repeated)
      /\ Repeated = {} => BitVectorOf({})' = BitVectorOf(Repeated)
  BY <1>2, <1>4 DEF MoreToSend, Repeated, InResponse, BitVectorOf
<1>8. RowsInv'
  BY <1>1, <1>2, <1>4, <1>5, <1>7 DEF RespInv, RowsInv
<1>9. KindInv'
  BY <1>1, <1>2, <1>4, <1>5 DEF RespInv, KindInv
<1>10. StageInv'
  BY <1>1, <1>2, <1>4, <1>5 DEF RespInv, StageInv
<1>11. OutInv'
  BY <1>1, <1>2 DEF OutInv
<1> QED BY <1>6, <1>8, <1>9, <1>10, <1>11 DEF RespInv

(***************************************************************************)
(* The row that is read is the next one of the result, whatever columns    *)
(* were left out of it.                                                    *)
(***************************************************************************)
LEMMA RowStep == ASSUME RespInv, RowData PROVE RespInv'
<1> DEFINE row == RowOf(Wire(reply.bv), parse.bit_vector, parse.prev)
           t == call.table
           n == reply.sent
<1>1. /\ call.kind = "query" /\ reply.stage = "rows" /\ MoreToSend /\ call' = call
      /\ reply \in ReplyStates /\ ParserShape /\ parse.outcome = "parsing"
  BY CallTyped DEF RespInv, Typed, KindInv, RowData, Parsing
<1>2. t \in Seq([Cols -> CellValues]) /\ n \in 0..(Len(t) - 1) /\ Len(t) \in Nat
  <2>1. t \in Seq([Cols -> CellValues])
    BY <1>1, CallTyped DEF RespInv, Typed
  <2>2. n \in 0..Len(t) /\ n < Len(t) /\ Len(t) \in Nat
    BY <1>1, <2>1 DEF RespInv, RowsInv, MoreToSend
  <2> QED BY <2>1, <2>2
<1>3. row = t[n + 1]
  <2>1. CASE reply.bv = {}
    <3>1. parse.bit_vector \in {Absent, BitVectorOf({})} /\ {} \in SUBSET Cols
      BY <1>1, <2>1 DEF RespInv, RowsInv
    <3> QED BY <1>2, <2>1, <3>1, RowExact
  <2>2. CASE reply.bv # {}
    <3>1. reply.bv = Repeated /\ parse.bit_vector = BitVectorOf(reply.bv)
          /\ reply.first \in 0..n /\ (InResponse > 0 => parse.prev = t[n])
      BY <1>1, <2>2 DEF RespInv, RowsInv
    <3>2. InResponse > 0 /\ n > 0
      BY <1>2, <2>2, <3>1 DEF Repeated, InResponse
    <3>3. \A c \in reply.bv : t[n + 1][c] = t[n][c]
      BY <3>1 DEF Repeated
    <3>4. reply.bv \in SUBSET Cols
      BY <1>1 DEF ReplyStates
    <3> QED BY <1>2, <3>1, <3>2, <3>3, <3>4, RowExact
  <2> QED BY <2>1, <2>2
<1>4. parse' = [parse EXCEPT !.rows = Append(parse.rows, t[n + 1]), !.prev = t[n + 1],
                             !.bit_vector = Absent]
  BY <1>3 DEF RowData
<1>5. /\ parse'.rows = Append(parse.rows, t[n + 1]) /\ parse'.prev = t[n + 1]
      /\ parse'.bit_vector = Absent /\ parse'.from = parse.from /\ parse'.kind = parse.kind
      /\ parse'.outcome = "parsing" /\ parse'.errors = parse.errors
      /\ parse'.out_values = parse.out_values /\ ParserShape'
  BY <1>1, <1>4 DEF ParserShape
<1>6. /\ reply' \in ReplyStates /\ reply'.sent = n + 1 /\ reply'.first = reply.first
      /\ reply'.bv = {} /\ reply'.stage = reply.stage /\ reply'.outs = reply.outs
  <2>1. reply' = [reply EXCEPT !.sent = n + 1, !.bv = {}]
    BY DEF RowData
  <2>2. {} \in SUBSET Cols /\ n + 1 \in Nat
    BY <1>2
  <2> HIDE DEF n
  <2> QED BY <1>1, <2>1, <2>2 DEF ReplyStates
<1>7. Append(SubSeq(t, 1, n), t[n + 1]) = SubSeq(t, 1, n + 1)
  <2>1. t[n + 1] \in [Cols -> CellValues]
    BY <1>2
  <2> HIDE DEF t, n
  <2>2. /\ SubSeq(t, 1, n) \in Seq([Cols -> CellValues]) /\ Len(SubSeq(t, 1, n)) = n
        /\ \A i \in 1..n : SubSeq(t, 1, n)[i] = t[i]
    BY <1>2
  <2>3. /\ SubSeq(t, 1, n + 1) \in Seq([Cols -> CellValues]) /\ Len(SubSeq(t, 1, n + 1)) = n + 1
        /\ \A i \in 1..(n + 1) : SubSeq(t, 1, n + 1)[i] = t[i]
    BY <1>2
  <2>4. /\ Append(SubSeq(t, 1, n), t[n + 1]) \in Seq([Cols -> CellValues])
        /\ Len(Append(SubSeq(t, 1, n), t[n + 1])) = n + 1
        /\ \A i \in 1..n : Append(SubSeq(t, 1, n), t[n + 1])[i] = t[i]
        /\ Append(SubSeq(t, 1, n), t[n + 1])[n + 1] = t[n + 1]
    BY <1>2, <2>1, <2>2, AppendProperties
  <2>5. \A i \in 1..(n + 1) : Append(SubSeq(t, 1, n), t[n + 1])[i] = SubSeq(t, 1, n + 1)[i]
    <3> SUFFICES ASSUME NEW i \in 1..(n + 1)
                 PROVE  Append(SubSeq(t, 1, n), t[n + 1])[i] = SubSeq(t, 1, n + 1)[i]
      OBVIOUS
    <3>1. i \in 1..n \/ i = n + 1
      BY <1>2
    <3> QED BY <2>3, <2>4, <3>1
  <2> QED BY <2>3, <2>4, <2>5, SeqEqual
<1>8. RowsInv'
  <2>1. /\ reply.first \in 0..n /\ parse.rows = SubSeq(t, 1, n) /\ parse.from = reply.first
        /\ parse.kind = "query" => reply.first = 0
    BY <1>1 DEF RespInv, RowsInv
  <2>2. reply'.sent \in 0..Len(t) /\ reply'.first \in 0..reply'.sent
    BY <1>2, <1>6, <2>1
  <2> QED BY <1>1, <1>5, <1>6, <1>7, <2>1, <2>2 DEF RowsInv, InResponse, MoreToSend
<1>9. KindInv' /\ StageInv' /\ OutInv' /\ Typed'
  BY <1>1, <1>5, <1>6 DEF RespInv, Typed, KindInv, StageInv, OutInv
<1> QED BY <1>8, <1>9 DEF RespInv

LEMMA IoVectorStep == ASSUME RespInv, NEW outs \in SUBSET Params, IoVector(outs) PROVE RespInv'
<1>1. /\ call.kind = "plsql" /\ reply.stage \in {"start", "rows"} /\ call' = call
      /\ reply \in ReplyStates /\ ParserShape /\ parse.outcome = "parsing"
  BY CallTyped DEF RespInv, Typed, KindInv, IoVector, Parsing
<1>2. /\ reply' \in ReplyStates /\ reply'.stage = reply.stage /\ RowsUnchanged
      /\ parse'.outcome = "parsing" /\ parse'.errors = parse.errors /\ ParserShape'
  BY <1>1 DEF IoVector, ReplyStates, ParserShape, RowsUnchanged
<1>3. RowsInv' /\ KindInv'
  BY <1>2, RowsKept DEF RespInv
<1>4. StageInv' /\ OutInv' /\ Typed'
  BY <1>1, <1>2, <1>3 DEF RespInv, StageInv, OutInv, Typed
<1> QED BY <1>3, <1>4 DEF RespInv

LEMMA OutRowStep == ASSUME RespInv, OutRowData PROVE RespInv'
<1>1. /\ call.kind = "plsql" /\ reply.stage = "rows" /\ call' = call
      /\ reply \in ReplyStates /\ ParserShape /\ parse.outcome = "parsing"
  BY CallTyped DEF RespInv, Typed, KindInv, OutRowData, Parsing
<1>2. /\ reply' \in ReplyStates /\ reply'.stage = "outs" /\ reply'.outs = reply.outs
  BY <1>1 DEF OutRowData, ReplyStates
<1>3. /\ parse'.out_values = [k \in 1..Cardinality(reply.outs) |-> Nth(reply.outs, k)]
      /\ parse'.outcome = "parsing" /\ parse'.errors = parse.errors /\ ParserShape'
  BY <1>1 DEF OutRowData, ParserShape
<1>4. RowsUnchanged
  BY <1>1 DEF OutRowData, ParserShape, ReplyStates, RowsUnchanged
<1>5. RowsInv' /\ KindInv'
  BY <1>3, <1>4, RowsKept DEF RespInv
<1>6. StageInv' /\ OutInv' /\ Typed'
  BY <1>1, <1>2, <1>3, <1>5 DEF RespInv, StageInv, OutInv, Typed
<1> QED BY <1>5, <1>6 DEF RespInv

LEMMA EndOfResponseStep == ASSUME RespInv, EndOfResponse PROVE RespInv'
<1>1. /\ call.kind \in {"dml", "batch"} /\ parse.kind = call.kind /\ reply.stage = "end"
      /\ UNCHANGED <<call, reply>>
      /\ reply \in ReplyStates /\ ParserShape
  BY CallTyped DEF RespInv, Typed, KindInv, EndOfResponse, Parsing
<1>2. /\ parse'.outcome = "ok" /\ parse'.errors = parse.errors /\ parse'.kind = parse.kind
      /\ parse'.rows = parse.rows /\ ParserShape'
  BY <1>1 DEF EndOfResponse, ParserShape
<1> QED BY <1>1, <1>2 DEF RespInv, Typed, KindInv, RowsInv, StageInv, OutInv

LEMMA ErrorResponseStep == ASSUME RespInv, ErrorResponse PROVE RespInv'
<1>1. reply \in ReplyStates /\ ParserShape /\ call' = call
  BY DEF RespInv, Typed, ErrorResponse
<1>2. /\ reply' \in ReplyStates /\ reply'.stage = "end" /\ reply'.outs = reply.outs
  BY <1>1 DEF ErrorResponse, ReplyStates
<1>3. /\ parse'.outcome = "err" /\ parse'.errors = parse.errors /\ ParserShape'
  BY <1>1 DEF ErrorResponse, ParserShape
<1>4. RowsUnchanged
  BY <1>1 DEF ErrorResponse, ParserShape, ReplyStates, RowsUnchanged
<1>5. RowsInv' /\ KindInv'
  BY <1>3, <1>4, RowsKept DEF RespInv
<1>6. StageInv' /\ OutInv' /\ Typed'
  BY <1>1, <1>2, <1>3, <1>5 DEF RespInv, StageInv, OutInv, Typed
<1> QED BY <1>5, <1>6 DEF RespInv

(***************************************************************************)
(* A fetch begins where the rows end, and its parser keeps them.           *)
(***************************************************************************)
LEMMA FetchMoreStep == ASSUME RespInv, FetchMoreRows PROVE RespInv'
<1>1. /\ parse.outcome = "fetch" /\ parse.kind \in {"query", "fetch"} /\ call.kind = "query"
      /\ reply \in ReplyStates /\ call' = call /\ call \in Calls
  BY CallTyped DEF RespInv, Typed, KindInv, StageInv, FetchMoreRows
<1>2. /\ reply.sent \in 0..Len(call.table) /\ parse.rows = SubSeq(call.table, 1, reply.sent)
      /\ reply.bv = {}
  BY <1>1 DEF RespInv, RowsInv
<1>3. Len(parse.rows) = reply.sent
  <2>1. call.table \in Seq([Cols -> CellValues])
    BY <1>1, CallTyped
  <2> QED BY <1>2, <2>1
<1>4. /\ reply' \in ReplyStates /\ reply'.stage = "start" /\ reply'.sent = reply.sent
      /\ reply'.first = reply.sent /\ reply'.bv = {} /\ reply'.outs = reply.outs
  BY <1>1, <1>2 DEF FetchMoreRows, ReplyStates
<1>5. /\ parse'.kind = "fetch" /\ parse'.rows = parse.rows /\ parse'.from = reply.sent
      /\ parse'.bit_vector = Absent /\ parse'.outcome = "parsing" /\ parse'.errors = <<>>
      /\ ParserShape'
  BY <1>3 DEF FetchMoreRows, Parser, ParserShape
<1>6. RowsInv'
  BY <1>1, <1>2, <1>4, <1>5 DEF RowsInv, InResponse
<1>7. KindInv' /\ StageInv' /\ OutInv' /\ Typed'
  BY <1>1, <1>4, <1>5 DEF KindInv, StageInv, OutInv, Typed
<1> QED BY <1>6, <1>7 DEF RespInv

\* What the Error message makes of the parser, whichever parser it is.
LEMMA ErrorFields ==
  ASSUME ParserShape, NEW code, NEW failed, NEW rows,
         parse' = [AfterError(parse, code, failed) EXCEPT !.affected = rows]
  PROVE  /\ ParserShape' /\ parse'.affected = rows
         /\ parse'.kind = parse.kind /\ parse'.rows = parse.rows /\ parse'.from = parse.from
         /\ parse'.prev = parse.prev /\ parse'.bit_vector = parse.bit_vector
         /\ parse'.out_values = parse.out_values /\ parse'.row_counts = parse.row_counts
         /\ parse'.errors = IF parse.kind = "batch" THEN BatchErrorsOf(failed) ELSE <<>>
         /\ parse'.outcome =
              IF Fails(parse.kind, code)
                   /\ ~(parse.kind = "batch" /\ call.batch_errors /\ parse'.errors # <<>>)
              THEN "err"
              ELSE IF parse.kind \in {"dml", "batch"} THEN "parsing"
              ELSE IF /\ parse.kind # "plsql"
                      /\ IF parse.kind = "query" THEN Len(parse.rows) >= RowsPerFetch
                         ELSE /\ Len(parse.rows) - parse.from >= RowsPerFetch
                              /\ code # NO_DATA_FOUND
                   THEN "fetch" ELSE "ok"
<1> DEFINE q == [parse EXCEPT
                   !.errors = IF parse.kind = "batch" THEN BatchErrorsOf(failed) ELSE <<>>,
                   !.more = code # NO_DATA_FOUND, !.skipping = FALSE]
           outcome == AfterError(parse, code, failed).outcome
<1>1. /\ q.kind = parse.kind /\ q.rows = parse.rows /\ q.from = parse.from
      /\ q.errors = IF parse.kind = "batch" THEN BatchErrorsOf(failed) ELSE <<>>
      /\ q.more = (code # NO_DATA_FOUND)
      /\ q.prev = parse.prev /\ q.bit_vector = parse.bit_vector
      /\ q.out_values = parse.out_values /\ q.row_counts = parse.row_counts
  BY DEF ParserShape
<1> QED BY <1>1 DEF ParserShape, AfterError, NeedsMore
\* What ErrorMessage assumes of the server, as far as the proofs need it.
LEMMA ErrorGuards ==
  ASSUME RespInv, NEW code \in {0, NO_DATA_FOUND, OTHER_ERROR},
         NEW failed \in SUBSET (1..BatchSize), NEW rows \in 0..1, ErrorMessage(code, failed, rows)
  PROVE  /\ parse.outcome = "parsing" /\ reply.stage # "end" /\ call' = call
         /\ reply' \in ReplyStates /\ reply'.stage = "end" /\ reply'.code = code
         /\ reply'.failed = failed /\ reply'.affected = rows
         /\ reply'.sent = reply.sent /\ reply'.first = reply.first /\ reply'.bv = reply.bv
         /\ reply'.outs = reply.outs
         /\ (BodySent /\ code \in Codes) \/ code = OTHER_ERROR
         /\ failed # {} => parse.kind = "batch" /\ call.batch_errors /\ code = OTHER_ERROR
<1>1. reply \in ReplyStates
  BY DEF RespInv, Typed
<1>2. reply' = [reply EXCEPT !.stage = "end", !.code = code, !.failed = failed, !.affected = rows]
  BY DEF ErrorMessage
<1>3. /\ reply' \in ReplyStates /\ reply'.stage = "end" /\ reply'.code = code
      /\ reply'.failed = failed /\ reply'.affected = rows
      /\ reply'.sent = reply.sent /\ reply'.first = reply.first /\ reply'.bv = reply.bv
      /\ reply'.outs = reply.outs
  <2>1. rows \in Nat
    OBVIOUS
  <2>2. reply' \in ReplyStates
    BY <1>1, <1>2, <2>1 DEF ReplyStates
  <2>3. /\ reply'.stage = "end" /\ reply'.code = code
        /\ reply'.failed = failed /\ reply'.affected = rows
    BY <1>1, <1>2 DEF ReplyStates
  <2>4. /\ reply'.sent = reply.sent /\ reply'.first = reply.first /\ reply'.bv = reply.bv
        /\ reply'.outs = reply.outs
    BY <1>1, <1>2 DEF ReplyStates
  <2> QED BY <2>2, <2>3, <2>4
<1> QED BY <1>3 DEF ErrorMessage, Parsing

(***************************************************************************)
(* The parsers of a query end with the last row, and with a full response  *)
(* call for the next fetch.                                                *)
(***************************************************************************)
LEMMA ErrorStep ==
  ASSUME RespInv, NEW code \in {0, NO_DATA_FOUND, OTHER_ERROR},
         NEW failed \in SUBSET (1..BatchSize), NEW rows \in 0..1, ErrorMessage(code, failed, rows)
  PROVE  RespInv'
<1>1. /\ parse.outcome = "parsing" /\ reply.stage # "end" /\ call' = call
      /\ reply' \in ReplyStates /\ reply'.stage = "end"
      /\ reply'.sent = reply.sent /\ reply'.first = reply.first /\ reply'.bv = reply.bv
      /\ reply'.outs = reply.outs
      /\ (BodySent /\ code \in Codes) \/ code = OTHER_ERROR
  BY ErrorGuards
<1>2. /\ ParserShape' /\ parse'.kind = parse.kind /\ parse'.rows = parse.rows
      /\ parse'.from = parse.from /\ parse'.prev = parse.prev
      /\ parse'.bit_vector = parse.bit_vector /\ parse'.out_values = parse.out_values
      /\ parse'.outcome =
              IF Fails(parse.kind, code)
                   /\ ~(parse.kind = "batch" /\ call.batch_errors /\ parse'.errors # <<>>)
              THEN "err"
              ELSE IF parse.kind \in {"dml", "batch"} THEN "parsing"
              ELSE IF /\ parse.kind # "plsql"
                      /\ IF parse.kind = "query" THEN Len(parse.rows) >= RowsPerFetch
                         ELSE /\ Len(parse.rows) - parse.from >= RowsPerFetch
                              /\ code # NO_DATA_FOUND
                   THEN "fetch" ELSE "ok"
  <2>1. ParserShape
    BY DEF RespInv, Typed
  <2>2. parse' = [AfterError(parse, code, failed) EXCEPT !.affected = rows]
    BY DEF ErrorMessage
  <2> QED BY <2>1, <2>2, ErrorFields
<1>3. RowsUnchanged
  BY <1>1, <1>2 DEF RowsUnchanged
<1>4. parse.kind \in Kinds /\ call.kind \in {"query", "plsql", "dml", "batch"}
  BY CallTyped DEF RespInv, Typed, KindInv, Kinds
<1>5. parse'.outcome \in {"ok", "fetch"} => ~Fails(parse.kind, code) /\ parse.kind \notin {"dml", "batch"}
  BY <1>2
<1>6. ASSUME call.kind = "query", parse'.outcome \in {"ok", "fetch"}
      PROVE  /\ ~MoreToSend
             /\ parse'.outcome = "ok" => reply.sent = Len(call.table)
  <2>1. parse.kind \in {"query", "fetch"} /\ ~MoreToSend /\ code \in Codes
    <3>1. parse.kind \in {"query", "fetch"}
      BY <1>6 DEF RespInv, KindInv
    <3>2. code # OTHER_ERROR
      BY <1>5, <1>6, <3>1 DEF Fails, OTHER_ERROR, NO_DATA_FOUND
    <3> QED BY <1>1, <3>1, <3>2 DEF BodySent
  <2>2. code = IF InResponse < RowsPerFetch THEN NO_DATA_FOUND ELSE 0
    BY <2>1 DEF Codes, IsQuery
  <2>3. /\ reply.sent \in 0..Len(call.table) /\ reply.first \in 0..reply.sent
        /\ parse.rows = SubSeq(call.table, 1, reply.sent) /\ parse.from = reply.first
        /\ parse.kind = "query" => reply.first = 0
    BY <1>6 DEF RespInv, RowsInv
  <2>4. call.table \in Seq([Cols -> CellValues])
    BY <1>6, CallTyped DEF RespInv, Typed
  <2>5. Len(parse.rows) = reply.sent /\ Len(call.table) \in Nat
    BY <2>3, <2>4
  <2>6. RowsPerFetch \in Nat
    BY ResponseConstants
  <2>7. CASE InResponse < RowsPerFetch
    <3>1. reply.sent >= Len(call.table)
      BY <2>1, <2>3, <2>5, <2>7 DEF MoreToSend
    <3> QED BY <2>1, <2>3, <2>5, <3>1
  <2>8. CASE ~(InResponse < RowsPerFetch)
    <3>1. reply.sent - reply.first >= RowsPerFetch
      BY <2>3, <2>5, <2>6, <2>8 DEF InResponse
    <3>2. code # NO_DATA_FOUND
      BY <2>2, <2>8 DEF NO_DATA_FOUND
    <3>3. parse'.outcome # "ok"
      BY <1>2, <1>5, <1>6, <2>1, <2>3, <2>5, <2>6, <3>1, <3>2
    <3> QED BY <2>1, <3>3
  <2> QED BY <2>7, <2>8
<1>7. RowsInv' /\ KindInv'
  <2>1. InResponse' = InResponse /\ MoreToSend' = MoreToSend /\ Repeated' = Repeated
        /\ BitVectorOf(reply.bv)' = BitVectorOf(reply.bv)
    BY <1>1 DEF InResponse, MoreToSend, Repeated, BitVectorOf
  <2>2. KindInv'
    BY <1>1, <1>2 DEF RespInv, KindInv
  <2>3. RowsInv'
    BY <1>1, <1>2, <1>6, <2>1 DEF RespInv, RowsInv
  <2> QED BY <2>2, <2>3
<1>8. StageInv'
  BY <1>1, <1>2, <1>4 DEF StageInv, Kinds
<1>9. OutInv'
  <2> SUFFICES ASSUME call.kind = "plsql", reply.outs # {}, parse'.outcome = "ok"
               PROVE  parse.out_values = [k \in 1..Cardinality(reply.outs) |-> Nth(reply.outs, k)]
    BY <1>1, <1>2 DEF OutInv
  <2>1. parse.kind = "plsql"
    BY DEF RespInv, KindInv
  <2>2. BodySent
    BY <1>1, <1>5, <2>1 DEF Fails, OTHER_ERROR
  <2>3. reply.stage = "outs"
    BY <2>1, <2>2 DEF BodySent
  <2> QED BY <2>3 DEF RespInv, OutInv
<1> QED BY <1>1, <1>2, <1>7, <1>8, <1>9 DEF RespInv, Typed

LEMMA RespStep == RespInv /\ [RespNext]_respVars => RespInv'
<1> SUFFICES ASSUME RespInv, [RespNext]_respVars PROVE RespInv'
  OBVIOUS
<1>1. CASE UNCHANGED respVars
  BY <1>1 DEF respVars, RespInv, Typed, ParserShape, KindInv, RowsInv, StageInv, OutInv,
              InResponse, MoreToSend, Repeated, BitVectorOf
<1>2. CASE \E code \in {0, NO_DATA_FOUND, OTHER_ERROR}, failed \in SUBSET (1..BatchSize),
              rows \in 0..1 : ErrorMessage(code, failed, rows)
  BY <1>2, ErrorStep
<1>3. CASE \E outs \in SUBSET Params : IoVector(outs)
  BY <1>3, IoVectorStep
<1> QED BY <1>1, <1>2, <1>3, PassingSteps, BitVectorStep, RowHeaderStep, RowStep, OutRowStep,
           EndOfResponseStep, ErrorResponseStep, FetchMoreStep DEF RespNext

LEMMA RespAlways == RespSpec => []RespInv
<1>1. RespInit => RespInv
  BY RespInvInit
<1> QED BY <1>1, RespStep, PTL DEF RespSpec

----------------------------------------------------------------------------
\* Errors

(***************************************************************************)
(* A statement that is no query ends with no ORA-01403: parse_dml_response *)
(* and parse_batch_response would take it for success.                     *)
(***************************************************************************)
LEMMA AnswerStep ==
  ASSUME ~NoDataErrors, RespInv, AnswerInv, [RespNext]_respVars
  PROVE  AnswerInv'
<1>1. /\ reply \in ReplyStates /\ ParserShape /\ call \in Calls
      /\ call.kind \in {"query", "plsql", "dml", "batch"}
  BY CallTyped DEF RespInv, Typed
<1>2. CASE UNCHANGED respVars
  BY <1>2 DEF respVars, AnswerInv, ServerFails, IsQuery, BatchErrorsOf, Nth
<1>3. ASSUME parse'.row_counts = parse.row_counts, call' = call, reply'.stage # "end"
      PROVE  AnswerInv'
  BY <1>3 DEF AnswerInv
<1>4. CASE DescribeInfo \/ RowHeader \/ FlushOutBinds
  BY <1>1, <1>3, <1>4 DEF DescribeInfo, RowHeader, FlushOutBinds, ReplyStates, ParserShape
<1>5. CASE BitVector \/ RowHeaderWithBitVector \/ RowData
  <2>1. reply'.stage = "rows" /\ call' = call
    <3>1. CASE BitVector
      BY <1>1, <3>1 DEF BitVector, ReplyStates
    <3>2. CASE RowData
      BY <1>1, <3>2 DEF RowData, ReplyStates
    <3>3. CASE RowHeaderWithBitVector
      BY <1>1, <3>3 DEF RowHeaderWithBitVector, ReplyStates
    <3> QED BY <1>5, <3>1, <3>2, <3>3
  <2>2. parse'.row_counts = parse.row_counts
    BY <1>1, <1>5 DEF BitVector, RowHeaderWithBitVector, RowData, ParserShape
  <2> QED BY <1>3, <2>1, <2>2
<1>6. CASE OutRowData
  BY <1>1, <1>3, <1>6 DEF OutRowData, ReplyStates, ParserShape
<1>7. ASSUME NEW outs \in SUBSET Params, IoVector(outs) PROVE AnswerInv'
  BY <1>1, <1>3, <1>7 DEF IoVector, ReplyStates, ParserShape
<1>8. ASSUME NEW n \in 1..2, ImplicitResultset(n) PROVE AnswerInv'
  BY <1>1, <1>3, <1>8 DEF ImplicitResultset, ReplyStates, ParserShape
<1>9. ASSUME NEW m \in {"piggyback", "status"}, ServerSidePiggyback(m) PROVE AnswerInv'
  BY <1>1, <1>3, <1>9 DEF ServerSidePiggyback, ReplyStates, ParserShape
<1>10. ASSUME NEW odd \in BOOLEAN, ReturnParameters(odd) PROVE AnswerInv'
  <2>1. reply'.stage # "end" /\ call' = call
    BY <1>1, <1>10 DEF ReturnParameters, ReplyStates
  <2>2. \/ parse'.row_counts = parse.row_counts
        \/ parse.kind = "batch" /\ call.row_counts
    BY <1>1, <1>10 DEF ReturnParameters, ParserShape
  <2>3. parse.kind = "batch" => call.kind = "batch"
    BY <1>1 DEF RespInv, KindInv
  <2> QED BY <2>1, <2>2, <2>3 DEF AnswerInv
<1>11. CASE FetchMoreRows
  <2>1. reply'.stage = "start" /\ call' = call
    BY <1>1, <1>11 DEF FetchMoreRows, ReplyStates
  <2>2. parse'.row_counts = Absent
    BY <1>11 DEF FetchMoreRows, Parser
  <2> QED BY <2>1, <2>2 DEF AnswerInv
<1>12. CASE EndOfResponse
  <2>1. /\ UNCHANGED <<call, reply>> /\ parse.outcome = "parsing" /\ reply.stage = "end"
        /\ parse.kind \in {"dml", "batch"}
    BY <1>12 DEF EndOfResponse, Parsing
  <2>2. /\ parse'.outcome = "ok" /\ parse'.errors = parse.errors /\ parse'.kind = parse.kind
        /\ parse'.affected = parse.affected /\ parse'.row_counts = parse.row_counts
    BY <1>1, <1>12 DEF EndOfResponse, ParserShape
  <2>3. BatchErrorsOf(reply.failed)' = BatchErrorsOf(reply.failed)
    BY <2>1 DEF BatchErrorsOf, Nth
  <2> QED BY <2>1, <2>2, <2>3 DEF AnswerInv, ServerFails, IsQuery
<1>13. CASE ErrorResponse
  <2>1. /\ reply'.stage = "end" /\ reply'.code = OTHER_ERROR /\ call' = call
        /\ reply.stage # "end" /\ parse.kind \in {"query", "dml", "plsql"}
    BY <1>1, <1>13 DEF ErrorResponse, ReplyStates, Parsing
  <2>2. /\ parse'.outcome = "err" /\ parse'.errors = parse.errors /\ parse'.kind = parse.kind
        /\ parse'.row_counts = parse.row_counts
    BY <1>1, <1>13 DEF ErrorResponse, ParserShape
  <2>3. parse.errors = <<>>
    BY <2>1 DEF RespInv, StageInv
  <2> QED BY <2>1, <2>2, <2>3 DEF AnswerInv, ServerFails, IsQuery, OTHER_ERROR, NO_DATA_FOUND
<1>14. ASSUME NEW code \in {0, NO_DATA_FOUND, OTHER_ERROR}, NEW failed \in SUBSET (1..BatchSize),
              NEW rows \in 0..1, ErrorMessage(code, failed, rows)
       PROVE  AnswerInv'
  <2>1. /\ call' = call /\ reply'.stage = "end" /\ reply'.code = code
        /\ reply'.failed = failed /\ reply'.affected = rows
        /\ (BodySent /\ code \in Codes) \/ code = OTHER_ERROR
        /\ failed # {} => parse.kind = "batch" /\ call.batch_errors /\ code = OTHER_ERROR
    BY <1>14, ErrorGuards
  <2>2. /\ parse'.affected = rows /\ parse'.kind = parse.kind
        /\ parse'.row_counts = parse.row_counts
        /\ parse'.errors = IF parse.kind = "batch" THEN BatchErrorsOf(failed) ELSE <<>>
        /\ parse'.outcome = "err" <=>
              Fails(parse.kind, code)
                /\ ~(parse.kind = "batch" /\ call.batch_errors /\ parse'.errors # <<>>)
    <3>1. parse' = [AfterError(parse, code, failed) EXCEPT !.affected = rows]
      BY <1>14 DEF ErrorMessage
    <3> QED BY <1>1, <3>1, ErrorFields
  <2>3. parse'.errors = <<>> <=> failed = {}
    <3>1. BatchErrorsOf(failed) = <<>> <=> failed = {}
      BY BatchErrorsExact
    <3> QED BY <2>1, <2>2, <3>1
  <2>4. Fails(parse.kind, code) <=> ServerFails'
    <3>1. parse.kind \in {"query", "fetch"} <=> call.kind = "query"
      BY <1>1 DEF RespInv, KindInv
    <3>2. parse.kind \notin {"query", "fetch"} => code # NO_DATA_FOUND
      BY <2>1 DEF Codes, IsQuery, NO_DATA_FOUND, OTHER_ERROR
    <3> QED BY <2>1, <2>2, <3>2 DEF Fails, ServerFails, IsQuery, NO_DATA_FOUND
  <2>5. parse'.outcome = "err" <=> (ServerFails' /\ parse'.errors = <<>>)
    BY <2>1, <2>2, <2>3, <2>4
  <2>6. BatchErrorsOf(reply.failed)' = BatchErrorsOf(failed)
    BY <2>1 DEF BatchErrorsOf, Nth
  <2> QED BY <2>1, <2>2, <2>5, <2>6 DEF AnswerInv
<1> QED BY <1>2, <1>4, <1>5, <1>6, <1>7, <1>8, <1>9, <1>10, <1>11, <1>12, <1>13, <1>14
        DEF RespNext

----------------------------------------------------------------------------
\* Theorems

(***************************************************************************)
(* The parser and the reply have their types, and the parser holds as many *)
(* rows as the server has sent.                                            *)
(***************************************************************************)
THEOREM RespTypeCorrect == RespSpec => []RespTypeOK
<1>1. RespInv => RespTypeOK
  <2> SUFFICES ASSUME RespInv PROVE RespTypeOK
    OBVIOUS
  <2>1. /\ call \in Calls /\ call.kind \in {"query", "plsql", "dml", "batch"}
        /\ parse.outcome \in {"parsing", "fetch", "ok", "err"}
    BY CallTyped DEF RespInv, Typed, StageInv
  <2>2. parse.kind \in {"query", "fetch", "plsql", "dml", "batch"}
    BY <2>1 DEF RespInv, KindInv
  <2>3. Len(parse.rows) = reply.sent
    <3>1. CASE call.kind = "query"
      <4>1. call.table \in Seq([Cols -> CellValues])
        BY <2>1, <3>1, CallTyped
      <4>2. reply.sent \in 0..Len(call.table) /\ parse.rows = SubSeq(call.table, 1, reply.sent)
        BY <3>1 DEF RespInv, RowsInv
      <4> QED BY <4>1, <4>2
    <3>2. CASE call.kind # "query"
      BY <3>2 DEF RespInv, KindInv
    <3> QED BY <3>1, <3>2
  <2> QED BY <2>1, <2>2, <2>3 DEF RespTypeOK
<1> QED BY <1>1, RespAlways, PTL

(***************************************************************************)
(* The rows of a query are the rows of its result, value by value: columns *)
(* left out by a bit vector are filled from the row before, and fetches    *)
(* follow one another without a row lost or repeated, up to the last one.  *)
(***************************************************************************)
THEOREM RowsAlwaysExact == RespSpec => []RowsExact
<1>1. RespInv => RowsExact
  BY DEF RespInv, RowsInv, RowsExact
<1> QED BY <1>1, RespAlways, PTL

(***************************************************************************)
(* If only a query ends with ORA-01403, every operation returns Err if and *)
(* only if the server raised an error, and a batch that collects errors    *)
(* returns those of its failed rows, each once and with its index.         *)
(***************************************************************************)
THEOREM ErrorsAlwaysExact ==
  ASSUME ~NoDataErrors
  PROVE  RespSpec => []ErrorsExact
<1>1. RespInit => RespInv /\ AnswerInv
  BY RespInvInit
<1>2. RespInv /\ AnswerInv /\ [RespNext]_respVars => (RespInv /\ AnswerInv)'
  BY RespStep, AnswerStep
<1>3. RespInv /\ AnswerInv => ErrorsExact
  <2> SUFFICES ASSUME RespInv, AnswerInv, parse.outcome \in {"ok", "err"} PROVE ErrorsExact
    BY DEF ErrorsExact
  <2>1. reply.stage = "end"
    BY DEF RespInv, StageInv
  <2>2. /\ parse.outcome = "err" <=> (ServerFails /\ parse.errors = <<>>)
        /\ parse.kind = "batch" => /\ parse.errors = BatchErrorsOf(reply.failed)
                                   /\ parse.affected = reply.affected
        /\ parse.row_counts # Absent => call.row_counts
    BY <2>1 DEF AnswerInv
  <2>3. reply.failed \in SUBSET (1..BatchSize)
    BY DEF RespInv, Typed, ReplyStates
  <2>4. /\ {BatchErrorsOf(reply.failed)[k].row_index : k \in DOMAIN BatchErrorsOf(reply.failed)}
             = reply.failed
        /\ Len(BatchErrorsOf(reply.failed)) = Cardinality(reply.failed)
    BY <2>3, BatchErrorsExact
  <2> QED BY <2>2, <2>4 DEF ErrorsExact
<1> QED BY <1>1, <1>2, <1>3, PTL DEF RespSpec

(***************************************************************************)
(* When a block assigns just the binds declared as outputs, each variable  *)
(* of the caller gets the value that the block assigned to it, however     *)
(* inputs and outputs are mixed.                                           *)
(***************************************************************************)
THEOREM OutBindsAlwaysExact == RespSpec => []OutBindsExact
<1>1. RespInv => OutBindsExact
  <2> SUFFICES ASSUME RespInv, parse.outcome = "ok", parse.kind = "plsql",
                      reply.outs = {p \in Params : call.dirs[p] # "in"}, NEW p \in Params
               PROVE  WrittenBack(p) = IF p \in reply.outs THEN p ELSE Absent
    BY DEF OutBindsExact
  <2> DEFINE outputs == {q \in Params : call.dirs[q] # "in"}
             k == Cardinality({q \in outputs : q <= p})
  <2>1. CASE p \notin outputs
    BY <2>1 DEF WrittenBack
  <2>2. CASE p \in outputs
    <3>1. call.kind = "plsql"
      BY CallTyped DEF RespInv, Typed, KindInv
    <3>2. parse.out_values = [i \in 1..Cardinality(outputs) |-> Nth(outputs, i)]
      BY <2>2, <3>1 DEF RespInv, OutInv
    <3>3. outputs \subseteq Int /\ IsFiniteSet(outputs)
      <4>1. NumParams \in Int /\ 1 \in Int
        BY ResponseConstants
      <4>2. IsFiniteSet(1..NumParams)
        BY <4>1, FS_Interval
      <4>3. outputs \in SUBSET (1..NumParams)
        BY DEF Params
      <4> QED BY <4>1, <4>2, <4>3, FS_Subset
    <3>4. k \in 1..Cardinality(outputs) /\ Nth(outputs, k) = p
      BY <2>2, <3>3, RankInjective, NthOfRank DEF Rank
    <3>5. Len(parse.out_values) = Cardinality(outputs) /\ Cardinality(outputs) \in Nat
      <4>1. Cardinality(outputs) \in Nat
        BY <3>3, FS_CardinalityType
      <4>2. \A i \in 1..Cardinality(outputs) : Nth(outputs, i) \in outputs
        BY <3>3, NthInSet
      <4> HIDE DEF outputs
      <4> QED BY <3>2, <4>1, <4>2
    <3>6. parse.out_values[k] = p /\ k <= Len(parse.out_values)
      BY <3>2, <3>4, <3>5
    <3>7. WrittenBack(p) = IF p \in outputs /\ k <= Len(parse.out_values)
                           THEN parse.out_values[k] ELSE Absent
      BY DEF WrittenBack
    <3> HIDE DEF outputs, k
    <3> QED BY <2>2, <3>6, <3>7 DEF outputs
  <2> QED BY <2>1, <2>2
<1> QED BY <1>1, RespAlways, PTL

----------------------------------------------------------------------------
\* Scrollable cursors

CursorType == cursor \in [is_open : BOOLEAN, position : Int, row : 0..CursorRows,
                          at_beginning : BOOLEAN, used : BOOLEAN]

LEMMA NewPosition ==
  ASSUME NEW o \in Orientations, NEW position \in Int, NEW offset \in Int
  PROVE  /\ RowAt(o, FetchPos(o, position, offset)) \in 0..CursorRows
         /\ PositionWithoutRow(o, position, offset) \in Int
<1>1. CursorRows \in Nat
  BY CursorConstants
<1>2. FetchPos(o, position, offset) \in Nat
  BY DEF FetchPos, AtLeast0, Orientations
<1>3. RowAt(o, FetchPos(o, position, offset)) \in 0..CursorRows
  BY <1>1, <1>2 DEF RowAt
<1>4. PositionWithoutRow(o, position, offset) \in Int
  BY DEF PositionWithoutRow, Orientations
<1> QED BY <1>3, <1>4

LEMMA ScrollResult ==
  ASSUME CursorType, NEW o \in Orientations, NEW offset \in Int, Scroll(o, offset)
  PROVE  LET row == RowAt(o, FetchPos(o, cursor.position, offset)) IN
         /\ CursorType'
         /\ cursor'.row = row
         /\ cursor'.position = IF row # 0 THEN row
                               ELSE PositionWithoutRow(o, cursor.position, offset)
<1> DEFINE row == RowAt(o, FetchPos(o, cursor.position, offset))
           p == IF row # 0 THEN row ELSE PositionWithoutRow(o, cursor.position, offset)
           b == (p <= 1)
<1>1. cursor.position \in Int
  BY DEF CursorType
<1>2. row \in 0..CursorRows /\ p \in Int
  BY <1>1, NewPosition, CursorConstants
<1>3. b \in BOOLEAN
  OBVIOUS
<1>4. cursor' = [cursor EXCEPT !.position = p, !.row = row, !.at_beginning = b]
  BY DEF Scroll
<1> HIDE DEF row, p, b
<1>5. CursorType' /\ cursor'.row = row /\ cursor'.position = p
  BY <1>2, <1>3, <1>4 DEF CursorType
<1> QED BY <1>5 DEF row, p

(***************************************************************************)
(* The position stays a number, and the row delivered is one of the result *)
(* or none.                                                                *)
(***************************************************************************)
THEOREM CursorTyped == CursorSpec => []CursorType
<1>1. CursorInit => CursorType
  BY CursorConstants DEF CursorInit, CursorType
<1>2. CursorType /\ [CursorNext]_cursor => CursorType'
  <2> SUFFICES ASSUME CursorType, [CursorNext]_cursor PROVE CursorType'
    OBVIOUS
  <2>1. CASE OpenScrollableCursor \/ CloseCursor \/ UNCHANGED cursor
    BY <2>1 DEF CursorType, OpenScrollableCursor, CloseCursor
  <2>2. ASSUME NEW o \in Orientations, NEW offset \in Offsets \cup {0}, Scroll(o, offset)
        PROVE  CursorType'
    BY <2>2, ScrollResult, CursorConstants
  <2> QED BY <2>1, <2>2 DEF CursorNext
<1> QED BY <1>1, <1>2, PTL DEF CursorSpec

(***************************************************************************)
(* The fetch position sent to the server asks for the row that the         *)
(* orientation means, unless the cursor ran past an end and the            *)
(* orientation counts from the position.                                   *)
(***************************************************************************)
LEMMA RightRow ==
  ASSUME NEW o \in Orientations, NEW position \in Int, NEW offset \in Int,
         position \in 0..(CursorRows + 1) \/ o \in {"First", "Last", "Absolute"}
  PROVE  RowAt(o, FetchPos(o, position, offset)) = IdealRow(o, position, offset)
<1>1. CursorRows \in Nat
  BY CursorConstants
<1> QED BY <1>1 DEF RowAt, FetchPos, AtLeast0, IdealRow, Orientations

(***************************************************************************)
(* Without a row the position assumed is not that of a row.                *)
(***************************************************************************)
LEMMA NoRowNoPosition ==
  ASSUME NEW o \in Orientations \ {"Current"}, NEW position \in Int, NEW offset \in Int,
         RowAt(o, FetchPos(o, position, offset)) = 0
  PROVE  PositionWithoutRow(o, position, offset) \notin 1..CursorRows
<1>1. CursorRows \in Nat
  BY CursorConstants
<1> QED BY <1>1 DEF RowAt, FetchPos, AtLeast0, PositionWithoutRow, Orientations

(***************************************************************************)
(* A scroll delivers the row its orientation asks for, and the position    *)
(* kept names the row delivered, after any sequence of scrolls.            *)
(***************************************************************************)
THEOREM ScrollAlwaysDelivers == CursorSpec => ScrollDelivers
<1> DEFINE Delivers ==
      \A o \in Orientations, offset \in Offsets \cup {0} :
        Scroll(o, offset) =>
          /\ cursor.position \in 0..(CursorRows + 1) \/ o \in {"First", "Last", "Absolute"} =>
               cursor'.row = IdealRow(o, cursor.position, offset)
          /\ cursor'.row # 0 => cursor'.position = cursor'.row
          /\ o # "Current" /\ cursor'.position \in 1..CursorRows =>
               cursor'.row = cursor'.position
<1>1. CursorType => Delivers
  <2> SUFFICES ASSUME CursorType, NEW o \in Orientations, NEW offset \in Offsets \cup {0},
                      Scroll(o, offset)
               PROVE  /\ cursor.position \in 0..(CursorRows + 1) \/ o \in {"First", "Last", "Absolute"}
                           => cursor'.row = IdealRow(o, cursor.position, offset)
                      /\ cursor'.row # 0 => cursor'.position = cursor'.row
                      /\ o # "Current" /\ cursor'.position \in 1..CursorRows =>
                           cursor'.row = cursor'.position
    OBVIOUS
  <2>1. offset \in Int /\ cursor.position \in Int
    BY CursorConstants DEF CursorType
  <2>2. /\ cursor'.row = RowAt(o, FetchPos(o, cursor.position, offset))
        /\ cursor'.position = IF cursor'.row # 0 THEN cursor'.row
                              ELSE PositionWithoutRow(o, cursor.position, offset)
    BY <2>1, ScrollResult
  <2> QED BY <2>1, <2>2, RightRow, NoRowNoPosition
<1>2. CursorSpec => [][Delivers]_cursor
  BY <1>1, CursorTyped, PTL DEF CursorSpec
<1> QED BY <1>2 DEF ScrollDelivers
=============================================================================
