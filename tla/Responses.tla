----------------------------- MODULE Responses -----------------------------
(***************************************************************************)
(* The parsers of Connection for the responses of a query, a fetch, a      *)
(* PL/SQL block, a DML statement and a batch.  A response is a sequence of *)
(* messages; one step is one message: what the server sends next and what  *)
(* the parser at work does with it.  The server is modelled by the order   *)
(* of messages that the parsers are written for, and marked external.      *)
(*                                                                         *)
(* Three assumptions about the server that no code checks: the columns a   *)
(* bit vector leaves out repeat a row of the same response; the bit vector *)
(* of a row header, which parse_fetch_response keeps and the other parsers *)
(* skip, leaves out columns in the responses to fetches only; and these    *)
(* hold no Parameter and no Piggyback message, which would end             *)
(* parse_fetch_response.                                                   *)
(***************************************************************************)
EXTENDS Integers, Sequences, FiniteSets

CONSTANTS
  Absent,       \* None, and the SQL NULL
  NumCols,      \* columns of a query
  CellValues,   \* what a column of a row may hold
  Tables,       \* results a query may have: sequences of rows
  RowsPerFetch, \* prefetch_rows and fetch_size
  BatchSize,    \* rows of a batch
  NumParams,    \* bind parameters of a PL/SQL block
  NoDataErrors  \* whether DML, batches and PL/SQL may end with ORA-01403

Cols == 1..NumCols
Params == 1..NumParams

ASSUME ResponseConstants ==
  /\ NumCols \in Nat \ {0} /\ RowsPerFetch \in Nat \ {0} /\ NumParams \in Nat
  /\ BatchSize \in Nat \ {0} /\ NoDataErrors \in BOOLEAN
  /\ Tables \subseteq Seq([Cols -> CellValues])
  /\ Absent \notin [Cols -> CellValues] /\ Absent \notin Seq(SUBSET (0..7))

VARIABLES
  call,   \* the operation: kind and arguments, fixed at its start
  reply,  \* server: what it has sent, and what it did
  parse   \* the parser at work and the result so far

respVars == <<call, reply, parse>>

NO_DATA_FOUND == 1403
OTHER_ERROR == 1      \* stands for every other error code

Directions == {"in", "out", "inout"}

Calls ==
  [kind : {"query"}, table : Tables, known : BOOLEAN]
    \cup [kind : {"plsql"}, dirs : [Params -> Directions]]
    \cup [kind : {"dml"}]
    \cup [kind : {"batch"}, batch_errors : BOOLEAN, row_counts : BOOLEAN]

\* A response to kind k begins: the locals of its parser; rows are kept over fetches.
Parser(k, known, rows) ==
  [kind |-> k, described |-> known, rows |-> rows, from |-> Len(rows), bit_vector |-> Absent,
   prev |-> Absent, more |-> k = "fetch", skipping |-> FALSE, out_columns |-> {},
   out_values |-> <<>>, implicit |-> 0, affected |-> 0, errors |-> <<>>, row_counts |-> Absent,
   outcome |-> "parsing"]

NewReply == [stage |-> "start", sent |-> 0, first |-> 0, bv |-> {}, extras |-> {}, outs |-> {},
             implicit |-> 0, affected |-> 0, failed |-> {}, code |-> 0]

RespInit ==
  /\ call \in Calls
  /\ reply = NewReply
  /\ parse = Parser(call.kind, call.kind = "query" /\ call.known, <<>>)

Parsing(kinds) == parse.outcome = "parsing" /\ parse.kind \in kinds
IsQuery == parse.kind \in {"query", "fetch"}

----------------------------------------------------------------------------
\* The server (external)

\* Rows of this response so far, and whether another one may follow.
InResponse == reply.sent - reply.first
MoreToSend == InResponse < RowsPerFetch /\ reply.sent < Len(call.table)

\* The columns that repeat the row before, if that row is in this response.
Repeated ==
  IF InResponse = 0 THEN {}
  ELSE {c \in Cols : call.table[reply.sent + 1][c] = call.table[reply.sent][c]}

\* A bit vector: bit c - 1 of the bytes is set if column c is sent.
BitVectorOf(left_out) ==
  [b \in 1..((NumCols + 7) \div 8) |->
     {i \in 0..7 : (b - 1) * 8 + i + 1 \in Cols \ left_out}]

\* The k-th smallest of a set of numbers.
Nth(S, k) == CHOOSE x \in S : Cardinality({y \in S : y <= x}) = k

\* The values sent for the next row, in the order of the columns.
Wire(left_out) ==
  LET sent == Cols \ left_out
  IN  [k \in 1..Cardinality(sent) |-> call.table[reply.sent + 1][Nth(sent, k)]]

\* The completion codes: a query that runs out while it fills a batch says so.
Codes ==
  IF IsQuery THEN {IF InResponse < RowsPerFetch THEN NO_DATA_FOUND ELSE 0}
  ELSE {0} \cup (IF NoDataErrors THEN {NO_DATA_FOUND} ELSE {})

ServerFails == reply.code # 0 /\ ~(IsQuery /\ reply.code = NO_DATA_FOUND)

----------------------------------------------------------------------------
\* Row messages of queries and fetches

DescribeInfo ==
  /\ Parsing({"query"}) /\ ~parse.described /\ reply.stage = "start"
  /\ parse' = [parse EXCEPT !.described = TRUE]
  /\ UNCHANGED <<call, reply>>

\* parse_row_header skips a bit vector (see above).
RowHeader ==
  /\ Parsing({"query", "fetch", "plsql"}) /\ reply.stage = "start"
  /\ parse.kind = "query" => parse.described
  /\ reply' = [reply EXCEPT !.stage = "rows"]
  /\ UNCHANGED <<call, parse>>

\* Mutant: the length of the bit vector is not rounded up.
NumBytesRoundedDown(columns) == columns \div 8

\* The bytes the parser takes for the bit vector.
NumBytes(columns) == (columns + 7) \div 8

\* Before a row of which columns are left out.
BitVector ==
  /\ Parsing({"query", "fetch"}) /\ reply.stage = "rows" /\ MoreToSend
  /\ Repeated # {} /\ reply.bv = {}
  /\ reply' = [reply EXCEPT !.bv = Repeated]
  /\ parse' = [parse EXCEPT !.bit_vector = SubSeq(BitVectorOf(Repeated), 1, NumBytes(NumCols))]
  /\ UNCHANGED call

\* parse_fetch_response keeps the bit vector of a row header, in whatever length it has there.
RowHeaderWithBitVector ==
  /\ Parsing({"fetch"}) /\ reply.stage \in {"start", "rows"} /\ MoreToSend
  /\ reply.bv = {}
  /\ reply' = [reply EXCEPT !.stage = "rows", !.bv = Repeated]
  /\ parse' = [parse EXCEPT !.bit_vector = BitVectorOf(Repeated)]
  /\ UNCHANGED call

IsDuplicate(bit_vector, col_idx) ==
  /\ bit_vector # Absent
  /\ col_idx \div 8 < Len(bit_vector)
  /\ col_idx % 8 \notin bit_vector[col_idx \div 8 + 1]

\* parse_column_value of the k-th value on the wire; past the end it reads on.
ColumnValue(wire, k) == IF k \in DOMAIN wire THEN wire[k] ELSE "garbage"

\* parse_row_data_with_bitvector
RowOf(wire, bit_vector, prev) ==
  [c \in Cols |->
     IF IsDuplicate(bit_vector, c - 1)
     THEN IF prev = Absent THEN Absent ELSE prev[c]
     ELSE ColumnValue(wire, Cardinality({d \in 1..c : ~IsDuplicate(bit_vector, d - 1)}))]

RowData ==
  /\ Parsing({"query", "fetch"}) /\ reply.stage = "rows" /\ MoreToSend
  /\ LET row == RowOf(Wire(reply.bv), parse.bit_vector, parse.prev)
     IN  parse' = [parse EXCEPT !.rows = Append(@, row), !.prev = row, !.bit_vector = Absent]
  /\ reply' = [reply EXCEPT !.sent = @ + 1, !.bv = {}]
  /\ UNCHANGED call

----------------------------------------------------------------------------
\* PL/SQL

\* The binds the block assigns, as the server sees it; parse_io_vector takes its word.
IoVector(outs) ==
  /\ Parsing({"plsql"}) /\ reply.stage \in {"start", "rows"} /\ parse.out_columns = {}
  /\ outs # {}
  /\ reply' = [reply EXCEPT !.outs = outs]
  /\ parse' = [parse EXCEPT !.out_columns = outs]
  /\ UNCHANGED call

\* RowData: the assigned values, the value of parameter p being p.
OutRowData ==
  /\ Parsing({"plsql"}) /\ reply.stage = "rows" /\ reply.outs # {}
  /\ parse.out_columns # {}
  /\ reply' = [reply EXCEPT !.stage = "outs"]
  /\ parse' = [parse EXCEPT !.out_values =
                 [k \in 1..Cardinality(reply.outs) |-> Nth(reply.outs, k)]]
  /\ UNCHANGED call

FlushOutBinds ==
  /\ Parsing({"plsql"}) /\ reply.stage = "outs" /\ "flush" \notin reply.extras
  /\ reply' = [reply EXCEPT !.extras = @ \cup {"flush"}]
  /\ UNCHANGED <<call, parse>>

\* DBMS_SQL.RETURN_RESULT: n cursors with their columns.
ImplicitResultset(n) ==
  /\ Parsing({"plsql"}) /\ reply.implicit = 0 /\ reply.stage # "end"
  /\ reply' = [reply EXCEPT !.implicit = n]
  /\ parse' = IF parse.skipping THEN parse ELSE [parse EXCEPT !.implicit = n]
  /\ UNCHANGED call

----------------------------------------------------------------------------
\* Messages of every response but a fetch's

\* Whether the server has nothing but its extras and the completion left to send.
BodySent ==
  CASE parse.kind = "query" -> parse.described /\ ~MoreToSend /\ reply.bv = {}
    [] parse.kind = "fetch" -> ~MoreToSend
    [] parse.kind = "plsql" -> reply.outs = {} \/ reply.stage = "outs"
    [] OTHER -> reply.stage # "end"

(***************************************************************************)
(* Parameter.  A parameter that parse_standard_return_parameters cannot    *)
(* read makes skip_session_state_return_parameter look for the Error       *)
(* message: what is in between is lost, the row counts too.                *)
(***************************************************************************)
ReturnParameters(odd) ==
  /\ Parsing({"query", "plsql", "dml", "batch"}) /\ BodySent
  /\ {"parameter"} \cap reply.extras = {} /\ reply.stage # "end"
  /\ reply' = [reply EXCEPT !.extras = @ \cup {"parameter"} \cup (IF odd THEN {"odd"} ELSE {})]
  /\ parse' = [parse EXCEPT !.skipping = odd,
                 !.row_counts = IF parse.kind = "batch" /\ call.row_counts /\ ~odd
                                THEN "counts" ELSE @]
  /\ UNCHANGED call

\* Piggyback and Status: session state is recorded, the status skipped.
ServerSidePiggyback(m) ==
  /\ Parsing({"query", "plsql", "dml", "batch"}) /\ m \notin reply.extras
  /\ reply.stage # "end"
  /\ reply' = [reply EXCEPT !.extras = @ \cup {m}]
  /\ UNCHANGED <<call, parse>>

----------------------------------------------------------------------------
\* The Error message: completion or error

\* The codes that a parser returns as Err.
Fails(kind, code) == code # 0 /\ (kind = "plsql" \/ code # NO_DATA_FOUND)

\* Mutant: the offset of a batch error is its place in the list.
BatchErrorsByPlace(failed) ==
  [k \in 1..Cardinality(failed) |-> [row_index |-> k, code |-> OTHER_ERROR]]

\* parse_error_info_detailed: codes, offsets and messages of the failed rows merged.
BatchErrorsOf(failed) ==
  [k \in 1..Cardinality(failed) |-> [row_index |-> Nth(failed, k), code |-> OTHER_ERROR]]

\* fetch_remaining_query_rows: does a full response call for a fetch?
NeedsMore(p) ==
  IF p.kind = "query" THEN Len(p.rows) >= RowsPerFetch
  ELSE Len(p.rows) - p.from >= RowsPerFetch /\ p.more

\* What the parser does with the code: it fails, ends, or (DML, batch) reads on.
AfterError(p, code, failed) ==
  LET q == [p EXCEPT !.errors = IF p.kind = "batch" THEN BatchErrorsOf(failed) ELSE <<>>,
                     !.more = code # NO_DATA_FOUND,
                     !.skipping = FALSE]
      tolerated == p.kind = "batch" /\ call.batch_errors /\ q.errors # <<>>
  IN  [q EXCEPT !.outcome = IF Fails(p.kind, code) /\ ~tolerated THEN "err"
                            ELSE IF p.kind \in {"dml", "batch"} THEN "parsing"
                            ELSE IF p.kind # "plsql" /\ NeedsMore(q) THEN "fetch" ELSE "ok"]

ErrorMessage(code, failed, rows) ==
  /\ Parsing({"query", "fetch", "plsql", "dml", "batch"}) /\ reply.stage # "end"
  /\ (BodySent /\ code \in Codes) \/ code = OTHER_ERROR
  /\ parse.kind \in {"query", "fetch", "plsql"} => rows = 0
  /\ failed # {} => parse.kind = "batch" /\ call.batch_errors /\ code = OTHER_ERROR
  /\ reply' = [reply EXCEPT !.stage = "end", !.code = code, !.failed = failed,
                            !.affected = rows]
  /\ parse' = [AfterError(parse, code, failed) EXCEPT !.affected = rows]
  /\ UNCHANGED call

\* EndOfResponse (29), or no byte left: parse_dml_response and parse_batch_response end.
EndOfResponse ==
  /\ Parsing({"dml", "batch"}) /\ reply.stage = "end"
  /\ parse' = [parse EXCEPT !.outcome = "ok"]
  /\ UNCHANGED <<call, reply>>

\* The error response behind a BREAK: parse_error_response returns Err in any case.
ErrorResponse ==
  /\ Parsing({"query", "dml", "plsql"}) /\ reply.stage # "end"
  /\ reply' = [reply EXCEPT !.stage = "end", !.code = OTHER_ERROR]
  /\ parse' = [parse EXCEPT !.outcome = "err"]
  /\ UNCHANGED call

\* fetch_more: the next request, parsed by parse_fetch_response.
FetchMoreRows ==
  /\ parse.outcome = "fetch"
  /\ reply' = [reply EXCEPT !.stage = "start", !.first = reply.sent, !.extras = {}]
  /\ parse' = Parser("fetch", TRUE, parse.rows)
  /\ UNCHANGED call

----------------------------------------------------------------------------
\* Mutant: the values go to the first binds, whatever their direction.
WrittenBackInOrder(p) == IF p <= Len(parse.out_values) THEN parse.out_values[p] ELSE Absent

\* execute_with_binds: the value written back to bind p, Absent if it is left alone.
WrittenBack(p) ==
  LET outputs == {q \in Params : call.dirs[q] # "in"}
      k == Cardinality({q \in outputs : q <= p})
  IN  IF p \in outputs /\ k <= Len(parse.out_values) THEN parse.out_values[k] ELSE Absent

RespNext ==
  \/ DescribeInfo \/ RowHeader \/ RowHeaderWithBitVector \/ BitVector \/ RowData
  \/ \E outs \in SUBSET Params : IoVector(outs)
  \/ OutRowData \/ FlushOutBinds
  \/ \E n \in 1..2 : ImplicitResultset(n)
  \/ \E odd \in BOOLEAN : ReturnParameters(odd)
  \/ \E m \in {"piggyback", "status"} : ServerSidePiggyback(m)
  \/ \E code \in {0, NO_DATA_FOUND, OTHER_ERROR}, failed \in SUBSET (1..BatchSize),
        rows \in 0..1 : ErrorMessage(code, failed, rows)
  \/ EndOfResponse \/ ErrorResponse \/ FetchMoreRows

RespSpec == RespInit /\ [][RespNext]_respVars

----------------------------------------------------------------------------
\* Properties

\* The parser and the reply have their types.
RespTypeOK ==
  /\ call \in Calls
  /\ parse.outcome \in {"parsing", "fetch", "ok", "err"}
  /\ parse.kind \in {"query", "fetch", "plsql", "dml", "batch"}
  /\ Len(parse.rows) = reply.sent

(***************************************************************************)
(* Whatever columns the server leaves out, and wherever the result ends in *)
(* its batches, the rows parsed so far are the first rows of the result,   *)
(* value by value, and a query that succeeds has returned all of them.     *)
(***************************************************************************)
RowsExact ==
  call.kind = "query" =>
    /\ parse.rows = SubSeq(call.table, 1, reply.sent)
    /\ parse.outcome = "ok" => reply.sent = Len(call.table)

(***************************************************************************)
(* An operation returns Err if and only if the server raised an error,     *)
(* whichever parser reads the response, in whichever batch it comes and    *)
(* whatever messages come before; the end of a query's rows is no error.   *)
(* A batch that collects errors returns Ok only with the errors: those of  *)
(* the failed rows, each once and with its index, and with the server's    *)
(* count of changed rows.                                                  *)
(***************************************************************************)
ErrorsExact ==
  /\ parse.outcome \in {"ok", "err"} =>
       (parse.outcome = "err" <=> ServerFails /\ parse.errors = <<>>)
  /\ parse.outcome = "ok" /\ parse.kind = "batch" =>
       /\ {parse.errors[k].row_index : k \in DOMAIN parse.errors} = reply.failed
       /\ Len(parse.errors) = Cardinality(reply.failed)
       /\ parse.affected = reply.affected
       /\ parse.row_counts # Absent => call.row_counts

(***************************************************************************)
(* When a block assigns the binds that the caller declared as outputs, and *)
(* no others, execute_with_binds gives each of the caller's variables the  *)
(* value that the block assigned to it and leaves its inputs alone.        *)
(***************************************************************************)
OutBindsExact ==
  parse.outcome = "ok" /\ parse.kind = "plsql"
    /\ reply.outs = {p \in Params : call.dirs[p] # "in"} =>
      \A p \in Params : WrittenBack(p) = IF p \in reply.outs THEN p ELSE Absent
=============================================================================
