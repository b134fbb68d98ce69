--------------------------- MODULE ExecuteRequest ---------------------------
(***************************************************************************)
(* ExecuteMessage: the request that every execution sends.  Its header     *)
(* announces what follows (the statement text, column defines, metadata    *)
(* and rows of bind values); the server (external) reads what the header   *)
(* announces, so a request whose parts disagree is misread, or leaves the  *)
(* server waiting.                                                         *)
(*                                                                         *)
(* A statement is [type, sql, cursor_id, executed, binds, requires_define, *)
(* columns, no_prefetch]: sql says whether there is a text, binds is the   *)
(* length of bind_info.  A value is [kind, data], data being its encoding  *)
(* (see TypeCodecs and Documents) or its bytes; a typed null and a LOB     *)
(* have a type besides, a JSON document and a vector the size that counts  *)
(* for max_sizes, a collection the OID of its type.                        *)
(***************************************************************************)
EXTENDS WireBuffers, FiniteSets

----------------------------------------------------------------------------
\* ExecuteOptions

NoOptions ==
  [execute |-> FALSE, fetch |-> FALSE, commit |-> FALSE, no_implicit_release |-> FALSE,
   describe_only |-> FALSE, batch_errors |-> FALSE, dml_row_counts |-> FALSE,
   scrollable |-> FALSE, scroll_operation |-> FALSE, prefetch_rows |-> 0, num_execs |-> 0]

ForQuery(prefetch_rows) ==
  [NoOptions EXCEPT !.execute = TRUE, !.fetch = prefetch_rows > 0,
                    !.prefetch_rows = prefetch_rows, !.num_execs = 1]

ForDml(commit) == [NoOptions EXCEPT !.execute = TRUE, !.commit = commit, !.num_execs = 1]

ForPlsql == [NoOptions EXCEPT !.execute = TRUE, !.no_implicit_release = TRUE, !.num_execs = 1]

ForRefCursor(fetch_size) ==
  [NoOptions EXCEPT !.fetch = fetch_size > 0, !.prefetch_rows = fetch_size,
                    !.num_execs = fetch_size]

FunctionCode(stmt, opts) ==
  CASE \/ stmt.cursor_id = 0 \/ ~stmt.executed \/ ~stmt.sql \/ stmt.type = "Ddl"
       \/ opts.describe_only \/ stmt.requires_define \/ opts.batch_errors
       \/ opts.scrollable -> "Execute"
    [] OTHER -> IF stmt.type = "Query" /\ opts.prefetch_rows > 0 THEN "ReexecuteAndFetch"
                ELSE "Reexecute"

----------------------------------------------------------------------------
\* Bind metadata

AtLeast(n, low) == IF n < low THEN low ELSE n

\* default_bind_buffer_size, of a type whose value is NULL.
DefaultBindBufferSize(type) ==
  CASE type \in {"VARCHAR", "CHAR", "RAW", "LONGRAW"} -> 4000
    [] type = "LONG" -> 32767
    [] type \in {"NUMBER", "BINARY_INTEGER"} -> 22
    [] type = "BINARY_FLOAT" -> 4
    [] type = "BINARY_DOUBLE" -> 8
    [] type = "DATE" -> 7
    [] type \in {"TIMESTAMP", "TIMESTAMPTZ", "TIMESTAMPLTZ"} -> 13
    [] type \in {"ROWID", "UROWID"} -> 18
    [] type = "BOOLEAN" -> 1
    [] type \in {"CURSOR", "OBJECT"} -> 0
    [] type \in {"CLOB", "BLOB", "BFILE"} -> 112
    [] type \in {"JSON", "VECTOR"} -> 100
    [] type = "INTERVALYM" -> 5
    [] type = "INTERVALDS" -> 11

\* The type and the fixed size that infer_bind_metadata gives a kind of value.
FixedMeta ==
  [Null |-> <<"VARCHAR", 1>>, Integer |-> <<"NUMBER", 22>>, Number |-> <<"NUMBER", 22>>,
   Float |-> <<"BINARY_DOUBLE", 8>>, Boolean |-> <<"BOOLEAN", 1>>,
   Timestamp |-> <<"TIMESTAMP", 13>>, Date |-> <<"DATE", 7>>, IntervalYM |-> <<"INTERVALYM", 5>>,
   IntervalDS |-> <<"INTERVALDS", 11>>, RowId |-> <<"VARCHAR", 18>>,
   Cursor |-> <<"CURSOR", 0>>, Collection |-> <<"OBJECT", 0>>]

\* The type and the smallest size of the kinds whose size is that of their values.
SizedMeta ==
  [String |-> <<"VARCHAR", 1>>, Bytes |-> <<"RAW", 1>>, Json |-> <<"JSON", 100>>,
   Vector |-> <<"VECTOR", 100>>]

InferBindMetadata(value, max_size) ==
  CASE value.kind = "TypedNull" ->
         [type |-> value.type,
          size |-> AtLeast(AtLeast(DefaultBindBufferSize(value.type), max_size), 1)]
    [] value.kind = "Lob" -> [type |-> value.type, size |-> 112]
    [] value.kind \in DOMAIN SizedMeta -> [type |-> SizedMeta[value.kind][1],
                                           size |-> AtLeast(max_size, SizedMeta[value.kind][2])]
    [] value.kind \in DOMAIN FixedMeta -> [type |-> FixedMeta[value.kind][1],
                                           size |-> FixedMeta[value.kind][2]]

\* The length that counts for max_sizes.
SizeOf(value) ==
  CASE value.kind \in {"String", "Bytes"} -> Len(value.data)
    [] value.kind \in {"Json", "Vector"} -> value.size
    [] OTHER -> 0

MaxSize(rows, col) ==
  LET sizes == {SizeOf(rows[r][col]) : r \in DOMAIN rows}
  IN  CHOOSE n \in sizes : \A m \in sizes : m <= n

\* write_bind_params: the explicit metadata, or else the types of the first row and the sizes of
\* all rows.
Metadata(rows, explicit) ==
  [col \in DOMAIN rows[1] |->
     IF col \in DOMAIN explicit THEN explicit[col]
     ELSE InferBindMetadata(rows[1][col], MaxSize(rows, col))]

----------------------------------------------------------------------------
\* Bind values

\* The locator that stands for n bytes of JSON or vector data, which follow it.
QLocator(n) ==
  <<0, 38, 0, 4, 97, 8>> \o Be2(0) \o Be2(1) \o Zeros(4) \o Be4(n) \o Zeros(22)

\* The length in front of JSON and vector data.
WriteDataLength(n) ==
  IF n < 254 THEN <<n>> ELSE IF n <= 65535 THEN <<254>> \o Be2(n) ELSE <<255>> \o Be4(n)

\* The type of a collection: TOID_PREFIX, NON_NULL_OID, HAS_EXTENT_OID, its OID and EXTENT_OID.
Toid(oid) == <<0, 34, 2, 8>> \o oid \o Zeros(13) \o <<1, 0, 1>>

\* write_collection_with_data; without elements the NULL of an OUT parameter.
WriteCollection(value) ==
  IF value.data = NoBytes
  THEN WriteUb(<<>>) \o WriteUb(<<>>) \o WriteUb(<<>>) \o WriteUb(<<>>) \o WriteUb(<<>>)
         \o WriteUb(<<1>>)
  ELSE WriteUb(BytesOf(Len(Toid(value.oid)))) \o WriteBytesWithLength(Toid(value.oid))
         \o WriteUb(<<>>) \o WriteUb(<<>>) \o WriteUb(<<>>)
         \o WriteUb(BytesOf(Len(value.data))) \o WriteUb(<<1>>)
         \o WriteBytesWithLength(value.data)

\* Text: long text is one chunk without the chunk of length 0 behind it.
WriteText(data) ==
  IF Len(data) <= 252 THEN <<Len(data)>> \o data
  ELSE <<254>> \o WriteUb(BytesOf(Len(data))) \o data

\* write_bind_value; no bytes is a LOB without a locator, a document that cannot be encoded, a
\* collection without elements.
WriteBindValue(value) ==
  CASE value.kind \in {"Null", "TypedNull"} -> <<0>>
    [] value.kind \in {"Lob", "Json"} /\ value.data = NoBytes -> <<0>>
    [] value.kind = "Collection" -> WriteCollection(value)
    [] value.kind \in {"String", "Bytes"} -> WriteText(value.data)
    [] value.kind = "Boolean" -> <<2>> \o value.data
    [] value.kind = "Lob" /\ value.data # NoBytes ->
         WriteUb(BytesOf(Len(value.data))) \o WriteBytesWithLength(value.data)
    [] value.kind \in {"Json", "Vector"} /\ value.data # NoBytes ->
         (WriteUb(BytesOf(40)) \o (<<40>> \o QLocator(Len(value.data))))
           \o (WriteDataLength(Len(value.data)) \o value.data)
    [] value.kind = "Cursor" ->
         IF value.data = <<>> THEN <<1, 0>> ELSE WriteUb(<<1>>) \o WriteUb(value.data)
    [] OTHER -> <<Len(value.data)>> \o value.data

None == [type |-> "string", value |-> NoBytes]

\* As what the server (external) reads the kinds that are not just bytes.
LobFields(value) == <<[type |-> "string", value |-> value.data]>>

DocumentFields(value) ==
  IF value.data = NoBytes THEN <<None>>
  ELSE <<[type |-> "string", value |-> QLocator(Len(value.data))],
         [type |-> "bytes", value |-> value.data]>>

CursorFields(value) ==
  IF value.data = <<>> THEN <<[type |-> "bytes", value |-> <<0>>]>>
  ELSE <<Ub(4, <<1>>), Ub(4, value.data)>>

CollectionFields(value) ==
  IF value.data = NoBytes THEN <<None, None, None, Ub(4, <<>>), Ub(4, <<>>), Ub(4, <<1>>)>>
  ELSE <<[type |-> "string", value |-> Toid(value.oid)], None, None, Ub(4, <<>>),
         Ub(4, BytesOf(Len(value.data))), Ub(4, <<1>>), [type |-> "bytes", value |-> value.data]>>

\* As what the server (external) reads a value: NULL is read as no bytes.
BindFields(value) ==
  CASE value.kind = "Lob" -> LobFields(value)
    [] value.kind \in {"Json", "Vector"} -> DocumentFields(value)
    [] value.kind = "Cursor" -> CursorFields(value)
    [] value.kind = "Collection" -> CollectionFields(value)
    [] value.kind \in {"Null", "TypedNull"} -> <<[type |-> "bytes", value |-> <<>>]>>
    [] OTHER -> <<[type |-> "bytes", value |-> value.data]>>

RowBytes(row) == FlattenSeq([c \in DOMAIN row |-> WriteBindValue(row[c])])

\* The values of a row are read back, one behind the other, with nothing left over.
RowFramed(row) ==
  LET fields == FlattenSeq([c \in DOMAIN row |-> BindFields(row[c])])
      buf == RowBytes(row)
  IN  ReadFields(fields, buf) = [ok |-> TRUE, value |-> Values(fields), pos |-> Len(buf)]

----------------------------------------------------------------------------
\* The parameters of a PL/SQL call: [direction, value, type, buffer_size]

Null == [kind |-> "Null", data |-> <<>>]
TypedNull(type) == [kind |-> "TypedNull", type |-> type, data |-> <<>>]

NoValue == [kind |-> "None"]

\* infer_oracle_type: differs from infer_bind_metadata for row ids and LOBs.
InferOracleType(value) ==
  CASE value.kind = "RowId" -> "ROWID"
    [] value.kind = "Lob" -> "CLOB"
    [] OTHER -> InferBindMetadata(value, 0).type

\* BindParam::input and input_collection, output, output_cursor and output_collection, input_output.
Input(value) ==
  [direction |-> "Input", value |-> value, type |-> InferOracleType(value), buffer_size |-> 0]

Output(type, size) ==
  [direction |-> "Output", value |-> NoValue, type |-> type, buffer_size |-> size]

OutputObject(value) == [Input(value) EXCEPT !.direction = "Output"]

InputOutput(value, size) == [Input(value) EXCEPT !.direction = "InputOutput", !.buffer_size = size]

\* placeholder_value, of an OUT parameter; 0 and 0.0 as they are encoded.
PlaceholderValue(p) ==
  CASE p.value # NoValue -> p.value
    [] p.value = NoValue /\ p.type \in {"VARCHAR", "CHAR", "LONG"} -> [kind |-> "String", data |-> <<>>]
    [] p.value = NoValue /\ p.type \in {"NUMBER", "BINARY_INTEGER"} ->
         [kind |-> "Integer", data |-> <<128>>]
    [] p.value = NoValue /\ p.type \in {"BINARY_DOUBLE", "BINARY_FLOAT"} ->
         [kind |-> "Float", data |-> <<128>> \o Zeros(7)]
    [] p.value = NoValue /\ p.type \in {"RAW", "LONGRAW"} -> [kind |-> "Bytes", data |-> <<>>]
    [] p.value = NoValue /\ p.type = "CURSOR" -> [kind |-> "Cursor", data |-> <<>>]
    [] p.value = NoValue /\ p.type = "BOOLEAN" -> [kind |-> "Boolean", data |-> <<0>>]
    [] OTHER -> TypedNull(p.type)

\* bind_values of execute_plsql.
PlsqlValue(p) ==
  CASE p.direction = "Output" -> PlaceholderValue(p)
    [] p.direction # "Output" /\ p.value = NoValue -> Null
    [] OTHER -> p.value

\* The size of a value whose parameter names none.
DerivedSize(value) ==
  CASE value.kind \in {"String", "Bytes"} -> AtLeast(Len(value.data), 1)
    [] value.kind = "TypedNull" -> DefaultBindBufferSize(value.type)
    [] value.kind \in {"Integer", "Number", "Float", "Boolean", "Timestamp", "Date", "RowId"} ->
         FixedMeta[value.kind][2]
    [] OTHER -> 100

\* bind_metadata of execute_plsql.
PlsqlMetadata(p) ==
  [type |-> p.type,
   size |-> IF p.buffer_size > 0 THEN p.buffer_size ELSE DerivedSize(PlsqlValue(p))]

----------------------------------------------------------------------------
\* Requests

HasBindValues(rows) == rows # <<>> /\ rows[1] # <<>>

\* Mutant: the binds of a statement count although its columns are defined.
ParamCountDespiteDefine(stmt, rows) ==
  IF stmt.binds > 0 THEN stmt.binds ELSE IF HasBindValues(rows) THEN Len(rows[1]) ELSE 0

\* The number of binds in the header: of the statement, or else of the values.
ParamCount(stmt, rows) ==
  CASE stmt.requires_define -> 0
    [] ~stmt.requires_define /\ stmt.binds > 0 -> stmt.binds
    [] OTHER -> IF HasBindValues(rows) THEN Len(rows[1]) ELSE 0

Parses(stmt) == stmt.cursor_id = 0 \/ stmt.type = "Ddl"

If(condition, set) == IF condition THEN set ELSE {}

\* exec_opts of write_execute_message.
ExecOptions(stmt, opts, params) ==
  LET executes == ~stmt.requires_define /\ ~opts.describe_only /\ stmt.sql
  IN  If(stmt.requires_define, {"DEFINE"})
        \cup If(executes /\ opts.execute /\ ~opts.scroll_operation, {"EXECUTE"})
        \cup If(Parses(stmt), {"PARSE"})
        \cup If(opts.describe_only, {"DESCRIBE"})
        \cup If(~opts.describe_only /\ opts.fetch /\ opts.prefetch_rows > 0 /\ ~stmt.no_prefetch,
                {"FETCH"})
        \cup If(stmt.type # "PlSql" /\ ~opts.describe_only, {"NOT_PLSQL"})
        \cup If(stmt.type = "PlSql" /\ params > 0, {"PLSQL_BIND"})
        \cup If(params > 0 /\ ~opts.scroll_operation, {"BIND"})
        \cup If(opts.batch_errors, {"BATCH_ERRORS"})
        \cup If(opts.commit /\ ~opts.describe_only, {"COMMIT"})

\* exec_flgs of write_execute_message.
ExecFlags(stmt, opts) ==
  If(~stmt.requires_define /\ ~opts.describe_only /\ stmt.sql, {"IMPLICIT_RESULTSET"})
    \cup If(opts.scrollable, {"SCROLLABLE", "NO_CANCEL_ON_EOF"})
    \cup If(opts.no_implicit_release, {"NO_IMPL_REL"})
    \cup If(opts.dml_row_counts, {"DML_ROWCOUNTS"})

\* The rows of bind values, each behind its ROW_DATA marker.
RowParts(rows) ==
  FlattenSeq([r \in DOMAIN rows |-> <<"row">> \o [c \in DOMAIN rows[r] |-> "value"]])

Times(n, part) == [i \in 1..n |-> part]

\* write_execute_message, with write_column_defines or write_bind_params.
ExecuteMessage(stmt, opts, rows) ==
  LET params == ParamCount(stmt, rows)
  IN  [code |-> "Execute", options |-> ExecOptions(stmt, opts, params),
       flags |-> ExecFlags(stmt, opts),
       row_counts |-> IF opts.dml_row_counts THEN opts.num_execs ELSE 0, cursor_id |-> stmt.cursor_id, sql |-> Parses(stmt), num_binds |-> params,
       num_defines |-> IF stmt.requires_define THEN stmt.columns ELSE 0,
       num_iters |-> IF stmt.type = "Query" THEN opts.prefetch_rows ELSE opts.num_execs,
       execs |-> IF stmt.type # "Query" THEN opts.num_execs
                 ELSE IF stmt.cursor_id = 0 THEN 0 ELSE opts.prefetch_rows,
       body |-> (IF Parses(stmt) THEN <<"sql">> ELSE <<>>) \o Times(13, "al8i4")
                  \o (CASE stmt.requires_define -> Times(stmt.columns, "define")
                        [] ~stmt.requires_define /\ HasBindValues(rows) ->
                             Times(Len(rows[1]), "meta") \o RowParts(rows)
                        [] OTHER -> <<>>)]

\* write_reexecute_message: values without metadata.
ReexecuteMessage(stmt, opts, rows, code) ==
  [code |-> code, cursor_id |-> stmt.cursor_id, sql |-> FALSE, num_binds |-> stmt.binds,
   num_defines |-> 0, flags |-> {}, row_counts |-> 0,
   options |-> If(code = "ReexecuteAndFetch", {"EXECUTE"})
                 \cup If(code = "Reexecute" /\ opts.commit, {"COMMIT_REEXECUTE"}),
   num_iters |-> IF code = "ReexecuteAndFetch" THEN opts.prefetch_rows ELSE opts.num_execs,
   execs |-> IF code = "ReexecuteAndFetch" THEN 0 ELSE opts.num_execs,
   body |-> IF HasBindValues(rows) THEN RowParts(rows) ELSE <<>>]

\* build_request_with_sdu; set_batch_bind_values makes num_execs the number of rows.
BuildRequest(stmt, opts, rows) ==
  LET o == IF rows = <<>> THEN opts ELSE [opts EXCEPT !.num_execs = Len(rows)]
      code == FunctionCode(stmt, o)
  IN  IF code = "Execute" THEN ExecuteMessage(stmt, o, rows)
      ELSE ReexecuteMessage(stmt, o, rows, code)

\* What the server (external) expects behind this header: one row for a query.
Announced(req) ==
  LET rows == IF req.num_binds = 0 THEN 0 ELSE IF req.execs = 0 THEN 1 ELSE req.execs
      row == <<"row">> \o Times(req.num_binds, "value")
  IN  (IF req.sql THEN <<"sql">> ELSE <<>>)
        \o (IF req.code = "Execute" THEN Times(13, "al8i4") ELSE <<>>)
        \o Times(req.num_defines, "define")
        \o (IF req.code = "Execute" THEN Times(req.num_binds, "meta") ELSE <<>>)
        \o FlattenSeq(Times(rows, row))

----------------------------------------------------------------------------
\* The requests that Connection builds

Fresh(type, binds) ==
  [type |-> type, sql |-> TRUE, cursor_id |-> 0, executed |-> FALSE, binds |-> binds,
   requires_define |-> FALSE, columns |-> 0, no_prefetch |-> FALSE]

\* A statement of the cache that kept its cursor.
Cached(type, binds, cursor_id) ==
  [Fresh(type, binds) EXCEPT !.cursor_id = cursor_id, !.executed = TRUE]

\* execute_query_with_params for LOB columns: executed again, with defines and no values.
WithDefines(stmt, cursor_id, columns) ==
  [stmt EXCEPT !.columns = columns, !.cursor_id = cursor_id, !.requires_define = TRUE,
               !.no_prefetch = TRUE, !.executed = TRUE]

\* A REF CURSOR, and the statement of a scroll: a cursor without a text.
CursorStatement(cursor_id, columns) ==
  [Cached("Query", 0, cursor_id) EXCEPT !.sql = FALSE, !.columns = columns]

\* Calls of the public operations; the caller passes a value for every bind.
Requests(rows, cursor_id, prefetch) ==
  LET n == IF rows = <<>> THEN 0 ELSE Len(rows[1])
      single == IF rows = <<>> THEN <<>> ELSE <<rows[1]>>
  IN  {[stmt |-> s, opts |-> ForQuery(prefetch), rows |-> single]
         : s \in {Fresh("Query", n), Cached("Query", n, cursor_id)}}
        \cup {[stmt |-> WithDefines(Fresh("Query", n), cursor_id, 2), opts |-> ForQuery(prefetch),
               rows |-> <<>>]}
        \cup {[stmt |-> s, opts |-> ForDml(FALSE), rows |-> single]
                : s \in {Fresh("Dml", n), Fresh("PlSql", n), Fresh("Ddl", 0)}
                          \cup {Cached(t, n, cursor_id) : t \in {"Dml", "PlSql"}}}
        \cup {[stmt |-> Fresh("Dml", n), rows |-> batch,
               opts |-> [ForDml(c) EXCEPT !.num_execs = Len(batch), !.batch_errors = e,
                                         !.dml_row_counts = d]]
                : batch \in {rows} \ {<<>>}, c, d, e \in BOOLEAN}
        \cup {[stmt |-> CursorStatement(cursor_id, 1), opts |-> ForRefCursor(prefetch),
               rows |-> <<>>],
              [stmt |-> CursorStatement(cursor_id, 1), rows |-> <<>>,
               opts |-> [ForQuery(1) EXCEPT !.scrollable = TRUE, !.scroll_operation = TRUE]],
              [stmt |-> Fresh("Query", 0), rows |-> <<>>,
               opts |-> [ForQuery(1) EXCEPT !.scrollable = TRUE]]}

\* execute_plsql: the one operation that sets bind_metadata.
PlsqlRequest(params) ==
  [stmt |-> Fresh("PlSql", Len(params)), opts |-> ForPlsql, params |-> params,
   rows |-> <<[i \in DOMAIN params |-> PlsqlValue(params[i])]>>]

\* The bind_metadata of a request, and whether the server (external) reads what a bind holds: not
\* the placeholder of an OUT parameter.
Explicit(r) ==
  IF "params" \in DOMAIN r THEN [i \in DOMAIN r.params |-> PlsqlMetadata(r.params[i])] ELSE <<>>

Taken(r, col) == "params" \in DOMAIN r => r.params[col].direction # "Output"

----------------------------------------------------------------------------
\* Properties, of one request

(***************************************************************************)
(* What follows the header is what it announces, part by part, for every   *)
(* operation: text, defines, one metadata per bind and a row per           *)
(* execution; a request carries the text exactly when it parses, executes  *)
(* only what has a text, and never both binds and defines.  Row counts are *)
(* asked for as many rows as the batch has.                                *)
(***************************************************************************)
RequestConsistent(r) ==
  LET req == BuildRequest(r.stmt, r.opts, r.rows)
  IN  /\ req.body = Announced(req)
      /\ req.code = "Execute" => ("PARSE" \in req.options <=> req.sql)
      /\ "BIND" \in req.options => req.num_binds > 0 /\ "DEFINE" \notin req.options
      /\ "DML_ROWCOUNTS" \in req.flags => req.row_counts = Len(r.rows)
      /\ ~r.stmt.sql => req.options \cap {"EXECUTE", "PARSE"} = {}

\* The kinds whose value is its data, and not a locator or a cursor.
InPlace ==
  {"String", "Bytes", "Integer", "Number", "Float", "Boolean", "Timestamp", "Date", "IntervalYM",
   "IntervalDS", "RowId"}

\* A value of the declared type, no longer than the declared size.
Fits(value, meta) ==
  value.kind \notin {"Null", "TypedNull"} =>
    /\ InferBindMetadata(value, 0).type = meta.type
    /\ value.kind \in InPlace => Len(value.data) <= meta.size

(***************************************************************************)
(* The type and the size declared for a bind fit the value of every row,   *)
(* whether they are inferred (all rows of a batch have the same schema) or *)
(* those of a parameter of execute_plsql that carries a value.             *)
(***************************************************************************)
MetadataFits(r) ==
  HasBindValues(r.rows) =>
    \A i \in DOMAIN r.rows, c \in DOMAIN r.rows[1] :
      Taken(r, c) => Fits(r.rows[i][c], Metadata(r.rows, Explicit(r))[c])

(***************************************************************************)
(* The values of a row are framed as the buffers read them back: each by   *)
(* its length, the long ones in chunks that end with a chunk of length 0.  *)
(***************************************************************************)
ValuesFramed(r) == \A i \in DOMAIN r.rows : RowFramed(r.rows[i])
=============================================================================
