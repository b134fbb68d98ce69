----------------------------- MODULE Operations -----------------------------
(***************************************************************************)
(* The operations above the request/response exchange, in one module for   *)
(* model checking: LOBs, scrollable cursors, the response parsers and the  *)
(* sqlrs script loop, and the pure algorithms (scanners, buffers, codecs,  *)
(* the execute request) over sets of sample inputs.                        *)
(*                                                                         *)
(* These parts share no state: each has a connection of its own, or uses   *)
(* one only between exchanges (see TnsExchange).  Interleaving them would  *)
(* add states and no behaviour of a part, so a behaviour is one of a       *)
(* single part, chosen in the initial state.  In the part "samples" the    *)
(* one step takes an input of the chosen kind, and the properties of the   *)
(* algorithms are about that step.                                         *)
(***************************************************************************)
EXTENDS LobOps, ScrollableCursor, Responses, Script, SqlText, TypeCodecs,
        ExecuteRequest, LobMessage

CONSTANTS
  Parts,    \* the parts to check
  Samples   \* Samples[kind]: the inputs for the pure algorithms of that kind

ASSUME OperationsConstants ==
  Parts \subseteq {"lobs", "cursor", "responses", "script", "samples"}

\* The inputs of a pure algorithm are ones it is called with.
ASSUME SamplesTyped ==
  /\ "sql" \in DOMAIN Samples =>
       Samples["sql"] \subseteq [text : Seq(Lexemes), type : StatementTypes]
  /\ "call" \in DOMAIN Samples => Samples["call"] \subseteq Seq(CallLexemes)

VARIABLES
  part,     \* the part that moves
  sample    \* the kind of input of a pure algorithm, and its value once it is taken

vars == <<part, sample, lobOpsVars, cursor, respVars, scriptVars>>

Init ==
  /\ part \in Parts
  /\ sample \in [kind : IF part = "samples" THEN DOMAIN Samples ELSE {"none"}]
  /\ LobInit /\ CursorInit /\ ScriptInit
  /\ IF part = "responses" THEN RespInit
     ELSE /\ call = [kind |-> "dml"] /\ reply = NewReply
          /\ parse = Parser("dml", FALSE, <<>>)

LobOperations == part = "lobs" /\ LobNext /\ UNCHANGED <<cursor, respVars, scriptVars>>

Cursors == /\ part = "cursor" /\ CursorNext
           /\ UNCHANGED <<lobOpsVars, respVars, scriptVars>>

ResponseParsing == /\ part = "responses" /\ RespNext
                   /\ UNCHANGED <<lobOpsVars, cursor, scriptVars>>

Scripts == /\ part = "script" /\ ScriptNext
           /\ UNCHANGED <<lobOpsVars, cursor, respVars>>

TakeSample ==
  /\ part = "samples" /\ "value" \notin DOMAIN sample
  /\ \E v \in Samples[sample.kind] : sample' = [kind |-> sample.kind, value |-> v]
  /\ UNCHANGED <<part, lobOpsVars, cursor, respVars, scriptVars>>

Next ==
  \/ (LobOperations \/ Cursors \/ ResponseParsing \/ Scripts) /\ UNCHANGED <<part, sample>>
  \/ TakeSample

Spec == Init /\ [][Next]_vars /\ LobFairness

----------------------------------------------------------------------------
\* Properties

\* The variables of every part have their types.
TypeOK == LobTypeOK /\ RespTypeOK /\ ScriptTypeOK

\* An input of kind k, when it is taken, satisfies P.
Sample(k, P(_)) == sample'.kind = k => P(sample'.value)

(***************************************************************************)
(* The scanners find in a text what stands there: the binds of a statement *)
(* outside strings and comments, the same ones for sqlrs, and the          *)
(* arguments of a call (see SqlText).                                      *)
(***************************************************************************)
TextScansExact ==
  [][/\ Sample("sql", LAMBDA v : BindsOfTextExact(v.text, v.type) /\ SqlrsNamesAgree(v.text, v.type))
     /\ Sample("call", LAMBDA v : ArgumentsExact(v))]_sample

(***************************************************************************)
(* Fields written to a buffer and sent in packets of any SDU are read back *)
(* exactly, and an Err is all that a message cut short can give (see       *)
(* FieldsReadBack).                                                        *)
(***************************************************************************)
FieldsRoundTrip ==
  [][Sample("fields", LAMBDA v : FieldsReadBack(v.fields, v.sdu, v.large, v.cut))]_sample

(***************************************************************************)
(* A number text that encode_oracle_number encodes and                     *)
(* decode_oracle_number decodes is the same number.                        *)
(***************************************************************************)
NumberRoundTrip == [][Sample("number", LAMBDA v : NumberReadBack(v))]_sample

(***************************************************************************)
(* A value that is encoded and decoded again is the same value, for every  *)
(* column type: the offsets, complements, inverted sign bits and flags of  *)
(* the encodings agree with those of the decoders.  A sparse vector is     *)
(* taken to have an index for each value that VectorData::len counts, in a *)
(* binary one for each bit; OracleVector::sparse does not check it.        *)
(***************************************************************************)
CodecsRoundTrip ==
  [][/\ Sample("number", LAMBDA v : NumberReadBack(v))
     /\ Sample("timestamp", LAMBDA v : TimestampReadBack(v.ts, v.zoned))
     /\ Sample("interval", LAMBDA v : IntervalReadBack(v))
     /\ Sample("binary", LAMBDA v : BinaryReadBack(v.a, v.b))
     /\ Sample("rowid", LAMBDA v : RowIdReadBack(v.id, v.typed))
     /\ Sample("vector", LAMBDA v : VectorReadBack(v))]_sample

(***************************************************************************)
(* The request of every operation announces what it contains, the types    *)
(* and sizes it declares, for a PL/SQL call those of its parameters, fit   *)
(* the values of every row, and the values are framed; so does the request *)
(* of every LOB operation.                                                 *)
(***************************************************************************)
RequestsConsistent ==
  [][/\ Sample("request",
              LAMBDA v : RequestConsistent(v) /\ MetadataFits(v) /\ ValuesFramed(v))
     /\ Sample("lobRequest", LAMBDA v : LobRequestExact(v.op, v.locator, v.token))]_sample
=============================================================================
