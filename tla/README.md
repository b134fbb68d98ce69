# A TLA+ model of oracle-rs

oracle-rs is a pure-Rust driver for Oracle databases. A `Connection` speaks the
TNS/TTC protocol over one TCP (or TLS) stream; any number of async tasks may
share it. On top of it stand a C interface for PostgreSQL's oracle_fdw and the
`sqlrs` command line. This directory models the driver's control in TLA+, checks
it with TLC on small instances, and proves the central properties with TLAPS for
every value of the constants. Source paths below are relative to the crate,
`src/src/`, unless they say otherwise.

## The system

| Part | State it keeps | Operations | Modelled in |
|---|---|---|---|
| Exchange (`connection.rs`: `Connection`, `ConnectionInner`) | `closed` (AtomicBool); `Mutex<ConnectionInner>`: stream, state, sequence number; what has been read of a response | send, receive, receive_response(_or_marker), BREAK/RESET, mark_closed, close | `TnsExchange`, `SerialCalls` |
| Statement cache (`statement_cache.rs`) | entries by SQL text: statement with cursor id, in_use, last_used | get, put, return_statement, mark_cursor_closed, clear, evict_lru | `StatementCache` |
| Statement execution (`connection.rs`, `statement.rs`, `messages/execute.rs`, `messages/fetch.rs`) | the statement, its cursor, the rows so far | execute, query, DML, fetch_more; the execute request; the bind scanner | `StatementExecution`, `ExecuteRequest`, `SqlText` |
| Establishment and authentication (`connection.rs` 943-1508, `messages/{connect,accept,refuse,protocol,auth}.rs`, `capabilities.rs`) | `ConnectionState`, negotiated capabilities, authentication phase | connect with resend, OOB check, negotiation, fast and two-phase authentication | `Handshake` |
| Responses (`connection.rs` 1900-2120, 2940-4420) | parser locals: bit vector, previous row, OUT values, batch errors | the parsers of query, fetch, DML, PL/SQL and batch responses | `Responses` |
| Cursors (`cursor.rs`, `connection.rs` 2480-2790) | open flag, local position | open, scroll, close; REF cursors, implicit results | `ScrollableCursor`, `Responses` |
| LOBs (`connection.rs` 4626-5560, `messages/lob_op.rs`, `types/lob.rs`) | locators (on the server: the LOBs) | read, chunked read, write, trim, length, temporary LOBs, BFILE open/read/close | `LobOps`, `LobMessage` |
| Buffers and packets (`buffer/`, `packet/`, `send_multi_packet`) | none | lengths, short/long/chunked fields, packet headers, splitting by SDU | `WireBuffers` |
| Codecs (`types/`, `dbobject.rs`) | none | NUMBER, DATE, TIMESTAMP, INTERVAL, BINARY_*, ROWID, VECTOR; OSON, collections | `TypeCodecs`, `Documents` |
| C interface (`ffi.rs`) | session registry; per session statement, rows, LOB handles, xact_level | the `oracle*` functions and transaction callbacks | `FfiSession` |
| sqlrs (`bin/sqlrs.rs`) | interpreter settings, statement buffer | script splitting, execution, DBMS_OUTPUT, scanners | `Script`, `SqlText` |

All operations of a connection meet in its mutex. An operation reads `closed`
without the lock, reads `state` under a lock it releases at once, locks again,
sends one request and reads packets until it believes the response complete.
Nothing but that belief separates one response from the next, and nothing but the
mutex separates the tasks. What is hard in this code follows from it:

- *Where a response ends.* An `END_OF_RESPONSE` flag if the server negotiated
  it, otherwise a scan of the payload; the small LOB calls take one packet.
- *Errors as interruptions.* The server may replace the rest of a response by a
  BREAK marker; the client answers RESET, skips markers and reads the error.
- *Stale checks.* `ensure_ready` and the use of the connection are two critical
  sections; a query with many rows, a chunked LOB read and read_bfile are many.
- *Failures.* A lost connection is noticed by a read or a write; some callers
  report it to `handle_result` and some do not. A caller may drop the future of
  an operation at any await.
- *The cache under contention.* An entry is in use by one task while others
  store, evict, clear and mark cursors closed.
- *State carried between messages.* A response is parsed message by message with
  a bit vector, a previous row, OUT positions and error arrays that later
  messages refer to.
- *Two sides of one encoding.* What one function writes another one reads, with
  escapes, complements and one-byte counts whose limits must agree.
- *Somebody else's transactions.* The C interface maps PostgreSQL's nested
  transactions, which end in an order of their own, to one savepoint level per
  session, with errors that leave by a long jump.

`PROJECT.json` lists these hazards with their lines and the properties on them.

## Modules

### The exchange

`SerialCalls` is the abstract promise of a shared connection: calls are served
one at a time, a call gets the answer to itself or none, and a dead connection
answers nothing.

`TnsExchange` is the detailed exchange. `owner` is the mutex, `closed`, `state`,
`stream` and `sequence_number` are the fields of those names; `pc`, `op`, `req`,
`acc` and `outcome` are the locals of each task; `toServer` and `toClient` are
the two directions of the stream. A payload is reduced to what the receive loops
look at (the kind of its leading message, whether the scan would hit one of its
bytes, whether it is flagged as the end) and to the request it answers, which no
code reads: the properties use it.

| Action | Code |
|---|---|
| `Begin`, `CheckState` | the two halves of `ensure_ready` |
| `LockAndSend` | lock, next sequence number, `send` and its two failures |
| `RecvData` | the loops of `receive_response_or_marker` and `receive_response`, the single `receive` of small LOB calls |
| `RecvMarker`, `SkipMarker`, `TailData`, `TailMarker` | `handle_marker_reset_with_partial` and `receive_response_from_first_packet_with_payload` |
| `ReadError` | a failed `receive`: state Closed |
| `Finish`, `SendDefine`, `FetchMore` | the end of an operation; the second EXECUTE of a query with LOB columns, under the same lock; the fetches of a query, each under its own |
| `Return` | `handle_result` for execute and query, `?` for the others |
| `BeginClose`, `CloseLocked`, `RecvLogoff`, `MarkClosed` | `close` with its LOGOFF, `mark_closed` |
| `Cancel` | the caller drops the future (external) |
| `Srv*` | the database (external): takes a request, sends a packet, breaks, answers a RESET with zero to two RESET markers and an error, drops the connection |

`Handshake` is `connect_with_config`, from the CONNECT to Ready. One task runs
it, so `pc` is the answer it waits for; `state`, `large_sdu`, `caps` and
`sequence_number` are the fields of `ConnectionInner`, `phase` is that of
`AuthMessage`. Each `Recv*` action is one `receive` with all that the code does
up to and including the next `send`, but for the answers of fast authentication
and of phase two, which the code reads with `receive_response`: `received` is its
`accumulated_payload`, `ReceiveMore` a turn of its loop that does not recognise
the end, and `RecvFastAuth` and `RecvAuthTwo` act on the packet that completes the
answer (`Recognised`: its flag, or `scan_for_terminal_message`). The server
(external) is a profile: the version it accepts, its flags, its field version, the
verifier it keeps, whether it is the database that knows that verifier. It may cut
a fast authentication answer in two, and flags the end of an answer when both
sides have END_OF_RESPONSE; it may resend, refuse, renegotiate, reject or go away
at any point. Keys are reduced to who can derive them.

### The operations above it

A round trip is one step in all these modules: `TnsExchange` shows that it is
answered by its own response. The steps of one operation are separate where it
gives the mutex back.

`StatementCache` gives the operations of the cache as operators on its value,
time as a logical clock. `StatementExecution` runs execute, query and
execute_dml_sql over it: the look-up, the EXECUTE, each fetch and the store are
separate steps. The server's cursors record how many rows they have delivered.
`Drop` is a future dropped while it waits for the mutex; `abandoned` and `drops`
are history: the texts whose entry a dropped future left in use, and how often.

`LobOps` has the LOBs on the server (`content`, with a version `ver` that counts
changes), the locator of each task with the size it was fetched with, and the
position of the task in its operation. `read_lob_chunked` is `BeginChunked`,
`AskChunkSize` and `ReadChunk`; `read_bfile` is `BeginReadBfile`,
`ReadBfileOpen`, `ReadBfileRead` (or `ReadBfileFails`) and `ReadBfileClose`,
with other tasks' `BfileOpen`, `BfileClose`, `WriteLob` and `LobTrim` in
between. `OperationFails` is an error of the server, `Drop` a dropped future.
`LobMessage` is the request behind all of them, byte by byte, against a reader
that follows its pointers.

`ScrollableCursor` is open, scroll and close with the position the client keeps:
the row a scroll asks for (`FetchPos`), the server's answer (`RowAt`, external),
and the position computed when no row came back. `IdealRow` is the reference.

`Responses` parses a response one message per step: what the server (external)
sends next and what the parser at work does with it, with the early returns of
each parser. The server sends rows with bit vectors, in a message of their own or,
in answer to a fetch, in a row header (`RowHeaderWithBitVector`), OUT values in
the order of its choice, implicit results, piggybacks, batch errors, and errors
in the middle. `Responses` also joins the batches of a query (`FetchMoreRows`)
and writes OUT values back to the caller's binds.

`ExecuteRequest` is the request of every execution: options, counts, declared
types and sizes, and framed values of every kind: JSON documents and vectors behind
a locator, LOBs, cursors and collections too. The types and sizes are inferred from
the values (`Metadata`, `InferBindMetadata`) or, in `execute_plsql`, those of the
parameters (`PlsqlMetadata`, over IN, OUT and IN OUT). `SqlText` has the scanners over SQL texts:
the binds of `Statement`, the names that sqlrs looks for, and the arguments of a
call, over lexemes in place of characters, against a reference that says in which
region (code, string, comment) each lexeme is; q-literals and quoted identifiers
are not among the lexemes. `Script` is `run_script` of sqlrs: lines, commands,
statements, errors and the drained DBMS_OUTPUT. Any statement may write lines; the
history field `owed` says that the last one was PL/SQL that succeeded with
SERVEROUTPUT ON, behind which all of them have to be shown.

`WireBuffers`, `TypeCodecs` and `Documents` are pure functions on sequences of
bytes: each encoder of the code with its decoder. OSON and the collection
pickles are in `Documents`, with the variants of the format that only a server
writes; a decoder ends with a value, an Err or, where the code takes a slice
without a check, a panic. The loops over texts, buffers and fields are recursive functions on the
positions of their input, so that the proofs can reason about them; only
`Documents`, whose values nest, has recursive operators.

`Operations` puts all of these together for model checking. The parts share no
state, so a behaviour is one of a single part, chosen in the initial state:
interleaving them would only multiply states. In the part "samples" the one step
takes an input of the chosen kind, and the properties of the pure functions are
action properties of that step (evaluated once for each input). `MCOperations`
adds `Documents` and its property, so that nothing that `Operations` extends has
a recursive operator and theorems can be stated about it.

### The C interface

`FfiSession` has the sessions (`sess`), their transactions in Oracle (`orcl`: the
uncommitted changes and the savepoints, external), and PostgreSQL (`pg`: the open
subtransactions and which callbacks are still due, external). A PostgreSQL
backend is single threaded: one exported function is one action, and
`raise_pg_error` leaves it with a long jump, after which PostgreSQL aborts the
current level. A rollback to s<N> erases the savepoints of deeper levels, as
Oracle does (`RollbackTo`). The callbacks come to every registered session in any order, and
each may fail. `done`, `committed` and `aborted` are history variables: the
changes ever made, those committed, and the subtransactions aborted. The row
buffers that PostgreSQL owns, with the LOB handles put into them, are in `sess`.

## Runs

| Run | Shows | Bounds |
|---|---|---|
| `exchange` | `Attribution`, `CleanWire`, `LogoffLast`, `ClosedForGood`, and that the exchange implements `SerialCalls` | 2 tasks, 3 requests, responses of 1-2 packets, BREAKs, a lost connection, close at any time |
| `exchange_cancel` | with dropped futures every remaining operation still returns (`OpReturns`) | 2 tasks, 2 requests |
| `exchange_leftovers` | `OpReturns` for a caller that drops operation after operation: whole responses, BREAKs and RESETs of earlier exchanges are on the wire | 1 task, 4 requests (the fewest after which a marker meets a half-read response) |
| `statements` | `CompleteResult`, `NoStaleCursor`, `InUseHeld`, `CacheBound` | 2 tasks, 4 operations, cache of 1, fetch size 2, results of 1, 2 and 5 rows, an update, a DDL, one dropped future |
| `handshake` | `ReadyForUse`: a connection handed to the caller has nothing in flight (`ReadyIsClean`) and both sides agree on field version and END_OF_RESPONSE (`Negotiated`); `Authenticated`: Ready only after the server took the password and gave no wrong proof (no proof at all is accepted, `messages/auth.rs:695`); `Readable`: every packet has the header and field version its reader expects; `StateAdvances`; `HandshakeEnds`: connect returns, unless an authentication answer of a server without END_OF_RESPONSE is not recognised | versions 314, 315, 318 and 319, field versions 7, 17 and 24, all flags and verifiers, 3 resends (as in the code), authentication answers in one or two packets |
| `operations` | LOBs: `ChunkedReadExact`, `ChunkedReadEnds`, `ReadBfileCleansUp`, `OpenByCallerStaysOpen`. Cursor: `ScrollDelivers`. Responses: `RowsExact`, `ErrorsExact`, `OutBindsExact`. sqlrs: `StatementsWhole`, `OutputDrained`. Pure functions: `TextScansExact`, `FieldsRoundTrip`, `CodecsRoundTrip` (its numbers without the fractions of `number_fraction`), `DocumentsRoundTrip`, `RequestsConsistent` | see below |
| `ffi` | `AbortedWorkNeverCommitted`, `CommitKeepsWork`, `NothingLeftOpen`, `CurrentRowReadable` | 2 sessions (one of them runs queries), 2 transactions, 1 subtransaction, 2 changes, 2 queries, 2 slots |
| `number_fraction` | violation: 0.05 is encoded as 0.5 | numbers of up to 3 + 3 digits |
| `exchange_scan` | violation: the scan behind a PARAMETER message matches raw bytes | LOB reads of 2 packets |
| `exchange_unflagged` | violation: a response without END_OF_RESPONSE that begins with a describe or row message is never recognised as complete | one-packet responses |
| `exchange_broken` | violation: errors that leave by `?` do not set `closed` | |
| `statements_reuse` | violation: a cached statement never has a cursor to reuse | |

### Why the bounds are enough

*Exchange and statements.* Two tasks give every conflict over the mutex and the
cache: a holder, and one that checked before and acts after. A response of two
packets has a first, a middle point and a last, and can be broken at each. Three
requests are an operation, its second round trip and another task's operation
behind it. In `statements` the results end inside the first batch, on its
boundary and two batches later, and a cache of one entry is full as soon as one
statement is in it. `SeqModulus` is 4 in place of 256, so that the sequence
number wraps. `MaxRequests` and `MaxOps` bound the behaviours and nothing else.
`CacheBound` is what holds of the size of the cache: `put` inserts although every
entry is in use, so the cache may exceed `max_size` up to the number of tasks and
of futures dropped with an entry; what it has grown by it keeps, for `put` evicts
one entry at most. `InUseHeld` says how the code recovers such an entry: the next
execution of the text misses it and its `put` takes it out of use.

*LOBs.* A CLOB of three elements, a BFILE of two and a temporary LOB, each read
whole, in chunks of 1 and 2 and with a server's recommendation of 0 and 3
(`MinChunk` 2 stands for the 8192 below which the code does not go), so that the
last chunk is full, short or missing; one write or trim comes at every point of
every read. Two tasks are a reader and whoever interferes; `MaxLen` and
`MaxWrites` bound the LOBs and the changes.

*Cursor.* A result of two rows, offsets -2 and 2, and a position up to
`MaxStray` = 1 beyond either end: each orientation meets the inside, both ends
and the outside.

*Responses.* Nine columns give a bit vector its second byte, and the first and
the last of them vary (over two of the `CellValues`); tables of up to four rows with batches of two end inside
a batch, on its boundary and behind it; a batch of three rows fails at any subset
of them; two parameters have each direction. `NoDataErrors` is FALSE: an ORA-01403
raised by a DML statement or a batch is taken for success by the code
(`connection.rs:2060`, `4273`), and `ErrorsExact` is claimed without it.

*Script.* Two statements of up to three lines with three commands among them and
two lines of output for each statement: a block is followed by SQL and SQL by a
block, with lines left over from the first. `OutputDrained` claims nothing behind a
statement that fails, SQL and a CREATE: the code drains behind `Execution::Plsql`
and EXEC only, and their lines wait for the next of these.

*Samples.* Lengths on both sides of each limit: 0, 1, 252, 253, 256, 257 and 300
bytes for fields (short form up to 252, `ChunkSize` 256 for 32767), 31, 32, 255
and 256 for OSON strings, 255 names and 256 items in a document, 245 and 246
elements in a collection, an array of 65536 items and a string of 65536 bytes
(sizes of four bytes in place of two), SDUs of 13 and 270 with both header formats, dates
before and after the year 0 and at the ends of every field, all lexeme texts of
length 4 and call texts of length 5. Bind values are of every kind but Boolean, in
batches and as IN, OUT and IN OUT parameters. What is outside is known not to be
read back, or not looked at; the hazard list has the lines:

- Binds: text, bytes, JSON and vector data above 252 bytes (written as 254, the
  length and the data without the terminating empty chunk, JSON and vectors with
  a length of two or four bytes, `messages/execute.rs:814`, `926`), Booleans (a length
  of 2 before one byte, `messages/execute.rs:834`; an OUT BOOLEAN has such a
  placeholder) and rows whose first value of a column is an untyped NULL (it declares
  VARCHAR of the size 1). For PL/SQL: row ids (declared ROWID, written as text),
  LOBs other than CLOBs (declared CLOB, `statement.rs:266-287`), and IN OUT values
  longer than their `buffer_size`. A collection with elements has a type OID (without
  one the code returns an Err before sending), and `skip_row_data` is never set.
- Documents: more than 255 names, a name above 255 bytes, and names of more than
  65535 bytes together (the encoder counts with one byte, and two in the offsets);
  intervals in a document (an Err in the decoder). A VECTOR in a document is read as
  an empty array, a document cut inside its names makes the decoder panic
  (`types/oson.rs:228-277`), and of a BINARY_INTEGER in a collection the low 32 bits
  come back without a sign (`types/pickle.rs:284`, `373`): the property says so
  (`ExpectedJson`, `ExpectedElement`, `JsonReadBack`).
- Vectors: a sparse one whose number of indices is not the number of values that
  `VectorData::len` counts. For a binary one that is a bit for each index; its
  values are read as count / 8 bytes (`types/vector.rs:306`), so one with a byte for
  each index, which `OracleVector::sparse` allows, is not read back.
- Buffers: messages above 65535 bytes without large SDU, and an SDU of 10 or less.

*C interface.* Two sessions are the least number for an order of callbacks and a
commit that fails at the second; two transactions show what is left from the
first. One of the two sessions also prepares queries. A buffer of two slots wraps
with a result of three rows, one with NULLs. What `MaxSubs` = 1 and the other
bounds leave out the proofs cover: they hold for any nesting, any number of
sessions and any results.

Deadlock is not checked in any run: the program may stop when no task calls
anything.

### Reply shapes

`exchange` assumes a server that makes the end of each response recognisable: the
flag, or a scan that hits in the last packet and not earlier. `exchange_scan`
drops that assumption for one shape. `exchange_unflagged` shows the other side: a
server that negotiated no END_OF_RESPONSE ends a query response with an ERROR
message that the scan does not reach, and the receive loop keeps the mutex for
ever; the driver has no read timeout. With cancellation `Attribution` and
`CleanWire` are not claimed: the response of a dropped operation stays on the
wire and the next operation reads it.

### Fairness

`OpReturns` assumes weak fairness of a task's own steps (tokio polls a ready
task), strong fairness of taking the mutex (tokio's mutex is first in, first
out), and weak fairness of the server's answers: it answers or the connection
ends; `SrvBreak` and `SrvDrop` are not fair. Starting or closing is never forced.
`HandshakeEnds` assumes weak fairness of the client's steps and of the server's
answers, in the same sense. It excepts one state by name, `Unrecognised`: a server
without END_OF_RESPONSE has sent all of an authentication answer whose first message
does not tell its end, as the Protocol message of a fast authentication answer, and
the client waits for more. That is the same loop and scan as in `exchange_unflagged`. `ChunkedReadEnds` assumes that the next round trip of
an operation under way comes in the end (`LobFairness`); errors, dropped futures
and other tasks are not fair.

### Disagreements found

The five violation runs are the `findings` of `PROJECT.json`, each with the line
of the code and of the text it contradicts: the false positives of
`scan_for_terminal_message`, the receive loop that never ends without
END_OF_RESPONSE, connection errors that do not mark the connection closed, cached
cursors that are never reused, and `encode_oracle_number`, which pairs the digits
of a number whose point is at a negative odd place one digit off (`% 2 == 1` is
never true of a negative number in Rust).

## Proofs

Eight modules hold the proofs: `TnsExchangeProofs`, `StatementExecutionProofs`,
`HandshakeProofs`, `LobOpsProofs`, `ResponsesProofs` (with those about
`ScrollableCursor`), `FfiSessionProofs`, `AlgorithmProofs` (about `SqlText`,
`WireBuffers` and `TypeCodecs`) and `OperationsProofs` (about `Script` and the
composition). They assume the named assumptions on the constants
(`ExchangeConstants`, `CacheConstants`, `ExecutionConstants`,
`HandshakeConstants`, `LobConstants`, `ResponseConstants`, `CursorConstants`,
`ScriptConstants`, `FfiConstants`, `WireConstants`, `OperationsConstants`,
`SamplesTyped`) and nothing else, except where a theorem states its hypotheses.

*Exchange.* `TypeCorrect`: `Spec => []TypeOK`. `OneExchangeAtATime`: a task
between its request and the end of its response owns the mutex, cancellations
included. `ResponsesAttributed` and `WireLeftClean`: `[]Attribution` and
`[]CleanWire`, under two hypotheses: no cancellation, and `SoundReplies`, which
says of the constants that no packet of a reply before its last one looks like
the end and that the small LOB calls are answered with one packet (the run
`exchange_scan` shows what happens without it). The two properties are not
inductive. The invariant adds where each packet of an exchange can be: `LockView`
says who holds the mutex, `ClientView` what the owner may still read (packets for
its request, a last packet behind all others, a BREAK behind the data it
interrupts), `AccView` what it has read (packets for its request, none of them
the last unless the reply is drained), and `ServerView` that a server that is up
is in one of five positions: quiet, asked, answering, interrupted, or sent a
RESET. Each action moves the exchange from one position to the next, and the
mutex is freed only in the quiet one. `NothingBehindLogoff` (`[]LogoffLast`,
without cancellation, for any replies) adds that the sender of a LOGOFF that is
still on the wire holds the mutex as long as the stream lives (`LogoffView`).
`NeverRevived` (`ClosedForGood`, cancellation included) rests on `ClosedView`: in
the Closed state nothing is left to read and no task has a response to parse.
`SerialCallsImplemented` is the refinement: under the hypotheses of `[]Attribution`
each step of the exchange is a step of `SerialCalls` or a stutter. The answer that
`SerialCalls` gives is the task's own by `Attribution`, and is given to a
connection that is not closed by `ClosedView`.

*Statements.* `TypeCorrect` (DDL never enters the cache), `CursorsNotReused`
(`[]NoStaleCursor`), `QueriesComplete` (`[]CompleteResult`: any number of rows,
any fetch size, any interleaving), `CacheStaysBounded` (`[](InUseHeld /\
CacheBound)`, any cache size, any number of tasks) and `InUseIsHeld`. Behind
`QueriesComplete` is `ExecInv`: a statement about to be executed has no cursor, so
every execution opens its own, no two fetching tasks share one, and the rows of a
task are a prefix as long as what its cursor has delivered. Behind
`CacheStaysBounded` is that entries in use and not abandoned inject into the tasks
that hold them, and that a dropped future abandons at most one.

*Handshake.* The invariant (`HandshakeInvariant`) says at each control point what
the client knows there (`Known`: capabilities, header size and state as functions
of the server's profile) and what is in flight (`InFlight`: the one request sent
there, or the one answer to it, or nothing after a failure). An answer that
comes in packets is kept whole: what has been received and what is still in flight
are together the messages of one answer, cut at any place. All properties of the
run but the liveness follow from it, for any set of servers.

*LOBs.* `LobInv`: the size in a locator is that of the LOB until its version
changes, and what a read has gathered is the content up to its offset. From it
`ChunksExact`, for LOBs, chunk sizes and recommendations of any size. `FilesInv`:
at most one read_bfile will close a file, and never one that a caller opened.
From it `NoFileLeftOpen` and `CallersFileStaysOpen`. `LobTypeCorrect` (`LobTypeOK`,
for initial contents within `MaxLen`) needs both and `BoundsInv`: locators are no
larger than the bound, and outside a read the offset is 0.

*Cursor.* `ScrollAlwaysDelivers`, for results of any length and any offsets; only
the typing of the position is needed.

*Responses.* Three things are assumed of the server, and stated at the head of the
module: it does not refer from the first row of a batch to the batch before, it
sends a bit vector in a row header in answer to a fetch only, and no Parameter or
Piggyback message in answer to a fetch, which would end `parse_fetch_response`.
`OutBindsExact` is besides about an IoVector that names the OUT binds that the
caller declared. `RespInv`, for any columns, tables, batch and fetch sizes, binds and
orders of messages. `RowsInv` carries `RowsAlwaysExact` (`[]RowsExact`): behind
every message of a query the rows are a prefix of the result, the previous row is
the last one of this response, and the bit vector, if there is one, names exactly
the columns that the next row repeats. That a row is then put together right is
`RowExact`: the parser takes the n-th value on the wire for the n-th column whose
bit is set, so the proof needs that a column is found again by its rank among the
columns sent (`RankInjective`, `NthOfRank`) and that bit `c % 8` of byte `c / 8`
says what the server meant (`BitVectorExact`). `OutInv` says of a block's OUT row
that the k-th value is that of the k-th bind the IoVector named;
`OutBindsAlwaysExact` follows. `ErrorsAlwaysExact` (`[]ErrorsExact`) adds
`AnswerInv`, what the parser has concluded when it has read the Error message, and
`BatchErrorsExact`, that the list built from the arrays of codes and offsets has
one entry for each row that failed, and no other. It is the only one with a hypothesis, `~NoDataErrors`, for
the reason given under the bounds. `KindInv` and `StageInv` say which parser is at
work and which messages it can still be given.

*sqlrs.* `ScriptInv`, for scripts of any length: between statements nothing is
gathered and the last statement of the script is the last one executed; inside a
statement the buffer is exactly its lines so far, the statement before it is the
last one executed, and `block_mode` says whether it is a PL/SQL block. From it
`StatementsAlwaysWhole` (`[]StatementsWhole`). `OutputAlwaysDrained`
(`[]OutputDrained`) has two halves: PL/SQL that succeeds with SERVEROUTPUT ON always
goes on to the drain (`ReadOrDrain`, over all the arms of `execute_statement`
and EXEC), and the drain is left for the next line at an empty buffer only
(`DrainedStep`).

*Induction.* The scanners, the buffers and the numbers are loops, and what a loop
computes for every input is proved by induction. The library's induction theorems
take an operator as a parameter and cannot be used; `AlgorithmProofs` begins with
first-order forms of them, in which the predicate is the set of the numbers that
satisfy it: `Induction` and `UpToInduction` (a set that holds 0 and with each
number the next one holds them all), derived from the library's `WFMin` and
`NatLessThanWellFounded`. The same form shows that the recursive functions of the
model exist and satisfy their equations: `RunExists` and `RunUnfolds` for loops
that go up from the first position, `DownExists` for `ReadChunks`, whose value at
a position depends on later ones.

*Scanners.* For texts of any length. `BindsAlwaysExact`: the state of
`parse_bind_variables` behind each position is what the region of the reference
says, and the k-th bind in its list is the one whose position has rank k among
the positions that count; for PL/SQL the list names nothing twice.
`SqlrsAlwaysAgrees`: behind each position the two scanners have found the same
names. `ArgumentsAlwaysExact`: depth and quotes of `split_top_level` are the
counts of the reference, and the parts gathered are those between the cuts so far.

*Buffers and packets.* `PacketsExact` is about `send_multi_packet`, for any
payload, any SDU and both header formats: every packet announces the bytes it
holds and stays within the SDU, the last one only ends the request
(`PacketsAnnounced`), and the parts are the payload, each byte once and in order.
`FieldsAlwaysReadBack` is the round trip of whole messages, for any number of
fields, data of any length, any `ChunkSize` a ub4 can hold (32767 in the code) and
any SDU. Its argument: when the bytes of a field stand at a position of a buffer
(`StandsAt`), its reader gives the field's value and the position behind it, and
when the buffer ends earlier it gives an Err (`ReadsAs`). For numbers this is one
step; for long data it goes along the chain of chunks, backwards from the empty
chunk that ends it. Fields are then read one behind the other by induction over
the message, a cut falls into one field, and the joined parts of the packets are
the message (`PacketsExact` again).

*Codecs.* What is read back is what was written, for every value: numbers with any
digits, sign and exponent in range, the timestamps of the years -9999 to 9999 with every fraction and offset, the intervals of all
32-bit years and days, BINARY_FLOAT and BINARY_DOUBLE of any bits (and their
encodings sort as the values do), every ROWID, whether the server sends its type
byte or not, and vectors of every format and length, sparse ones with as many
indices as values (see Samples). The proofs
take the bytes of each field apart and find them again at their place in the
encoding; those of a vector are a header of known length (`HeadOf`) and pieces of
equal size behind it (`EvenPieces`). The ranges are those of the Rust types and of
what one byte with an offset can hold.

*Numbers* (`NumbersReadBack`). The digits of a text are a bare sequence, with no zero
at either end, between zeros (`Padded`), and the encoder puts at most one zero before
and one behind them, to make pairs from the point (`Pairing`). By induction over the
pairs, what decode_oracle_number has gathered is a front of the digits, and the zero
in front has moved the point instead (`PairsBack`); the zero behind is the second
digit of the last byte, which it leaves out. The exponent byte gives back the point
(`PointKept`): here the fractions with an odd number of zeros behind the point have
to be excluded, those of the run `number_fraction`. A byte 102 at the end of a
negative number is never taken for a mantissa byte or the reverse, at 20 pairs and
beyond too (`NumberDecoded`), and the text written has the same digits and point.

*Requests.* `RequestsAlwaysConsistent` goes through the calls that `Requests` lists
and shows of each that the body behind its header is what the header announces: the
binds counted are the values of a row (`ValuesMatch`), one row follows for every
execution, and no statement has both defines and values. It needs nothing of the
values but that all rows are of one length. `BindsAlwaysFit` looks at the values: the
types come from the first row, so the rows must have one schema (`OneSchema`), the
size of a column is the largest of all rows (`MaxSizeIs`), and every value is written
as the field as which it is read (`BindWritten`), so that the lemma about the fields
of a message (`WholeRead`) reads a row back. `BindValues` names the values: what the
encodings of `TypeCodecs` and the fixed sizes of infer_bind_metadata allow, of every
kind but Boolean and up to 252 bytes. `PlsqlParams` names the parameters of a PL/SQL
call whose declared type is the one their value is written in, with an IN OUT size
that covers it; what an OUT parameter declares is not compared with its placeholder,
which the server ignores (`Taken`), but the placeholder is framed like any value.
What the two sets leave out is the list under Samples.
`LobRequestsAlwaysExact` compares fields with shapes: two fields are read alike when
the shape says what the reader goes by (`Alike`), so the opening and the pointers of
a LOB request are read whatever stands behind them (`HeadRead`), and their values
give the shape of the tail (`TailRead`). `LobRequestsBuilt` shows that what every
constructor builds is among the operations of the theorem.

*Composition.* `PartsBehave`: `Spec` of `Operations` implies `LobSpec`,
`CursorSpec`, `RespSpec` and `ScriptSpec`, for the steps of each part leave the
variables of the others unchanged. So every theorem about a part holds in the
composition, and `TypesCorrect` is `[]TypeOK` of it. `TextsAlwaysScanned`,
`FieldsAlwaysRoundTrip`, `CodecsAlwaysRoundTrip` and `RequestsAlwaysExact` state the
properties that the run checks, `TextScansExact`, `FieldsRoundTrip`,
`CodecsRoundTrip` and `RequestsConsistent`, for any set of samples in the ranges
above, infinite ones included; the hypotheses on `Samples` are those ranges, and the
samples of `MCOperations` lie within them.

*C interface.* `FfiInv` is the conjunction of what follows. A savepoint exists
only for levels that were open when the session was got, and `oracleGetSession`
sets them before any work, so rolling back to one empties the log (`LogView`:
every entry of the log was done at the place where the session was got). A
session with xact_level 0 has an empty log, and a level is aborted only after
every pending session was called (`XactView`); commits come at level 1 only
(`SubsView`). `HistoryView` then keeps aborted work out of `committed`.
`KeptView` says where work that may still be committed is: committed, in the log,
lost with a broken connection whose session is still in a transaction, so that
its commit will raise, or undone with
an aborted level. The rows need an invariant of their own, `RowView`: the slot of
the current row holds the row's values and a live handle.

Only model-checked: `OpReturns`, `HandshakeEnds` and `ChunkedReadEnds` (liveness
under fairness is outside the prover); and `DocumentsRoundTrip` (documents nest, and
the prover cannot work above a RECURSIVE operator).

## Not modelled

Cryptography, TLS and sockets (libraries), redirects (an error in the code), the
connect descriptor and `config.rs` beyond what the handshake reads, the runtime
capabilities, the table of `messages/data_types.rs` (a constant without control),
`error.rs`, `constants.rs` and `lib.rs` (declarations), the builders of
`batch.rs` and the typed getters of `row.rs` (they only collect and convert),
conversions to and from Rust's floats and strings, pickled objects with
attributes, the describe fields nobody reads, the handle registries and the
formatting of values in `ffi.rs`, terminal output and options of sqlrs, wording of
errors, tracing, statistics of the cache. The wording matters once: with part of
a response kept in front of an error the parser reports a protocol error in place
of the ORA error (`parse_error_response`); the model says only whose response it
is.

The handshake is modelled without a dropped future (nobody else has the
connection yet), and `StatementExecution` with drops between round trips only: one
dropped during a round trip leaves its response on the wire, which is
`TnsExchange`'s matter.

Three properties have a limit that their comments name. `CommitKeepsWork` excepts
work that a rollback of PostgreSQL's own subtransactions takes along: `ffi.rs` has one
savepoint for a level, set when the session is got, so the abort of a later
subtransaction of the same level also undoes what a released one had done.
`NothingLeftOpen` assumes that a ROLLBACK fails only on a connection whose changes
the server undoes: `oracleEndTransaction` drops the error of an abort (`ffi.rs:940`).
`CurrentRowReadable` is about rows that were returned: a LOB read that fails in
the middle of a row leaves the columns before it overwritten in the slot
(`ffi.rs:1286`), and no row is returned.

## What could come next

Object values with attributes, on both sides of the wire, and q-literals and
quoted identifiers among the lexemes of `SqlText`.
