------------------------------- MODULE LobOps -------------------------------
(***************************************************************************)
(* The LOB and BFILE operations of Connection: read_lob, read_lob_range,   *)
(* read_lob_chunked, write_lob, lob_trim, lob_length, create_temp_lob, the *)
(* bfile_ operations and read_bfile.                                       *)
(*                                                                         *)
(* Every round trip is one step (see TnsExchange).  The operations made of *)
(* several round trips release the connection between them, so the steps   *)
(* of other tasks, of other sessions, a server error or a dropped future   *)
(* may come in between.  A locator carries the size that the LOB had when  *)
(* the locator was fetched; it is never brought up to date.  What READ     *)
(* does with an amount of zero, which read_lob sends for a locator without *)
(* a size, is the server's choice, and no property depends on it.          *)
(***************************************************************************)
EXTENDS Integers, Sequences, FiniteSets

CONSTANTS
  NoLob,      \* the content of a temporary LOB not created yet
  Tasks,      \* tasks sharing the connection
  KindOf,     \* KindOf[l]: "clob", "blob", "temp" or "bfile"
  Contents,   \* contents[l]: what LOB l holds at the start
  Letters,    \* what is written
  MaxLen,     \* bound: length of a LOB
  MaxWrites,  \* bound: writes and trims in a behaviour
  ChunkSizes, \* chunk sizes that callers ask for; 0 asks for the server's
  MinChunk,   \* 8192 in the code
  SrvChunks   \* chunk sizes the server may recommend

Lobs == DOMAIN KindOf

\* What LOBs consist of.
LobData == Letters \cup UNION {{Contents[l][i] : i \in DOMAIN Contents[l]} : l \in Lobs}

ASSUME LobConstants ==
  /\ IsFiniteSet(Tasks) /\ IsFiniteSet(Lobs) /\ Lobs # {}
  /\ \A l \in Lobs : Contents[l] \in Seq(LobData)
  /\ NoLob \notin Seq(LobData)
  /\ \A l \in Lobs : KindOf[l] \in {"clob", "blob", "temp", "bfile"}
  /\ MinChunk \in Nat \ {0}
  /\ MaxLen \in Nat /\ MaxWrites \in Nat
  /\ ChunkSizes \subseteq Nat /\ SrvChunks \subseteq Nat

VARIABLES
  content,    \* server: content[l], a sequence, or NoLob
  ver,        \* history: changes made to LOB l so far
  is_open,    \* server: the BFILE is open in this session
  by_user,    \* history: it was opened with bfile_open by a caller
  leaked,     \* history: BFILEs whose closing failed or was dropped
  loc,        \* per task: the locator it holds
  pc,         \* per task: control point
  chunk,      \* per task: chunk_size of read_lob_chunked
  offset,     \* per task: its next offset, from 1
  got,        \* per task: what the operation has read
  closes      \* per task: should_close of read_bfile

lobVars == <<content, ver, is_open, by_user, leaked>>
taskVars == <<loc, pc, chunk, offset, got, closes>>
lobOpsVars == <<lobVars, taskVars>>

NoLocator == [lob |-> CHOOSE l \in Lobs : TRUE, size |-> 0, ver |-> -1]

LobInit ==
  /\ content = [l \in Lobs |-> IF KindOf[l] = "temp" THEN NoLob ELSE Contents[l]]
  /\ ver = [l \in Lobs |-> 0]
  /\ is_open = [l \in Lobs |-> FALSE]
  /\ by_user = [l \in Lobs |-> FALSE]
  /\ leaked = {}
  /\ loc = [t \in Tasks |-> NoLocator]
  /\ pc = [t \in Tasks |-> "idle"]
  /\ chunk = [t \in Tasks |-> 0]
  /\ offset = [t \in Tasks |-> 0]
  /\ got = [t \in Tasks |-> <<>>]
  /\ closes = [t \in Tasks |-> FALSE]

----------------------------------------------------------------------------
\* The server (external)

IsBfile(l) == KindOf[l] = "bfile"

\* Mutant: the end of the range is counted as if offsets began at 0.
ReadLobInternalInclusive(l, off, amount) ==
  SubSeq(content[l], off, IF off + amount < Len(content[l]) THEN off + amount
                          ELSE Len(content[l]))

\* What a READ request returns: less than was asked for at the end of the LOB.
ReadLobInternal(l, off, amount) ==
  SubSeq(content[l], off, IF off + amount - 1 < Len(content[l]) THEN off + amount - 1
                          ELSE Len(content[l]))

\* A BFILE is read only while it is open.
Readable(l) == content[l] # NoLob /\ (IsBfile(l) => is_open[l])

----------------------------------------------------------------------------
\* Locators

Idle(t) == pc[t] = "idle"
Lob(t) == loc[t].lob
HasLocator(t) == loc[t].ver >= 0

\* Task t returns from its operation, with what it has read or an error.
Return(t) ==
  /\ pc' = [pc EXCEPT ![t] = "idle"]
  /\ chunk' = [chunk EXCEPT ![t] = 0]
  /\ offset' = [offset EXCEPT ![t] = 0]
  /\ got' = [got EXCEPT ![t] = <<>>]
  /\ closes' = [closes EXCEPT ![t] = FALSE]

\* parse_lob_value of a fetched column: a BFILE has no size in its locator.
LocatorOf(l) == [lob |-> l, size |-> IF IsBfile(l) THEN 0 ELSE Len(content[l]),
                 ver |-> ver[l]]

FetchLocator(t, l) ==
  /\ Idle(t) /\ KindOf[l] # "temp"
  /\ loc' = [loc EXCEPT ![t] = LocatorOf(l)]
  /\ UNCHANGED <<lobVars, pc, chunk, offset, got, closes>>

\* create_temp_lob: the locator says size 0 and is not changed by later writes.
CreateTempLob(t, l) ==
  /\ Idle(t) /\ KindOf[l] = "temp" /\ content[l] = NoLob
  /\ content' = [content EXCEPT ![l] = <<>>]
  /\ loc' = [loc EXCEPT ![t] = [lob |-> l, size |-> 0, ver |-> ver[l]]]
  /\ Return(t)
  /\ UNCHANGED <<ver, is_open, by_user, leaked>>

----------------------------------------------------------------------------
\* Reading

\* lob_length, and bfile_exists: one round trip that changes nothing.
Ask(t) ==
  /\ Idle(t) /\ HasLocator(t) /\ content[Lob(t)] # NoLob
  /\ Return(t)
  /\ UNCHANGED <<lobVars, loc>>

\* read_lob, read_clob and read_blob: all of the size in the locator at once.
ReadLob(t) ==
  /\ Idle(t) /\ HasLocator(t) /\ Readable(Lob(t))
  /\ got' = [got EXCEPT ![t] = ReadLobInternal(Lob(t), 1, loc[t].size)]
  /\ offset' = [offset EXCEPT ![t] = loc[t].size + 1]
  /\ pc' = [pc EXCEPT ![t] = "whole"]
  /\ UNCHANGED <<lobVars, loc, chunk, closes>>

\* read_lob_chunked: nothing to do for size 0, else the chunk size comes first.
BeginChunked(t, chunk_size) ==
  /\ Idle(t) /\ HasLocator(t) /\ loc[t].size # 0
  /\ offset' = [offset EXCEPT ![t] = 1]
  /\ chunk' = [chunk EXCEPT ![t] = chunk_size]
  /\ pc' = [pc EXCEPT ![t] = IF chunk_size = 0 THEN "size" ELSE "chunk"]
  /\ UNCHANGED <<lobVars, loc, got, closes>>

\* Mutant: the server's recommendation is taken as it is.
NaturalChunkUnbounded(n) == n

\* lob_chunk_size(..).max(8192)
NaturalChunk(n) == IF n < MinChunk THEN MinChunk ELSE n

AskChunkSize(t, n) ==
  /\ pc[t] = "size"
  /\ chunk' = [chunk EXCEPT ![t] = NaturalChunk(n)]
  /\ pc' = [pc EXCEPT ![t] = "chunk"]
  /\ UNCHANGED <<lobVars, loc, offset, got, closes>>

\* Mutant: the last chunk is as long as the others.
ChunkAmountUnclipped(t) == chunk[t]

\* The amount of the next chunk.
ChunkAmount(t) ==
  LET remaining == loc[t].size - offset[t] + 1
  IN  IF remaining < chunk[t] THEN remaining ELSE chunk[t]

\* One turn of the loop: read, callback, advance.
ReadChunk(t) ==
  /\ pc[t] = "chunk" /\ offset[t] <= loc[t].size
  /\ got' = [got EXCEPT ![t] = @ \o ReadLobInternal(Lob(t), offset[t], ChunkAmount(t))]
  /\ offset' = [offset EXCEPT ![t] = @ + ChunkAmount(t)]
  /\ UNCHANGED <<lobVars, loc, pc, chunk, closes>>

\* Either operation returns.
ChunksDone(t) ==
  /\ pc[t] \in {"chunk", "whole"} /\ offset[t] > loc[t].size
  /\ Return(t)
  /\ UNCHANGED <<lobVars, loc>>

----------------------------------------------------------------------------
\* Writing

Change(l, new) ==
  /\ Len(new) <= MaxLen
  /\ ver[l] < MaxWrites
  /\ content' = [content EXCEPT ![l] = new]
  /\ ver' = [ver EXCEPT ![l] = @ + 1]

\* write_lob, write_clob and write_blob of one letter.
WriteLob(t, off, letter) ==
  /\ Idle(t) /\ HasLocator(t) /\ ~IsBfile(Lob(t))
  /\ content[Lob(t)] # NoLob
  /\ LET old == content[Lob(t)]
     IN  /\ off \in 1..(Len(old) + 1)
         /\ Change(Lob(t), [i \in 1..(IF off > Len(old) THEN off ELSE Len(old)) |->
                              IF i = off THEN letter ELSE old[i]])
  /\ Return(t)
  /\ UNCHANGED <<is_open, by_user, leaked, loc>>

LobTrim(t, new_size) ==
  /\ Idle(t) /\ HasLocator(t) /\ ~IsBfile(Lob(t))
  /\ content[Lob(t)] # NoLob /\ new_size < Len(content[Lob(t)])
  /\ Change(Lob(t), SubSeq(content[Lob(t)], 1, new_size))
  /\ Return(t)
  /\ UNCHANGED <<is_open, by_user, leaked, loc>>

----------------------------------------------------------------------------
\* BFILEs

OpenFile(l, user) ==
  /\ ~is_open[l]
  /\ is_open' = [is_open EXCEPT ![l] = TRUE]
  /\ by_user' = [by_user EXCEPT ![l] = user]
  /\ leaked' = leaked \ {l}

CloseFile(l) ==
  /\ is_open[l]
  /\ is_open' = [is_open EXCEPT ![l] = FALSE]
  /\ by_user' = [by_user EXCEPT ![l] = FALSE]
  /\ leaked' = leaked \ {l}

\* bfile_open and bfile_close; opening an open file, or closing a closed one, fails.
BfileOpen(t) ==
  /\ Idle(t) /\ HasLocator(t) /\ IsBfile(Lob(t))
  /\ OpenFile(Lob(t), TRUE)
  /\ Return(t)
  /\ UNCHANGED <<content, ver, loc>>

\* A caller closes what a caller opened.
BfileClose(t) ==
  /\ Idle(t) /\ HasLocator(t) /\ IsBfile(Lob(t)) /\ by_user[Lob(t)]
  /\ CloseFile(Lob(t))
  /\ Return(t)
  /\ UNCHANGED <<content, ver, loc>>

\* Mutant: read_bfile closes the file even if it was open before.
ShouldCloseAlways(was_open) == TRUE

\* should_close of read_bfile.
ShouldClose(was_open) == ~was_open

BfileIsOpen(l) == is_open[l]

\* read_bfile: is it open?
BeginReadBfile(t) ==
  /\ Idle(t) /\ HasLocator(t) /\ IsBfile(Lob(t))
  /\ pc' = [pc EXCEPT ![t] = IF BfileIsOpen(Lob(t)) THEN "b_read" ELSE "b_open"]
  /\ closes' = [closes EXCEPT ![t] = BfileIsOpen(Lob(t)) /\ ShouldClose(TRUE)]
  /\ UNCHANGED <<lobVars, loc, chunk, offset, got>>

\* No: open it.
ReadBfileOpen(t) ==
  /\ pc[t] = "b_open"
  /\ OpenFile(Lob(t), FALSE)
  /\ pc' = [pc EXCEPT ![t] = "b_read"]
  /\ closes' = [closes EXCEPT ![t] = ShouldClose(FALSE)]
  /\ UNCHANGED <<content, ver, loc, chunk, offset, got>>

\* read_blob, with the size 0 of the locator; the data is kept over the closing.
ReadBfileRead(t) ==
  /\ pc[t] = "b_read" /\ Readable(Lob(t))
  /\ pc' = [pc EXCEPT ![t] = IF closes[t] THEN "b_close" ELSE "idle"]
  /\ UNCHANGED <<lobVars, loc, chunk, offset, got, closes>>

\* Mutant: the error of the read returns at once.
AfterReadErrorReturns(t) == "idle"

\* The error of the read is returned only after the file is closed.
AfterReadError(t) == IF closes[t] THEN "b_close" ELSE "idle"

ReadBfileFails(t) ==
  /\ pc[t] = "b_read"
  /\ pc' = [pc EXCEPT ![t] = AfterReadError(t)]
  /\ UNCHANGED <<lobVars, loc, chunk, offset, got, closes>>

\* bfile_close; its error is ignored.
ReadBfileClose(t) ==
  /\ pc[t] = "b_close"
  /\ \/ CloseFile(Lob(t))
     \/ /\ leaked' = leaked \cup {l \in {Lob(t)} : is_open[l]}
        /\ UNCHANGED <<is_open, by_user>>
  /\ Return(t)
  /\ UNCHANGED <<content, ver, loc>>

----------------------------------------------------------------------------
\* Failures

\* The server answers a request with an error: the operation returns it.
OperationFails(t) ==
  /\ pc[t] \in {"size", "chunk", "b_open"}
  /\ Return(t)
  /\ UNCHANGED <<lobVars, loc>>

\* The future is dropped between two round trips.
Drop(t) ==
  /\ ~Idle(t)
  /\ Return(t)
  /\ leaked' = leaked \cup {l \in {Lob(t)} : closes[t] /\ is_open[l]}
  /\ UNCHANGED <<content, ver, is_open, by_user, loc>>

----------------------------------------------------------------------------
TaskStep(t) ==
  \/ ReadChunk(t) \/ ChunksDone(t) \/ \E n \in SrvChunks : AskChunkSize(t, n)
  \/ ReadBfileOpen(t) \/ ReadBfileRead(t) \/ ReadBfileFails(t) \/ ReadBfileClose(t)

LobNext ==
  \E t \in Tasks :
    \/ TaskStep(t) \/ OperationFails(t) \/ Drop(t)
    \/ \E l \in Lobs : FetchLocator(t, l) \/ CreateTempLob(t, l)
    \/ \E c \in ChunkSizes : BeginChunked(t, c)
    \/ Ask(t) \/ ReadLob(t)
    \/ \E off \in 1..MaxLen, a \in Letters : WriteLob(t, off, a)
    \/ \E n \in 0..MaxLen : LobTrim(t, n)
    \/ BfileOpen(t) \/ BfileClose(t) \/ BeginReadBfile(t)

\* A step of an operation comes in the end; errors and dropped futures need not.
LobFairness == \A t \in Tasks : WF_lobOpsVars(TaskStep(t))

LobSpec == LobInit /\ [][LobNext]_lobOpsVars /\ LobFairness

----------------------------------------------------------------------------
\* Properties

\* Every variable has its type.
LobTypeOK ==
  /\ \A l \in Lobs : content[l] = NoLob \/ Len(content[l]) <= MaxLen
  /\ leaked \subseteq {l \in Lobs : is_open[l]}
  /\ \A t \in Tasks :
       /\ Lob(t) \in Lobs
       /\ pc[t] \in {"idle", "size", "chunk", "whole", "b_open", "b_read", "b_close"}
       /\ offset[t] \in 0..(MaxLen + 1)
       /\ closes[t] \in BOOLEAN

(***************************************************************************)
(* The chunks that read_lob_chunked has given to the callback are, in      *)
(* order and without a gap or a repetition, the beginning of the LOB, and  *)
(* all of it when the operation returns, as long as nobody changed the LOB *)
(* since the locator was fetched; the same holds for read_lob.             *)
(***************************************************************************)
ChunkedReadExact ==
  \A t \in Tasks :
    ver[Lob(t)] = loc[t].ver /\ offset[t] > 1 /\ pc[t] \in {"chunk", "whole"} =>
      /\ got[t] = SubSeq(content[Lob(t)], 1, offset[t] - 1)
      /\ offset[t] > loc[t].size => got[t] = content[Lob(t)]

(***************************************************************************)
(* A BFILE is open only because a caller opened it, because a read_bfile   *)
(* that will close it is under way, or because the closing failed or the   *)
(* future of the read was dropped: an error of the read leaves nothing     *)
(* open.                                                                   *)
(***************************************************************************)
ReadBfileCleansUp ==
  \A l \in Lobs : is_open[l] =>
    \/ by_user[l] \/ l \in leaked
    \/ \E t \in Tasks : closes[t] /\ Lob(t) = l /\ pc[t] \in {"b_read", "b_close"}

(***************************************************************************)
(* read_bfile never closes a file that a caller opened with bfile_open:    *)
(* such a file is closed by bfile_close only, whatever the interleaving.   *)
(***************************************************************************)
OpenByCallerStaysOpen ==
  [][\A l \in Lobs : by_user[l] /\ ~by_user'[l] => \E t \in Tasks : BfileClose(t)]_lobOpsVars

(***************************************************************************)
(* read_lob_chunked comes to an end: every turn of its loop advances, also *)
(* with the chunk size the server recommends.                              *)
(***************************************************************************)
ChunkedReadEnds ==
  \A t \in Tasks : (pc[t] \in {"size", "chunk"}) ~> Idle(t)

=============================================================================
