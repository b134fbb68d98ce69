---------------------------- MODULE LobOpsProofs ----------------------------
(***************************************************************************)
(* Proofs about LobOps, for any tasks, LOBs, contents and chunk sizes, and *)
(* without a bound on the writes.                                          *)
(***************************************************************************)
EXTENDS LobOps, SequenceTheorems, TLAPS

Controls == {"idle", "size", "chunk", "whole", "b_open", "b_read", "b_close"}

LobTyped ==
  /\ content \in [Lobs -> Seq(LobData) \cup {NoLob}]
  /\ ver \in [Lobs -> Nat]
  /\ is_open \in [Lobs -> BOOLEAN]
  /\ by_user \in [Lobs -> BOOLEAN]
  /\ loc \in [Tasks -> [lob : Lobs, size : Nat, ver : Int]]
  /\ pc \in [Tasks -> Controls]
  /\ chunk \in [Tasks -> Nat]
  /\ offset \in [Tasks -> Nat]
  /\ got = [t \in Tasks |-> got[t]]
  /\ closes \in [Tasks -> BOOLEAN]

\* Only a temporary LOB may not exist yet.
Exists == \A l \in Lobs : KindOf[l] # "temp" => content[l] # NoLob

\* A locator is of a LOB that exists, and its size is right until the LOB is changed.
LocatorView ==
  \A t \in Tasks :
    /\ loc[t].ver <= ver[Lob(t)]
    /\ HasLocator(t) => content[Lob(t)] # NoLob
    /\ IsBfile(Lob(t)) => loc[t].size = 0
    /\ loc[t].ver = ver[Lob(t)] /\ ~IsBfile(Lob(t)) => loc[t].size = Len(content[Lob(t)])

\* What is read so far ends at the offset.
ReadView ==
  \A t \in Tasks :
    /\ pc[t] \notin {"chunk", "whole"} => got[t] = <<>>
    /\ pc[t] \in {"size", "chunk", "whole"} =>
         HasLocator(t) /\ offset[t] >= 1 /\ offset[t] - 1 <= loc[t].size
    /\ pc[t] = "size" => offset[t] = 1
    /\ pc[t] \in {"chunk", "whole"} /\ ver[Lob(t)] = loc[t].ver =>
         got[t] = SubSeq(content[Lob(t)], 1, offset[t] - 1)

LobInv == LobTyped /\ Exists /\ LocatorView /\ ReadView

----------------------------------------------------------------------------
LEMMA InitialLocator == NoLocator.lob \in Lobs /\ NoLocator.size = 0 /\ NoLocator.ver = -1
BY LobConstants DEF NoLocator

LEMMA LobsInit == LobInit => LobInv
<1> SUFFICES ASSUME LobInit PROVE LobInv
  OBVIOUS
<1>1. NoLocator \in [lob : Lobs, size : Nat, ver : Int]
  BY LobConstants DEF NoLocator
<1>2. LobTyped
  BY <1>1, LobConstants DEF LobInit, LobTyped, Controls
<1>3. Exists
  BY LobConstants DEF LobInit, Exists
<1>4. LocatorView
  BY InitialLocator DEF LobInit, LocatorView, Lob, HasLocator
<1>5. ReadView
  BY InitialLocator DEF LobInit, ReadView, Lob, HasLocator
<1> QED BY <1>2, <1>3, <1>4, <1>5 DEF LobInv

\* Steps of a task that change neither LOBs nor locators, and that leave its read behind.
LEMMA Leaving ==
  ASSUME LobInv, NEW t \in Tasks, Return(t), UNCHANGED <<content, ver, loc>>,
         is_open' \in [Lobs -> BOOLEAN], by_user' \in [Lobs -> BOOLEAN]
  PROVE  LobInv'
<1>1. LobTyped'
  BY DEF LobInv, LobTyped, Return, Controls
<1>2. Exists' /\ LocatorView'
  BY DEF LobInv, Exists, LocatorView, Lob, HasLocator, IsBfile
<1>3. ReadView'
  BY DEF LobInv, LobTyped, ReadView, Return, Lob, HasLocator, Controls
<1> QED BY <1>1, <1>2, <1>3 DEF LobInv

LEMMA FetchLocatorInv ==
  ASSUME LobInv, NEW t \in Tasks, NEW l \in Lobs, FetchLocator(t, l)
  PROVE  LobInv'
<1> USE DEF LobInv
<1> DEFINE n == IF IsBfile(l) THEN 0 ELSE Len(content[l])
           new == [lob |-> l, size |-> n, ver |-> ver[l]]
<1>1. content[l] \in Seq(LobData) /\ content[l] # NoLob
  BY DEF FetchLocator, Exists, LobTyped
<1>2. n \in Nat
  BY <1>1
<1>3. loc' = [loc EXCEPT ![t] = new] /\ pc[t] = "idle" /\ UNCHANGED <<lobVars, pc, chunk, offset, got, closes>>
  BY DEF FetchLocator, LocatorOf, Idle
<1>4. new.lob = l /\ new.size = n /\ new.ver = ver[l]
  OBVIOUS
<1>5. new \in [lob : Lobs, size : Nat, ver : Int]
  BY <1>2 DEF LobTyped
<1> HIDE DEF n, new
<1>6. LobTyped'
  BY <1>3, <1>5 DEF LobTyped, lobVars
<1>7. loc'[t] = new /\ \A u \in Tasks \ {t} : loc'[u] = loc[u]
  BY <1>3 DEF LobTyped
<1>8. Exists'
  BY <1>3 DEF Exists, lobVars
<1>9. LocatorView'
  <2> SUFFICES ASSUME NEW u \in Tasks
               PROVE  /\ loc'[u].ver <= ver[loc'[u].lob]
                      /\ loc'[u].ver >= 0 => content[loc'[u].lob] # NoLob
                      /\ KindOf[loc'[u].lob] = "bfile" => loc'[u].size = 0
                      /\ loc'[u].ver = ver[loc'[u].lob] /\ KindOf[loc'[u].lob] # "bfile"
                           => loc'[u].size = Len(content[loc'[u].lob])
    BY <1>3 DEF LocatorView, Lob, HasLocator, IsBfile, lobVars
  <2>1. CASE u = t
    BY <2>1, <1>1, <1>4, <1>7 DEF n, IsBfile, LobTyped
  <2>2. CASE u # t
    BY <2>2, <1>7 DEF LocatorView, Lob, HasLocator, IsBfile
  <2> QED BY <2>1, <2>2
<1>10. ReadView'
  BY <1>3, <1>7 DEF ReadView, Lob, HasLocator, lobVars, LobTyped
<1> QED BY <1>6, <1>8, <1>9, <1>10

LEMMA CreateTempLobInv ==
  ASSUME LobInv, NEW t \in Tasks, NEW l \in Lobs, CreateTempLob(t, l)
  PROVE  LobInv'
<1> USE DEF LobInv
<1> DEFINE new == [lob |-> l, size |-> 0, ver |-> ver[l]]
<1>1. /\ loc' = [loc EXCEPT ![t] = new] /\ content' = [content EXCEPT ![l] = <<>>]
      /\ content[l] = NoLob /\ KindOf[l] = "temp" /\ Return(t)
      /\ UNCHANGED <<ver, is_open, by_user>>
  BY DEF CreateTempLob
<1>2. new.lob = l /\ new.size = 0 /\ new.ver = ver[l]
  OBVIOUS
<1>3. new \in [lob : Lobs, size : Nat, ver : Int]
  BY DEF LobTyped
<1> HIDE DEF new
<1>4. <<>> \in Seq(LobData) /\ <<>> # NoLob
  <2>1. <<>> \in Seq(LobData)
    BY EmptySeq
  <2>2. NoLob \notin Seq(LobData)
    BY LobConstants
  <2> QED BY <2>1, <2>2
<1>5. LobTyped'
  BY <1>1, <1>3, <1>4 DEF LobTyped, Return, Controls
<1>6. loc'[t] = new /\ \A u \in Tasks \ {t} : loc'[u] = loc[u]
  BY <1>1 DEF LobTyped
<1>7. content'[l] = <<>> /\ \A k \in Lobs \ {l} : content'[k] = content[k]
  BY <1>1 DEF LobTyped
<1>8. Exists'
  BY <1>4, <1>7 DEF Exists
<1>9. \A u \in Tasks : HasLocator(u) => Lob(u) # l
  BY <1>1 DEF LocatorView
<1>10. LocatorView'
  <2> SUFFICES ASSUME NEW u \in Tasks
               PROVE  /\ loc'[u].ver <= ver[loc'[u].lob]
                      /\ loc'[u].ver >= 0 => content'[loc'[u].lob] # NoLob
                      /\ KindOf[loc'[u].lob] = "bfile" => loc'[u].size = 0
                      /\ loc'[u].ver = ver[loc'[u].lob] /\ KindOf[loc'[u].lob] # "bfile"
                           => loc'[u].size = Len(content'[loc'[u].lob])
    BY <1>1 DEF LocatorView, Lob, HasLocator, IsBfile
  <2>1. CASE u = t
    BY <2>1, <1>2, <1>4, <1>6, <1>7 DEF LobTyped
  <2>2. CASE u # t
    <3>1. loc[u].lob \in Lobs /\ loc[u].ver \in Int /\ ver[loc[u].lob] \in Nat
      BY DEF LobTyped
    <3>2. loc[u].ver >= 0 => content'[loc[u].lob] = content[loc[u].lob]
      BY <3>1, <1>7, <1>9 DEF HasLocator, Lob
    <3>3. loc[u].ver = ver[loc[u].lob] => loc[u].ver >= 0
      BY <3>1
    <3> QED BY <2>2, <3>1, <3>2, <3>3, <1>6 DEF LocatorView, Lob, HasLocator, IsBfile
  <2> QED BY <2>1, <2>2
<1>11. ReadView'
  <2>1. ASSUME NEW u \in Tasks, u # t, pc[u] \in {"size", "chunk", "whole"}
        PROVE  content'[Lob(u)] = content[Lob(u)]
    BY <2>1, <1>7, <1>9 DEF ReadView, Lob, LobTyped
  <2> QED BY <2>1, <1>1, <1>6 DEF ReadView, Lob, HasLocator, LobTyped, Return
<1> QED BY <1>5, <1>8, <1>10, <1>11

\* A change makes every locator of the LOB stale.
LEMMA ChangeInv ==
  ASSUME LobInv, NEW t \in Tasks, NEW l \in Lobs, NEW s \in Seq(LobData),
         Change(l, s), Return(t), UNCHANGED <<is_open, by_user, loc>>
  PROVE  LobInv'
<1> USE DEF LobInv
<1>1. /\ content'[l] = s /\ \A k \in Lobs \ {l} : content'[k] = content[k]
      /\ ver'[l] = ver[l] + 1 /\ \A k \in Lobs \ {l} : ver'[k] = ver[k]
      /\ s # NoLob
  BY LobConstants DEF Change, LobTyped
<1>2. LobTyped'
  <2>1. content' \in [Lobs -> Seq(LobData) \cup {NoLob}]
    BY DEF LobTyped, Change
  <2>2. ver' \in [Lobs -> Nat]
    <3>1. ver[l] + 1 \in Nat /\ ver' = [ver EXCEPT ![l] = ver[l] + 1] /\ ver \in [Lobs -> Nat]
      BY DEF LobTyped, Change
    <3> QED BY <3>1
  <2> QED BY <2>1, <2>2 DEF LobTyped, Return, Controls
<1>3. Exists'
  BY <1>1 DEF Exists
<1>4. \A u \in Tasks : Lob(u) = l => loc[u].ver # ver'[l]
  BY <1>1 DEF LobTyped, LocatorView, Lob
<1>5. LocatorView'
  <2> SUFFICES ASSUME NEW u \in Tasks
               PROVE  /\ loc[u].ver <= ver'[Lob(u)]
                      /\ HasLocator(u) => content'[Lob(u)] # NoLob
                      /\ IsBfile(Lob(u)) => loc[u].size = 0
                      /\ loc[u].ver = ver'[Lob(u)] /\ ~IsBfile(Lob(u))
                           => loc[u].size = Len(content'[Lob(u)])
    BY DEF LocatorView, Lob, HasLocator, IsBfile
  <2>1. Lob(u) \in Lobs /\ loc[u].ver \in Int /\ ver[Lob(u)] \in Nat
    BY DEF LobTyped, Lob
  <2> QED BY <2>1, <1>1, <1>4 DEF LocatorView
<1>6. ReadView'
  <2> SUFFICES ASSUME NEW u \in Tasks
               PROVE  /\ pc'[u] \notin {"chunk", "whole"} => got'[u] = <<>>
                      /\ pc'[u] \in {"size", "chunk", "whole"} =>
                           HasLocator(u) /\ offset'[u] >= 1 /\ offset'[u] - 1 <= loc[u].size
                      /\ pc'[u] = "size" => offset'[u] = 1
                      /\ pc'[u] \in {"chunk", "whole"} /\ ver'[Lob(u)] = loc[u].ver =>
                           got'[u] = SubSeq(content'[Lob(u)], 1, offset'[u] - 1)
    BY DEF ReadView, Lob, HasLocator
  <2>1. CASE u = t
    BY <2>1 DEF Return, LobTyped
  <2>2. CASE u # t
    <3>1. pc'[u] = pc[u] /\ got'[u] = got[u] /\ offset'[u] = offset[u]
      BY <2>2 DEF Return, LobTyped
    <3>2. ver'[Lob(u)] = loc[u].ver =>
            ver[Lob(u)] = loc[u].ver /\ content'[Lob(u)] = content[Lob(u)]
      BY <1>1, <1>4 DEF LobTyped, Lob
    <3> QED BY <3>1, <3>2 DEF ReadView
  <2> QED BY <2>1, <2>2
<1> QED BY <1>2, <1>3, <1>5, <1>6

LEMMA WriteLobInv ==
  ASSUME LobInv, NEW t \in Tasks, NEW off \in 1..MaxLen, NEW a \in Letters, WriteLob(t, off, a)
  PROVE  LobInv'
<1> DEFINE old == content[Lob(t)]
           n == IF off > Len(old) THEN off ELSE Len(old)
           new == [i \in 1..n |-> IF i = off THEN a ELSE old[i]]
<1>1. Lob(t) \in Lobs /\ old \in Seq(LobData)
  BY DEF WriteLob, LobInv, LobTyped, Lob
<1>2. off \in 1..(Len(old) + 1) /\ Change(Lob(t), new)
  BY DEF WriteLob
<1>3. Return(t) /\ UNCHANGED <<is_open, by_user, loc>>
  BY DEF WriteLob
<1>4. a \in LobData
  BY DEF LobData
<1>5. new \in Seq(LobData)
  <2>1. n \in Nat
    BY <1>1, <1>2
  <2>2. \A i \in 1..n : i # off => i \in 1..Len(old)
    BY <1>1, <1>2
  <2>3. \A i \in 1..n : (IF i = off THEN a ELSE old[i]) \in LobData
    BY <1>1, <1>4, <2>2
  <2> HIDE DEF n
  <2>4. new \in [1..n -> LobData]
    BY <2>3
  <2> HIDE DEF new
  <2> QED BY <2>1, <2>4
<1> HIDE DEF new
<1> QED BY <1>1, <1>2, <1>3, <1>5, ChangeInv

LEMMA LobTrimInv ==
  ASSUME LobInv, NEW t \in Tasks, NEW n \in 0..MaxLen, LobTrim(t, n)
  PROVE  LobInv'
<1>1. Lob(t) \in Lobs /\ content[Lob(t)] \in Seq(LobData) /\ n < Len(content[Lob(t)])
  BY DEF LobTrim, LobInv, LobTyped, Lob
<1>2. SubSeq(content[Lob(t)], 1, n) \in Seq(LobData)
  BY <1>1, SubSeqProperties
<1>3. Change(Lob(t), SubSeq(content[Lob(t)], 1, n)) /\ Return(t) /\ UNCHANGED <<is_open, by_user, loc>>
  BY DEF LobTrim
<1> QED BY <1>1, <1>2, <1>3, ChangeInv

LEMMA ReadLobInv ==
  ASSUME LobInv, NEW t \in Tasks, ReadLob(t)
  PROVE  LobInv'
<1> USE DEF LobInv
<1> DEFINE c == content[Lob(t)]
           m == loc[t].size
<1>1. /\ c \in Seq(LobData) /\ m \in Nat /\ HasLocator(t) /\ Lob(t) \in Lobs
      /\ pc' = [pc EXCEPT ![t] = "whole"] /\ offset' = [offset EXCEPT ![t] = m + 1]
      /\ got' = [got EXCEPT ![t] = ReadLobInternal(Lob(t), 1, m)]
      /\ UNCHANGED <<lobVars, loc, chunk, closes>>
  BY DEF ReadLob, Readable, LobTyped, Lob
<1>2. LobTyped'
  <2>1. m + 1 \in Nat
    BY <1>1
  <2> HIDE DEF m
  <2> QED BY <1>1, <2>1 DEF LobTyped, lobVars, Controls
<1>3. Exists' /\ LocatorView'
  BY <1>1 DEF Exists, LocatorView, Lob, HasLocator, IsBfile, lobVars
<1>4. ver[Lob(t)] = loc[t].ver => ReadLobInternal(Lob(t), 1, m) = SubSeq(c, 1, m)
  <2>1. ver[Lob(t)] = loc[t].ver => m = 0 \/ m = Len(c)
    BY DEF LocatorView
  <2>2. Len(c) \in Nat
    BY <1>1
  <2>3. CASE m = 0
    BY <2>2, <2>3 DEF ReadLobInternal
  <2>4. CASE m = Len(c)
    BY <2>2, <2>4 DEF ReadLobInternal
  <2> QED BY <2>1, <2>3, <2>4
<1>5. ReadView'
  <2> SUFFICES ASSUME NEW u \in Tasks
               PROVE  /\ pc'[u] \notin {"chunk", "whole"} => got'[u] = <<>>
                      /\ pc'[u] \in {"size", "chunk", "whole"} =>
                           HasLocator(u) /\ offset'[u] >= 1 /\ offset'[u] - 1 <= loc[u].size
                      /\ pc'[u] = "size" => offset'[u] = 1
                      /\ pc'[u] \in {"chunk", "whole"} /\ ver[Lob(u)] = loc[u].ver =>
                           got'[u] = SubSeq(content[Lob(u)], 1, offset'[u] - 1)
    BY <1>1 DEF ReadView, Lob, HasLocator, lobVars
  <2>1. CASE u = t
    <3>1. pc'[t] = "whole" /\ offset'[t] = m + 1 /\ got'[t] = ReadLobInternal(Lob(t), 1, m)
      BY <1>1 DEF LobTyped
    <3>2. offset'[t] >= 1 /\ offset'[t] - 1 = m /\ m <= m
      BY <1>1, <3>1
    <3> QED BY <2>1, <3>1, <3>2, <1>1, <1>4
  <2>2. CASE u # t
    <3>1. pc'[u] = pc[u] /\ got'[u] = got[u] /\ offset'[u] = offset[u]
      BY <1>1, <2>2 DEF LobTyped
    <3> QED BY <3>1 DEF ReadView
  <2> QED BY <2>1, <2>2
<1> QED BY <1>2, <1>3, <1>5

LEMMA BeginChunkedInv ==
  ASSUME LobInv, NEW t \in Tasks, NEW n \in ChunkSizes, BeginChunked(t, n)
  PROVE  LobInv'
<1> USE DEF LobInv
<1>1. /\ pc[t] = "idle" /\ HasLocator(t) /\ loc[t].size \in Nat /\ loc[t].size # 0
      /\ UNCHANGED <<lobVars, loc, got, closes>> /\ n \in Nat
      /\ offset' = [offset EXCEPT ![t] = 1] /\ chunk' = [chunk EXCEPT ![t] = n]
      /\ \E p \in {"size", "chunk"} : pc' = [pc EXCEPT ![t] = p]
  BY LobConstants DEF BeginChunked, Idle, LobTyped
<1>2. LobTyped'
  BY <1>1 DEF LobTyped, lobVars, Controls
<1>3. Exists' /\ LocatorView'
  BY <1>1 DEF Exists, LocatorView, Lob, HasLocator, IsBfile, lobVars
<1>4. ReadView'
  <2> SUFFICES ASSUME NEW u \in Tasks
               PROVE  /\ pc'[u] \notin {"chunk", "whole"} => got[u] = <<>>
                      /\ pc'[u] \in {"size", "chunk", "whole"} =>
                           HasLocator(u) /\ offset'[u] >= 1 /\ offset'[u] - 1 <= loc[u].size
                      /\ pc'[u] = "size" => offset'[u] = 1
                      /\ pc'[u] \in {"chunk", "whole"} /\ ver[Lob(u)] = loc[u].ver =>
                           got[u] = SubSeq(content[Lob(u)], 1, offset'[u] - 1)
    BY <1>1 DEF ReadView, Lob, HasLocator, lobVars
  <2>1. CASE u = t
    <3>1. got[t] = <<>> /\ SubSeq(content[Lob(t)], 1, 0) = <<>>
      BY <1>1, SubSeqEmpty DEF ReadView
    <3>2. offset'[t] = 1
      BY <1>1 DEF LobTyped
    <3> QED BY <2>1, <3>1, <3>2, <1>1
  <2>2. CASE u # t
    <3>1. pc'[u] = pc[u] /\ offset'[u] = offset[u]
      BY <1>1, <2>2 DEF LobTyped
    <3> QED BY <3>1 DEF ReadView
  <2> QED BY <2>1, <2>2
<1> QED BY <1>2, <1>3, <1>4

LEMMA AskChunkSizeInv ==
  ASSUME LobInv, NEW t \in Tasks, NEW n \in SrvChunks, AskChunkSize(t, n)
  PROVE  LobInv'
<1> USE DEF LobInv
<1>1. NaturalChunk(n) \in Nat
  BY LobConstants DEF NaturalChunk
<1>2. /\ pc[t] = "size" /\ UNCHANGED <<lobVars, loc, offset, got, closes>>
      /\ chunk' = [chunk EXCEPT ![t] = NaturalChunk(n)] /\ pc' = [pc EXCEPT ![t] = "chunk"]
  BY DEF AskChunkSize
<1>3. LobTyped'
  BY <1>1, <1>2 DEF LobTyped, lobVars, Controls
<1>4. Exists' /\ LocatorView'
  BY <1>2 DEF Exists, LocatorView, Lob, HasLocator, IsBfile, lobVars
<1>5. got[t] = SubSeq(content[Lob(t)], 1, offset[t] - 1)
  <2>1. got[t] = <<>> /\ offset[t] - 1 = 0
    BY <1>2 DEF ReadView
  <2> QED BY <2>1, SubSeqEmpty
<1>6. ReadView'
  BY <1>2, <1>5 DEF ReadView, Lob, HasLocator, lobVars, LobTyped
<1> QED BY <1>3, <1>4, <1>6

LEMMA ReadChunkInv ==
  ASSUME LobInv, NEW t \in Tasks, ReadChunk(t)
  PROVE  LobInv'
<1> USE DEF LobInv
<1> DEFINE c == content[Lob(t)]
           o == offset[t]
           m == ChunkAmount(t)
           piece == ReadLobInternal(Lob(t), o, m)
<1>1. /\ pc[t] = "chunk" /\ UNCHANGED <<lobVars, loc, pc, chunk, closes>>
      /\ got' = [got EXCEPT ![t] = @ \o piece]
      /\ offset' = [offset EXCEPT ![t] = @ + m]
      /\ o <= loc[t].size
  BY DEF ReadChunk
<1>2. /\ o \in Nat /\ o >= 1 /\ m \in Nat /\ o + m - 1 <= loc[t].size
      /\ o + m \in Nat /\ loc[t].size \in Nat
  <2>1. o \in Nat /\ chunk[t] \in Nat /\ loc[t].size \in Nat
    BY DEF LobTyped
  <2>2. o >= 1
    BY <1>1 DEF ReadView
  <2>3. o <= loc[t].size
    BY <1>1
  <2>4. m = IF loc[t].size - o + 1 < chunk[t] THEN loc[t].size - o + 1 ELSE chunk[t]
    BY DEF ChunkAmount
  <2> HIDE DEF o, m
  <2> QED BY <2>1, <2>2, <2>3, <2>4
<1>3. offset'[t] = o + m /\ got'[t] = got[t] \o piece
  BY <1>1 DEF LobTyped
<1>4. LobTyped'
  <2> HIDE DEF o, m, piece
  <2>1. offset' = [offset EXCEPT ![t] = o + m]
    BY <1>1 DEF o
  <2> QED BY <1>1, <1>2, <2>1 DEF LobTyped, lobVars
<1>5. Exists' /\ LocatorView'
  BY <1>1 DEF Exists, LocatorView, Lob, HasLocator, IsBfile, lobVars
<1>6. ASSUME ver[Lob(t)] = loc[t].ver
      PROVE  got'[t] = SubSeq(c, 1, offset'[t] - 1)
  <2>1. c \in Seq(LobData) /\ Len(c) \in Nat
    <3>1. Lob(t) \in Lobs /\ c # NoLob
      BY <1>1 DEF ReadView, LocatorView, LobTyped, Lob
    <3> QED BY <3>1 DEF LobTyped
  <2>2. loc[t].size = Len(c)
    <3> USE <1>6
    <3>1. ~IsBfile(Lob(t))
      BY <1>1, <1>2 DEF LocatorView
    <3> QED BY <3>1 DEF LocatorView
  <2>3. o + m - 1 <= Len(c) /\ o + m - 1 \in Int
    BY <1>2, <2>2
  <2>4. piece = SubSeq(c, o, o + m - 1)
    <3> HIDE DEF m, o
    <3> QED BY <2>1, <2>3, <1>2 DEF ReadLobInternal
  <2>5. got[t] = SubSeq(c, 1, o - 1)
    BY <1>1, <1>6 DEF ReadView
  <2>6. /\ 1 \in 1..(Len(c) + 1) /\ (o - 1) \in (1 - 1)..Len(c)
        /\ (o + m - 1) \in (o - 1)..Len(c) /\ (o - 1) + 1 = o
    <3> HIDE DEF m, o
    <3> QED BY <1>2, <2>1, <2>3
  <2> HIDE DEF c, o, m, piece
  <2>7. SubSeq(c, 1, o - 1) \o SubSeq(c, (o - 1) + 1, o + m - 1) = SubSeq(c, 1, o + m - 1)
    BY <2>1, <2>6, ConcatAdjacentSubSeq
  <2>8. got'[t] = got[t] \o piece /\ offset'[t] - 1 = o + m - 1
    BY <1>2, <1>3
  <2>9. got'[t] = SubSeq(c, 1, o + m - 1)
    BY <2>4, <2>5, <2>6, <2>7, <2>8
  <2> QED BY <2>8, <2>9
<1>7. ReadView'
  <2> SUFFICES ASSUME NEW u \in Tasks
               PROVE  /\ pc[u] \notin {"chunk", "whole"} => got'[u] = <<>>
                      /\ pc[u] \in {"size", "chunk", "whole"} =>
                           HasLocator(u) /\ offset'[u] >= 1 /\ offset'[u] - 1 <= loc[u].size
                      /\ pc[u] = "size" => offset'[u] = 1
                      /\ pc[u] \in {"chunk", "whole"} /\ ver[Lob(u)] = loc[u].ver =>
                           got'[u] = SubSeq(content[Lob(u)], 1, offset'[u] - 1)
    BY <1>1 DEF ReadView, Lob, HasLocator, lobVars
  <2>1. CASE u = t
    <3>1. offset'[t] >= 1 /\ offset'[t] - 1 <= loc[t].size /\ HasLocator(t)
      <4> HIDE DEF m, o
      <4>1. HasLocator(t)
        BY <1>1 DEF ReadView
      <4> QED BY <1>2, <1>3, <4>1
    <3> QED BY <2>1, <3>1, <1>1, <1>6
  <2>2. CASE u # t
    <3>1. got'[u] = got[u] /\ offset'[u] = offset[u]
      BY <1>1, <2>2 DEF LobTyped
    <3> QED BY <3>1 DEF ReadView
  <2> QED BY <2>1, <2>2
<1> QED BY <1>4, <1>5, <1>7

\* The steps of read_bfile: they leave what is read and the locators alone.
LEMMA BfileStepInv ==
  ASSUME LobInv, NEW t \in Tasks, NEW p \in {"b_read", "b_open", "b_close", "idle"},
         pc[t] \in {"idle", "b_open", "b_read"},
         pc' = [pc EXCEPT ![t] = p], closes' \in [Tasks -> BOOLEAN],
         is_open' \in [Lobs -> BOOLEAN], by_user' \in [Lobs -> BOOLEAN],
         UNCHANGED <<content, ver, loc, chunk, offset, got>>
  PROVE  LobInv'
<1> USE DEF LobInv
<1>1. LobTyped'
  BY DEF LobTyped, Controls
<1>2. Exists' /\ LocatorView'
  BY DEF Exists, LocatorView, Lob, HasLocator, IsBfile
<1>3. ReadView'
  BY DEF ReadView, LobTyped, Lob, HasLocator
<1> QED BY <1>1, <1>2, <1>3

LEMMA FilesTyped ==
  ASSUME LobTyped, NEW l \in Lobs, NEW b \in BOOLEAN, OpenFile(l, b) \/ CloseFile(l)
  PROVE  is_open' \in [Lobs -> BOOLEAN] /\ by_user' \in [Lobs -> BOOLEAN]
BY DEF LobTyped, OpenFile, CloseFile

LEMMA LobStepInv ==
  ASSUME LobInv, NEW t \in Tasks,
         \/ TaskStep(t) \/ OperationFails(t) \/ Drop(t) \/ Ask(t) \/ ReadLob(t)
         \/ BfileOpen(t) \/ BfileClose(t) \/ BeginReadBfile(t)
  PROVE  LobInv'
<1> USE DEF LobInv
<1>1. CASE ReadChunk(t)
  BY <1>1, ReadChunkInv
<1>2. CASE ChunksDone(t) \/ OperationFails(t) \/ Ask(t)
  <2>1. Return(t) /\ UNCHANGED <<lobVars, loc>>
    BY <1>2 DEF ChunksDone, OperationFails, Ask
  <2> QED BY <2>1, Leaving DEF lobVars, LobTyped
<1>3. CASE \E n \in SrvChunks : AskChunkSize(t, n)
  BY <1>3, AskChunkSizeInv
<1>4. CASE ReadLob(t)
  BY <1>4, ReadLobInv
<1>5. CASE Drop(t)
  <2>1. Return(t) /\ UNCHANGED <<content, ver, is_open, by_user, loc>>
    BY <1>5 DEF Drop
  <2> QED BY <2>1, Leaving DEF LobTyped
<1>6. CASE BfileOpen(t) \/ BfileClose(t)
  <2>1. Return(t) /\ UNCHANGED <<content, ver, loc>> /\ Lob(t) \in Lobs
    BY <1>6 DEF BfileOpen, BfileClose, LobTyped, Lob
  <2>2. OpenFile(Lob(t), TRUE) \/ CloseFile(Lob(t))
    BY <1>6 DEF BfileOpen, BfileClose
  <2> QED BY <2>1, <2>2, FilesTyped, Leaving
<1>7. CASE ReadBfileClose(t)
  <2>1. Return(t) /\ UNCHANGED <<content, ver, loc>> /\ Lob(t) \in Lobs
    BY <1>7 DEF ReadBfileClose, LobTyped, Lob
  <2>2. CloseFile(Lob(t)) \/ UNCHANGED <<is_open, by_user>>
    BY <1>7 DEF ReadBfileClose
  <2>3. is_open' \in [Lobs -> BOOLEAN] /\ by_user' \in [Lobs -> BOOLEAN]
    BY <2>1, <2>2, FilesTyped DEF LobTyped
  <2> QED BY <2>1, <2>3, Leaving
<1>8. CASE BeginReadBfile(t)
  <2>1. /\ pc[t] = "idle" /\ UNCHANGED <<lobVars, loc, chunk, offset, got>>
        /\ closes' \in [Tasks -> BOOLEAN]
        /\ \E p \in {"b_read", "b_open"} : pc' = [pc EXCEPT ![t] = p]
    BY <1>8 DEF BeginReadBfile, Idle, LobTyped, BfileIsOpen, ShouldClose
  <2> QED BY <2>1, BfileStepInv DEF lobVars, LobTyped
<1>9. CASE ReadBfileOpen(t)
  <2>1. /\ pc[t] = "b_open" /\ UNCHANGED <<content, ver, loc, chunk, offset, got>>
        /\ closes' \in [Tasks -> BOOLEAN] /\ pc' = [pc EXCEPT ![t] = "b_read"]
        /\ OpenFile(Lob(t), FALSE) /\ Lob(t) \in Lobs
    BY <1>9 DEF ReadBfileOpen, LobTyped, ShouldClose, Lob
  <2>2. is_open' \in [Lobs -> BOOLEAN] /\ by_user' \in [Lobs -> BOOLEAN]
    BY <2>1, FilesTyped
  <2> QED BY <2>1, <2>2, BfileStepInv
<1>10. CASE ReadBfileRead(t) \/ ReadBfileFails(t)
  <2>1. /\ pc[t] = "b_read" /\ UNCHANGED <<lobVars, loc, chunk, offset, got, closes>>
        /\ \E p \in {"b_close", "idle"} : pc' = [pc EXCEPT ![t] = p]
    BY <1>10 DEF ReadBfileRead, ReadBfileFails, AfterReadError
  <2> QED BY <2>1, BfileStepInv DEF lobVars, LobTyped
<1> QED BY <1>1, <1>2, <1>3, <1>4, <1>5, <1>6, <1>7, <1>8, <1>9, <1>10 DEF TaskStep

LEMMA LobsStuttering ==
  ASSUME LobInv, UNCHANGED lobOpsVars
  PROVE  LobInv'
<1> USE DEF LobInv, lobOpsVars, lobVars, taskVars
<1>1. LobTyped'
  BY DEF LobTyped
<1>2. Exists' /\ LocatorView' /\ ReadView'
  BY DEF Exists, LocatorView, ReadView, Lob, HasLocator, IsBfile
<1> QED BY <1>1, <1>2

(***************************************************************************)
(* The types of the variables, what a locator still says of its LOB, and   *)
(* what the reads have gathered, in every reachable state.                 *)
(***************************************************************************)
THEOREM LobInvariant == LobSpec => []LobInv
<1>1. LobInv /\ [LobNext]_lobOpsVars => LobInv'
  <2> SUFFICES ASSUME LobInv, [LobNext]_lobOpsVars PROVE LobInv'
    OBVIOUS
  <2>1. ASSUME NEW t \in Tasks,
               \/ TaskStep(t) \/ OperationFails(t) \/ Drop(t) \/ Ask(t) \/ ReadLob(t)
               \/ BfileOpen(t) \/ BfileClose(t) \/ BeginReadBfile(t)
        PROVE  LobInv'
    BY <2>1, LobStepInv
  <2>2. ASSUME NEW t \in Tasks, NEW l \in Lobs, FetchLocator(t, l) \/ CreateTempLob(t, l)
        PROVE  LobInv'
    BY <2>2, FetchLocatorInv, CreateTempLobInv
  <2>3. ASSUME NEW t \in Tasks, NEW n \in ChunkSizes, BeginChunked(t, n)
        PROVE  LobInv'
    BY <2>3, BeginChunkedInv
  <2>4. ASSUME NEW t \in Tasks, NEW off \in 1..MaxLen, NEW a \in Letters, WriteLob(t, off, a)
        PROVE  LobInv'
    BY <2>4, WriteLobInv
  <2>5. ASSUME NEW t \in Tasks, NEW n \in 0..MaxLen, LobTrim(t, n)
        PROVE  LobInv'
    BY <2>5, LobTrimInv
  <2>6. CASE UNCHANGED lobOpsVars
    BY <2>6, LobsStuttering
  <2> QED BY <2>1, <2>2, <2>3, <2>4, <2>5, <2>6 DEF LobNext
<1> QED BY <1>1, LobsInit, PTL DEF LobSpec

(***************************************************************************)
(* The chunks of read_lob_chunked and the data of read_lob are the         *)
(* beginning of the LOB, and all of it at the end, while nobody changed    *)
(* the LOB: for LOBs, chunk sizes and recommendations of any size.         *)
(***************************************************************************)
THEOREM ChunksExact == LobSpec => []ChunkedReadExact
<1>1. LobInv => ChunkedReadExact
  <2> SUFFICES ASSUME LobInv, NEW t \in Tasks, ver[Lob(t)] = loc[t].ver, offset[t] > 1,
                      pc[t] \in {"chunk", "whole"}
               PROVE  /\ got[t] = SubSeq(content[Lob(t)], 1, offset[t] - 1)
                      /\ offset[t] > loc[t].size => got[t] = content[Lob(t)]
    BY DEF ChunkedReadExact
  <2> USE DEF LobInv
  <2>1. got[t] = SubSeq(content[Lob(t)], 1, offset[t] - 1) /\ offset[t] - 1 <= loc[t].size
    BY DEF ReadView
  <2>2. offset[t] \in Nat /\ loc[t].size \in Nat
    BY DEF LobTyped
  <2>3. ~IsBfile(Lob(t)) /\ HasLocator(t)
    BY <2>1, <2>2 DEF LocatorView, ReadView
  <2>4. loc[t].size = Len(content[Lob(t)]) /\ content[Lob(t)] \in Seq(LobData)
    BY <2>3 DEF LocatorView, LobTyped, Lob
  <2>5. offset[t] > loc[t].size => offset[t] - 1 = Len(content[Lob(t)])
    BY <2>1, <2>2, <2>4
  <2>6. SubSeq(content[Lob(t)], 1, Len(content[Lob(t)])) = content[Lob(t)]
    BY <2>4, SubSeqFull
  <2> QED BY <2>1, <2>5, <2>6
<1> QED BY <1>1, LobInvariant, PTL

----------------------------------------------------------------------------
(***************************************************************************)
(* The files.  A read_bfile that will close its file is the only one for   *)
(* it, and the file it will close was not opened by a caller.              *)
(***************************************************************************)
FilesView ==
  /\ \A l \in Lobs : by_user[l] => is_open[l]
  /\ \A t \in Tasks : closes[t] => /\ pc[t] \in {"b_read", "b_close"}
                                   /\ is_open[Lob(t)] /\ ~by_user[Lob(t)]
  /\ \A t \in Tasks : pc[t] = "b_close" => closes[t]
  /\ \A t, u \in Tasks : closes[t] /\ closes[u] /\ Lob(t) = Lob(u) => t = u

FilesInv == FilesView /\ ReadBfileCleansUp

\* Steps that open and close nothing, of a task that is not to close anything.
LEMMA FilesUntouched ==
  ASSUME LobInv, FilesInv, NEW t \in Tasks, ~closes[t], closes' = closes,
         UNCHANGED <<is_open, by_user, leaked>>,
         \A u \in Tasks \ {t} : loc'[u] = loc[u] /\ pc'[u] = pc[u],
         pc'[t] # "b_close"
  PROVE  FilesInv'
<1> USE DEF FilesInv
<1>1. FilesView'
  BY DEF FilesView, Lob
<1>2. ReadBfileCleansUp'
  BY DEF ReadBfileCleansUp, Lob
<1> QED BY <1>1, <1>2

\* A file that was closed is opened, by a caller or by task t itself.
LEMMA FileOpened ==
  ASSUME LobInv, FilesInv, NEW t \in Tasks, NEW b \in BOOLEAN, OpenFile(Lob(t), b),
         closes' = [closes EXCEPT ![t] = ~b], loc' = loc,
         pc' = [pc EXCEPT ![t] = IF b THEN "idle" ELSE "b_read"]
  PROVE  FilesInv'
<1> USE DEF FilesInv
<1>1. Lob(t) \in Lobs /\ closes \in [Tasks -> BOOLEAN] /\ pc \in [Tasks -> Controls]
  BY DEF LobInv, LobTyped, Lob
<1>2. /\ ~is_open[Lob(t)] /\ leaked' = leaked \ {Lob(t)}
      /\ is_open'[Lob(t)] /\ (by_user'[Lob(t)] <=> b)
      /\ \A l \in Lobs \ {Lob(t)} : is_open'[l] = is_open[l] /\ by_user'[l] = by_user[l]
  BY <1>1 DEF OpenFile, LobInv, LobTyped
<1>3. \A u \in Tasks : closes[u] => Lob(u) # Lob(t)
  BY <1>2 DEF FilesView
<1>4. \A u \in Tasks : Lob(u)' = Lob(u) /\ Lob(u) \in Lobs
  BY DEF Lob, LobInv, LobTyped
<1>5. /\ closes'[t] = ~b /\ pc'[t] = IF b THEN "idle" ELSE "b_read"
      /\ \A u \in Tasks \ {t} : closes'[u] = closes[u] /\ pc'[u] = pc[u]
  BY <1>1
<1>6. FilesView'
  <2>1. \A l \in Lobs : by_user'[l] => is_open'[l]
    BY <1>2 DEF FilesView
  <2>2. ASSUME NEW u \in Tasks, closes'[u]
        PROVE  pc'[u] \in {"b_read", "b_close"} /\ is_open'[Lob(u)] /\ ~by_user'[Lob(u)]
    <3>1. CASE u = t
      BY <2>2, <3>1, <1>2, <1>5
    <3>2. CASE u # t
      BY <2>2, <3>2, <1>2, <1>3, <1>4, <1>5 DEF FilesView
    <3> QED BY <3>1, <3>2
  <2>3. \A u \in Tasks : pc'[u] = "b_close" => closes'[u]
    BY <1>5 DEF FilesView
  <2>4. \A u, v \in Tasks : closes'[u] /\ closes'[v] /\ Lob(u) = Lob(v) => u = v
    BY <1>3, <1>5 DEF FilesView
  <2> QED BY <2>1, <2>2, <2>3, <2>4, <1>4 DEF FilesView
<1>7. ReadBfileCleansUp'
  <2> SUFFICES ASSUME NEW l \in Lobs, is_open'[l]
               PROVE  \/ by_user'[l] \/ l \in leaked'
                      \/ \E u \in Tasks : closes'[u] /\ Lob(u) = l /\ pc'[u] \in {"b_read", "b_close"}
    BY <1>4 DEF ReadBfileCleansUp
  <2>1. CASE l = Lob(t)
    BY <2>1, <1>2, <1>5
  <2>2. CASE l # Lob(t)
    <3>1. \/ by_user[l] \/ l \in leaked
          \/ \E u \in Tasks : closes[u] /\ Lob(u) = l /\ pc[u] \in {"b_read", "b_close"}
      BY <2>2, <1>2 DEF ReadBfileCleansUp
    <3> QED BY <3>1, <2>2, <1>2, <1>5
  <2> QED BY <2>1, <2>2
<1> QED BY <1>6, <1>7

\* Task t returns, and its file is closed or counts as leaked if t was to close it.
LEMMA FileLeft ==
  ASSUME LobInv, FilesInv, NEW t \in Tasks, Return(t), loc' = loc,
         \/ /\ CloseFile(Lob(t))
            /\ closes[t] \/ by_user[Lob(t)]
         \/ /\ UNCHANGED <<is_open, by_user>>
            /\ leaked \subseteq leaked'
            /\ closes[t] => Lob(t) \in leaked'
  PROVE  FilesInv'
<1> USE DEF FilesInv
<1>1. Lob(t) \in Lobs /\ closes \in [Tasks -> BOOLEAN] /\ pc \in [Tasks -> Controls]
  BY DEF LobInv, LobTyped, Lob
<1>2. \A u \in Tasks : Lob(u)' = Lob(u) /\ Lob(u) \in Lobs
  BY DEF Lob, LobInv, LobTyped
<1>3. /\ ~closes'[t] /\ pc'[t] = "idle"
      /\ \A u \in Tasks \ {t} : closes'[u] = closes[u] /\ pc'[u] = pc[u]
  BY <1>1 DEF Return
<1>4. CASE UNCHANGED <<is_open, by_user>> /\ leaked \subseteq leaked' /\ (closes[t] => Lob(t) \in leaked')
  <2>1. FilesView'
    BY <1>2, <1>3, <1>4 DEF FilesView
  <2>2. ReadBfileCleansUp'
    BY <1>2, <1>3, <1>4 DEF ReadBfileCleansUp
  <2> QED BY <2>1, <2>2
<1>5. CASE CloseFile(Lob(t)) /\ (closes[t] \/ by_user[Lob(t)])
  <2>1. /\ ~is_open'[Lob(t)] /\ ~by_user'[Lob(t)] /\ leaked' = leaked \ {Lob(t)}
        /\ \A l \in Lobs \ {Lob(t)} : is_open'[l] = is_open[l] /\ by_user'[l] = by_user[l]
    BY <1>1, <1>5 DEF CloseFile, LobInv, LobTyped
  <2>2. \A u \in Tasks \ {t} : closes[u] => Lob(u) # Lob(t)
    BY <1>5 DEF FilesView
  <2>3. FilesView'
    <3>1. \A l \in Lobs : by_user'[l] => is_open'[l]
      BY <2>1 DEF FilesView
    <3>2. \A u \in Tasks : closes'[u] =>
            pc'[u] \in {"b_read", "b_close"} /\ is_open'[Lob(u)] /\ ~by_user'[Lob(u)]
      BY <1>2, <1>3, <2>1, <2>2 DEF FilesView
    <3>3. \A u \in Tasks : pc'[u] = "b_close" => closes'[u]
      BY <1>3 DEF FilesView
    <3>4. \A u, v \in Tasks : closes'[u] /\ closes'[v] /\ Lob(u) = Lob(v) => u = v
      BY <1>3 DEF FilesView
    <3> QED BY <3>1, <3>2, <3>3, <3>4, <1>2 DEF FilesView
  <2>4. ReadBfileCleansUp'
    <3> SUFFICES ASSUME NEW l \in Lobs, is_open'[l]
                 PROVE  \/ by_user'[l] \/ l \in leaked'
                        \/ \E u \in Tasks : closes'[u] /\ Lob(u) = l /\ pc'[u] \in {"b_read", "b_close"}
      BY <1>2 DEF ReadBfileCleansUp
    <3>1. l # Lob(t) /\ is_open[l]
      BY <2>1
    <3>2. \/ by_user[l] \/ l \in leaked
          \/ \E u \in Tasks : closes[u] /\ Lob(u) = l /\ pc[u] \in {"b_read", "b_close"}
      BY <3>1 DEF ReadBfileCleansUp
    <3> QED BY <3>1, <3>2, <2>1, <1>3
  <2> QED BY <2>3, <2>4
<1> QED BY <1>4, <1>5

\* Other steps of operations that have no file to close.
LEMMA FilesNotConcerned ==
  ASSUME LobInv, FilesInv, NEW t \in Tasks, pc[t] \notin {"b_read", "b_close"},
         UNCHANGED <<is_open, by_user, leaked>>,
         \/ closes' = closes
         \/ closes' = [closes EXCEPT ![t] = FALSE],
         loc' = loc \/ \E x : loc' = [loc EXCEPT ![t] = x],
         pc' = pc \/ \E p \in Controls \ {"b_close"} : pc' = [pc EXCEPT ![t] = p]
  PROVE  FilesInv'
<1>1. closes \in [Tasks -> BOOLEAN] /\ pc \in [Tasks -> Controls] /\ DOMAIN loc = Tasks
  BY DEF LobInv, LobTyped
<1>2. ~closes[t]
  BY DEF FilesInv, FilesView
<1>3. closes' = closes
  BY <1>1, <1>2
<1>4. \A u \in Tasks \ {t} : loc'[u] = loc[u] /\ pc'[u] = pc[u]
  BY <1>1
<1>5. pc'[t] # "b_close"
  BY <1>1
<1> QED BY <1>2, <1>3, <1>4, <1>5, FilesUntouched

\* A read_bfile goes from reading to closing, or returns with the file as it found it.
LEMMA FileRead ==
  ASSUME LobInv, FilesInv, NEW t \in Tasks, pc[t] = "b_read",
         UNCHANGED <<lobVars, loc, closes>>,
         pc' = [pc EXCEPT ![t] = IF closes[t] THEN "b_close" ELSE "idle"]
  PROVE  FilesInv'
<1> USE DEF FilesInv
<1>1. \A u \in Tasks : Lob(u)' = Lob(u)
  BY DEF Lob
<1>2. pc \in [Tasks -> Controls]
  BY DEF LobInv, LobTyped
<1>3. FilesView'
  BY <1>1, <1>2 DEF FilesView, lobVars
<1>4. ReadBfileCleansUp'
  BY <1>1, <1>2 DEF ReadBfileCleansUp, lobVars
<1> QED BY <1>3, <1>4

\* A step of task t that opens or closes a file, or closes none when it should.
FileStep(t) ==
  \/ BfileOpen(t) \/ BfileClose(t) \/ ReadBfileOpen(t) \/ ReadBfileRead(t)
  \/ ReadBfileFails(t) \/ ReadBfileClose(t) \/ Drop(t)

LEMMA FileStepInv ==
  ASSUME LobInv, FilesInv, NEW t \in Tasks, FileStep(t)
  PROVE  FilesInv'
<1>1. closes \in [Tasks -> BOOLEAN] /\ Lob(t) \in Lobs
  BY DEF LobInv, LobTyped, Lob
<1>2. CASE BfileOpen(t)
  BY <1>1, <1>2, FileOpened DEF BfileOpen, Return
<1>3. CASE ReadBfileOpen(t)
  BY <1>1, <1>3, FileOpened DEF ReadBfileOpen, ShouldClose
<1>4. CASE BfileClose(t)
  BY <1>4, FileLeft DEF BfileClose
<1>5. CASE ReadBfileRead(t) \/ ReadBfileFails(t)
  BY <1>5, FileRead DEF ReadBfileRead, ReadBfileFails, AfterReadError
<1>6. CASE ReadBfileClose(t)
  <2>1. closes[t] /\ is_open[Lob(t)]
    BY <1>6 DEF ReadBfileClose, FilesInv, FilesView
  <2> QED BY <1>6, <2>1, FileLeft DEF ReadBfileClose
<1>7. CASE Drop(t)
  <2>1. closes[t] => is_open[Lob(t)]
    BY DEF FilesInv, FilesView
  <2> QED BY <1>7, <2>1, FileLeft DEF Drop
<1> QED BY <1>2, <1>3, <1>4, <1>5, <1>6, <1>7 DEF FileStep

LEMMA OtherStepInv ==
  ASSUME LobInv, FilesInv, NEW t \in Tasks,
         \/ TaskStep(t) \/ OperationFails(t) \/ Ask(t) \/ ReadLob(t) \/ BeginReadBfile(t)
         \/ \E l \in Lobs : FetchLocator(t, l) \/ CreateTempLob(t, l)
         \/ \E c \in ChunkSizes : BeginChunked(t, c)
         \/ \E off \in 1..MaxLen, a \in Letters : WriteLob(t, off, a)
         \/ \E n \in 0..MaxLen : LobTrim(t, n),
         ~FileStep(t)
  PROVE  FilesInv'
<1> USE DEF lobVars, Controls, Idle
<1>1. CASE ReadChunk(t)
  BY <1>1, FilesNotConcerned DEF ReadChunk
<1>2. CASE ChunksDone(t) \/ OperationFails(t) \/ Ask(t)
  <2>1. pc[t] \notin {"b_read", "b_close"} /\ Return(t) /\ UNCHANGED <<lobVars, loc>>
    BY <1>2 DEF ChunksDone, OperationFails, Ask
  <2> QED BY <2>1, FilesNotConcerned DEF Return
<1>3. CASE \E n \in SrvChunks : AskChunkSize(t, n)
  BY <1>3, FilesNotConcerned DEF AskChunkSize
<1>4. CASE ReadLob(t)
  BY <1>4, FilesNotConcerned DEF ReadLob
<1>5. CASE BeginReadBfile(t)
  <2>1. /\ pc[t] = "idle" /\ UNCHANGED <<lobVars, loc>>
        /\ closes' = [closes EXCEPT ![t] = FALSE]
        /\ \E p \in {"b_read", "b_open"} : pc' = [pc EXCEPT ![t] = p]
    BY <1>5 DEF BeginReadBfile, ShouldClose
  <2> QED BY <2>1, FilesNotConcerned
<1>6. CASE \E l \in Lobs : FetchLocator(t, l) \/ CreateTempLob(t, l)
  <2>1. PICK l \in Lobs : FetchLocator(t, l) \/ CreateTempLob(t, l)
    BY <1>6
  <2>2. CASE FetchLocator(t, l)
    BY <2>2, FilesNotConcerned DEF FetchLocator
  <2>3. CASE CreateTempLob(t, l)
    <3>1. /\ pc[t] = "idle" /\ UNCHANGED <<is_open, by_user, leaked>> /\ Return(t)
          /\ loc' = [loc EXCEPT ![t] = [lob |-> l, size |-> 0, ver |-> ver[l]]]
      BY <2>3 DEF CreateTempLob
    <3> QED BY <3>1, FilesNotConcerned DEF Return
  <2> QED BY <2>1, <2>2, <2>3
<1>7. CASE \E c \in ChunkSizes : BeginChunked(t, c)
  <2>1. /\ pc[t] = "idle" /\ UNCHANGED <<lobVars, loc, closes>>
        /\ \E p \in {"size", "chunk"} : pc' = [pc EXCEPT ![t] = p]
    BY <1>7 DEF BeginChunked
  <2> QED BY <2>1, FilesNotConcerned
<1>8. CASE \/ \E off \in 1..MaxLen, a \in Letters : WriteLob(t, off, a)
           \/ \E n \in 0..MaxLen : LobTrim(t, n)
  <2>1. pc[t] = "idle" /\ UNCHANGED <<is_open, by_user, leaked, loc>> /\ Return(t)
    BY <1>8 DEF WriteLob, LobTrim
  <2> QED BY <2>1, FilesNotConcerned DEF Return
<1> QED BY <1>1, <1>2, <1>3, <1>4, <1>5, <1>6, <1>7, <1>8 DEF TaskStep, FileStep

(***************************************************************************)
(* Who opened the files that are open, in every reachable state.           *)
(***************************************************************************)
THEOREM FilesInvariant == LobSpec => []FilesInv
<1>1. LobInit => FilesInv
  <2> SUFFICES ASSUME LobInit PROVE FilesInv
    OBVIOUS
  <2>1. FilesView
    BY DEF LobInit, FilesView
  <2>2. ReadBfileCleansUp
    BY DEF LobInit, ReadBfileCleansUp
  <2> QED BY <2>1, <2>2 DEF FilesInv
<1>2. LobInv /\ FilesInv /\ [LobNext]_lobOpsVars => FilesInv'
  <2> SUFFICES ASSUME LobInv, FilesInv, [LobNext]_lobOpsVars PROVE FilesInv'
    OBVIOUS
  <2>1. CASE UNCHANGED lobOpsVars
    <3> USE <2>1 DEF lobOpsVars, lobVars, taskVars
    <3>1. FilesView'
      BY DEF FilesInv, FilesView, Lob
    <3>2. ReadBfileCleansUp'
      BY DEF FilesInv, ReadBfileCleansUp, Lob
    <3> QED BY <3>1, <3>2 DEF FilesInv
  <2>2. ASSUME NEW t \in Tasks, FileStep(t)
        PROVE  FilesInv'
    BY <2>2, FileStepInv
  <2>3. ASSUME NEW t \in Tasks, ~FileStep(t),
               \/ TaskStep(t) \/ OperationFails(t) \/ Ask(t) \/ ReadLob(t) \/ BeginReadBfile(t)
               \/ \E l \in Lobs : FetchLocator(t, l) \/ CreateTempLob(t, l)
               \/ \E c \in ChunkSizes : BeginChunked(t, c)
               \/ \E off \in 1..MaxLen, a \in Letters : WriteLob(t, off, a)
               \/ \E n \in 0..MaxLen : LobTrim(t, n)
        PROVE  FilesInv'
    BY <2>3, OtherStepInv
  <2> QED BY <2>1, <2>2, <2>3 DEF LobNext, FileStep
<1> QED BY <1>1, <1>2, LobInvariant, PTL DEF LobSpec

(***************************************************************************)
(* read_bfile leaves no file open that was closed before, unless closing   *)
(* it failed or the future was dropped: for any number of tasks and files. *)
(***************************************************************************)
THEOREM NoFileLeftOpen == LobSpec => []ReadBfileCleansUp
<1>1. FilesInv => ReadBfileCleansUp
  BY DEF FilesInv
<1> QED BY <1>1, FilesInvariant, PTL

(***************************************************************************)
(* A file that a caller opened is closed by bfile_close only.              *)
(***************************************************************************)
THEOREM CallersFileStaysOpen == LobSpec => OpenByCallerStaysOpen
<1> DEFINE Kept == \A l \in Lobs : by_user[l] /\ ~by_user'[l] => \E t \in Tasks : BfileClose(t)
<1>1. LobInv /\ FilesInv /\ [LobNext]_lobOpsVars => [Kept]_lobOpsVars
  <2> SUFFICES ASSUME LobInv, FilesInv, LobNext, NEW l \in Lobs, by_user[l], ~by_user'[l]
               PROVE  \E t \in Tasks : BfileClose(t)
    OBVIOUS
  <2>1. is_open[l] /\ by_user \in [Lobs -> BOOLEAN]
    BY DEF FilesInv, FilesView, LobInv, LobTyped
  <2>2. ASSUME NEW t \in Tasks, OpenFile(Lob(t), TRUE) \/ OpenFile(Lob(t), FALSE)
        PROVE  FALSE
    BY <2>1, <2>2 DEF OpenFile
  <2>3. ASSUME NEW t \in Tasks, ReadBfileClose(t)
        PROVE  FALSE
    <3>1. ~by_user[Lob(t)]
      BY <2>3 DEF ReadBfileClose, FilesInv, FilesView
    <3> QED BY <2>1, <2>3, <3>1 DEF ReadBfileClose, CloseFile
  <2>4. by_user' # by_user
    OBVIOUS
  <2>5. PICK t \in Tasks :
          BfileOpen(t) \/ BfileClose(t) \/ ReadBfileOpen(t) \/ ReadBfileClose(t)
    BY <2>4 DEF LobNext, TaskStep, ReadChunk, ChunksDone, AskChunkSize, ReadBfileRead,
                ReadBfileFails, OperationFails, Drop, FetchLocator, CreateTempLob,
                BeginChunked, Ask, ReadLob, WriteLob, LobTrim, BeginReadBfile, lobVars
  <2> QED BY <2>2, <2>3, <2>5 DEF BfileOpen, ReadBfileOpen
<1> QED BY <1>1, LobInvariant, FilesInvariant, PTL DEF LobSpec, OpenByCallerStaysOpen

----------------------------------------------------------------------------
\* The bounds of the type invariant

\* Contents, and the sizes in locators, stay within the bound.
SizesView ==
  /\ \A l \in Lobs : content[l] = NoLob \/ Len(content[l]) <= MaxLen
  /\ \A t \in Tasks : loc[t].size <= MaxLen

\* Outside a read the offset is not used.
OffsetView == \A t \in Tasks : pc[t] \notin {"size", "chunk", "whole"} => offset[t] = 0

\* A file whose closing failed is still open.
LeakView == leaked \subseteq {l \in Lobs : is_open[l]}

BoundsInv == SizesView /\ OffsetView /\ LeakView

LEMMA SizesKept ==
  ASSUME SizesView, UNCHANGED <<content, loc>>
  PROVE  SizesView'
BY DEF SizesView

LEMMA OffsetReset ==
  ASSUME LobTyped, OffsetView, NEW t \in Tasks, Return(t)
  PROVE  OffsetView'
BY DEF LobTyped, OffsetView, Return

\* A change of a content that a task's guard bounds.
LEMMA SizesChanged ==
  ASSUME LobTyped, SizesView, NEW l \in Lobs, NEW new, Change(l, new), loc' = loc
  PROVE  SizesView'
<1>1. content' = [content EXCEPT ![l] = new] /\ Len(new) <= MaxLen
  BY DEF Change
<1> QED BY <1>1 DEF SizesView, LobTyped

LEMMA SizesFetched ==
  ASSUME LobInv, SizesView, NEW t \in Tasks, NEW l \in Lobs, FetchLocator(t, l)
  PROVE  SizesView'
<1> DEFINE n == IF IsBfile(l) THEN 0 ELSE Len(content[l])
<1>1. n <= MaxLen
  BY LobConstants DEF LobInv, Exists, FetchLocator, SizesView
<1>2. content' = content /\ loc' = [loc EXCEPT ![t] = [lob |-> l, size |-> n, ver |-> ver[l]]]
  BY DEF FetchLocator, LocatorOf, lobVars
<1> HIDE DEF n
<1> QED BY <1>1, <1>2 DEF SizesView, LobInv, LobTyped

LEMMA SizesCreated ==
  ASSUME LobInv, SizesView, NEW t \in Tasks, NEW l \in Lobs, CreateTempLob(t, l)
  PROVE  SizesView'
<1>1. /\ content' = [content EXCEPT ![l] = <<>>]
      /\ loc' = [loc EXCEPT ![t] = [lob |-> l, size |-> 0, ver |-> ver[l]]]
  BY DEF CreateTempLob
<1>2. Len(<<>>) <= MaxLen /\ 0 <= MaxLen
  BY LobConstants
<1> QED BY <1>1, <1>2 DEF SizesView, LobInv, LobTyped

\* Opening and closing a file takes it out of leaked.
LEMMA LeakLeft ==
  ASSUME LobTyped, LeakView, NEW l \in Lobs, NEW b \in BOOLEAN, OpenFile(l, b) \/ CloseFile(l)
  PROVE  LeakView'
BY DEF LobTyped, LeakView, OpenFile, CloseFile

LEMMA BoundsStep ==
  ASSUME LobInv, BoundsInv, NEW t \in Tasks,
         \/ TaskStep(t) \/ OperationFails(t) \/ Drop(t) \/ Ask(t) \/ ReadLob(t)
         \/ BfileOpen(t) \/ BfileClose(t) \/ BeginReadBfile(t)
         \/ \E c \in ChunkSizes : BeginChunked(t, c)
  PROVE  BoundsInv'
<1> USE DEF LobInv, BoundsInv
<1>1. UNCHANGED <<content, loc>>
  BY DEF TaskStep, OperationFails, Drop, Ask, ReadLob, BfileOpen, BfileClose, BeginReadBfile,
         BeginChunked, ReadChunk, ChunksDone, AskChunkSize, ReadBfileOpen, ReadBfileRead,
         ReadBfileFails, ReadBfileClose, lobVars
<1>2. SizesView'
  BY <1>1, SizesKept
<1>3. Lob(t) \in Lobs
  BY DEF LobTyped, Lob
<1>4. OffsetView'
  <2>1. CASE Return(t)
    BY <2>1, OffsetReset
  <2>2. CASE ReadChunk(t) \/ \E n \in SrvChunks : AskChunkSize(t, n)
    BY <2>2 DEF ReadChunk, AskChunkSize, OffsetView, LobTyped
  <2>3. CASE ReadLob(t) \/ \E c \in ChunkSizes : BeginChunked(t, c)
    BY <2>3 DEF ReadLob, BeginChunked, OffsetView, LobTyped
  <2>4. CASE BeginReadBfile(t) \/ ReadBfileOpen(t) \/ ReadBfileRead(t) \/ ReadBfileFails(t)
    <3>1. pc[t] \in {"idle", "b_open", "b_read"} /\ offset' = offset
      BY <2>4 DEF BeginReadBfile, ReadBfileOpen, ReadBfileRead, ReadBfileFails, Idle
    <3>2. \A u \in Tasks : u # t => pc'[u] = pc[u]
      BY <2>4 DEF BeginReadBfile, ReadBfileOpen, ReadBfileRead, ReadBfileFails, LobTyped
    <3> QED BY <3>1, <3>2 DEF OffsetView
  <2> QED BY <2>1, <2>2, <2>3, <2>4 DEF TaskStep, OperationFails, Drop, Ask, BfileOpen, BfileClose,
                                        ChunksDone, ReadBfileClose
<1>5. LeakView'
  <2>1. CASE UNCHANGED <<is_open, leaked>>
    BY <2>1 DEF LeakView
  <2>2. CASE OpenFile(Lob(t), TRUE) \/ OpenFile(Lob(t), FALSE) \/ CloseFile(Lob(t))
    BY <1>3, <2>2, LeakLeft
  <2>3. CASE is_open' = is_open /\ leaked' \subseteq leaked \cup {l \in {Lob(t)} : is_open[l]}
    BY <1>3, <2>3 DEF LeakView
  <2>4. CASE Drop(t)
    BY <2>3, <2>4 DEF Drop
  <2>5. CASE ReadBfileClose(t)
    BY <2>2, <2>3, <2>5 DEF ReadBfileClose
  <2>6. CASE BfileOpen(t) \/ BfileClose(t) \/ ReadBfileOpen(t)
    BY <2>2, <2>6 DEF BfileOpen, BfileClose, ReadBfileOpen
  <2> QED BY <2>1, <2>4, <2>5, <2>6 DEF TaskStep, OperationFails, Ask, ReadLob, BeginReadBfile,
                                        BeginChunked, ReadChunk, ChunksDone, AskChunkSize,
                                        ReadBfileRead, ReadBfileFails, lobVars
<1> QED BY <1>2, <1>4, <1>5

LEMMA BoundsLobStep ==
  ASSUME LobInv, BoundsInv, NEW t \in Tasks,
         \/ \E l \in Lobs : FetchLocator(t, l) \/ CreateTempLob(t, l)
         \/ \E off \in 1..MaxLen, a \in Letters : WriteLob(t, off, a)
         \/ \E n \in 0..MaxLen : LobTrim(t, n)
  PROVE  BoundsInv'
<1> USE DEF LobInv, BoundsInv
<1>1. Lob(t) \in Lobs
  BY DEF LobTyped, Lob
<1>2. CASE \E l \in Lobs : FetchLocator(t, l)
  <2>1. SizesView'
    BY <1>2, SizesFetched
  <2>2. OffsetView' /\ LeakView'
    BY <1>2 DEF FetchLocator, OffsetView, LeakView, lobVars
  <2> QED BY <2>1, <2>2
<1>3. CASE \E l \in Lobs : CreateTempLob(t, l)
  <2>1. SizesView'
    BY <1>3, SizesCreated
  <2>2. OffsetView'
    BY <1>3, OffsetReset DEF CreateTempLob
  <2>3. LeakView'
    BY <1>3 DEF CreateTempLob, LeakView
  <2> QED BY <2>1, <2>2, <2>3
<1>4. ASSUME Return(t), UNCHANGED <<is_open, by_user, leaked, loc>>, NEW new, Change(Lob(t), new)
      PROVE  BoundsInv'
  <2>1. SizesView'
    BY <1>1, <1>4, SizesChanged
  <2>2. OffsetView'
    BY <1>4, OffsetReset
  <2>3. LeakView'
    BY <1>4 DEF LeakView
  <2> QED BY <2>1, <2>2, <2>3
<1>5. CASE \E off \in 1..MaxLen, a \in Letters : WriteLob(t, off, a)
  BY <1>4, <1>5 DEF WriteLob
<1>6. CASE \E n \in 0..MaxLen : LobTrim(t, n)
  BY <1>4, <1>6 DEF LobTrim
<1> QED BY <1>2, <1>3, <1>5, <1>6

(***************************************************************************)
(* Contents and offsets stay within the bound that the initial contents    *)
(* respect, a task is at a control point of its operation, and a file left *)
(* open by a failed closing is open.                                       *)
(***************************************************************************)
THEOREM LobTypeCorrect ==
  ASSUME \A l \in Lobs : Len(Contents[l]) <= MaxLen
  PROVE  LobSpec => []LobTypeOK
<1>1. LobInit => BoundsInv
  <2> SUFFICES ASSUME LobInit PROVE BoundsInv
    OBVIOUS
  <2>1. SizesView
    BY InitialLocator, LobConstants DEF LobInit, SizesView
  <2>2. OffsetView /\ LeakView
    BY DEF LobInit, OffsetView, LeakView
  <2> QED BY <2>1, <2>2 DEF BoundsInv
<1>2. LobInv /\ BoundsInv /\ [LobNext]_lobOpsVars => BoundsInv'
  <2> SUFFICES ASSUME LobInv, BoundsInv, [LobNext]_lobOpsVars PROVE BoundsInv'
    OBVIOUS
  <2>1. CASE LobNext
    BY <2>1, BoundsStep, BoundsLobStep DEF LobNext
  <2>2. CASE UNCHANGED lobOpsVars
    BY <2>2 DEF BoundsInv, SizesView, OffsetView, LeakView, lobOpsVars, lobVars, taskVars
  <2> QED BY <2>1, <2>2
<1>3. LobInv /\ BoundsInv => LobTypeOK
  <2> SUFFICES ASSUME LobInv, BoundsInv PROVE LobTypeOK
    OBVIOUS
  <2>1. ASSUME NEW t \in Tasks PROVE offset[t] \in 0..(MaxLen + 1)
    <3>1. offset[t] \in Nat /\ loc[t].size \in Nat /\ loc[t].size <= MaxLen /\ MaxLen \in Nat
      BY LobConstants DEF LobInv, LobTyped, BoundsInv, SizesView
    <3>2. CASE pc[t] \in {"size", "chunk", "whole"}
      BY <3>1, <3>2 DEF LobInv, ReadView
    <3>3. CASE pc[t] \notin {"size", "chunk", "whole"}
      BY <3>1, <3>3 DEF BoundsInv, OffsetView
    <3> QED BY <3>2, <3>3
  <2> QED BY <2>1 DEF LobInv, LobTyped, BoundsInv, SizesView, LeakView, LobTypeOK, Lob, Controls
<1> QED BY <1>1, <1>2, <1>3, LobInvariant, PTL DEF LobSpec
=============================================================================
