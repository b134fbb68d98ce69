-------------------------- MODULE AlgorithmProofs --------------------------
(***************************************************************************)
(* Proofs about the pure algorithms: the scanners of SqlText, for every    *)
(* text, and the buffers, packets and codecs of WireBuffers and            *)
(* TypeCodecs, for all the values their Rust types can hold.               *)
(*                                                                         *)
(* A loop is a recursive function over the positions of its input.  What   *)
(* it computes is proved by induction on the position: the first part      *)
(* derives induction from the well-founded order of the naturals, and that *)
(* a recursive function satisfies its own equation.  The encodings are     *)
(* taken apart byte by byte: a number is the sum of its bytes (FourBytes), *)
(* and a concatenation holds each part at its place (Joined2, Joined3).    *)
(***************************************************************************)
EXTENDS SqlText, TypeCodecs, SequenceTheorems, FiniteSetTheorems, WellFoundedInduction, TLAPS

----------------------------------------------------------------------------
\* Induction and recursive functions over 0..n

Less == {p \in Nat \X Nat : p[1] < p[2]}

\* A set of naturals that is not empty has a least element.
LEMMA Least ==
  ASSUME NEW T, T \subseteq Nat, T # {}
  PROVE  \E x \in T : \A y \in T : x <= y
<1>1. IsWellFoundedOn(Less, Nat)
  <2>1. Less = OpToRel(<, Nat)
    BY DEF Less, OpToRel
  <2> QED BY <2>1, NatLessThanWellFounded
<1>2. PICK x \in T : \A y \in T : <<y, x>> \notin Less
  BY <1>1, WFMin
<1>3. ASSUME NEW y \in T PROVE x <= y
  <2>1. <<y, x>> \in Nat \X Nat /\ <<y, x>>[1] = y /\ <<y, x>>[2] = x
    OBVIOUS
  <2>2. ~(y < x)
    BY <1>2, <2>1 DEF Less
  <2> QED BY <2>2
<1> QED BY <1>3

\* Induction, over a set instead of a predicate, so that it can be instantiated.
LEMMA Induction ==
  ASSUME NEW S, 0 \in S, \A n \in Nat : n \in S => n + 1 \in S
  PROVE  Nat \subseteq S
<1> SUFFICES ASSUME Nat \ S # {} PROVE FALSE
  OBVIOUS
<1>1. PICK x \in Nat \ S : \A y \in Nat \ S : x <= y
  <2>1. Nat \ S \subseteq Nat
    OBVIOUS
  <2> QED BY <2>1, Least
<1>2. x # 0 /\ x - 1 \in Nat
  BY <1>1
<1>3. x - 1 \in S
  BY <1>1, <1>2
<1> QED BY <1>1, <1>2, <1>3

\* Induction over the positions 0..n.
LEMMA UpToInduction ==
  ASSUME NEW n \in Nat, NEW S, 0 \in S, \A i \in 1..n : i - 1 \in S => i \in S
  PROVE  \A i \in 0..n : i \in S
<1> DEFINE T == {i \in Nat : i <= n => i \in S}
<1>1. 0 \in T
  OBVIOUS
<1>2. ASSUME NEW i \in Nat, i \in T PROVE i + 1 \in T
  <2>1. i + 1 <= n => i + 1 \in 1..n /\ i \in S /\ (i + 1) - 1 = i
    BY <1>2
  <2>2. i + 1 <= n => i + 1 \in S
    BY <2>1
  <2> QED BY <2>2
<1> HIDE DEF T
<1>3. Nat \subseteq T
  BY <1>1, <1>2, Induction
<1> QED BY <1>3 DEF T

\* f[0], ..., f[n] are the states of n turns of F from start.
IsRun(f, n, S, start, F) ==
  /\ f \in [0..n -> S]
  /\ f[0] = start
  /\ \A i \in 1..n : f[i] = F[<<i, f[i - 1]>>]

\* Some f is: states are added one by one.
LEMMA RunExists ==
  ASSUME NEW S, NEW start \in S, NEW n \in Nat, NEW F \in [(1..n) \X S -> S]
  PROVE  \E f : IsRun(f, n, S, start, F)
<1> DEFINE T == {m \in Nat : \E f : IsRun(f, m, S, start, F)}
<1>1. 0 \in T
  <2>1. IsRun([i \in 0..0 |-> start], 0, S, start, F)
    BY DEF IsRun
  <2> QED BY <2>1
<1>2. ASSUME NEW i \in 1..n, i - 1 \in T PROVE i \in T
  <2>1. i - 1 \in Nat /\ i \in Nat /\ i - 1 \in 0..i-1 /\ i \in 0..i
    BY <1>2
  <2>2. PICK f : IsRun(f, i - 1, S, start, F)
    BY <1>2
  <2> DEFINE g == [j \in 0..i |-> IF j = i THEN F[<<i, f[i - 1]>>] ELSE f[j]]
  <2>3. f[i - 1] \in S
    BY <2>1, <2>2 DEF IsRun
  <2>4. F[<<i, f[i - 1]>>] \in S
    BY <2>3
  <2>5. ASSUME NEW j \in 0..i, j # i PROVE j \in 0..(i - 1) /\ g[j] = f[j] /\ f[j] \in S
    <3>1. j \in 0..(i - 1)
      BY <2>1, <2>5
    <3> QED BY <2>2, <3>1, <2>5 DEF IsRun
  <2>6. g \in [0..i -> S] /\ g[i] = F[<<i, f[i - 1]>>]
    <3>1. ASSUME NEW j \in 0..i PROVE (IF j = i THEN F[<<i, f[i - 1]>>] ELSE f[j]) \in S
      BY <2>4, <2>5
    <3>2. g \in [0..i -> S]
      BY <3>1
    <3>3. i \in 0..i
      BY <2>1
    <3> QED BY <3>2, <3>3
  <2>7. g[0] = start
    <3>1. 0 \in 0..i /\ 0 # i
      BY <2>1
    <3> QED BY <3>1, <2>5, <2>2 DEF IsRun
  <2>8. ASSUME NEW j \in 1..i PROVE g[j] = F[<<j, g[j - 1]>>]
    <3>1. j - 1 \in 0..i /\ j - 1 # i /\ j \in 0..i
      BY <2>1, <2>8
    <3>2. g[j - 1] = f[j - 1]
      BY <3>1, <2>5
    <3> HIDE DEF g
    <3>3. CASE j = i
      BY <3>2, <3>3, <2>6
    <3>4. CASE j # i
      <4>1. j \in 1..(i - 1)
        BY <3>4, <2>8, <2>1
      <4>2. g[j] = f[j]
        BY <3>1, <3>4, <2>5
      <4>3. f[j] = F[<<j, f[j - 1]>>]
        BY <4>1, <2>2 DEF IsRun
      <4> QED BY <4>2, <4>3, <3>2
    <3> QED BY <3>3, <3>4
  <2> HIDE DEF g
  <2>9. IsRun(g, i, S, start, F)
    BY <2>6, <2>7, <2>8 DEF IsRun
  <2> QED BY <2>9, <2>1
<1> HIDE DEF T
<1>3. n \in T
  BY <1>1, <1>2, UpToInduction
<1> QED BY <1>3 DEF T

\* It satisfies the equation of a recursive function, whose CHOOSE is thereby defined.
LEMMA RunUnfolds ==
  ASSUME NEW S, NEW start \in S, NEW n \in Nat, NEW F, NEW f, IsRun(f, n, S, start, F)
  PROVE  f = [i \in 0..n |-> IF i = 0 THEN start ELSE F[<<i, f[i - 1]>>]]
<1>1. f \in [0..n -> S]
  BY DEF IsRun
<1>2. ASSUME NEW i \in 0..n PROVE f[i] = IF i = 0 THEN start ELSE F[<<i, f[i - 1]>>]
  <2>1. i # 0 => i \in 1..n
    OBVIOUS
  <2> QED BY <2>1 DEF IsRun
<1> QED BY <1>1, <1>2

\* What holds at the start and is kept by every turn holds at every position.
LEMMA RunTyped ==
  ASSUME NEW S, NEW n \in Nat, NEW g, g[0] \in S, \A i \in 1..n : g[i - 1] \in S => g[i] \in S
  PROVE  \A i \in 0..n : g[i] \in S
<1> DEFINE T == {i \in 0..n : g[i] \in S}
<1>1. 0 \in T /\ \A i \in 1..n : i - 1 \in T => i \in T
  OBVIOUS
<1> HIDE DEF T
<1>2. \A i \in 0..n : i \in T
  BY <1>1, UpToInduction
<1> QED BY <1>2 DEF T

----------------------------------------------------------------------------
\* SqlText: the loop of parse_bind_variables

\* The locals of the loop.
BindInfos == [name : Binds, is_return : BOOLEAN]
ScanStates == [in_string : BOOLEAN, in_comment : BOOLEAN, in_line_comment : BOOLEAN,
               returning : BOOLEAN, into : BOOLEAN, binds : Seq(BindInfos)]

LEMMA AddBindTyped ==
  ASSUME NEW st \in ScanStates, NEW type, NEW x \in Binds
  PROVE  AddBind(st, type, x) \in ScanStates
<1>1. Append(st.binds, [name |-> x, is_return |-> st.into]) \in Seq(BindInfos)
  BY DEF ScanStates, BindInfos
<1>2. \A b \in Seq(BindInfos) : [st EXCEPT !.binds = b] \in ScanStates
  BY DEF ScanStates
<1> QED BY <1>1, <1>2 DEF AddBind

LEMMA ScanTyped ==
  ASSUME NEW st \in ScanStates, NEW type, NEW x
  PROVE  Scan(st, type, x) \in ScanStates
<1>1. \A b \in BOOLEAN :
        /\ [st EXCEPT !.in_string = b] \in ScanStates
        /\ [st EXCEPT !.in_comment = b] \in ScanStates
        /\ [st EXCEPT !.in_line_comment = b] \in ScanStates
        /\ [st EXCEPT !.returning = b] \in ScanStates
        /\ [st EXCEPT !.into = b] \in ScanStates
  BY DEF ScanStates
<1>2. /\ (~st.in_string) \in BOOLEAN /\ (x # "newline") \in BOOLEAN /\ (x # "close") \in BOOLEAN
      /\ (st.returning \/ type = "Dml") \in BOOLEAN /\ st.returning \in BOOLEAN
  BY DEF ScanStates
<1>3. x \in Binds => AddBind(st, type, x) \in ScanStates
  BY AddBindTyped
<1> QED BY <1>1, <1>2, <1>3 DEF Scan, Binds

LEMMA ScansRun ==
  ASSUME NEW L, NEW stmt \in Seq(L), NEW type
  PROVE  /\ Scans(stmt, type) \in [0..Len(stmt) -> ScanStates]
         /\ Scans(stmt, type)[0] = ScanStart
         /\ \A i \in 1..Len(stmt) : Scans(stmt, type)[i] = Scan(Scans(stmt, type)[i - 1], type, stmt[i])
<1> DEFINE n == Len(stmt)
           F == [p \in (1..n) \X ScanStates |-> Scan(p[2], type, stmt[p[1]])]
           Body(f) == [i \in 0..n |-> IF i = 0 THEN ScanStart ELSE Scan(f[i - 1], type, stmt[i])]
<1>1. n \in Nat /\ ScanStart \in ScanStates
  BY DEF ScanStart, ScanStates
<1>2. F \in [(1..n) \X ScanStates -> ScanStates]
  BY ScanTyped
<1>3. PICK f : IsRun(f, n, ScanStates, ScanStart, F)
  <2> HIDE DEF F, n
  <2> QED BY <1>1, <1>2, RunExists
<1>4. f = Body(f)
  <2>1. f = [i \in 0..n |-> IF i = 0 THEN ScanStart ELSE F[<<i, f[i - 1]>>]]
    <3> HIDE DEF F, n
    <3> QED BY <1>1, <1>3, RunUnfolds
  <2>2. \A i \in 1..n : F[<<i, f[i - 1]>>] = Scan(f[i - 1], type, stmt[i])
    <3>1. ASSUME NEW i \in 1..n PROVE <<i, f[i - 1]>> \in (1..n) \X ScanStates
      BY <1>1, <1>3 DEF IsRun
    <3> QED BY <3>1
  <2>3. \A i \in 0..n : i # 0 => i \in 1..n
    BY <1>1
  <2> HIDE DEF F, n
  <2> QED BY <2>1, <2>2, <2>3
<1> DEFINE g == Scans(stmt, type)
<1>5. g = Body(g)
  <2>1. g = CHOOSE h : h = Body(h)
    BY DEF Scans
  <2> HIDE DEF Body, g
  <2> QED BY <1>4, <2>1
<1> HIDE DEF g
<1>6. g[0] = ScanStart /\ \A i \in 1..n : g[i] = Scan(g[i - 1], type, stmt[i])
  BY <1>1, <1>5
<1>7. \A i \in 0..n : g[i] \in ScanStates
  <2>1. g[0] \in ScanStates /\ \A i \in 1..n : g[i - 1] \in ScanStates => g[i] \in ScanStates
    BY <1>1, <1>6, ScanTyped
  <2> HIDE DEF n
  <2> QED BY <1>1, <2>1, RunTyped
<1>8. g \in [0..n -> ScanStates]
  <2> HIDE DEF n
  <2> QED BY <1>5, <1>7
<1> QED BY <1>6, <1>8 DEF g

RegionNames == {"code", "string", "line", "block"}

LEMMA RegionTyped ==
  ASSUME NEW r \in RegionNames, NEW x PROVE RegionAfter(r, x) \in RegionNames
BY DEF RegionAfter, RegionNames

LEMMA RegionsRun ==
  ASSUME NEW L, NEW stmt \in Seq(L)
  PROVE  /\ Regions(stmt) \in [0..Len(stmt) -> RegionNames]
         /\ Regions(stmt)[0] = "code"
         /\ \A i \in 1..Len(stmt) : Regions(stmt)[i] = RegionAfter(Regions(stmt)[i - 1], stmt[i])
<1> DEFINE n == Len(stmt)
           F == [p \in (1..n) \X RegionNames |-> RegionAfter(p[2], stmt[p[1]])]
           Body(f) == [i \in 0..n |-> IF i = 0 THEN "code" ELSE RegionAfter(f[i - 1], stmt[i])]
<1>1. n \in Nat /\ "code" \in RegionNames
  BY DEF RegionNames
<1>2. F \in [(1..n) \X RegionNames -> RegionNames]
  BY RegionTyped
<1>3. PICK f : IsRun(f, n, RegionNames, "code", F)
  <2> HIDE DEF F, n
  <2> QED BY <1>1, <1>2, RunExists
<1>4. f = Body(f)
  <2>1. f = [i \in 0..n |-> IF i = 0 THEN "code" ELSE F[<<i, f[i - 1]>>]]
    <3> HIDE DEF F, n
    <3> QED BY <1>1, <1>3, RunUnfolds
  <2>2. \A i \in 1..n : F[<<i, f[i - 1]>>] = RegionAfter(f[i - 1], stmt[i])
    <3>1. ASSUME NEW i \in 1..n PROVE <<i, f[i - 1]>> \in (1..n) \X RegionNames
      BY <1>1, <1>3 DEF IsRun
    <3> QED BY <3>1
  <2>3. \A i \in 0..n : i # 0 => i \in 1..n
    BY <1>1
  <2> HIDE DEF F, n
  <2> QED BY <2>1, <2>2, <2>3
<1> DEFINE g == Regions(stmt)
<1>5. g = Body(g)
  <2>1. g = CHOOSE h : h = Body(h)
    BY DEF Regions
  <2> HIDE DEF Body, g
  <2> QED BY <1>4, <2>1
<1> HIDE DEF g
<1>6. g[0] = "code" /\ \A i \in 1..n : g[i] = RegionAfter(g[i - 1], stmt[i])
  BY <1>1, <1>5
<1>7. \A i \in 0..n : g[i] \in RegionNames
  <2>1. g[0] \in RegionNames /\ \A i \in 1..n : g[i - 1] \in RegionNames => g[i] \in RegionNames
    BY <1>1, <1>6, RegionTyped
  <2> HIDE DEF n
  <2> QED BY <1>1, <2>1, RunTyped
<1>8. g \in [0..n -> RegionNames]
  <2> HIDE DEF n
  <2> QED BY <1>5, <1>7
<1> QED BY <1>6, <1>8 DEF g

NameStates == [in_single_quote : BOOLEAN, names : Seq(Binds)]

LEMMA NamesTyped ==
  ASSUME NEW st \in NameStates, NEW x PROVE NamesStep(st, x) \in NameStates
<1>1. /\ \A b \in BOOLEAN : [st EXCEPT !.in_single_quote = b] \in NameStates
      /\ \A s \in Seq(Binds) : [st EXCEPT !.names = s] \in NameStates
  BY DEF NameStates
<1>2. x \in Binds => Append(st.names, x) \in Seq(Binds)
  BY DEF NameStates
<1>3. (~st.in_single_quote) \in BOOLEAN
  OBVIOUS
<1> QED BY <1>1, <1>2, <1>3 DEF NamesStep

LEMMA NamesRun ==
  ASSUME NEW L, NEW stmt \in Seq(L)
  PROVE  /\ NameScans(stmt) \in [0..Len(stmt) -> NameStates]
         /\ NameScans(stmt)[0] = NamesStart
         /\ \A i \in 1..Len(stmt) : NameScans(stmt)[i] = NamesStep(NameScans(stmt)[i - 1], stmt[i])
<1> DEFINE n == Len(stmt)
           F == [p \in (1..n) \X NameStates |-> NamesStep(p[2], stmt[p[1]])]
           Body(f) == [i \in 0..n |-> IF i = 0 THEN NamesStart ELSE NamesStep(f[i - 1], stmt[i])]
<1>1. n \in Nat /\ NamesStart \in NameStates
  BY DEF NamesStart, NameStates
<1>2. F \in [(1..n) \X NameStates -> NameStates]
  BY NamesTyped
<1>3. PICK f : IsRun(f, n, NameStates, NamesStart, F)
  <2> HIDE DEF F, n
  <2> QED BY <1>1, <1>2, RunExists
<1>4. f = Body(f)
  <2>1. f = [i \in 0..n |-> IF i = 0 THEN NamesStart ELSE F[<<i, f[i - 1]>>]]
    <3> HIDE DEF F, n
    <3> QED BY <1>1, <1>3, RunUnfolds
  <2>2. \A i \in 1..n : F[<<i, f[i - 1]>>] = NamesStep(f[i - 1], stmt[i])
    <3>1. ASSUME NEW i \in 1..n PROVE <<i, f[i - 1]>> \in (1..n) \X NameStates
      BY <1>1, <1>3 DEF IsRun
    <3> QED BY <3>1
  <2>3. \A i \in 0..n : i # 0 => i \in 1..n
    BY <1>1
  <2> HIDE DEF F, n
  <2> QED BY <2>1, <2>2, <2>3
<1> DEFINE g == NameScans(stmt)
<1>5. g = Body(g)
  <2>1. g = CHOOSE h : h = Body(h)
    BY DEF NameScans
  <2> HIDE DEF Body, g
  <2> QED BY <1>4, <2>1
<1> HIDE DEF g
<1>6. g[0] = NamesStart /\ \A i \in 1..n : g[i] = NamesStep(g[i - 1], stmt[i])
  BY <1>1, <1>5
<1>7. \A i \in 0..n : g[i] \in NameStates
  <2>1. g[0] \in NameStates /\ \A i \in 1..n : g[i - 1] \in NameStates => g[i] \in NameStates
    BY <1>1, <1>6, NamesTyped
  <2> HIDE DEF n
  <2> QED BY <1>1, <2>1, RunTyped
<1>8. g \in [0..n -> NameStates]
  <2> HIDE DEF n
  <2> QED BY <1>5, <1>7
<1> QED BY <1>6, <1>8 DEF g

\* The flags of the loop are the region the scan is in.
InRegion(st, r) ==
  /\ st.in_string <=> r = "string"
  /\ st.in_line_comment <=> r = "line"
  /\ st.in_comment <=> r = "block"

\* What one lexeme changes besides the flags.
Took(st, st1, type, x, counts) ==
  /\ st1.returning <=> st.returning \/ (counts /\ x = "RETURNING" /\ type = "Dml")
  /\ st1.into <=> IF counts /\ x = "INTO" THEN st.returning ELSE st.into
  /\ st1.binds = IF counts /\ x \in Binds THEN AddBind(st, type, x).binds ELSE st.binds

LEMMA ScanInRegion ==
  ASSUME NEW st \in ScanStates, NEW r \in RegionNames, NEW type, NEW x, InRegion(st, r),
         r = "block" => x # "dashes"
  PROVE  /\ InRegion(Scan(st, type, x), RegionAfter(r, x))
         /\ Took(st, Scan(st, type, x), type, x, r = "code")
<1> DEFINE st1 == Scan(st, type, x)
<1>1. /\ AddBind(st, type, x).in_string = st.in_string
      /\ AddBind(st, type, x).in_comment = st.in_comment
      /\ AddBind(st, type, x).in_line_comment = st.in_line_comment
      /\ AddBind(st, type, x).returning = st.returning
      /\ AddBind(st, type, x).into = st.into
  BY DEF AddBind, ScanStates
<1>2. CASE r = "string"
  <2>1. st.in_string /\ ~st.in_comment /\ ~st.in_line_comment
    BY <1>2 DEF InRegion
  <2>2. st1 = IF x = "quote" THEN [st EXCEPT !.in_string = FALSE] ELSE st
    BY <2>1 DEF Scan, QuoteCounts
  <2>3. RegionAfter(r, x) = IF x = "quote" THEN "code" ELSE "string"
    BY <1>2 DEF RegionAfter
  <2> QED BY <1>2, <2>1, <2>2, <2>3 DEF InRegion, Took, ScanStates
<1>3. CASE r = "line"
  <2>1. ~st.in_string /\ ~st.in_comment /\ st.in_line_comment
    BY <1>3 DEF InRegion
  <2>2. st1 = IF x = "newline" THEN [st EXCEPT !.in_line_comment = FALSE]
              ELSE [st EXCEPT !.in_line_comment = TRUE]
    BY <2>1 DEF Scan, QuoteCounts
  <2>3. RegionAfter(r, x) = IF x = "newline" THEN "code" ELSE "line"
    BY <1>3 DEF RegionAfter
  <2> QED BY <1>3, <2>1, <2>2, <2>3 DEF InRegion, Took, ScanStates
<1>4. CASE r = "block"
  <2>1. ~st.in_string /\ st.in_comment /\ ~st.in_line_comment /\ x # "dashes"
    BY <1>4 DEF InRegion
  <2>2. st1 = IF x = "close" THEN [st EXCEPT !.in_comment = FALSE]
              ELSE [st EXCEPT !.in_comment = TRUE]
    BY <2>1 DEF Scan, QuoteCounts
  <2>3. RegionAfter(r, x) = IF x = "close" THEN "code" ELSE "block"
    BY <1>4 DEF RegionAfter
  <2> QED BY <1>4, <2>1, <2>2, <2>3 DEF InRegion, Took, ScanStates
<1>5. CASE r = "code"
  <2>1. ~st.in_string /\ ~st.in_comment /\ ~st.in_line_comment
    BY <1>5 DEF InRegion
  <2>2. CASE x = "quote"
    <3>1. st1 = [st EXCEPT !.in_string = TRUE] /\ RegionAfter(r, x) = "string"
      BY <1>5, <2>1, <2>2 DEF Scan, QuoteCounts, RegionAfter
    <3> QED BY <2>1, <2>2, <3>1 DEF InRegion, Took, ScanStates, Binds
  <2>3. CASE x = "dashes"
    <3>1. st1 = [st EXCEPT !.in_line_comment = TRUE] /\ RegionAfter(r, x) = "line"
      BY <1>5, <2>1, <2>3 DEF Scan, QuoteCounts, RegionAfter
    <3> QED BY <2>1, <2>3, <3>1 DEF InRegion, Took, ScanStates, Binds
  <2>4. CASE x = "open"
    <3>1. st1 = [st EXCEPT !.in_comment = TRUE] /\ RegionAfter(r, x) = "block"
      BY <1>5, <2>1, <2>4 DEF Scan, QuoteCounts, RegionAfter
    <3> QED BY <2>1, <2>4, <3>1 DEF InRegion, Took, ScanStates, Binds
  <2>5. CASE x \notin {"quote", "dashes", "open"}
    <3>1. RegionAfter(r, x) = "code"
      BY <1>5, <2>5 DEF RegionAfter
    <3>2. st1 = CASE x = "RETURNING" -> [st EXCEPT !.returning = @ \/ type = "Dml"]
                  [] x = "INTO" -> [st EXCEPT !.into = st.returning]
                  [] x \in Binds -> AddBind(st, type, x)
                  [] OTHER -> st
      BY <2>1, <2>5 DEF Scan, QuoteCounts
    <3>3. CASE x = "RETURNING"
      <4>1. st1 = [st EXCEPT !.returning = @ \/ type = "Dml"] /\ x \notin Binds /\ x # "INTO"
        BY <3>2, <3>3 DEF Binds
      <4> QED BY <1>5, <2>1, <3>1, <3>3, <4>1 DEF InRegion, Took, ScanStates
    <3>4. CASE x = "INTO"
      <4>1. st1 = [st EXCEPT !.into = st.returning] /\ x \notin Binds
        BY <3>2, <3>4 DEF Binds
      <4> QED BY <1>5, <2>1, <3>1, <3>4, <4>1 DEF InRegion, Took, ScanStates
    <3>5. CASE x \in Binds
      <4>1. st1 = AddBind(st, type, x) /\ x # "INTO" /\ x # "RETURNING"
        BY <3>2, <3>5 DEF Binds
      <4> QED BY <1>1, <1>5, <2>1, <3>1, <3>5, <4>1 DEF InRegion, Took
    <3>6. CASE x \notin Binds \cup {"RETURNING", "INTO"}
      <4>1. st1 = st
        BY <3>2, <3>6
      <4> QED BY <1>5, <2>1, <3>1, <3>6, <4>1 DEF InRegion, Took
    <3> QED BY <3>3, <3>4, <3>5, <3>6
  <2> QED BY <2>2, <2>3, <2>4, <2>5
<1> QED BY <1>2, <1>3, <1>4, <1>5 DEF RegionNames

\* The flags follow the regions through the whole text.
LEMMA FlagsFollow ==
  ASSUME NEW L, NEW stmt \in Seq(L), NEW type, Plain(stmt)
  PROVE  \A i \in 0..Len(stmt) : InRegion(Scans(stmt, type)[i], Regions(stmt)[i])
<1> DEFINE n == Len(stmt)
           T == {i \in 0..n : InRegion(Scans(stmt, type)[i], Regions(stmt)[i])}
<1>1. 0 \in T
  BY ScansRun, RegionsRun DEF InRegion, ScanStart
<1>2. ASSUME NEW i \in 1..n, i - 1 \in T PROVE i \in T
  <2>1. /\ Scans(stmt, type)[i] = Scan(Scans(stmt, type)[i - 1], type, stmt[i])
        /\ Regions(stmt)[i] = RegionAfter(Regions(stmt)[i - 1], stmt[i])
        /\ Scans(stmt, type)[i - 1] \in ScanStates /\ Regions(stmt)[i - 1] \in RegionNames
    <3>1. i - 1 \in 0..n
      OBVIOUS
    <3> QED BY <3>1, ScansRun, RegionsRun
  <2>2. Regions(stmt)[i - 1] = "block" => stmt[i] # "dashes"
    <3>1. DOMAIN stmt = 1..n /\ i \in DOMAIN stmt
      OBVIOUS
    <3>2. Region(stmt)[i] = Regions(stmt)[i - 1]
      BY DEF Region
    <3> QED BY <3>1, <3>2 DEF Plain
  <2> QED BY <1>2, <2>1, <2>2, ScanInRegion
<1>3. n \in Nat
  OBVIOUS
<1> HIDE DEF T, n
<1>4. \A i \in 0..n : i \in T
  BY <1>1, <1>2, <1>3, UpToInduction
<1> QED BY <1>4 DEF T, n

\* What is found in a text up to position i.
Heard(stmt, i) == \E j \in InCode(stmt) : j <= i /\ stmt[j] = "RETURNING"
HeardInto(stmt, i) ==
  \E j, k \in InCode(stmt) : j < k /\ k <= i /\ stmt[j] = "RETURNING" /\ stmt[k] = "INTO"

LEMMA InCodeStep ==
  ASSUME NEW L, NEW stmt \in Seq(L), NEW i \in 1..Len(stmt)
  PROVE  i \in InCode(stmt) <=> Regions(stmt)[i - 1] = "code"
<1>1. DOMAIN stmt = 1..Len(stmt) /\ i \in DOMAIN stmt
  OBVIOUS
<1>2. Region(stmt)[i] = Regions(stmt)[i - 1]
  BY DEF Region
<1> QED BY <1>1, <1>2 DEF InCode

LEMMA InCodePositions ==
  ASSUME NEW L, NEW stmt \in Seq(L)
  PROVE  InCode(stmt) \subseteq 1..Len(stmt)
BY DEF InCode

LEMMA HeardStep ==
  ASSUME NEW L, NEW stmt \in Seq(L), NEW i \in 1..Len(stmt)
  PROVE  /\ Heard(stmt, i) <=> \/ Heard(stmt, i - 1)
                               \/ i \in InCode(stmt) /\ stmt[i] = "RETURNING"
         /\ HeardInto(stmt, i) <=> \/ HeardInto(stmt, i - 1)
                                   \/ /\ i \in InCode(stmt) /\ stmt[i] = "INTO"
                                      /\ Heard(stmt, i - 1)
         /\ ~Heard(stmt, 0) /\ ~HeardInto(stmt, 0)
<1>1. \A j \in InCode(stmt) : j \in Int /\ j >= 1
  BY InCodePositions
<1>2. \A j \in InCode(stmt) : j <= i <=> j <= i - 1 \/ j = i
  BY <1>1
<1>3. Heard(stmt, i) <=> \/ Heard(stmt, i - 1)
                         \/ i \in InCode(stmt) /\ stmt[i] = "RETURNING"
  BY <1>2 DEF Heard
<1>4. HeardInto(stmt, i) => \/ HeardInto(stmt, i - 1)
                            \/ /\ i \in InCode(stmt) /\ stmt[i] = "INTO"
                               /\ Heard(stmt, i - 1)
  <2> SUFFICES ASSUME NEW j \in InCode(stmt), NEW k \in InCode(stmt), j < k, k <= i,
                      stmt[j] = "RETURNING", stmt[k] = "INTO", ~HeardInto(stmt, i - 1)
               PROVE  i \in InCode(stmt) /\ stmt[i] = "INTO" /\ Heard(stmt, i - 1)
    BY DEF HeardInto
  <2>1. k = i
    BY <1>2 DEF HeardInto
  <2>2. j <= i - 1
    BY <1>1, <2>1
  <2> QED BY <2>1, <2>2 DEF Heard
<1>5. HeardInto(stmt, i - 1) => HeardInto(stmt, i)
  BY <1>2 DEF HeardInto
<1>6. i \in InCode(stmt) /\ stmt[i] = "INTO" /\ Heard(stmt, i - 1) => HeardInto(stmt, i)
  <2> SUFFICES ASSUME i \in InCode(stmt), stmt[i] = "INTO",
                      NEW j \in InCode(stmt), j <= i - 1, stmt[j] = "RETURNING"
               PROVE  HeardInto(stmt, i)
    BY DEF Heard
  <2>1. j < i /\ i <= i
    BY <1>1
  <2> QED BY <2>1 DEF HeardInto
<1>7. ~Heard(stmt, 0) /\ ~HeardInto(stmt, 0)
  BY <1>1 DEF Heard, HeardInto
<1> QED BY <1>3, <1>4, <1>5, <1>6, <1>7

LEMMA ScanTook ==
  ASSUME NEW L, NEW stmt \in Seq(L), NEW type, Plain(stmt), NEW i \in 1..Len(stmt)
  PROVE  Took(Scans(stmt, type)[i - 1], Scans(stmt, type)[i], type, stmt[i], i \in InCode(stmt))
<1>1. /\ Scans(stmt, type)[i] = Scan(Scans(stmt, type)[i - 1], type, stmt[i])
      /\ Scans(stmt, type)[i - 1] \in ScanStates /\ Regions(stmt)[i - 1] \in RegionNames
      /\ InRegion(Scans(stmt, type)[i - 1], Regions(stmt)[i - 1])
  <2>1. i - 1 \in 0..Len(stmt)
    OBVIOUS
  <2> QED BY <2>1, ScansRun, RegionsRun, FlagsFollow
<1>2. i \in InCode(stmt) <=> Regions(stmt)[i - 1] = "code"
  BY InCodeStep
<1>3. Regions(stmt)[i - 1] = "block" => stmt[i] # "dashes"
  <2>1. DOMAIN stmt = 1..Len(stmt) /\ i \in DOMAIN stmt
    OBVIOUS
  <2>2. Region(stmt)[i] = Regions(stmt)[i - 1]
    BY DEF Region
  <2> QED BY <2>1, <2>2 DEF Plain
<1>4. Took(Scans(stmt, type)[i - 1], Scans(stmt, type)[i], type, stmt[i],
           Regions(stmt)[i - 1] = "code")
  BY <1>1, <1>3, ScanInRegion
<1> QED BY <1>2, <1>4 DEF Took

LEMMA WordsFollow ==
  ASSUME NEW L, NEW stmt \in Seq(L), NEW type, Plain(stmt)
  PROVE  \A i \in 0..Len(stmt) :
           /\ Scans(stmt, type)[i].returning <=> type = "Dml" /\ Heard(stmt, i)
           /\ Scans(stmt, type)[i].into <=> type = "Dml" /\ HeardInto(stmt, i)
<1> DEFINE n == Len(stmt)
           st(i) == Scans(stmt, type)[i]
           Good(i) == /\ st(i).returning <=> type = "Dml" /\ Heard(stmt, i)
                      /\ st(i).into <=> type = "Dml" /\ HeardInto(stmt, i)
           T == {i \in 0..n : Good(i)}
<1>1. 0 \in T
  <2>1. ~Heard(stmt, 0) /\ ~HeardInto(stmt, 0)
    BY InCodePositions DEF Heard, HeardInto
  <2> QED BY <2>1, ScansRun DEF ScanStart
<1>2. ASSUME NEW i \in 1..n, i - 1 \in T PROVE i \in T
  <2>1. Took(st(i - 1), st(i), type, stmt[i], i \in InCode(stmt))
    BY ScanTook
  <2>2. st(i - 1).returning <=> type = "Dml" /\ Heard(stmt, i - 1)
    BY <1>2
  <2>3. st(i - 1).into <=> type = "Dml" /\ HeardInto(stmt, i - 1)
    BY <1>2
  <2>4. HeardInto(stmt, i - 1) => Heard(stmt, i - 1)
    <3>1. \A j \in InCode(stmt) : j \in Int
      BY InCodePositions
    <3>2. \A j, k \in InCode(stmt) : j < k /\ k <= i - 1 => j <= i - 1
      BY <3>1
    <3> QED BY <3>2 DEF Heard, HeardInto
  <2> HIDE DEF st
  <2>5. st(i).returning <=> type = "Dml" /\ Heard(stmt, i)
    BY <2>1, <2>2, HeardStep DEF Took
  <2>6. st(i).into <=> type = "Dml" /\ HeardInto(stmt, i)
    BY <2>1, <2>2, <2>3, <2>4, HeardStep DEF Took
  <2> QED BY <2>5, <2>6
<1>3. n \in Nat
  OBVIOUS
<1> HIDE DEF T, n
<1>4. \A i \in 0..n : i \in T
  BY <1>1, <1>2, <1>3, UpToInduction
<1> QED BY <1>4 DEF T, n

----------------------------------------------------------------------------
\* SqlText: the list of binds

\* The rank of a position among those of a set.
RankIn(S, i) == Cardinality({j \in S : j <= i})

LEMMA RankStep ==
  ASSUME NEW n \in Nat, NEW S, S \subseteq 1..n, NEW i \in 1..n
  PROVE  /\ RankIn(S, i) = IF i \in S THEN RankIn(S, i - 1) + 1 ELSE RankIn(S, i - 1)
         /\ RankIn(S, i - 1) \in Nat
<1>1. IsFiniteSet(S)
  <2>1. IsFiniteSet(1..n)
    BY FS_Interval
  <2> QED BY <2>1, FS_Subset
<1>2. IsFiniteSet({j \in S : j <= i - 1})
  BY <1>1, FS_Subset
<1>3. i \notin {j \in S : j <= i - 1}
  OBVIOUS
<1>4. {j \in S : j <= i} = IF i \in S THEN {j \in S : j <= i - 1} \cup {i} ELSE {j \in S : j <= i - 1}
  <2>1. \A j \in S : j <= i <=> j <= i - 1 \/ j = i
    OBVIOUS
  <2> QED BY <2>1
<1>5. Cardinality({j \in S : j <= i - 1} \cup {i}) = Cardinality({j \in S : j <= i - 1}) + 1
  BY <1>2, <1>3, FS_AddElement
<1>6. Cardinality({j \in S : j <= i - 1}) \in Nat
  BY <1>2, FS_CardinalityType
<1> QED BY <1>4, <1>5, <1>6 DEF RankIn

LEMMA RankEnds ==
  ASSUME NEW n \in Nat, NEW S, S \subseteq 1..n
  PROVE  RankIn(S, 0) = 0 /\ RankIn(S, n) = Cardinality(S)
<1>1. {j \in S : j <= 0} = {} /\ {j \in S : j <= n} = S
  <2>1. \A j \in S : ~(j <= 0) /\ j <= n
    OBVIOUS
  <2> QED BY <2>1
<1> QED BY <1>1, FS_EmptySet DEF RankIn

LEMMA RankBound ==
  ASSUME NEW n \in Nat, NEW S, S \subseteq 1..n, NEW i \in 0..n, NEW p \in S, p <= i
  PROVE  RankIn(S, p) \in 1..RankIn(S, i)
<1>1. IsFiniteSet(S)
  <2>1. IsFiniteSet(1..n)
    BY FS_Interval
  <2> QED BY <2>1, FS_Subset
<1>2. /\ IsFiniteSet({j \in S : j <= i}) /\ IsFiniteSet({j \in S : j <= p})
      /\ {j \in S : j <= p} \subseteq {j \in S : j <= i}
  <2>1. {j \in S : j <= i} \subseteq S /\ {j \in S : j <= p} \subseteq S
    OBVIOUS
  <2>2. {j \in S : j <= p} \subseteq {j \in S : j <= i}
    <3>1. \A j \in S : j \in Int
      OBVIOUS
    <3>2. p \in Int /\ i \in Int
      BY <3>1
    <3>3. \A j \in S : j <= p => j <= i
      BY <3>1, <3>2
    <3> QED BY <3>3
  <2> QED BY <1>1, <2>1, <2>2, FS_Subset
<1>3. Cardinality({j \in S : j <= p}) <= Cardinality({j \in S : j <= i})
  BY <1>2, FS_Subset
<1>4. p \in {j \in S : j <= p}
  OBVIOUS
<1>5. Cardinality({j \in S : j <= p}) \in Nat /\ Cardinality({j \in S : j <= i}) \in Nat
  BY <1>2, FS_CardinalityType
<1>6. Cardinality({j \in S : j <= p}) # 0
  BY <1>2, <1>4, FS_EmptySet
<1> QED BY <1>3, <1>5, <1>6 DEF RankIn

\* The names seen so far, in the list and in the text.
Listed(binds, x) == \E k \in DOMAIN binds : binds[k].name = x
InText(stmt, i, x) == \E j \in InCode(stmt) : j <= i /\ stmt[j] = x

Info(stmt, type, p) == [name |-> stmt[p], is_return |-> Returns(stmt, type, p)]

LEMMA AppendListed ==
  ASSUME NEW binds \in Seq(BindInfos), NEW b \in BindInfos, NEW x
  PROVE  /\ Listed(Append(binds, b), x) <=> Listed(binds, x) \/ b.name = x
         /\ Len(Append(binds, b)) = Len(binds) + 1
         /\ Append(binds, b)[Len(binds) + 1] = b
         /\ \A k \in 1..Len(binds) : Append(binds, b)[k] = binds[k]
<1> DEFINE n == Len(binds)
           a == Append(binds, b)
<1>1. n \in Nat /\ DOMAIN binds = 1..n /\ DOMAIN a = 1..(n + 1)
  OBVIOUS
<1>2. Len(a) = n + 1 /\ a[n + 1] = b /\ \A k \in 1..n : a[k] = binds[k]
  OBVIOUS
<1>3. \A k \in 1..(n + 1) : k \in 1..n \/ k = n + 1
  BY <1>1
<1>4. \A k \in 1..n : k \in 1..(n + 1)
  BY <1>1
<1>5. n + 1 \in 1..(n + 1)
  BY <1>1
<1> HIDE DEF a, n
<1>6. Listed(a, x) <=> Listed(binds, x) \/ b.name = x
  BY <1>1, <1>2, <1>3, <1>4, <1>5 DEF Listed
<1> QED BY <1>2, <1>6 DEF a, n

LEMMA NamesStepText ==
  ASSUME NEW L, NEW stmt \in Seq(L), NEW i \in 1..Len(stmt), NEW x
  PROVE  InText(stmt, i, x) <=> InText(stmt, i - 1, x) \/ (i \in InCode(stmt) /\ stmt[i] = x)
<1>1. \A j \in InCode(stmt) : j \in Int /\ j >= 1
  BY InCodePositions
<1>2. \A j \in InCode(stmt) : j <= i <=> j <= i - 1 \/ j = i
  BY <1>1
<1> QED BY <1>2 DEF InText

\* What the turn for position i does to the list.
LEMMA BindsStep ==
  ASSUME NEW L, NEW stmt \in Seq(L), NEW type, Plain(stmt), NEW i \in 1..Len(stmt),
         \A x \in Binds : Listed(Scans(stmt, type)[i - 1].binds, x) <=> InText(stmt, i - 1, x)
  PROVE  /\ Scans(stmt, type)[i].binds =
              IF i \in BindPositions(stmt, type)
              THEN Append(Scans(stmt, type)[i - 1].binds, Info(stmt, type, i))
              ELSE Scans(stmt, type)[i - 1].binds
         /\ i \in BindPositions(stmt, type) => Info(stmt, type, i) \in BindInfos
         /\ Scans(stmt, type)[i - 1].binds \in Seq(BindInfos)
<1> DEFINE st == Scans(stmt, type)[i - 1]
           st1 == Scans(stmt, type)[i]
<1>1. i - 1 \in 0..Len(stmt)
  OBVIOUS
<1>2. st \in ScanStates /\ st.binds \in Seq(BindInfos) /\ st.into \in BOOLEAN
  <2>1. st \in ScanStates
    BY <1>1, ScansRun
  <2> QED BY <2>1 DEF ScanStates
<1>3. Took(st, st1, type, stmt[i], i \in InCode(stmt))
  BY ScanTook
<1>4. \A j \in InCode(stmt) : j \in Int
  BY InCodePositions
<1>5. st.into <=> Returns(stmt, type, i)
  <2>1. st.into <=> type = "Dml" /\ HeardInto(stmt, i - 1)
    BY <1>1, WordsFollow
  <2>2. \A k \in InCode(stmt) : k < i <=> k <= i - 1
    BY <1>4
  <2> QED BY <2>1, <2>2 DEF Returns, HeardInto
<1>6. Returns(stmt, type, i) \in BOOLEAN
  BY DEF Returns
<1>7. i \in BindPositions(stmt, type) <=>
        /\ i \in InCode(stmt) /\ stmt[i] \in Binds
        /\ ~(type = "PlSql" /\ Listed(st.binds, stmt[i]))
  <2>1. \A j \in InCode(stmt) : j < i <=> j <= i - 1
    BY <1>4
  <2>2. stmt[i] \in Binds => (Listed(st.binds, stmt[i]) <=> \E j \in InCode(stmt) : j < i /\ stmt[j] = stmt[i])
    BY <2>1 DEF InText
  <2> HIDE DEF st
  <2> QED BY <2>2 DEF BindPositions
<1>8. stmt[i] \in Binds =>
        AddBind(st, type, stmt[i]).binds =
          IF type = "PlSql" /\ Listed(st.binds, stmt[i]) THEN st.binds
          ELSE Append(st.binds, [name |-> stmt[i], is_return |-> st.into])
  <2> HIDE DEF st
  <2>1. AddBind(st, type, stmt[i]) =
          IF type = "PlSql" /\ Listed(st.binds, stmt[i]) THEN st
          ELSE [st EXCEPT !.binds = Append(@, [name |-> stmt[i], is_return |-> st.into])]
    BY DEF AddBind, Listed
  <2>2. \A b : [st EXCEPT !.binds = b].binds = b
    BY <1>2 DEF ScanStates
  <2> QED BY <2>1, <2>2
<1>9. [name |-> stmt[i], is_return |-> st.into] = Info(stmt, type, i)
  BY <1>2, <1>5, <1>6 DEF Info
<1>10. st1.binds = IF i \in InCode(stmt) /\ stmt[i] \in Binds
                   THEN AddBind(st, type, stmt[i]).binds ELSE st.binds
  BY <1>3 DEF Took
<1>11. i \in BindPositions(stmt, type) => Info(stmt, type, i) \in BindInfos
  BY <1>6, <1>7 DEF Info, BindInfos
<1> HIDE DEF st, st1
<1>12. st1.binds = IF i \in BindPositions(stmt, type) THEN Append(st.binds, Info(stmt, type, i))
                   ELSE st.binds
  BY <1>7, <1>8, <1>9, <1>10
<1> QED BY <1>2, <1>11, <1>12 DEF st, st1

LEMMA BindsFollow ==
  ASSUME NEW L, NEW stmt \in Seq(L), NEW type, Plain(stmt)
  PROVE  \A i \in 0..Len(stmt) :
           /\ \A x \in Binds : Listed(Scans(stmt, type)[i].binds, x) <=> InText(stmt, i, x)
           /\ Len(Scans(stmt, type)[i].binds) = RankIn(BindPositions(stmt, type), i)
           /\ \A p \in BindPositions(stmt, type) :
                p <= i => Scans(stmt, type)[i].binds[RankIn(BindPositions(stmt, type), p)]
                            = Info(stmt, type, p)
<1> DEFINE n == Len(stmt)
           P == BindPositions(stmt, type)
           binds(i) == Scans(stmt, type)[i].binds
           Good(i) == /\ \A x \in Binds : Listed(binds(i), x) <=> InText(stmt, i, x)
                      /\ Len(binds(i)) = RankIn(P, i)
                      /\ \A p \in P : p <= i => binds(i)[RankIn(P, p)] = Info(stmt, type, p)
           T == {i \in 0..n : Good(i)}
<1>0. n \in Nat /\ P \subseteq 1..n
  BY InCodePositions DEF BindPositions
<1>1. 0 \in T
  <2>1. binds(0) = <<>>
    BY ScansRun DEF ScanStart
  <2>2. \A x : ~Listed(binds(0), x) /\ ~InText(stmt, 0, x)
    BY <2>1, InCodePositions DEF Listed, InText
  <2>3. RankIn(P, 0) = 0
    BY <1>0, RankEnds
  <2> QED BY <1>0, <2>1, <2>2, <2>3
<1>2. ASSUME NEW i \in 1..n, i - 1 \in T PROVE i \in T
  <2>1. Good(i - 1) /\ i - 1 \in 0..n
    BY <1>2
  <2> HIDE DEF T
  <2>2. /\ binds(i) = IF i \in P THEN Append(binds(i - 1), Info(stmt, type, i)) ELSE binds(i - 1)
        /\ i \in P => Info(stmt, type, i) \in BindInfos
        /\ binds(i - 1) \in Seq(BindInfos)
    BY <2>1, BindsStep
  <2>3. ASSUME NEW x PROVE InText(stmt, i, x) <=> InText(stmt, i - 1, x) \/ (i \in InCode(stmt) /\ stmt[i] = x)
    BY NamesStepText
  <2>4. /\ RankIn(P, i) = IF i \in P THEN RankIn(P, i - 1) + 1 ELSE RankIn(P, i - 1)
        /\ RankIn(P, i - 1) \in Nat
    <3> HIDE DEF P, n
    <3> QED BY <1>0, RankStep
  <2>5. \A p \in P : p <= i - 1 => RankIn(P, p) \in 1..RankIn(P, i - 1)
    <3> HIDE DEF P, n
    <3> QED BY <1>0, <2>1, RankBound
  <2>6. \A p \in P : p <= i <=> p <= i - 1 \/ p = i
    BY <1>0
  <2>7. CASE i \notin P
    <3>1. binds(i) = binds(i - 1) /\ RankIn(P, i) = RankIn(P, i - 1)
      BY <2>2, <2>4, <2>7
    <3>2. \A x \in Binds : InText(stmt, i, x) <=> InText(stmt, i - 1, x)
      <4> SUFFICES ASSUME NEW x \in Binds, i \in InCode(stmt), stmt[i] = x
                   PROVE  InText(stmt, i - 1, x)
        BY <2>3
      <4>1. PICK j \in InCode(stmt) : j < i /\ stmt[j] = stmt[i]
        BY <2>7 DEF BindPositions
      <4>2. j <= i - 1
        BY <4>1, InCodePositions
      <4> QED BY <4>1, <4>2 DEF InText
    <3> HIDE DEF binds, P
    <3>3. Good(i)
      BY <2>1, <2>6, <2>7, <3>1, <3>2
    <3> QED BY <3>3 DEF T
  <2>8. CASE i \in P
    <3> DEFINE b == Info(stmt, type, i)
    <3>1. b.name = stmt[i] /\ i \in InCode(stmt)
      BY <2>8 DEF Info, BindPositions
    <3>2. /\ \A x : Listed(Append(binds(i - 1), b), x) <=> Listed(binds(i - 1), x) \/ b.name = x
          /\ Len(Append(binds(i - 1), b)) = Len(binds(i - 1)) + 1
          /\ Append(binds(i - 1), b)[Len(binds(i - 1)) + 1] = b
          /\ \A k \in 1..Len(binds(i - 1)) : Append(binds(i - 1), b)[k] = binds(i - 1)[k]
      BY <2>2, <2>8, AppendListed
    <3> HIDE DEF binds, P, b
    <3>3. binds(i) = Append(binds(i - 1), b)
      BY <2>2, <2>8 DEF b
    <3>4. \A x \in Binds : Listed(binds(i), x) <=> InText(stmt, i, x)
      BY <2>1, <2>3, <3>1, <3>2, <3>3
    <3>5. Len(binds(i)) = RankIn(P, i) /\ binds(i)[RankIn(P, i)] = Info(stmt, type, i)
      BY <2>1, <2>4, <2>8, <3>2, <3>3 DEF b
    <3>6. ASSUME NEW p \in P, p <= i PROVE binds(i)[RankIn(P, p)] = Info(stmt, type, p)
      <4>1. CASE p = i
        BY <4>1, <3>5
      <4>2. CASE p <= i - 1
        <5>1. RankIn(P, p) \in 1..Len(binds(i - 1))
          BY <2>1, <2>5, <4>2
        <5> QED BY <2>1, <3>2, <3>3, <4>2, <5>1
      <4> QED BY <2>6, <3>6, <4>1, <4>2
    <3> QED BY <3>4, <3>5, <3>6 DEF T
  <2> QED BY <2>7, <2>8
<1> HIDE DEF T, n
<1>3. \A i \in 0..n : i \in T
  BY <1>0, <1>1, <1>2, UpToInduction
<1> QED BY <1>3 DEF T, n

(***************************************************************************)
(* parse_bind_variables finds the binds of every text, of any length: all  *)
(* those outside strings and comments, in order, each with its return      *)
(* flag, and once per name for PL/SQL.                                     *)
(***************************************************************************)
THEOREM BindsAlwaysExact ==
  ASSUME NEW L, NEW stmt \in Seq(L), NEW type
  PROVE  BindsOfTextExact(stmt, type)
<1> SUFFICES ASSUME Plain(stmt) PROVE BindsOfTextExact(stmt, type)
  BY DEF BindsOfTextExact
<1> DEFINE n == Len(stmt)
           P == BindPositions(stmt, type)
<1>1. n \in Nat /\ n \in 0..n /\ P \subseteq 1..n
  BY InCodePositions DEF BindPositions
<1>2. /\ Len(BindInfo(stmt, type)) = RankIn(P, n)
      /\ \A p \in P : p <= n => BindInfo(stmt, type)[RankIn(P, p)] = Info(stmt, type, p)
  BY <1>1, BindsFollow DEF BindInfo
<1>3. RankIn(P, n) = Cardinality(P)
  <2> HIDE DEF P, n
  <2> QED BY <1>1, RankEnds
<1>4. \A p \in P : p <= n
  BY <1>1
<1> QED BY <1>2, <1>3, <1>4 DEF BindsOfTextExact, RankIn, Info

----------------------------------------------------------------------------
\* The names sqlrs finds

NamesOf(binds) == [k \in DOMAIN binds |-> binds[k].name]

LEMMA NamesOfAppend ==
  ASSUME NEW binds \in Seq(BindInfos), NEW b \in BindInfos
  PROVE  NamesOf(Append(binds, b)) = Append(NamesOf(binds), b.name)
<1> DEFINE n == Len(binds)
           a == Append(binds, b)
           m == NamesOf(binds)
<1>1. n \in Nat /\ DOMAIN binds = 1..n /\ DOMAIN a = 1..(n + 1)
  OBVIOUS
<1>2. a[n + 1] = b /\ \A k \in 1..n : a[k] = binds[k]
  OBVIOUS
<1>3. m = [k \in 1..n |-> binds[k].name] /\ m \in Seq(Binds) /\ Len(m) = n
  <2>1. \A k \in 1..n : binds[k] \in BindInfos
    OBVIOUS
  <2>2. \A k \in 1..n : binds[k].name \in Binds
    BY <2>1 DEF BindInfos
  <2>3. m = [k \in 1..n |-> binds[k].name]
    BY <1>1 DEF NamesOf
  <2>4. m \in [1..n -> Binds]
    BY <2>2, <2>3
  <2> HIDE DEF m, n
  <2>5. m \in Seq(Binds) /\ DOMAIN m = 1..n /\ DOMAIN m = 1..Len(m)
    BY <1>1, <2>4
  <2>6. Len(m) = n
    BY <1>1, <2>5
  <2> QED BY <2>3, <2>5, <2>6
<1>4. NamesOf(a) = [k \in 1..(n + 1) |-> a[k].name]
  BY <1>1 DEF NamesOf
<1>5. Append(m, b.name) = [k \in 1..(n + 1) |-> IF k = n + 1 THEN b.name ELSE m[k]]
  <2> HIDE DEF m, n
  <2> QED BY <1>1, <1>3
<1>6. \A k \in 1..(n + 1) : a[k].name = IF k = n + 1 THEN b.name ELSE m[k]
  BY <1>1, <1>2, <1>3
<1> HIDE DEF a, m, n
<1> QED BY <1>4, <1>5, <1>6 DEF a, m

\* A text without comments whose PL/SQL binds have different names.
Simple(stmt, type) ==
  /\ \A i \in DOMAIN stmt : stmt[i] \notin {"dashes", "open"}
  /\ type = "PlSql" => \A i, j \in DOMAIN stmt : stmt[i] = stmt[j] /\ stmt[i] \in Binds => i = j

\* The two scanners are in the same place and have found the same.
SameFinds(st, found) ==
  /\ found.in_single_quote = st.in_string
  /\ ~st.in_comment /\ ~st.in_line_comment
  /\ found.names = NamesOf(st.binds)

LEMMA SameFindsStep ==
  ASSUME NEW st \in ScanStates, NEW found \in NameStates, NEW type, NEW x, SameFinds(st, found),
         x \notin {"dashes", "open"},
         type = "PlSql" => ~Listed(st.binds, x)
  PROVE  /\ SameFinds(Scan(st, type, x), NamesStep(found, x))
         /\ \A y : Listed(Scan(st, type, x).binds, y) => Listed(st.binds, y) \/ y = x
<1>1. CASE x = "quote"
  <2>1. /\ Scan(st, type, x) = [st EXCEPT !.in_string = ~@]
        /\ NamesStep(found, x) = [found EXCEPT !.in_single_quote = ~@]
    BY <1>1 DEF SameFinds, Scan, QuoteCounts, NamesStep, Binds
  <2> QED BY <2>1 DEF SameFinds, ScanStates, NameStates
<1>2. CASE x # "quote" /\ (st.in_string \/ x \notin Binds)
  <2>1. NamesStep(found, x) = found
    BY <1>2 DEF NamesStep, SameFinds
  <2>2. \/ Scan(st, type, x) = st
        \/ \E b \in BOOLEAN : \/ Scan(st, type, x) = [st EXCEPT !.returning = b]
                              \/ Scan(st, type, x) = [st EXCEPT !.into = b]
    <3>1. CASE st.in_string
      BY <1>2, <3>1 DEF Scan
    <3>2. CASE ~st.in_string
      <4>1. Scan(st, type, x) = CASE x = "RETURNING" -> [st EXCEPT !.returning = @ \/ type = "Dml"]
                                  [] x = "INTO" -> [st EXCEPT !.into = st.returning]
                                  [] x \in Binds -> AddBind(st, type, x)
                                  [] OTHER -> st
        BY <1>2, <3>2 DEF SameFinds, Scan
      <4>2. st.returning \in BOOLEAN /\ (st.returning \/ type = "Dml") \in BOOLEAN
        BY DEF ScanStates
      <4>3. x = "RETURNING" => Scan(st, type, x) = [st EXCEPT !.returning = st.returning \/ type = "Dml"]
        BY <4>1 DEF Binds
      <4>4. x = "INTO" => Scan(st, type, x) = [st EXCEPT !.into = st.returning]
        BY <4>1 DEF Binds
      <4>5. x \notin {"INTO", "RETURNING"} => Scan(st, type, x) = st
        BY <1>2, <3>2, <4>1
      <4> QED BY <4>2, <4>3, <4>4, <4>5
    <3> QED BY <3>1, <3>2
  <2> QED BY <2>1, <2>2 DEF SameFinds, ScanStates
<1>3. CASE ~st.in_string /\ x \in Binds
  <2> DEFINE b == [name |-> x, is_return |-> st.into]
  <2>1. NamesStep(found, x) = [found EXCEPT !.names = Append(@, x)]
    BY <1>3 DEF NamesStep, SameFinds, Binds
  <2>2. Scan(st, type, x) = [st EXCEPT !.binds = Append(@, b)]
    <3>1. Scan(st, type, x) = AddBind(st, type, x)
      BY <1>3 DEF SameFinds, Scan, QuoteCounts, Binds
    <3> QED BY <3>1 DEF AddBind, Listed
  <2>3. b \in BindInfos /\ st.binds \in Seq(BindInfos) /\ b.name = x
    BY <1>3 DEF BindInfos, ScanStates
  <2>4. /\ NamesOf(Append(st.binds, b)) = Append(NamesOf(st.binds), x)
        /\ \A y : Listed(Append(st.binds, b), y) <=> Listed(st.binds, y) \/ b.name = y
    BY <2>3, NamesOfAppend, AppendListed
  <2> HIDE DEF b
  <2> QED BY <2>1, <2>2, <2>3, <2>4 DEF SameFinds, ScanStates, NameStates
<1> QED BY <1>1, <1>2, <1>3

(***************************************************************************)
(* bind_names_for_sql of sqlrs finds in every text without comments the    *)
(* names that the statement has.                                           *)
(***************************************************************************)
THEOREM SqlrsAlwaysAgrees ==
  ASSUME NEW L, NEW stmt \in Seq(L), NEW type
  PROVE  SqlrsNamesAgree(stmt, type)
<1> SUFFICES ASSUME Simple(stmt, type)
             PROVE  BindNamesForSql(stmt) = NamesOf(BindInfo(stmt, type))
  BY DEF SqlrsNamesAgree, Simple, NamesOf
<1> DEFINE n == Len(stmt)
           st(i) == Scans(stmt, type)[i]
           found(i) == NameScans(stmt)[i]
           Seen(i) == \A y : Listed(st(i).binds, y) => \E p \in 1..i : stmt[p] = y
           T == {i \in 0..n : SameFinds(st(i), found(i)) /\ Seen(i)}
<1>0. n \in Nat /\ DOMAIN stmt = 1..n
  OBVIOUS
<1>1. 0 \in T
  <2>1. st(0) = ScanStart /\ found(0) = NamesStart
    BY ScansRun, NamesRun
  <2>2. st(0).binds = <<>> /\ ~st(0).in_string /\ ~st(0).in_comment /\ ~st(0).in_line_comment
    BY <2>1 DEF ScanStart
  <2>3. found(0).names = <<>> /\ found(0).in_single_quote = FALSE /\ st(0).in_string = FALSE
    BY <2>1 DEF NamesStart, ScanStart
  <2> HIDE DEF st, found
  <2>4. NamesOf(st(0).binds) = <<>> /\ \A y : ~Listed(st(0).binds, y)
    BY <2>2 DEF NamesOf, Listed
  <2>5. SameFinds(st(0), found(0))
    BY <2>2, <2>3, <2>4 DEF SameFinds
  <2>6. 0 \in 0..n /\ Seen(0)
    BY <1>0, <2>4
  <2> QED BY <2>5, <2>6
<1>2. ASSUME NEW i \in 1..n, i - 1 \in T PROVE i \in T
  <2>1. i - 1 \in 0..n /\ SameFinds(st(i - 1), found(i - 1)) /\ Seen(i - 1)
    BY <1>2
  <2>2. /\ st(i) = Scan(st(i - 1), type, stmt[i]) /\ st(i - 1) \in ScanStates
        /\ found(i) = NamesStep(found(i - 1), stmt[i]) /\ found(i - 1) \in NameStates
    BY <2>1, ScansRun, NamesRun, ZenonT(30)
  <2>3. stmt[i] \notin {"dashes", "open"}
    BY <1>0 DEF Simple
  <2>4. CASE type = "PlSql" /\ Listed(st(i - 1).binds, stmt[i])
    <3>1. PICK p \in 1..(i - 1) : stmt[p] = stmt[i]
      BY <2>1, <2>4
    <3>2. p \in 1..n /\ p # i
      BY <1>0
    <3>3. stmt[i] \in Binds
      <4>1. PICK k \in DOMAIN st(i - 1).binds : st(i - 1).binds[k].name = stmt[i]
        BY <2>4 DEF Listed
      <4>2. st(i - 1).binds \in Seq(BindInfos)
        BY <2>2 DEF ScanStates
      <4> HIDE DEF st
      <4>3. st(i - 1).binds[k] \in BindInfos
        BY <4>1, <4>2
      <4> QED BY <4>1, <4>3 DEF BindInfos
    <3> QED BY <1>0, <2>4, <3>1, <3>2, <3>3 DEF Simple
  <2>5. CASE ~(type = "PlSql" /\ Listed(st(i - 1).binds, stmt[i]))
    <3> HIDE DEF st, found
    <3>1. /\ SameFinds(st(i), found(i))
          /\ \A y : Listed(st(i).binds, y) => Listed(st(i - 1).binds, y) \/ y = stmt[i]
      BY <2>1, <2>2, <2>3, <2>5, SameFindsStep
    <3>2. Seen(i)
      <4> SUFFICES ASSUME NEW y, Listed(st(i).binds, y) PROVE \E p \in 1..i : stmt[p] = y
        OBVIOUS
      <4>1. CASE y = stmt[i]
        BY <4>1
      <4>2. CASE Listed(st(i - 1).binds, y)
        <5>1. PICK p \in 1..(i - 1) : stmt[p] = y
          BY <2>1, <4>2
        <5>2. p \in 1..i
          BY <1>0
        <5> QED BY <5>1, <5>2
      <4> QED BY <3>1, <4>1, <4>2
    <3> QED BY <1>0, <3>1, <3>2
  <2> QED BY <2>4, <2>5
<1> HIDE DEF T
<1>3. \A i \in 0..n : i \in T
  <2> HIDE DEF n
  <2> QED BY <1>0, <1>1, <1>2, UpToInduction
<1>4. SameFinds(st(n), found(n))
  BY <1>0, <1>3 DEF T
<1> QED BY <1>4 DEF SameFinds, BindNamesForSql, BindInfo

----------------------------------------------------------------------------
\* The arguments of a call

SplitStates(L) == [depth : Int, quoted : BOOLEAN, parts : Seq(Seq(L)), part : Seq(L)]

LEMMA SplitTyped ==
  ASSUME NEW L, NEW st \in SplitStates(L), NEW x \in L
  PROVE  SplitStep(st, x) \in SplitStates(L)
<1>1. /\ st.depth \in Int /\ st.quoted \in BOOLEAN /\ st.parts \in Seq(Seq(L)) /\ st.part \in Seq(L)
  BY DEF SplitStates
<1>2. /\ Append(st.parts, st.part) \in Seq(Seq(L)) /\ Append(st.part, x) \in Seq(L)
      /\ <<>> \in Seq(L) /\ DepthAfter(st, x) \in Int
      /\ (IF x = "quote" THEN ~st.quoted ELSE st.quoted) \in BOOLEAN
  <2>1. Append(st.parts, st.part) \in Seq(Seq(L)) /\ Append(st.part, x) \in Seq(L) /\ <<>> \in Seq(L)
    BY <1>1
  <2>2. DepthAfter(st, x) \in Int
    BY <1>1 DEF DepthAfter
  <2> QED BY <1>1, <2>1, <2>2
<1>3. \A d \in Int, q \in BOOLEAN, ps \in Seq(Seq(L)), p \in Seq(L) :
        /\ [st EXCEPT !.parts = ps, !.part = p] \in SplitStates(L)
        /\ [st EXCEPT !.part = p, !.depth = d, !.quoted = q] \in SplitStates(L)
  BY DEF SplitStates
<1> QED BY <1>2, <1>3 DEF SplitStep

LEMMA SplitsRun ==
  ASSUME NEW L, NEW stmt \in Seq(L)
  PROVE  /\ SplitScans(stmt) \in [0..Len(stmt) -> SplitStates(L)]
         /\ SplitScans(stmt)[0] = SplitStart
         /\ \A i \in 1..Len(stmt) : SplitScans(stmt)[i] = SplitStep(SplitScans(stmt)[i - 1], stmt[i])
<1> DEFINE n == Len(stmt)
           F == [p \in (1..n) \X SplitStates(L) |-> SplitStep(p[2], stmt[p[1]])]
           Body(f) == [i \in 0..n |-> IF i = 0 THEN SplitStart ELSE SplitStep(f[i - 1], stmt[i])]
<1>0. \A i \in 1..n : stmt[i] \in L
  OBVIOUS
<1>1. n \in Nat /\ SplitStart \in SplitStates(L)
  BY DEF SplitStart, SplitStates
<1>2. F \in [(1..n) \X SplitStates(L) -> SplitStates(L)]
  BY <1>0, SplitTyped
<1>3. PICK f : IsRun(f, n, SplitStates(L), SplitStart, F)
  <2> HIDE DEF F, n
  <2> QED BY <1>1, <1>2, RunExists
<1>4. f = Body(f)
  <2>1. f = [i \in 0..n |-> IF i = 0 THEN SplitStart ELSE F[<<i, f[i - 1]>>]]
    <3> HIDE DEF F, n
    <3> QED BY <1>1, <1>3, RunUnfolds
  <2>2. \A i \in 1..n : F[<<i, f[i - 1]>>] = SplitStep(f[i - 1], stmt[i])
    <3>1. ASSUME NEW i \in 1..n PROVE <<i, f[i - 1]>> \in (1..n) \X SplitStates(L)
      BY <1>1, <1>3 DEF IsRun
    <3> QED BY <3>1
  <2>3. \A i \in 0..n : i # 0 => i \in 1..n
    BY <1>1
  <2> HIDE DEF F, n
  <2> QED BY <2>1, <2>2, <2>3
<1> DEFINE g == SplitScans(stmt)
<1>5. g = Body(g)
  <2>1. g = CHOOSE h : h = Body(h)
    BY DEF SplitScans
  <2> HIDE DEF Body, g
  <2> QED BY <1>4, <2>1
<1> HIDE DEF g
<1>6. g[0] = SplitStart /\ \A i \in 1..n : g[i] = SplitStep(g[i - 1], stmt[i])
  BY <1>1, <1>5
<1>7. \A i \in 0..n : g[i] \in SplitStates(L)
  <2>1. g[0] \in SplitStates(L) /\ \A i \in 1..n : g[i - 1] \in SplitStates(L) => g[i] \in SplitStates(L)
    BY <1>1, <1>6, SplitTyped, <1>0
  <2> HIDE DEF n
  <2> QED BY <1>1, <2>1, RunTyped
<1>8. g \in [0..n -> SplitStates(L)]
  <2> HIDE DEF n
  <2> QED BY <1>5, <1>7
<1> QED BY <1>6, <1>8 DEF g


LEMMA BeforeStep ==
  ASSUME NEW L, NEW stmt \in Seq(L), NEW S, NEW i \in 1..Len(stmt)
  PROVE  /\ Before(stmt, i + 1, S) = IF stmt[i] \in S THEN Before(stmt, i, S) + 1 ELSE Before(stmt, i, S)
         /\ Before(stmt, i, S) \in Nat
         /\ Before(stmt, 1, S) = 0
<1> DEFINE n == Len(stmt)
           Q == {j \in 1..n : stmt[j] \in S}
<1>1. n \in Nat /\ Q \subseteq 1..n /\ i \in 1..n
  OBVIOUS
<1>2. /\ RankIn(Q, i) = IF i \in Q THEN RankIn(Q, i - 1) + 1 ELSE RankIn(Q, i - 1)
      /\ RankIn(Q, i - 1) \in Nat /\ RankIn(Q, 0) = 0
  <2> HIDE DEF n, Q
  <2>1. RankIn(Q, 0) = 0
    BY <1>1, RankEnds
  <2>2. /\ RankIn(Q, i) = IF i \in Q THEN RankIn(Q, i - 1) + 1 ELSE RankIn(Q, i - 1)
        /\ RankIn(Q, i - 1) \in Nat
    BY <1>1, RankStep
  <2> QED BY <2>1, <2>2
<1>3. \A k \in 1..(n + 1) : Before(stmt, k, S) = RankIn(Q, k - 1)
  <2> SUFFICES ASSUME NEW k \in 1..(n + 1)
               PROVE  {j \in 1..(k - 1) : stmt[j] \in S} = {j \in Q : j <= k - 1}
    BY DEF Before, RankIn
  <2>1. \A j : j \in 1..(k - 1) <=> j \in 1..n /\ j <= k - 1
    BY <1>1
  <2> QED BY <2>1
<1>4. /\ i \in 1..(n + 1) /\ i + 1 \in 1..(n + 1) /\ 1 \in 1..(n + 1) /\ (i + 1) - 1 = i /\ 1 - 1 = 0
      /\ i \in Q <=> stmt[i] \in S
  BY <1>1
<1> HIDE DEF n, Q
<1>5. Before(stmt, i + 1, S) = RankIn(Q, (i + 1) - 1) /\ Before(stmt, i, S) = RankIn(Q, i - 1)
      /\ Before(stmt, 1, S) = RankIn(Q, 1 - 1)
  BY <1>3, <1>4
<1> QED BY <1>2, <1>4, <1>5

LEMMA OpenedStep ==
  ASSUME NEW L, NEW stmt \in Seq(L), NEW p, NEW i \in 1..Len(stmt)
  PROVE  /\ Opened(stmt, i + 1, p) = IF stmt[i] = p /\ Unquoted(stmt, i)
                                     THEN Opened(stmt, i, p) + 1 ELSE Opened(stmt, i, p)
         /\ Opened(stmt, i, p) \in Nat
         /\ Opened(stmt, 1, p) = 0
<1> DEFINE n == Len(stmt)
           Q == {j \in 1..n : stmt[j] = p /\ Unquoted(stmt, j)}
<1>1. n \in Nat /\ Q \subseteq 1..n /\ i \in 1..n
  OBVIOUS
<1>2. /\ RankIn(Q, i) = IF i \in Q THEN RankIn(Q, i - 1) + 1 ELSE RankIn(Q, i - 1)
      /\ RankIn(Q, i - 1) \in Nat /\ RankIn(Q, 0) = 0
  <2> HIDE DEF n, Q
  <2>1. RankIn(Q, 0) = 0
    BY <1>1, RankEnds
  <2>2. /\ RankIn(Q, i) = IF i \in Q THEN RankIn(Q, i - 1) + 1 ELSE RankIn(Q, i - 1)
        /\ RankIn(Q, i - 1) \in Nat
    BY <1>1, RankStep
  <2> QED BY <2>1, <2>2
<1>3. \A k \in 1..(n + 1) : Opened(stmt, k, p) = RankIn(Q, k - 1)
  <2> SUFFICES ASSUME NEW k \in 1..(n + 1)
               PROVE  {j \in 1..(k - 1) : stmt[j] = p /\ Unquoted(stmt, j)} = {j \in Q : j <= k - 1}
    BY DEF Opened, RankIn
  <2>1. \A j : j \in 1..(k - 1) <=> j \in 1..n /\ j <= k - 1
    BY <1>1
  <2> QED BY <2>1
<1>4. /\ i \in 1..(n + 1) /\ i + 1 \in 1..(n + 1) /\ 1 \in 1..(n + 1) /\ (i + 1) - 1 = i /\ 1 - 1 = 0
      /\ i \in Q <=> stmt[i] = p /\ Unquoted(stmt, i)
  BY <1>1
<1> HIDE DEF n, Q
<1>5. Opened(stmt, i + 1, p) = RankIn(Q, (i + 1) - 1) /\ Opened(stmt, i, p) = RankIn(Q, i - 1)
      /\ Opened(stmt, 1, p) = RankIn(Q, 1 - 1)
  BY <1>3, <1>4
<1> QED BY <1>2, <1>4, <1>5

\* The splitter knows the quotes and parentheses before the next position.
LEMMA SplitCounts ==
  ASSUME NEW L, NEW stmt \in Seq(L)
  PROVE  \A i \in 0..Len(stmt) :
           /\ SplitScans(stmt)[i].quoted <=> ~Unquoted(stmt, i + 1)
           /\ SplitScans(stmt)[i].depth = Opened(stmt, i + 1, "(") - Opened(stmt, i + 1, ")")
<1> DEFINE n == Len(stmt)
           st(i) == SplitScans(stmt)[i]
           Good(i) == /\ st(i).quoted <=> ~Unquoted(stmt, i + 1)
                      /\ st(i).depth = Opened(stmt, i + 1, "(") - Opened(stmt, i + 1, ")")
           T == {i \in 0..n : Good(i)}
<1>0. n \in Nat
  OBVIOUS
<1>1. 0 \in T
  <2>1. st(0) = SplitStart
    BY SplitsRun
  <2>2. Before(stmt, 1, {"quote"}) = 0 /\ Opened(stmt, 1, "(") = 0 /\ Opened(stmt, 1, ")") = 0
    <3>2. {j \in 1..(1 - 1) : stmt[j] \in {"quote"}} = {}
      OBVIOUS
    <3>3. {j \in 1..(1 - 1) : stmt[j] = "(" /\ Unquoted(stmt, j)} = {}
      OBVIOUS
    <3>4. {j \in 1..(1 - 1) : stmt[j] = ")" /\ Unquoted(stmt, j)} = {}
      OBVIOUS
    <3> QED BY <3>2, <3>3, <3>4, FS_EmptySet DEF Before, Opened
  <2>3. Unquoted(stmt, 1)
    BY <2>2 DEF Unquoted
  <2>4. ~st(0).quoted /\ st(0).depth = 0 /\ 0 + 1 = 1 /\ 0 - 0 = 0
    BY <2>1 DEF SplitStart
  <2> HIDE DEF st
  <2>5. Good(0)
    BY <2>2, <2>3, <2>4
  <2> QED BY <1>0, <2>5
<1>2. ASSUME NEW i \in 1..n, i - 1 \in T PROVE i \in T
  <2>1. i - 1 \in 0..n /\ (i - 1) + 1 = i /\ Good(i - 1)
    BY <1>2
  <2>2. st(i) = SplitStep(st(i - 1), stmt[i]) /\ st(i - 1) \in SplitStates(L)
    BY <2>1, SplitsRun
  <2> HIDE DEF st
  <2>3. /\ st(i - 1).quoted <=> ~Unquoted(stmt, i)
        /\ st(i - 1).depth = Opened(stmt, i, "(") - Opened(stmt, i, ")")
    BY <2>1
  <2>4. /\ st(i).quoted <=> IF stmt[i] = "quote" THEN ~st(i - 1).quoted ELSE st(i - 1).quoted
        /\ st(i).depth = DepthAfter(st(i - 1), stmt[i])
    BY <2>2 DEF SplitStep, SplitStates, DepthAfter
  <2>5. Unquoted(stmt, i + 1) <=> IF stmt[i] = "quote" THEN ~Unquoted(stmt, i) ELSE Unquoted(stmt, i)
    <3>1. /\ Before(stmt, i + 1, {"quote"}) = IF stmt[i] \in {"quote"} THEN Before(stmt, i, {"quote"}) + 1
                                              ELSE Before(stmt, i, {"quote"})
          /\ Before(stmt, i, {"quote"}) \in Nat
      BY BeforeStep
    <3>2. \A m \in Nat : (m + 1) % 2 = 0 <=> ~(m % 2 = 0)
      OBVIOUS
    <3> QED BY <3>1, <3>2 DEF Unquoted
  <2>6. /\ Opened(stmt, i + 1, "(") = IF stmt[i] = "(" /\ Unquoted(stmt, i)
                                      THEN Opened(stmt, i, "(") + 1 ELSE Opened(stmt, i, "(")
        /\ Opened(stmt, i + 1, ")") = IF stmt[i] = ")" /\ Unquoted(stmt, i)
                                      THEN Opened(stmt, i, ")") + 1 ELSE Opened(stmt, i, ")")
        /\ Opened(stmt, i, "(") \in Nat /\ Opened(stmt, i, ")") \in Nat
    BY OpenedStep
  <2>7. st(i).quoted <=> ~Unquoted(stmt, i + 1)
    BY <2>3, <2>4, <2>5
  <2>8. st(i).depth = Opened(stmt, i + 1, "(") - Opened(stmt, i + 1, ")")
    <3>1. DepthAfter(st(i - 1), stmt[i]) =
            IF stmt[i] = "(" /\ Unquoted(stmt, i) THEN st(i - 1).depth + 1
            ELSE IF stmt[i] = ")" /\ Unquoted(stmt, i) THEN st(i - 1).depth - 1
            ELSE st(i - 1).depth
      BY <2>3 DEF DepthAfter
    <3>2. CASE stmt[i] = "("
      BY <2>3, <2>4, <2>6, <3>1, <3>2
    <3>3. CASE stmt[i] # "("
      BY <2>3, <2>4, <2>6, <3>1, <3>3
    <3> QED BY <3>2, <3>3
  <2> QED BY <2>7, <2>8
<1> HIDE DEF T, n
<1>3. \A i \in 0..n : i \in T
  BY <1>0, <1>1, <1>2, UpToInduction
<1> QED BY <1>3 DEF T, n

LEMMA CutsFound ==
  ASSUME NEW L, NEW stmt \in Seq(L), NEW i \in 1..Len(stmt)
  PROVE  i \in Cuts(stmt) <=> /\ stmt[i] = "," /\ ~SplitScans(stmt)[i - 1].quoted
                             /\ SplitScans(stmt)[i - 1].depth = 0
<1>1. i - 1 \in 0..Len(stmt) /\ (i - 1) + 1 = i /\ i \in DOMAIN stmt
  OBVIOUS
<1>2. /\ SplitScans(stmt)[i - 1].quoted <=> ~Unquoted(stmt, i)
      /\ SplitScans(stmt)[i - 1].depth = Opened(stmt, i, "(") - Opened(stmt, i, ")")
  BY <1>1, SplitCounts
<1>3. Opened(stmt, i, "(") \in Nat /\ Opened(stmt, i, ")") \in Nat
  BY OpenedStep
<1>4. SplitScans(stmt)[i - 1].depth = 0 <=> Opened(stmt, i, "(") = Opened(stmt, i, ")")
  BY <1>2, <1>3
<1> QED BY <1>1, <1>2, <1>4 DEF Cuts

LEMMA SubSeqGrows ==
  ASSUME NEW L, NEW stmt \in Seq(L), NEW i \in 1..Len(stmt), NEW c \in 0..(i - 1)
  PROVE  Append(SubSeq(stmt, c + 1, i - 1), stmt[i]) = SubSeq(stmt, c + 1, i)
<1> DEFINE a == SubSeq(stmt, c + 1, i - 1)
           b == SubSeq(stmt, c + 1, i)
<1>1. a \in Seq(L) /\ Len(a) = i - 1 - c /\ \A k \in 1..(i - 1 - c) : a[k] = stmt[c + k]
  OBVIOUS
<1>2. b \in Seq(L) /\ Len(b) = i - c /\ \A k \in 1..(i - c) : b[k] = stmt[c + k]
  OBVIOUS
<1>3. Len(Append(a, stmt[i])) = i - c /\ Append(a, stmt[i]) \in Seq(L)
  <2>1. stmt[i] \in L
    OBVIOUS
  <2> HIDE DEF a
  <2> QED BY <1>1, <2>1
<1>4. ASSUME NEW k \in 1..(i - c) PROVE Append(a, stmt[i])[k] = b[k]
  <2>1. CASE k = i - c
    <3>1. c + k = i /\ k = Len(a) + 1
      BY <1>1, <2>1
    <3> HIDE DEF a, b
    <3> QED BY <1>1, <1>2, <3>1
  <2>2. CASE k # i - c
    <3>1. k \in 1..(i - 1 - c)
      <4> HIDE DEF a, b
      <4> QED BY <2>2
    <3> HIDE DEF a, b
    <3>2. k \in 1..Len(a)
      BY <1>1, <3>1
    <3>3. Append(a, stmt[i])[k] = a[k]
      BY <1>1, <1>3, <3>2
    <3> QED BY <1>1, <1>2, <3>1, <3>3
  <2> QED BY <2>1, <2>2
<1> HIDE DEF a, b
<1>5. Append(a, stmt[i]) = b
  BY <1>2, <1>3, <1>4, SeqEqual
<1> QED BY <1>5 DEF a, b

\* No cut stands between positions c and d.
NoCut(cuts, c, d) == \A e \in cuts : e <= c \/ d <= e

\* The parts and the part begun after position i.
PartsExact(stmt, st, i) ==
  LET C == Cuts(stmt)
  IN  /\ Len(st.parts) = RankIn(C, i)
      /\ \A c \in {0} \cup C, d \in C :
           d <= i /\ c < d /\ NoCut(C, c, d) => st.parts[RankIn(C, d)] = SubSeq(stmt, c + 1, d - 1)
      /\ \A c \in {0} \cup C :
           c <= i /\ NoCut(C, c, i + 1) => st.part = SubSeq(stmt, c + 1, i)

LEMMA PartsFollow ==
  ASSUME NEW L, NEW stmt \in Seq(L)
  PROVE  \A i \in 0..Len(stmt) : PartsExact(stmt, SplitScans(stmt)[i], i)
<1> DEFINE n == Len(stmt)
           C == Cuts(stmt)
           st(i) == SplitScans(stmt)[i]
           T == {i \in 0..n : PartsExact(stmt, st(i), i)}
<1>0. n \in Nat /\ C \subseteq 1..n
  <2>1. DOMAIN stmt = 1..n /\ n \in Nat
    OBVIOUS
  <2> QED BY <2>1 DEF Cuts
<1>1. 0 \in T
  <2>1. st(0) = SplitStart
    BY SplitsRun
  <2>2. st(0).parts = <<>> /\ st(0).part = <<>>
    BY <2>1 DEF SplitStart
  <2>3. RankIn(C, 0) = 0
    <3> HIDE DEF C, n
    <3> QED BY <1>0, RankEnds
  <2>4. \A c \in {0} \cup C : c <= 0 => c = 0
    BY <1>0
  <2>5. \A d \in C : ~(d <= 0)
    BY <1>0
  <2>6. SubSeq(stmt, 0 + 1, 0) = <<>>
    OBVIOUS
  <2> HIDE DEF st
  <2>7. PartsExact(stmt, st(0), 0)
    BY <2>2, <2>3, <2>4, <2>5, <2>6 DEF PartsExact
  <2> QED BY <1>0, <2>7
<1>2. ASSUME NEW i \in 1..n, i - 1 \in T PROVE i \in T
  <2>1. i - 1 \in 0..n /\ (i - 1) + 1 = i /\ PartsExact(stmt, st(i - 1), i - 1) /\ i \in 0..n
    BY <1>2
  <2>2. /\ st(i) = SplitStep(st(i - 1), stmt[i]) /\ st(i - 1) \in SplitStates(L)
        /\ i \in C <=> stmt[i] = "," /\ ~st(i - 1).quoted /\ st(i - 1).depth = 0
    BY <2>1, SplitsRun, CutsFound
  <2>3. /\ RankIn(C, i) = IF i \in C THEN RankIn(C, i - 1) + 1 ELSE RankIn(C, i - 1)
        /\ RankIn(C, i - 1) \in Nat
    <3> HIDE DEF C, n
    <3> QED BY <1>0, RankStep
  <2>4. \A d \in C : d <= i - 1 => RankIn(C, d) \in 1..RankIn(C, i - 1)
    <3> HIDE DEF C, n
    <3> QED BY <1>0, <2>1, RankBound
  <2>5. /\ Len(st(i - 1).parts) = RankIn(C, i - 1)
        /\ \A c \in {0} \cup C, d \in C : d <= i - 1 /\ c < d /\ NoCut(C, c, d)
              => st(i - 1).parts[RankIn(C, d)] = SubSeq(stmt, c + 1, d - 1)
        /\ \A c \in {0} \cup C : c <= i - 1 /\ NoCut(C, c, i)
              => st(i - 1).part = SubSeq(stmt, c + 1, i - 1)
    BY <2>1 DEF PartsExact
  <2>6. \A d \in C : d \in Int /\ (d <= i <=> d <= i - 1 \/ d = i)
    BY <1>0
  <2>7. \A c \in {0} \cup C : c \in 0..n /\ (c <= i <=> c <= i - 1 \/ c = i) /\ (c < i <=> c <= i - 1)
    BY <1>0
  <2> HIDE DEF T, st, C
  <2>8. CASE i \in C
    <3>1. /\ st(i).parts = Append(st(i - 1).parts, st(i - 1).part) /\ st(i).part = <<>>
          /\ st(i - 1).parts \in Seq(Seq(L))
      BY <2>2, <2>8 DEF SplitStep, SplitStates
    <3> DEFINE old == st(i - 1).parts
               part == st(i - 1).part
    <3>2. /\ Len(Append(old, part)) = Len(old) + 1
          /\ Append(old, part)[Len(old) + 1] = part
          /\ \A k \in 1..Len(old) : Append(old, part)[k] = old[k]
      BY <3>1
    <3> HIDE DEF old, part
    <3>3. Len(st(i).parts) = RankIn(C, i)
      BY <2>3, <2>5, <2>8, <3>1, <3>2 DEF old, part
    <3>4. ASSUME NEW c \in {0} \cup C, NEW d \in C, d <= i, c < d, NoCut(C, c, d)
          PROVE  st(i).parts[RankIn(C, d)] = SubSeq(stmt, c + 1, d - 1)
      <4>1. CASE d = i
        <5>1. c <= i - 1 /\ NoCut(C, c, i)
          BY <2>7, <3>4, <4>1
        <5>2. part = SubSeq(stmt, c + 1, i - 1)
          BY <2>5, <5>1 DEF part
        <5>3. RankIn(C, i) = Len(old) + 1
          BY <2>3, <2>5, <2>8 DEF old
        <5> QED BY <3>1, <3>2, <4>1, <5>2, <5>3 DEF old, part
      <4>2. CASE d <= i - 1
        <5>1. old[RankIn(C, d)] = SubSeq(stmt, c + 1, d - 1)
          BY <2>5, <3>4, <4>2 DEF old
        <5>2. RankIn(C, d) \in 1..Len(old)
          BY <2>4, <2>5, <4>2 DEF old
        <5> QED BY <3>1, <3>2, <5>1, <5>2 DEF old, part
      <4> QED BY <2>6, <3>4, <4>1, <4>2
    <3>5. ASSUME NEW c \in {0} \cup C, c <= i, NoCut(C, c, i + 1)
          PROVE  st(i).part = SubSeq(stmt, c + 1, i)
      <4>1. i <= c
        <5>1. i <= c \/ i + 1 <= i
          BY <2>8, <3>5 DEF NoCut
        <5> QED BY <2>1, <5>1
      <4>2. c = i
        BY <2>1, <2>7, <3>5, <4>1
      <4>3. SubSeq(stmt, i + 1, i) = <<>>
        OBVIOUS
      <4> QED BY <3>1, <4>2, <4>3
    <3>6. PartsExact(stmt, st(i), i)
      BY <3>3, <3>4, <3>5 DEF PartsExact, C
    <3> QED BY <2>1, <3>6 DEF T
  <2>9. CASE i \notin C
    <3>1. st(i).parts = st(i - 1).parts /\ st(i).part = Append(st(i - 1).part, stmt[i])
      BY <2>2, <2>9 DEF SplitStep, SplitStates
    <3>2. Len(st(i).parts) = RankIn(C, i)
      BY <2>3, <2>5, <2>9, <3>1
    <3>3. ASSUME NEW c \in {0} \cup C, NEW d \in C, d <= i, c < d, NoCut(C, c, d)
          PROVE  st(i).parts[RankIn(C, d)] = SubSeq(stmt, c + 1, d - 1)
      <4>1. d <= i - 1
        BY <2>6, <2>9, <3>3
      <4> QED BY <2>5, <3>1, <3>3, <4>1
    <3>4. ASSUME NEW c \in {0} \cup C, c <= i, NoCut(C, c, i + 1)
          PROVE  st(i).part = SubSeq(stmt, c + 1, i)
      <4>1. c <= i - 1 /\ c \in 0..(i - 1)
        BY <2>1, <2>7, <2>9, <3>4
      <4>2. NoCut(C, c, i)
        <5>1. \A e \in C : i + 1 <= e => i <= e
          BY <2>6, <2>1
        <5> QED BY <3>4, <5>1 DEF NoCut
      <4>3. st(i - 1).part = SubSeq(stmt, c + 1, i - 1)
        BY <2>5, <4>1, <4>2
      <4>4. Append(SubSeq(stmt, c + 1, i - 1), stmt[i]) = SubSeq(stmt, c + 1, i)
        BY <4>1, SubSeqGrows
      <4> QED BY <3>1, <4>3, <4>4
    <3>5. PartsExact(stmt, st(i), i)
      BY <3>2, <3>3, <3>4 DEF PartsExact, C
    <3> QED BY <2>1, <3>5 DEF T
  <2> QED BY <2>8, <2>9
<1> HIDE DEF T, n, st
<1>3. \A i \in 0..n : i \in T
  BY <1>0, <1>1, <1>2, UpToInduction
<1> QED BY <1>3 DEF T, n, st

(***************************************************************************)
(* split_top_level cuts every text at its top-level commas and at no       *)
(* other.                                                                  *)
(***************************************************************************)
THEOREM ArgumentsAlwaysExact ==
  ASSUME NEW L, NEW stmt \in Seq(L)
  PROVE  ArgumentsExact(stmt)
<1> DEFINE n == Len(stmt)
           C == Cuts(stmt)
           st == SplitScans(stmt)[n]
           parts == Append(st.parts, st.part)
<1>0. n \in Nat /\ n \in 0..n /\ C \subseteq 1..n
  <2>1. DOMAIN stmt = 1..n /\ n \in Nat /\ n \in 0..n
    OBVIOUS
  <2> QED BY <2>1 DEF Cuts
<1>1. st \in SplitStates(L) /\ SplitTopLevel(stmt) = parts
  BY <1>0, SplitsRun DEF SplitTopLevel
<1>2. PartsExact(stmt, st, n)
  BY <1>0, PartsFollow
<1>3. st.parts \in Seq(Seq(L)) /\ st.part \in Seq(L)
  BY <1>1 DEF SplitStates
<1>4. /\ Len(parts) = Len(st.parts) + 1
      /\ parts[Len(st.parts) + 1] = st.part
      /\ \A k \in 1..Len(st.parts) : parts[k] = st.parts[k]
  <2> HIDE DEF st
  <2> QED BY <1>3
<1> HIDE DEF st, parts, C, n
<1>5. RankIn(C, n) = Cardinality(C) /\ Len(st.parts) = Cardinality(C)
  <2>1. RankIn(C, n) = Cardinality(C)
    BY <1>0, RankEnds
  <2> QED BY <1>2, <2>1 DEF PartsExact, C
<1>6. Len(parts) = Cardinality(C) + 1
  BY <1>4, <1>5
<1>7. \A e \in C : e \in 1..n
  BY <1>0
<1>8. ASSUME NEW c \in {0, n + 1} \cup C, NEW d \in {0, n + 1} \cup C, c < d, NoCut(C, c, d)
      PROVE  parts[Cardinality({e \in C : e < d}) + 1] = SubSeq(stmt, c + 1, d - 1)
  <2>1. c \in {0} \cup C /\ c <= n
    <3>1. c \in Int /\ d \in Int /\ d <= n + 1
      BY <1>0, <1>7
    <3> QED BY <1>0, <1>7, <1>8, <3>1
  <2>2. CASE d \in C
    <3>1. d \in 1..n
      BY <1>7, <2>2
    <3>2. {e \in C : e < d} = {e \in C : e <= d - 1}
      <4>1. \A e \in C : e < d <=> e <= d - 1
        BY <1>7, <3>1
      <4> QED BY <4>1
    <3>3. RankIn(C, d) = RankIn(C, d - 1) + 1
      BY <1>0, <2>2, <3>1, RankStep
    <3>4. Cardinality({e \in C : e < d}) + 1 = RankIn(C, d)
      BY <3>2, <3>3 DEF RankIn
    <3>5. RankIn(C, d) \in 1..Len(st.parts)
      <4>1. d <= n
        BY <3>1
      <4>2. RankIn(C, d) \in 1..RankIn(C, n)
        BY <1>0, <2>2, <4>1, RankBound
      <4> QED BY <1>5, <4>2
    <3>6. st.parts[RankIn(C, d)] = SubSeq(stmt, c + 1, d - 1)
      <4>1. d <= n
        BY <3>1
      <4> QED BY <1>2, <1>8, <2>1, <2>2, <4>1 DEF PartsExact, C
    <3> QED BY <1>4, <3>4, <3>5, <3>6
  <2>3. CASE d = n + 1
    <3>1. {e \in C : e < d} = C
      <4>1. \A e \in C : e < d
        BY <1>0, <1>7, <2>3
      <4> QED BY <4>1
    <3>2. st.part = SubSeq(stmt, c + 1, n)
      BY <1>2, <1>8, <2>1, <2>3 DEF PartsExact, C
    <3>3. d - 1 = n
      BY <1>0, <2>3
    <3> QED BY <1>4, <1>5, <3>1, <3>2, <3>3
  <2>4. d # 0
    BY <1>0, <1>7, <1>8
  <2> QED BY <2>2, <2>3, <2>4
<1> QED BY <1>1, <1>6, <1>8 DEF ArgumentsExact, NoCut, C, n

----------------------------------------------------------------------------
\* TypeCodecs and WireBuffers

Byte == 0..255
Int32 == {v \in Int : -2147483648 <= v /\ v <= 2147483647}
UInt32 == {v \in Int : 0 <= v /\ v <= 4294967295}
UInt16 == {v \in Int : 0 <= v /\ v <= 65535}

\* The four bytes of a number, the highest first.
Byte1(v) == (v \div 16777216) % 256
Byte2(v) == (v \div 65536) % 256
Byte3(v) == (v \div 256) % 256
Byte4(v) == v % 256

LEMMA AreBytes ==
  ASSUME NEW v \in Int
  PROVE  Byte1(v) \in Byte /\ Byte2(v) \in Byte /\ Byte3(v) \in Byte /\ Byte4(v) \in Byte
BY SMT DEF Byte1, Byte2, Byte3, Byte4, Byte

LEMMA Bytes4 ==
  ASSUME NEW v \in Int
  PROVE  /\ Be4(v) \in Seq(Byte) /\ Len(Be4(v)) = 4
         /\ Be4(v)[1] = Byte1(v) /\ Be4(v)[2] = Byte2(v)
         /\ Be4(v)[3] = Byte3(v) /\ Be4(v)[4] = Byte4(v)
<1>1. Be4(v) = <<Byte1(v), Byte2(v), Byte3(v), Byte4(v)>>
  BY SMT DEF Be4, Byte1, Byte2, Byte3, Byte4
<1> QED BY <1>1, AreBytes

LEMMA Bytes2 ==
  ASSUME NEW v \in Int
  PROVE  /\ Be2(v) \in Seq(Byte) /\ Len(Be2(v)) = 2
         /\ Be2(v)[1] = Byte3(v) /\ Be2(v)[2] = Byte4(v)
<1>1. Be2(v) = <<Byte3(v), Byte4(v)>>
  BY SMT DEF Be2, Byte3, Byte4
<1> QED BY <1>1, AreBytes

LEMMA FourBytes ==
  ASSUME NEW v \in Int
  PROVE  v = (v \div 16777216) * 16777216 + Byte2(v) * 65536 + Byte3(v) * 256 + Byte4(v)
<1>1. v \div 65536 = (v \div 256) \div 256 /\ v \div 16777216 = (v \div 65536) \div 256
  BY SMT
<1> QED BY <1>1, SMT DEF Byte2, Byte3, Byte4

LEMMA UInt32Back ==
  ASSUME NEW v \in UInt32, NEW b, \A i \in 1..4 : b[i] = Be4(v)[i]
  PROVE  FromBe4(b) = v
<1>1. v \in Int /\ v \div 16777216 = Byte1(v)
  <2>1. v \in Int /\ 0 <= v /\ v <= 4294967295
    BY SMT DEF UInt32
  <2> QED BY <2>1, SMT DEF Byte1
<1>2. b[1] = Byte1(v) /\ b[2] = Byte2(v) /\ b[3] = Byte3(v) /\ b[4] = Byte4(v)
  BY <1>1, Bytes4
<1>3. v = Byte1(v) * 16777216 + Byte2(v) * 65536 + Byte3(v) * 256 + Byte4(v)
  BY <1>1, FourBytes, SMT
<1> QED BY <1>2, <1>3, SMT DEF FromBe4

LEMMA UInt16Back ==
  ASSUME NEW v \in UInt16, NEW b, \A i \in 1..2 : b[i] = Be2(v)[i]
  PROVE  FromBe2(b) = v
<1>1. v \in Int /\ v = Byte3(v) * 256 + Byte4(v)
  <2>1. v \in Int /\ 0 <= v /\ v <= 65535
    BY SMT DEF UInt16
  <2> QED BY <2>1, SMT DEF Byte3, Byte4
<1>2. b[1] = Byte3(v) /\ b[2] = Byte4(v)
  BY <1>1, Bytes2
<1> QED BY <1>1, <1>2 DEF FromBe2

LEMMA ExcessBytes ==
  ASSUME NEW v \in Int32
  PROVE  /\ WriteExcess(v) \in Seq(Byte) /\ Len(WriteExcess(v)) = 4
         /\ WriteExcess(v)[1] = (v \div 16777216) + 128 /\ WriteExcess(v)[2] = Byte2(v)
         /\ WriteExcess(v)[3] = Byte3(v) /\ WriteExcess(v)[4] = Byte4(v)
<1>1. v \in Int /\ -2147483648 <= v /\ v <= 2147483647
  BY SMT DEF Int32
<1> DEFINE first == (Byte1(v) + 128) % 256
<1>2. first = (v \div 16777216) + 128 /\ first \in Byte
  <2> DEFINE a == v \div 16777216
  <2>1. a \in Int /\ -128 <= a /\ a <= 127
    BY <1>1, SMT
  <2>2. Byte1(v) = a % 256
    BY SMT DEF Byte1
  <2> HIDE DEF a
  <2>3. first = a + 128 /\ first \in Byte
    BY <2>1, <2>2, SMT DEF Byte
  <2> QED BY <2>3, SMT DEF a
<1> HIDE DEF first
<1>3. /\ Be4(v) \in Seq(Byte) /\ Len(Be4(v)) = 4
      /\ Be4(v)[1] = Byte1(v) /\ Be4(v)[2] = Byte2(v)
      /\ Be4(v)[3] = Byte3(v) /\ Be4(v)[4] = Byte4(v)
  BY <1>1, Bytes4, SMT
<1>4. WriteExcess(v) = <<first, Byte2(v), Byte3(v), Byte4(v)>>
  BY <1>3, SMT DEF WriteExcess, first
<1>5. /\ WriteExcess(v) \in Seq(Byte) /\ Len(WriteExcess(v)) = 4 /\ WriteExcess(v)[1] = first
      /\ WriteExcess(v)[2] = Byte2(v) /\ WriteExcess(v)[3] = Byte3(v) /\ WriteExcess(v)[4] = Byte4(v)
  BY <1>1, <1>2, <1>4, AreBytes
<1> QED BY <1>2, <1>5, SMT

LEMMA ExcessBack ==
  ASSUME NEW v \in Int32, NEW b, \A i \in 1..4 : b[i] = WriteExcess(v)[i]
  PROVE  ReadExcess(b) = v
<1>1. v \in Int
  BY SMT DEF Int32
<1>2. /\ b[1] = (v \div 16777216) + 128 /\ b[2] = Byte2(v) /\ b[3] = Byte3(v) /\ b[4] = Byte4(v)
  BY ExcessBytes, SMT
<1>3. /\ v \div 16777216 \in Int /\ Byte2(v) \in Int /\ Byte3(v) \in Int /\ Byte4(v) \in Int
  BY <1>1, SMT DEF Byte2, Byte3, Byte4
<1> QED BY <1>1, <1>2, <1>3, FourBytes, SMT DEF ReadExcess

\* b is made of s and t, or of s, t and u: where each of their bytes is.
Made2(s, t, b) ==
  /\ b \in Seq(Byte) /\ Len(b) = Len(s) + Len(t)
  /\ \A i \in 1..Len(s) : b[i] = s[i]
  /\ \A i \in 1..Len(t) : b[Len(s) + i] = t[i]

Made3(s, t, u, b) ==
  /\ b \in Seq(Byte) /\ Len(b) = Len(s) + Len(t) + Len(u)
  /\ \A i \in 1..Len(s) : b[i] = s[i]
  /\ \A i \in 1..Len(t) : b[Len(s) + i] = t[i]
  /\ \A i \in 1..Len(u) : b[Len(s) + Len(t) + i] = u[i]

LEMMA Joined2 ==
  ASSUME NEW s, NEW t, s \in Seq(Byte), t \in Seq(Byte)
  PROVE  Made2(s, t, s \o t)
<1>1. /\ s \o t \in Seq(Byte) /\ Len(s \o t) = Len(s) + Len(t)
      /\ \A i \in 1..(Len(s) + Len(t)) : (s \o t)[i] = IF i <= Len(s) THEN s[i] ELSE t[i - Len(s)]
  BY ConcatProperties
<1>2. Len(s) \in Nat /\ Len(t) \in Nat
  BY LenProperties
<1>3. /\ \A i \in 1..Len(s) : (s \o t)[i] = s[i]
      /\ \A i \in 1..Len(t) : (s \o t)[Len(s) + i] = t[i]
  BY <1>1, <1>2, SMT
<1> QED BY <1>1, <1>3 DEF Made2

LEMMA Joined3 ==
  ASSUME NEW s, NEW t, NEW u, s \in Seq(Byte), t \in Seq(Byte), u \in Seq(Byte)
  PROVE  Made3(s, t, u, s \o t \o u)
<1> DEFINE st == s \o t
           b == st \o u
<1>1. Made2(s, t, st)
  BY Joined2
<1>2. Made2(st, u, b)
  BY <1>1, Joined2 DEF Made2
<1> HIDE DEF st, b
<1>3. Len(s) \in Nat /\ Len(t) \in Nat
  BY LenProperties
<1>4. /\ \A i \in 1..Len(s) : i \in 1..Len(st)
      /\ \A i \in 1..Len(t) : Len(s) + i \in 1..Len(st)
  BY <1>1, <1>3, SMT DEF Made2
<1>5. /\ \A i \in 1..Len(s) : b[i] = s[i]
      /\ \A i \in 1..Len(t) : b[Len(s) + i] = t[i]
  BY <1>1, <1>2, <1>4, Zenon DEF Made2
<1>6. Made3(s, t, u, b)
  BY <1>1, <1>2, <1>5, Zenon DEF Made2, Made3
<1> QED BY <1>6 DEF st, b

LEMMA Slice ==
  ASSUME NEW s \in Seq(Byte), NEW m \in Nat, NEW n \in Nat, 1 <= m, m <= n + 1, n <= Len(s)
  PROVE  /\ SubSeq(s, m, n) \in Seq(Byte) /\ Len(SubSeq(s, m, n)) = n - m + 1
         /\ \A i \in 1..(n - m + 1) : SubSeq(s, m, n)[i] = s[m + i - 1]
<1>1. \A i \in m..n : s[i] \in Byte
  BY ElementOfSeq, LenProperties, SMT
<1>2. /\ SubSeq(s, m, n) \in Seq(Byte) /\ Len(SubSeq(s, m, n)) = IF m <= n THEN n - m + 1 ELSE 0
      /\ \A i \in 1..(n - m + 1) : SubSeq(s, m, n)[i] = s[m + i - 1]
  BY <1>1, SubSeqProperties
<1> QED BY <1>2, SMT

----------------------------------------------------------------------------
\* The INTERVAL types

\* What fits a byte with the offset 60 (DURATION_OFFSET).
Offset60 == {n \in Int : -60 <= n /\ n <= 195}

IntervalsYM == [years : Int32, months : Offset60]
IntervalsDS == [days : Int32, hours : Offset60, minutes : Offset60, seconds : Offset60,
                fseconds : Int32]

LEMMA OffsetByte ==
  ASSUME NEW n \in Offset60
  PROVE  (n + 60) % 256 \in Byte /\ ((n + 60) % 256) - 60 = n
<1>1. n \in Int /\ 0 <= n + 60 /\ n + 60 <= 255
  BY SMT DEF Offset60
<1>2. (n + 60) % 256 = n + 60
  BY <1>1, SMT
<1> QED BY <1>1, <1>2, SMT DEF Byte

LEMMA IntervalYMBack ==
  ASSUME NEW v \in IntervalsYM
  PROVE  DecodeIntervalYM(EncodeIntervalYM(v)) = v
<1> DEFINE y == WriteExcess(v.years)
           m == <<(v.months + 60) % 256>>
           b == y \o m
<1>1. v.years \in Int32 /\ v.months \in Offset60 /\ v = [years |-> v.years, months |-> v.months]
  BY DEF IntervalsYM
<1>2. y \in Seq(Byte) /\ Len(y) = 4
  BY <1>1, ExcessBytes
<1>3. m \in Seq(Byte) /\ Len(m) = 1 /\ m[1] = (v.months + 60) % 256
  BY <1>1, OffsetByte
<1> HIDE DEF y, m
<1>4. b \in Seq(Byte) /\ Len(b) = 5 /\ (\A i \in 1..4 : b[i] = y[i]) /\ b[5] = m[1]
  <2>1. Made2(y, m, b)
    BY <1>2, <1>3, Joined2
  <2> HIDE DEF b
  <2>2. b[4 + 1] = m[1]
    BY <1>2, <1>3, <2>1 DEF Made2
  <2> QED BY <1>2, <1>3, <2>1, <2>2 DEF Made2
<1> HIDE DEF b
<1>5. \A i \in 1..4 : SubSeq(b, 1, 4)[i] = y[i]
  BY <1>4, Slice
<1>6. ReadExcess(SubSeq(b, 1, 4)) = v.years
  BY <1>1, <1>5, ExcessBack DEF y
<1>7. b[5] - 60 = v.months
  BY <1>1, <1>3, <1>4, OffsetByte
<1> QED BY <1>1, <1>6, <1>7 DEF EncodeIntervalYM, DecodeIntervalYM, y, m, b

LEMMA IntervalDSBack ==
  ASSUME NEW v \in IntervalsDS
  PROVE  DecodeIntervalDS(EncodeIntervalDS(v)) = v
<1> DEFINE d == WriteExcess(v.days)
           t == <<(v.hours + 60) % 256, (v.minutes + 60) % 256, (v.seconds + 60) % 256>>
           f == WriteExcess(v.fseconds)
           b == d \o t \o f
<1>1. /\ v.days \in Int32 /\ v.fseconds \in Int32
      /\ v.hours \in Offset60 /\ v.minutes \in Offset60 /\ v.seconds \in Offset60
      /\ v = [days |-> v.days, hours |-> v.hours, minutes |-> v.minutes, seconds |-> v.seconds,
              fseconds |-> v.fseconds]
  BY DEF IntervalsDS
<1>2. d \in Seq(Byte) /\ Len(d) = 4 /\ f \in Seq(Byte) /\ Len(f) = 4
  BY <1>1, ExcessBytes
<1>3. /\ t \in Seq(Byte) /\ Len(t) = 3 /\ t[1] - 60 = v.hours /\ t[2] - 60 = v.minutes
      /\ t[3] - 60 = v.seconds
  BY <1>1, OffsetByte
<1> HIDE DEF d, t, f
<1>4. /\ b \in Seq(Byte) /\ Len(b) = 11 /\ \A i \in 1..4 : b[i] = d[i]
      /\ b[5] = t[1] /\ b[6] = t[2] /\ b[7] = t[3] /\ \A i \in 1..4 : b[7 + i] = f[i]
  <2>1. Made3(d, t, f, b)
    BY <1>2, <1>3, Joined3
  <2> HIDE DEF b
  <2>2. b[4 + 1] = t[1] /\ b[4 + 2] = t[2] /\ b[4 + 3] = t[3]
    BY <1>2, <1>3, <2>1 DEF Made3
  <2> QED BY <1>2, <1>3, <2>1, <2>2 DEF Made3
<1> HIDE DEF b
<1>5. /\ \A i \in 1..4 : SubSeq(b, 1, 4)[i] = d[i]
      /\ \A i \in 1..4 : SubSeq(b, 8, 11)[i] = f[i]
  <2>1. \A i \in 1..4 : SubSeq(b, 8, 11)[i] = b[8 + i - 1]
    BY <1>4, Slice
  <2>2. \A i \in 1..4 : SubSeq(b, 1, 4)[i] = b[1 + i - 1]
    BY <1>4, Slice
  <2> QED BY <1>4, <2>1, <2>2
<1>6. ReadExcess(SubSeq(b, 1, 4)) = v.days /\ ReadExcess(SubSeq(b, 8, 11)) = v.fseconds
  BY <1>1, <1>5, ExcessBack DEF d, f
<1>7. EncodeIntervalDS(v) = b
  BY DEF EncodeIntervalDS, d, t, f, b
<1>8. DecodeIntervalDS(b) = [days |-> v.days, hours |-> v.hours, minutes |-> v.minutes,
                             seconds |-> v.seconds, fseconds |-> v.fseconds]
  BY <1>3, <1>4, <1>6 DEF DecodeIntervalDS
<1> QED BY <1>1, <1>7, <1>8

(***************************************************************************)
(* An INTERVAL that is bound comes back the same, for every number of      *)
(* years, days and fractions of a second an i32 holds: the inverted sign   *)
(* bit and the offset of the other fields are undone (encode_ and          *)
(* decode_oracle_interval_ym, _ds).                                        *)
(***************************************************************************)
THEOREM IntervalsReadBack == \A v \in IntervalsYM \cup IntervalsDS : IntervalReadBack(v)
<1>1. ASSUME NEW v \in IntervalsYM PROVE "years" \in DOMAIN v
  BY <1>1 DEF IntervalsYM
<1>2. ASSUME NEW v \in IntervalsDS PROVE "years" \notin DOMAIN v
  BY <1>2 DEF IntervalsDS
<1> QED BY <1>1, <1>2, IntervalYMBack, IntervalDSBack DEF IntervalReadBack

----------------------------------------------------------------------------
\* DATE and TIMESTAMP

\* The ranges that the fields of OracleTimestamp are documented with; the years are wider
\* than Oracle's.
Years == {y \in Int : -9999 <= y /\ y <= 9999}
Microseconds == {n \in Int : 0 <= n /\ n <= 999999}
ZoneHours == {h \in Int : -12 <= h /\ h <= 14}
ZoneMinutes == {m \in Int : -59 <= m /\ m <= 59}
Timestamps == [year : Years, month : 1..12, day : 1..31, hour : 0..23, minute : 0..59,
               second : 0..59, microsecond : Microseconds, tz_hour : ZoneHours,
               tz_minute : ZoneMinutes]

\* Century and year are read back from their bytes, before Christ too.
LEMMA YearBack ==
  ASSUME NEW y \in Int, -9999 <= y, y <= 9999
  PROVE  LET c == (Quot(y, 100) + 100) % 256
             r == (Rem(y, 100) + 100) % 256
         IN  c \in Byte /\ r \in Byte /\ (c - 100) * 100 + (r - 100) = y
<1> DEFINE q == Quot(y, 100)
           r == Rem(y, 100)
<1>1. q \in Int /\ r \in Int /\ y = 100 * q + r /\ -99 <= q /\ q <= 99 /\ -99 <= r /\ r <= 99
  <2>1. CASE y < 0
    <3> DEFINE m == -y
    <3>1. m \in Nat /\ m <= 9999 /\ m \div 100 \in Nat /\ m \div 100 <= 99
          /\ m = 100 * (m \div 100) + (m % 100) /\ m % 100 \in 0..99
      BY <2>1, SMT
    <3>2. q = -(m \div 100) /\ r = y - 100 * q
      BY <2>1 DEF Quot, Rem
    <3> HIDE DEF m, q, r
    <3>3. y = -m
      BY DEF m
    <3> QED BY <3>1, <3>2, <3>3, SMT
  <2>2. CASE y >= 0
    <3>1. /\ y \div 100 \in Nat /\ y \div 100 <= 99
          /\ y = 100 * (y \div 100) + (y % 100) /\ y % 100 \in 0..99
      BY <2>2, SMT
    <3>2. q = y \div 100 /\ r = y - 100 * q
      BY <2>2, SMT DEF Quot, Rem
    <3> HIDE DEF q, r
    <3> QED BY <3>1, <3>2, SMT
  <2> QED BY <2>1, <2>2
<1> HIDE DEF q, r
<1>2. (q + 100) % 256 = q + 100 /\ (r + 100) % 256 = r + 100
  BY <1>1, SMT
<1> QED BY <1>1, <1>2, SMT DEF q, r, Byte

LEMMA DateBytes ==
  ASSUME NEW ts \in Timestamps
  PROVE  /\ EncodeOracleDate(ts) \in Seq(Byte) /\ Len(EncodeOracleDate(ts)) = 7
         /\ \A b \in Seq(Byte) : (\A i \in 1..7 : b[i] = EncodeOracleDate(ts)[i]) =>
              DecodeOracleDate(b) = [year |-> ts.year, month |-> ts.month, day |-> ts.day,
                                     hour |-> ts.hour, minute |-> ts.minute, second |-> ts.second]
<1> DEFINE c == (Quot(ts.year, 100) + 100) % 256
           r == (Rem(ts.year, 100) + 100) % 256
           d == <<c, r, ts.month, ts.day, ts.hour + 1, ts.minute + 1, ts.second + 1>>
<1>1. /\ ts.year \in Int /\ -9999 <= ts.year /\ ts.year <= 9999
      /\ ts.month \in 1..12 /\ ts.day \in 1..31 /\ ts.hour \in 0..23 /\ ts.minute \in 0..59
      /\ ts.second \in 0..59
  <2>1. /\ ts.year \in Years /\ ts.month \in 1..12 /\ ts.day \in 1..31 /\ ts.hour \in 0..23
        /\ ts.minute \in 0..59 /\ ts.second \in 0..59
    BY DEF Timestamps
  <2> QED BY <2>1, SMT DEF Years
<1>2. c \in Byte /\ r \in Byte /\ (c - 100) * 100 + (r - 100) = ts.year
  BY <1>1, YearBack, SMT
<1> HIDE DEF c, r
<1>3. /\ ts.month \in Byte /\ ts.day \in Byte /\ ts.hour + 1 \in Byte /\ ts.minute + 1 \in Byte
      /\ ts.second + 1 \in Byte
  BY <1>1, SMT DEF Byte
<1>4. d \in Seq(Byte) /\ Len(d) = 7
  BY <1>2, <1>3
<1>5. EncodeOracleDate(ts) = d
  BY DEF EncodeOracleDate, c, r
<1>6. /\ Minus1(ts.hour + 1) = ts.hour /\ Minus1(ts.minute + 1) = ts.minute
      /\ Minus1(ts.second + 1) = ts.second
  BY <1>1, SMT DEF Minus1
<1>7. ASSUME NEW b \in Seq(Byte), \A i \in 1..7 : b[i] = d[i]
      PROVE  DecodeOracleDate(b) = [year |-> ts.year, month |-> ts.month, day |-> ts.day,
                                    hour |-> ts.hour, minute |-> ts.minute, second |-> ts.second]
  <2>1. /\ b[1] = c /\ b[2] = r /\ b[3] = ts.month /\ b[4] = ts.day /\ b[5] = ts.hour + 1
        /\ b[6] = ts.minute + 1 /\ b[7] = ts.second + 1
    BY <1>7, SMT
  <2>2. (b[1] - 100) * 100 + (b[2] - 100) = ts.year
    BY <1>2, <2>1
  <2> QED BY <1>6, <2>1, <2>2 DEF DecodeOracleDate
<1> HIDE DEF d
<1> QED BY <1>4, <1>5, <1>7

LEMMA Nanoseconds ==
  ASSUME NEW n \in Microseconds
  PROVE  n * 1000 \in Int /\ n * 1000 \in UInt32 /\ (n * 1000) \div 1000 = n
BY SMT DEF Microseconds, UInt32

\* The parts of an encoded timestamp: date, fraction and zone.
LEMMA TimestampBytes ==
  ASSUME NEW ts \in Timestamps, NEW include_tz \in BOOLEAN
  PROVE  LET b == EncodeOracleTimestamp(ts, include_tz) IN
         /\ \A i \in 1..7 : b[i] = EncodeOracleDate(ts)[i]
         /\ Len(b) = 7 + (IF HasFraction(ts, include_tz) THEN 4 ELSE 0) + (IF include_tz THEN 2 ELSE 0)
         /\ b \in Seq(Byte)
         /\ HasFraction(ts, include_tz) =>
              \A i \in 1..4 : b[7 + i] = Be4(ts.microsecond * 1000)[i]
         /\ include_tz => b[12] = ts.tz_hour + 20 /\ b[13] = ts.tz_minute + 60
<1> DEFINE d == EncodeOracleDate(ts)
           f == IF HasFraction(ts, include_tz) THEN Be4(ts.microsecond * 1000) ELSE <<>>
           z == IF include_tz THEN <<(ts.tz_hour + 20) % 256, (ts.tz_minute + 60) % 256>> ELSE <<>>
           b == d \o f \o z
<1>1. d \in Seq(Byte) /\ Len(d) = 7
  BY DateBytes
<1>2. f \in Seq(Byte) /\ Len(f) = IF HasFraction(ts, include_tz) THEN 4 ELSE 0
  <2>1. ts.microsecond * 1000 \in Int
    <3>1. ts.microsecond \in Microseconds
      BY DEF Timestamps
    <3> QED BY <3>1, Nanoseconds
  <2>2. Be4(ts.microsecond * 1000) \in Seq(Byte) /\ Len(Be4(ts.microsecond * 1000)) = 4
    BY <2>1, Bytes4
  <2>3. CASE HasFraction(ts, include_tz)
    BY <2>2, <2>3
  <2>4. CASE ~HasFraction(ts, include_tz)
    BY <2>4
  <2> QED BY <2>3, <2>4
<1>3. /\ z \in Seq(Byte) /\ Len(z) = IF include_tz THEN 2 ELSE 0
      /\ include_tz => z[1] = ts.tz_hour + 20 /\ z[2] = ts.tz_minute + 60
  <2>1. /\ (ts.tz_hour + 20) % 256 = ts.tz_hour + 20 /\ ts.tz_hour + 20 \in Byte
        /\ (ts.tz_minute + 60) % 256 = ts.tz_minute + 60 /\ ts.tz_minute + 60 \in Byte
    <3>1. ts.tz_hour \in ZoneHours /\ ts.tz_minute \in ZoneMinutes
      BY DEF Timestamps
    <3> QED BY <3>1, SMT DEF ZoneHours, ZoneMinutes, Byte
  <2>2. CASE include_tz
    BY <2>1, <2>2
  <2>3. CASE ~include_tz
    BY <2>3
  <2> QED BY <2>2, <2>3
<1>4. HasFraction(ts, include_tz) => f = Be4(ts.microsecond * 1000)
  OBVIOUS
<1>5. EncodeOracleTimestamp(ts, include_tz) = b
  BY DEF EncodeOracleTimestamp
<1>6. include_tz => HasFraction(ts, include_tz)
  BY DEF HasFraction
<1> HIDE DEF d, f, z
<1>7. /\ b \in Seq(Byte) /\ Len(b) = Len(d) + Len(f) + Len(z)
      /\ \A i \in 1..Len(d) : b[i] = d[i]
      /\ \A i \in 1..Len(f) : b[Len(d) + i] = f[i]
      /\ \A i \in 1..Len(z) : b[Len(d) + Len(f) + i] = z[i]
  <2>1. d \in Seq(Byte) /\ f \in Seq(Byte) /\ z \in Seq(Byte)
    BY <1>1, <1>2, <1>3
  <2>2. Made3(d, f, z, b)
    BY <2>1, Joined3
  <2> QED BY <2>2 DEF Made3
<1> HIDE DEF b
<1>8. /\ \A i \in 1..7 : b[i] = d[i]
      /\ Len(b) = 7 + (IF HasFraction(ts, include_tz) THEN 4 ELSE 0) + (IF include_tz THEN 2 ELSE 0)
      /\ HasFraction(ts, include_tz) => \A i \in 1..4 : b[7 + i] = f[i]
      /\ include_tz => b[12] = z[1] /\ b[13] = z[2]
  BY <1>1, <1>2, <1>3, <1>6, <1>7
<1> QED BY <1>3, <1>4, <1>5, <1>7, <1>8 DEF d

(***************************************************************************)
(* A TIMESTAMP that is encoded and decoded again is the same, for every    *)
(* year from -9999 to 9999 (a negative year's century wraps in a byte),    *)
(* every fraction and, where the zone is sent, every offset; without the   *)
(* zone the offset read is 0 (encode_oracle_timestamp and                  *)
(* decode_oracle_timestamp, whose length says which parts are there).      *)
(***************************************************************************)
THEOREM TimestampsReadBack ==
  \A ts \in Timestamps, include_tz \in BOOLEAN : TimestampReadBack(ts, include_tz)
<1> SUFFICES ASSUME NEW ts \in Timestamps, NEW include_tz \in BOOLEAN
             PROVE  TimestampReadBack(ts, include_tz)
  OBVIOUS
<1> DEFINE b == EncodeOracleTimestamp(ts, include_tz)
           fraction == HasFraction(ts, include_tz)
           nanos == ts.microsecond * 1000
           zoned == Len(b) >= 13 /\ b[12] # 0 /\ b[13] # 0
           date == [year |-> ts.year, month |-> ts.month, day |-> ts.day, hour |-> ts.hour,
                    minute |-> ts.minute, second |-> ts.second]
<1>1. /\ \A i \in 1..7 : b[i] = EncodeOracleDate(ts)[i]
      /\ Len(b) = 7 + (IF fraction THEN 4 ELSE 0) + (IF include_tz THEN 2 ELSE 0)
      /\ b \in Seq(Byte)
      /\ fraction => \A i \in 1..4 : b[7 + i] = Be4(nanos)[i]
      /\ include_tz => b[12] = ts.tz_hour + 20 /\ b[13] = ts.tz_minute + 60
  BY TimestampBytes
<1>2. /\ ts.microsecond \in Microseconds /\ ts.tz_hour \in ZoneHours /\ ts.tz_minute \in ZoneMinutes
      /\ ts = [year |-> ts.year, month |-> ts.month, day |-> ts.day, hour |-> ts.hour,
               minute |-> ts.minute, second |-> ts.second, microsecond |-> ts.microsecond,
               tz_hour |-> ts.tz_hour, tz_minute |-> ts.tz_minute]
  BY DEF Timestamps
<1>3. include_tz => fraction
  BY DEF HasFraction
<1>4. ~fraction => ts.microsecond = 0
  BY <1>2, SMT DEF HasFraction, Microseconds
<1>5. nanos \in UInt32 /\ nanos \div 1000 = ts.microsecond
  BY <1>2, Nanoseconds
<1>6. ts.tz_hour \in Int /\ ts.tz_minute \in Int /\ ts.tz_hour + 20 # 0 /\ ts.tz_minute + 60 # 0
  BY <1>2, SMT DEF ZoneHours, ZoneMinutes
<1>7. DecodeOracleDate(b) = date
  <2>1. \A i \in 1..7 : b[i] = EncodeOracleDate(ts)[i]
    BY <1>1
  <2>2. b \in Seq(Byte)
    BY <1>1
  <2> HIDE DEF b
  <2> QED BY <2>1, <2>2, DateBytes
<1> HIDE DEF b, fraction, nanos
<1>8. zoned <=> include_tz
  BY <1>1, <1>3, <1>6, SMTT(30)
<1>9. (Len(b) >= 11) <=> fraction
  BY <1>1, <1>3
<1>10. (IF Len(b) >= 11 THEN FromBe4(SubSeq(b, 8, 11)) \div 1000 ELSE 0) = ts.microsecond
  <2>1. CASE fraction
    <3>1. \A i \in 1..4 : SubSeq(b, 8, 11)[i] = b[8 + i - 1]
      BY <1>1, <1>9, <2>1, Slice
    <3>2. \A i \in 1..4 : 8 + i - 1 = 7 + i
      OBVIOUS
    <3>3. \A i \in 1..4 : SubSeq(b, 8, 11)[i] = Be4(nanos)[i]
      BY <1>1, <2>1, <3>1, <3>2, SMTT(30)
    <3>4. FromBe4(SubSeq(b, 8, 11)) = nanos
      <4> DEFINE four == SubSeq(b, 8, 11)
      <4>1. \A i \in 1..4 : four[i] = Be4(nanos)[i]
        BY <3>3
      <4> HIDE DEF four
      <4>2. FromBe4(four) = nanos
        BY <1>5, <4>1, UInt32Back
      <4> QED BY <4>2 DEF four
    <3> QED BY <1>5, <1>9, <2>1, <3>4
  <2> QED BY <1>4, <1>9, <2>1
<1> DEFINE hour == IF zoned THEN b[12] - 20 ELSE 0
           minute == IF zoned THEN b[13] - 60 ELSE 0
<1>11. /\ hour = IF include_tz THEN ts.tz_hour ELSE 0
       /\ minute = IF include_tz THEN ts.tz_minute ELSE 0
  <2>1. CASE include_tz
    <3>1. zoned /\ b[12] = ts.tz_hour + 20 /\ b[13] = ts.tz_minute + 60
      BY <1>1, <1>8, <2>1
    <3>2. (ts.tz_hour + 20) - 20 = ts.tz_hour /\ (ts.tz_minute + 60) - 60 = ts.tz_minute
      BY <1>6
    <3> QED BY <2>1, <3>1, <3>2
  <2>2. CASE ~include_tz
    BY <1>8, <2>2
  <2> QED BY <2>1, <2>2
<1>12. DecodeOracleTimestamp(b) =
         [year |-> ts.year, month |-> ts.month, day |-> ts.day, hour |-> ts.hour,
          minute |-> ts.minute, second |-> ts.second, microsecond |-> ts.microsecond,
          tz_hour |-> hour, tz_minute |-> minute]
  BY <1>7, <1>10 DEF DecodeOracleTimestamp
<1> HIDE DEF hour, minute
<1>13. CASE include_tz
  BY <1>2, <1>11, <1>12, <1>13 DEF TimestampReadBack, b
<1>14. CASE ~include_tz
  <2>1. [ts EXCEPT !.tz_hour = 0, !.tz_minute = 0] =
          [year |-> ts.year, month |-> ts.month, day |-> ts.day, hour |-> ts.hour,
           minute |-> ts.minute, second |-> ts.second, microsecond |-> ts.microsecond,
           tz_hour |-> 0, tz_minute |-> 0]
    <3> DEFINE t == [ts EXCEPT !.tz_hour = 0]
    <3>1. t = [year |-> ts.year, month |-> ts.month, day |-> ts.day, hour |-> ts.hour,
               minute |-> ts.minute, second |-> ts.second, microsecond |-> ts.microsecond,
               tz_hour |-> 0, tz_minute |-> ts.tz_minute]
      BY DEF Timestamps
    <3>2. [ts EXCEPT !.tz_hour = 0, !.tz_minute = 0] = [t EXCEPT !.tz_minute = 0]
      OBVIOUS
    <3> HIDE DEF t
    <3> QED BY <3>1, <3>2
  <2> QED BY <1>11, <1>12, <1>14, <2>1 DEF TimestampReadBack, b
<1> QED BY <1>13, <1>14

----------------------------------------------------------------------------
\* BINARY_FLOAT and BINARY_DOUBLE: four and eight bytes, here any number of them

LEMMA ByteRange == \A x : x \in Byte <=> x \in Int /\ 0 <= x /\ x <= 255
BY DEF Byte

LEMMA EncodedBinary ==
  ASSUME NEW n \in Nat \ {0}, NEW a \in [1..n -> Byte]
  PROVE  /\ EncodeBinary(a) \in [1..n -> Byte]
         /\ a[1] >= 128 => \A i \in 1..n : EncodeBinary(a)[i] = 255 - a[i]
         /\ a[1] < 128 => \A i \in 1..n : EncodeBinary(a)[i] = IF i = 1 THEN a[i] + 128 ELSE a[i]
<1>1. 1 \in 1..n /\ \A i \in 1..n : a[i] \in Int /\ 0 <= a[i] /\ a[i] <= 255
  BY ByteRange
<1>2. DOMAIN a = 1..n
  OBVIOUS
<1>3. CASE a[1] >= 128
  <2>1. EncodeBinary(a) = [i \in 1..n |-> 255 - a[i]]
    BY <1>1, <1>2, <1>3 DEF EncodeBinary
  <2>2. \A i \in 1..n : 255 - a[i] \in Byte
    BY <1>1, ByteRange
  <2> QED BY <1>1, <1>3, <2>1, <2>2
<1>4. CASE a[1] < 128
  <2>1. EncodeBinary(a) = [i \in 1..n |-> IF i = 1 THEN a[i] + 128 ELSE a[i]]
    BY <1>1, <1>2, <1>4 DEF EncodeBinary
  <2>2. \A i \in 1..n : (IF i = 1 THEN a[i] + 128 ELSE a[i]) \in Byte
    BY <1>1, <1>4, ByteRange
  <2> QED BY <1>1, <1>4, <2>1, <2>2
<1> QED BY <1>1, <1>3, <1>4

LEMMA BinaryBack ==
  ASSUME NEW n \in Nat \ {0}, NEW a \in [1..n -> Byte]
  PROVE  DecodeBinary(EncodeBinary(a)) = a
<1> DEFINE e == EncodeBinary(a)
<1>1. 1 \in 1..n /\ \A i \in 1..n : a[i] \in Int /\ 0 <= a[i] /\ a[i] <= 255
  BY ByteRange
<1>2. /\ e \in [1..n -> Byte]
      /\ a[1] >= 128 => \A i \in 1..n : e[i] = 255 - a[i]
      /\ a[1] < 128 => \A i \in 1..n : e[i] = IF i = 1 THEN a[i] + 128 ELSE a[i]
  BY EncodedBinary
<1> HIDE DEF e
<1>3. DOMAIN e = 1..n
  BY <1>2
<1>4. CASE a[1] >= 128
  <2>1. e[1] < 128 /\ ~(e[1] >= 128)
    BY <1>1, <1>2, <1>4
  <2>2. DecodeBinary(e) = [i \in 1..n |-> 255 - e[i]]
    BY <1>3, <2>1 DEF DecodeBinary
  <2>3. \A i \in 1..n : 255 - e[i] = a[i]
    BY <1>1, <1>2, <1>4
  <2> QED BY <2>2, <2>3 DEF e
<1>5. CASE a[1] < 128
  <2>1. e[1] >= 128 /\ ~(e[1] < 128)
    BY <1>1, <1>2, <1>5
  <2>2. DecodeBinary(e) = [i \in 1..n |-> IF i = 1 THEN e[i] - 128 ELSE e[i]]
    BY <1>3, <2>1 DEF DecodeBinary
  <2>3. \A i \in 1..n : (IF i = 1 THEN e[i] - 128 ELSE e[i]) = a[i]
    BY <1>1, <1>2, <1>5
  <2> QED BY <2>2, <2>3 DEF e
<1> QED BY <1>1, <1>4, <1>5

LEMMA BinaryOrder ==
  ASSUME NEW n \in Nat \ {0}, NEW a \in [1..n -> Byte], NEW b \in [1..n -> Byte]
  PROVE  IeeeLess(a, b) <=> LexLess(EncodeBinary(a), EncodeBinary(b))
<1> DEFINE e == EncodeBinary(a)
           f == EncodeBinary(b)
<1>1. /\ 1 \in 1..n
      /\ \A i \in 1..n : a[i] \in Int /\ 0 <= a[i] /\ a[i] <= 255
      /\ \A i \in 1..n : b[i] \in Int /\ 0 <= b[i] /\ b[i] <= 255
  BY ByteRange
<1>2. /\ e \in [1..n -> Byte] /\ f \in [1..n -> Byte]
      /\ a[1] >= 128 => \A i \in 1..n : e[i] = 255 - a[i]
      /\ a[1] < 128 => \A i \in 1..n : e[i] = IF i = 1 THEN a[i] + 128 ELSE a[i]
      /\ b[1] >= 128 => \A i \in 1..n : f[i] = 255 - b[i]
      /\ b[1] < 128 => \A i \in 1..n : f[i] = IF i = 1 THEN b[i] + 128 ELSE b[i]
  BY EncodedBinary
<1> HIDE DEF e, f
<1>3. DOMAIN a = 1..n /\ DOMAIN b = 1..n /\ DOMAIN e = 1..n /\ DOMAIN f = 1..n
  BY <1>2
<1>4. \A i \in 1..n, j \in Int : j \in 1..(i - 1) => j \in 1..n
  OBVIOUS
<1>5. CASE a[1] < 128 /\ b[1] < 128
  <2>1. \A i \in 1..n : (a[i] < b[i] <=> e[i] < f[i]) /\ (a[i] = b[i] <=> e[i] = f[i])
    <3> TAKE i \in 1..n
    <3>1. e[i] = (IF i = 1 THEN a[i] + 128 ELSE a[i]) /\ f[i] = IF i = 1 THEN b[i] + 128 ELSE b[i]
      BY <1>2, <1>5
    <3> QED BY <1>1, <3>1
  <2>2. LexLess(a, b) <=> LexLess(e, f)
    BY <1>3, <1>4, <2>1 DEF LexLess
  <2>3. IeeeLess(a, b) <=> LexLess(a, b)
    BY <1>1, <1>5 DEF IeeeLess
  <2> QED BY <2>2, <2>3 DEF e, f
<1>6. CASE a[1] >= 128 /\ b[1] >= 128
  <2>1. \A i \in 1..n : (b[i] < a[i] <=> e[i] < f[i]) /\ (b[i] = a[i] <=> e[i] = f[i])
    BY <1>1, <1>2, <1>6, SMTT(30)
  <2>2. LexLess(b, a) <=> LexLess(e, f)
    BY <1>3, <1>4, <2>1 DEF LexLess
  <2>3. IeeeLess(a, b) <=> LexLess(b, a)
    BY <1>1, <1>6 DEF IeeeLess
  <2> QED BY <2>2, <2>3 DEF e, f
<1>7. CASE a[1] >= 128 /\ b[1] < 128
  <2>1. e[1] < f[1]
    BY <1>1, <1>2, <1>7
  <2>2. LexLess(e, f)
    <3>1. \A j \in 1..(1 - 1) : e[j] = f[j]
      OBVIOUS
    <3> QED BY <1>1, <1>3, <2>1, <3>1 DEF LexLess
  <2>3. IeeeLess(a, b)
    BY <1>1, <1>7 DEF IeeeLess
  <2> QED BY <2>2, <2>3 DEF e, f
<1>8. CASE a[1] < 128 /\ b[1] >= 128
  <2>1. f[1] < e[1] /\ e[1] \in Int /\ f[1] \in Int
    BY <1>1, <1>2, <1>8
  <2>2. ~LexLess(e, f)
    <3>1. \A i \in 1..n : i # 1 => 1 \in 1..(i - 1)
      OBVIOUS
    <3>2. ~(e[1] < f[1]) /\ e[1] # f[1]
      BY <2>1
    <3> QED BY <1>3, <3>1, <3>2 DEF LexLess
  <2>3. ~IeeeLess(a, b)
    BY <1>1, <1>8 DEF IeeeLess
  <2> QED BY <2>2, <2>3 DEF e, f
<1>9. (a[1] < 128 \/ a[1] >= 128) /\ (b[1] < 128 \/ b[1] >= 128)
  BY <1>1
<1> QED BY <1>5, <1>6, <1>7, <1>8, <1>9

(***************************************************************************)
(* A BINARY_FLOAT or BINARY_DOUBLE is read back, and the encodings sort as *)
(* bytes as the values do: positive values set the sign bit, negative ones *)
(* complement every byte (encode_binary_float, decode_binary_double).      *)
(***************************************************************************)
THEOREM BinariesReadBack ==
  \A n \in Nat \ {0} : \A a, b \in [1..n -> Byte] : BinaryReadBack(a, b)
BY BinaryBack, BinaryOrder DEF BinaryReadBack

----------------------------------------------------------------------------
\* ROWID

RowIds == [rba : UInt32, partition_id : UInt16, block_num : UInt32, slot_num : UInt16]

\* What three digits of six bits hold.
Low18(v) == v % 262144

\* Three digits are read back as the value they were taken from, modulo what fits in them.
LEMMA DigitsBack ==
  ASSUME NEW v \in Nat
  PROVE  /\ Base64Digits(v) \in Seq(Byte) /\ Len(Base64Digits(v)) = 3
         /\ \A s \in Seq(Byte), at \in Nat :
              /\ s[at] = Base64Digits(v)[1] /\ s[at + 1] = Base64Digits(v)[2]
              /\ s[at + 2] = Base64Digits(v)[3]
              => DigitsValue(s, at) = Low18(v)
<1> DEFINE c == (v \div 4096) % 64
           d == (v \div 64) % 64
           e == v % 64
<1>1. c \in Byte /\ d \in Byte /\ e \in Byte
  BY SMT DEF Byte
<1>2. c * 4096 + d * 64 + e = Low18(v)
  <2>1. v \div 4096 = (v \div 64) \div 64
    BY SMT
  <2>2. v % 262144 = ((v \div 4096) % 64) * 4096 + (v % 4096)
    BY SMT
  <2>3. v % 4096 = ((v \div 64) % 64) * 64 + (v % 64)
    BY SMT
  <2> QED BY <2>2, <2>3, SMT DEF Low18
<1>3. Base64Digits(v) = <<c, d, e>>
  BY SMT DEF Base64Digits
<1> HIDE DEF c, d, e
<1>4. ASSUME NEW s \in Seq(Byte), NEW at \in Nat,
             s[at] = Base64Digits(v)[1], s[at + 1] = Base64Digits(v)[2],
             s[at + 2] = Base64Digits(v)[3]
      PROVE  DigitsValue(s, at) = c * 4096 + d * 64 + e
  BY <1>3, <1>4, SMT DEF DigitsValue
<1>5. Base64Digits(v) \in Seq(Byte) /\ Len(Base64Digits(v)) = 3
  BY <1>1, <1>3
<1> QED BY <1>2, <1>4, <1>5

LEMMA SixDigitsBack ==
  ASSUME NEW v \in UInt32
  PROVE  /\ ConvertBase64(v, 6) \in Seq(Byte) /\ Len(ConvertBase64(v, 6)) = 6
         /\ \A s \in Seq(Byte), at \in Nat :
              (\A i \in 1..6 : s[at - 1 + i] = ConvertBase64(v, 6)[i]) => DecodeBase64(s, at, 6) = v
<1> DEFINE high == v \div 262144
           h == Base64Digits(high)
           l == Base64Digits(v)
           c == ConvertBase64(v, 6)
<1>1. v \in Nat /\ high \in Nat /\ Low18(high) = high /\ v = high * 262144 + Low18(v)
  BY SMT DEF UInt32, Low18
<1>2. h \in Seq(Byte) /\ Len(h) = 3 /\ l \in Seq(Byte) /\ Len(l) = 3
  BY <1>1, DigitsBack
<1>3. c = h \o l
  BY SMT DEF ConvertBase64
<1> HIDE DEF h, l, c, high
<1>4. /\ c \in Seq(Byte) /\ Len(c) = 6 /\ \A i \in 1..3 : c[i] = h[i]
      /\ \A i \in 1..3 : c[3 + i] = l[i]
  <2>1. Made2(h, l, h \o l)
    BY <1>2, Joined2
  <2> QED BY <1>2, <1>3, <2>1 DEF Made2
<1>5. ASSUME NEW s \in Seq(Byte), NEW at \in Nat, \A i \in 1..6 : s[at - 1 + i] = c[i]
      PROVE  DecodeBase64(s, at, 6) = v
  <2>1. s[at - 1 + 1] = c[1] /\ s[at - 1 + 2] = c[2] /\ s[at - 1 + 3] = c[3]
        /\ s[at - 1 + 4] = c[4] /\ s[at - 1 + 5] = c[5] /\ s[at - 1 + 6] = c[6]
    BY <1>5
  <2>2. c[1] = h[1] /\ c[2] = h[2] /\ c[3] = h[3] /\ c[4] = l[1] /\ c[5] = l[2] /\ c[6] = l[3]
    <3>1. c[3 + 1] = l[1] /\ c[3 + 2] = l[2] /\ c[3 + 3] = l[3]
      BY <1>4
    <3> QED BY <1>4, <3>1
  <2>3. s[at] = h[1] /\ s[at + 1] = h[2] /\ s[at + 2] = h[3]
    BY <2>1, <2>2
  <2>4. s[at + 3] = l[1] /\ s[at + 3 + 1] = l[2] /\ s[at + 3 + 2] = l[3]
    BY <2>1, <2>2
  <2>5. DigitsValue(s, at) = Low18(high)
    BY <1>1, <2>3, DigitsBack DEF h
  <2>6. DigitsValue(s, at + 3) = Low18(v)
    BY <1>1, <2>4, DigitsBack DEF l
  <2> QED BY <1>1, <2>5, <2>6, SMT DEF DecodeBase64
<1> QED BY <1>4, <1>5 DEF c

LEMMA ThreeDigitsBack ==
  ASSUME NEW v \in UInt16
  PROVE  /\ ConvertBase64(v, 3) \in Seq(Byte) /\ Len(ConvertBase64(v, 3)) = 3
         /\ \A s \in Seq(Byte), at \in Nat :
              (\A i \in 1..3 : s[at - 1 + i] = ConvertBase64(v, 3)[i]) => DecodeBase64(s, at, 3) = v
<1> DEFINE l == Base64Digits(v)
<1>1. v \in Nat /\ Low18(v) = v
  BY SMT DEF UInt16, Low18
<1>2. l \in Seq(Byte) /\ Len(l) = 3
  BY <1>1, DigitsBack
<1>3. ConvertBase64(v, 3) = <<>> \o l
  BY SMT DEF ConvertBase64
<1>4. ConvertBase64(v, 3) = l
  BY <1>2, <1>3, ConcatEmptySeq
<1>5. ASSUME NEW s \in Seq(Byte), NEW at \in Nat, \A i \in 1..3 : s[at - 1 + i] = l[i]
      PROVE  DecodeBase64(s, at, 3) = v
  <2>1. s[at - 1 + 1] = l[1] /\ s[at - 1 + 2] = l[2] /\ s[at - 1 + 3] = l[3]
    BY <1>5
  <2>2. s[at] = l[1] /\ s[at + 1] = l[2] /\ s[at + 2] = l[3]
    BY <2>1
  <2>3. DigitsValue(s, at) = v
    BY <1>1, <2>2, DigitsBack DEF l
  <2> QED BY <2>3, SMT DEF DecodeBase64
<1> QED BY <1>2, <1>4, <1>5

\* The digits of a number stand in s from the character at on.
DigitsAt(s, at, digits, n) == \A i \in 1..n : s[at - 1 + i] = digits[i]

LEMMA SixDigitsAt ==
  ASSUME NEW v \in UInt32, NEW s \in Seq(Byte), NEW at \in Nat,
         DigitsAt(s, at, ConvertBase64(v, 6), 6)
  PROVE  DecodeBase64(s, at, 6) = v
BY SixDigitsBack DEF DigitsAt

LEMMA ThreeDigitsAt ==
  ASSUME NEW v \in UInt16, NEW s \in Seq(Byte), NEW at \in Nat,
         DigitsAt(s, at, ConvertBase64(v, 3), 3)
  PROVE  DecodeBase64(s, at, 3) = v
BY ThreeDigitsBack DEF DigitsAt

\* Five parts of a ROWID: a prefix, and four numbers.
Made5(p, a, b, c, d, s) ==
  /\ s \in Seq(Byte) /\ Len(s) = Len(p) + 12
  /\ \A i \in 1..Len(p) : s[i] = p[i]
  /\ \A i \in 1..4 : s[Len(p) + i] = a[i]
  /\ \A i \in 1..2 : s[Len(p) + 4 + i] = b[i]
  /\ \A i \in 1..4 : s[Len(p) + 6 + i] = c[i]
  /\ \A i \in 1..2 : s[Len(p) + 10 + i] = d[i]

LEMMA Glued5 ==
  ASSUME NEW p, NEW a, NEW b, NEW c, NEW d,
         p \in Seq(Byte), a \in Seq(Byte), b \in Seq(Byte), c \in Seq(Byte), d \in Seq(Byte),
         Len(a) = 4, Len(b) = 2, Len(c) = 4, Len(d) = 2
  PROVE  Made5(p, a, b, c, d, p \o a \o b \o c \o d)
<1> DEFINE s == p \o a \o b \o c \o d
<1> DEFINE q == p \o a \o b
<1>1. /\ q \in Seq(Byte) /\ Len(q) = Len(p) + Len(a) + Len(b)
      /\ \A i \in 1..Len(p) : q[i] = p[i]
      /\ \A i \in 1..Len(a) : q[Len(p) + i] = a[i]
      /\ \A i \in 1..Len(b) : q[Len(p) + Len(a) + i] = b[i]
  <2>1. Made3(p, a, b, q)
    BY Joined3
  <2> QED BY <2>1 DEF Made3
<1>2. s = q \o c \o d
  OBVIOUS
<1> HIDE DEF q, s
<1>3. /\ s \in Seq(Byte) /\ Len(s) = Len(q) + Len(c) + Len(d)
      /\ \A i \in 1..Len(q) : s[i] = q[i]
      /\ \A i \in 1..Len(c) : s[Len(q) + i] = c[i]
      /\ \A i \in 1..Len(d) : s[Len(q) + Len(c) + i] = d[i]
  <2>1. Made3(q, c, d, q \o c \o d)
    BY <1>1, Joined3
  <2> QED BY <1>2, <2>1 DEF Made3
<1> DEFINE n == Len(p)
<1>4. n \in Nat
  BY LenProperties
<1> HIDE DEF n
<1>5. Len(q) = n + 6 /\ Len(s) = n + 12
  BY <1>1, <1>3, <1>4 DEF n
<1>6. ASSUME NEW i \in 1..n PROVE s[i] = p[i]
  <2>1. i \in 1..Len(q)
    BY <1>4, <1>5
  <2> QED BY <1>1, <1>3, <2>1 DEF n
<1>7. ASSUME NEW i \in 1..4 PROVE s[n + i] = a[i]
  <2>1. n + i \in 1..Len(q)
    BY <1>4, <1>5
  <2> QED BY <1>1, <1>3, <2>1 DEF n
<1>8. ASSUME NEW i \in 1..2 PROVE s[n + 4 + i] = b[i]
  <2>1. n + 4 + i \in 1..Len(q)
    BY <1>4, <1>5
  <2>2. q[n + 4 + i] = b[i]
    BY <1>1 DEF n
  <2> QED BY <1>3, <2>1, <2>2
<1>9. ASSUME NEW i \in 1..4 PROVE s[n + 6 + i] = c[i]
  BY <1>3, <1>5
<1>10. ASSUME NEW i \in 1..2 PROVE s[n + 10 + i] = d[i]
  <2>1. s[n + 6 + 4 + i] = d[i]
    BY <1>3, <1>5
  <2>2. n + 6 + 4 + i = n + 10 + i
    BY <1>4
  <2> QED BY <2>1, <2>2
<1> QED BY <1>3, <1>5, <1>6, <1>7, <1>8, <1>9, <1>10 DEF n, s, Made5

\* decode_rowid finds the type byte, and each number behind it.
LEMMA RowIdDecoded ==
  ASSUME NEW r \in RowIds, NEW typed \in BOOLEAN
  PROVE  DecodeRowId(RowIdBytes(r, typed)) = r
<1> DEFINE p == IF typed THEN <<1>> ELSE <<>>
           b == RowIdBytes(r, typed)
           at == Len(p)
<1>1. /\ r.rba \in UInt32 /\ r.partition_id \in UInt16 /\ r.block_num \in UInt32
      /\ r.slot_num \in UInt16
      /\ r = [rba |-> r.rba, partition_id |-> r.partition_id, block_num |-> r.block_num,
              slot_num |-> r.slot_num]
  BY DEF RowIds
<1>2. /\ p \in Seq(Byte) /\ at = IF typed THEN 1 ELSE 0
      /\ typed => p[1] = 1
  <2>1. 1 \in Byte
    BY ByteRange
  <2>2. CASE typed
    BY <2>1, <2>2
  <2>3. CASE ~typed
    BY <2>3
  <2> QED BY <2>2, <2>3
<1>3. /\ r.rba \in Int /\ r.partition_id \in Int /\ r.block_num \in Int /\ r.slot_num \in Int
  BY <1>1, SMT DEF UInt32, UInt16
<1>4. b = p \o Be4(r.rba) \o Be2(r.partition_id) \o Be4(r.block_num) \o Be2(r.slot_num)
  BY DEF RowIdBytes
<1> HIDE DEF p, b
<1>5. /\ b \in Seq(Byte) /\ Len(b) = at + 12
      /\ \A i \in 1..at : b[i] = p[i]
      /\ \A i \in 1..4 : b[at + i] = Be4(r.rba)[i]
      /\ \A i \in 1..2 : b[at + 4 + i] = Be2(r.partition_id)[i]
      /\ \A i \in 1..4 : b[at + 6 + i] = Be4(r.block_num)[i]
      /\ \A i \in 1..2 : b[at + 10 + i] = Be2(r.slot_num)[i]
  <2>1. /\ Be4(r.rba) \in Seq(Byte) /\ Len(Be4(r.rba)) = 4
        /\ Be4(r.block_num) \in Seq(Byte) /\ Len(Be4(r.block_num)) = 4
        /\ Be2(r.partition_id) \in Seq(Byte) /\ Len(Be2(r.partition_id)) = 2
        /\ Be2(r.slot_num) \in Seq(Byte) /\ Len(Be2(r.slot_num)) = 2
    BY <1>3, Bytes4, Bytes2
  <2> DEFINE u == Be4(r.rba)
             v == Be2(r.partition_id)
             w == Be4(r.block_num)
             x == Be2(r.slot_num)
  <2>2. b = p \o u \o v \o w \o x
    BY <1>4
  <2> HIDE DEF u, v, w, x
  <2>3. Made5(p, u, v, w, x, p \o u \o v \o w \o x)
    BY <1>2, <2>1, Glued5 DEF u, v, w, x
  <2>4. Made5(p, u, v, w, x, b)
    BY <2>2, <2>3
  <2> QED BY <2>4 DEF Made5, u, v, w, x
<1>6. (IF b[1] = 1 /\ Len(b) >= 13 THEN 1 ELSE 0) = at /\ at \in Nat
  <2>1. CASE typed
    BY <1>2, <1>5, <2>1
  <2>2. CASE ~typed
    BY <1>2, <1>5, <2>2
  <2> QED BY <2>1, <2>2
<1>7. /\ \A i \in 1..4 : SubSeq(b, at + 1, at + 4)[i] = Be4(r.rba)[i]
      /\ \A i \in 1..2 : SubSeq(b, at + 5, at + 6)[i] = Be2(r.partition_id)[i]
      /\ \A i \in 1..4 : SubSeq(b, at + 7, at + 10)[i] = Be4(r.block_num)[i]
      /\ \A i \in 1..2 : SubSeq(b, at + 10 + 1, at + 10 + 2)[i] = Be2(r.slot_num)[i]
  <2> HIDE DEF at
  <2>1. \A i \in 1..4 : SubSeq(b, at + 1, at + 4)[i] = b[at + 1 + i - 1]
    BY <1>5, <1>6, Slice
  <2>2. \A i \in 1..2 : SubSeq(b, at + 5, at + 6)[i] = b[at + 5 + i - 1]
    BY <1>5, <1>6, Slice
  <2>3. \A i \in 1..4 : SubSeq(b, at + 7, at + 10)[i] = b[at + 7 + i - 1]
    BY <1>5, <1>6, Slice
  <2>4. \A i \in 1..2 : SubSeq(b, at + 10 + 1, at + 10 + 2)[i] = b[at + 10 + 1 + i - 1]
    BY <1>5, <1>6, Slice
  <2>5. \A i \in Nat : /\ at + 1 + i - 1 = at + i /\ at + 5 + i - 1 = at + 4 + i
                       /\ at + 7 + i - 1 = at + 6 + i /\ at + 10 + 1 + i - 1 = at + 10 + i
    BY <1>6
  <2>6. (\A i \in 1..4 : i \in Nat) /\ \A i \in 1..2 : i \in Nat
    OBVIOUS
  <2>7. ASSUME NEW i \in 1..4 PROVE SubSeq(b, at + 1, at + 4)[i] = Be4(r.rba)[i]
    BY <1>5, <2>1, <2>5, <2>6, ZenonT(30)
  <2>8. ASSUME NEW i \in 1..2 PROVE SubSeq(b, at + 5, at + 6)[i] = Be2(r.partition_id)[i]
    BY <1>5, <2>2, <2>5, <2>6, ZenonT(30)
  <2>9. ASSUME NEW i \in 1..4 PROVE SubSeq(b, at + 7, at + 10)[i] = Be4(r.block_num)[i]
    BY <1>5, <2>3, <2>5, <2>6, Zenon
  <2>10. ASSUME NEW i \in 1..2 PROVE SubSeq(b, at + 10 + 1, at + 10 + 2)[i] = Be2(r.slot_num)[i]
    BY <1>5, <2>4, <2>5, <2>6, Zenon
  <2> QED BY <2>7, <2>8, <2>9, <2>10
<1>8. /\ FromBe4(SubSeq(b, at + 1, at + 4)) = r.rba
      /\ FromBe2(SubSeq(b, at + 5, at + 6)) = r.partition_id
      /\ FromBe4(SubSeq(b, at + 7, at + 10)) = r.block_num
      /\ FromBe2(SubSeq(b, at + 10 + 1, at + 10 + 2)) = r.slot_num
  BY <1>1, <1>7, UInt32Back, UInt16Back, Zenon
<1>9. Len(b) >= at + 10 + 2
  BY <1>5, <1>6
<1>10. DecodeRowId(b) = [rba |-> r.rba, partition_id |-> r.partition_id, block_num |-> r.block_num,
                         slot_num |-> r.slot_num]
  <2> HIDE DEF at
  <2> QED BY <1>6, <1>8, <1>9, Zenon DEF DecodeRowId
<1> QED BY <1>1, <1>10 DEF b

\* The 18 characters of a ROWID that is not all zeros.
LEMMA RowIdText ==
  ASSUME NEW r \in RowIds, IsValid(r)
  PROVE  Len(RowIdToString(r)) = MAX_ROWID_LENGTH /\ ParseRowIdString(RowIdToString(r)) = r
<1> DEFINE a == ConvertBase64(r.rba, 6)
           b == ConvertBase64(r.partition_id, 3)
           c == ConvertBase64(r.block_num, 6)
           d == ConvertBase64(r.slot_num, 3)
           q == a \o b \o c
           s == q \o d
<1>1. /\ r.rba \in UInt32 /\ r.partition_id \in UInt16 /\ r.block_num \in UInt32
      /\ r.slot_num \in UInt16
      /\ r = [rba |-> r.rba, partition_id |-> r.partition_id, block_num |-> r.block_num,
              slot_num |-> r.slot_num]
  BY DEF RowIds
<1>2. /\ a \in Seq(Byte) /\ Len(a) = 6 /\ b \in Seq(Byte) /\ Len(b) = 3
      /\ c \in Seq(Byte) /\ Len(c) = 6 /\ d \in Seq(Byte) /\ Len(d) = 3
  BY <1>1, SixDigitsBack, ThreeDigitsBack
<1>3. RowIdToString(r) = s
  BY DEF RowIdToString
<1> HIDE DEF a, b, c, d
<1>4. /\ q \in Seq(Byte) /\ Len(q) = 15 /\ \A i \in 1..6 : q[i] = a[i]
      /\ \A i \in 1..3 : q[6 + i] = b[i]
      /\ \A i \in 1..6 : q[9 + i] = c[i]
  <2>1. Made3(a, b, c, q)
    BY <1>2, Joined3
  <2> HIDE DEF q
  <2> QED BY <1>2, <2>1 DEF Made3
<1> HIDE DEF q
<1>5. /\ s \in Seq(Byte) /\ Len(s) = 18 /\ \A i \in 1..15 : s[i] = q[i]
      /\ \A i \in 1..3 : s[15 + i] = d[i]
  <2>1. /\ s \in Seq(Byte) /\ Len(s) = Len(q) + Len(d) /\ \A i \in 1..Len(q) : s[i] = q[i]
        /\ \A i \in 1..Len(d) : s[Len(q) + i] = d[i]
    <3>1. Made2(q, d, q \o d)
      BY <1>2, <1>4, Joined2
    <3> QED BY <3>1 DEF Made2
  <2> HIDE DEF s
  <2> QED BY <1>2, <1>4, <2>1
<1> HIDE DEF s
<1>6. DigitsAt(s, 1, a, 6) /\ DigitsAt(s, 7, b, 3) /\ DigitsAt(s, 10, c, 6) /\ DigitsAt(s, 16, d, 3)
  <2>1. /\ \A i \in 1..6 : s[i] = q[i]
        /\ \A i \in 1..3 : s[6 + i] = q[6 + i]
        /\ \A i \in 1..6 : s[9 + i] = q[9 + i]
    BY <1>5
  <2>2. /\ \A i \in 1..6 : 1 - 1 + i = i
        /\ \A i \in 1..3 : 7 - 1 + i = 6 + i /\ 16 - 1 + i = 15 + i
        /\ \A i \in 1..6 : 10 - 1 + i = 9 + i
    OBVIOUS
  <2>3. DigitsAt(s, 1, a, 6)
    BY <1>4, <2>1, <2>2 DEF DigitsAt
  <2>4. DigitsAt(s, 7, b, 3)
    BY <1>4, <2>1, <2>2 DEF DigitsAt
  <2>5. DigitsAt(s, 10, c, 6)
    BY <1>4, <2>1, <2>2 DEF DigitsAt
  <2>6. DigitsAt(s, 16, d, 3)
    BY <1>5, <2>2 DEF DigitsAt
  <2> QED BY <2>3, <2>4, <2>5, <2>6
<1>7. /\ DecodeBase64(s, 1, 6) = r.rba /\ DecodeBase64(s, 7, 3) = r.partition_id
      /\ DecodeBase64(s, 10, 6) = r.block_num /\ DecodeBase64(s, 16, 3) = r.slot_num
  <2>1. DecodeBase64(s, 1, 6) = r.rba
    BY <1>1, <1>5, <1>6, SixDigitsAt DEF a
  <2>2. DecodeBase64(s, 7, 3) = r.partition_id
    <3>1. DigitsAt(s, 7, ConvertBase64(r.partition_id, 3), 3)
      BY <1>6, Zenon DEF b
    <3>2. 7 \in Nat
      OBVIOUS
    <3> QED BY <1>1, <1>5, <3>1, <3>2, ThreeDigitsAt, Zenon
  <2>3. DecodeBase64(s, 10, 6) = r.block_num
    BY <1>1, <1>5, <1>6, SixDigitsAt DEF c
  <2>4. DecodeBase64(s, 16, 3) = r.slot_num
    <3>1. DigitsAt(s, 16, ConvertBase64(r.slot_num, 3), 3)
      BY <1>6, Zenon DEF d
    <3>2. 16 \in Nat
      OBVIOUS
    <3> QED BY <1>1, <1>5, <3>1, <3>2, ThreeDigitsAt, Zenon
  <2> QED BY <2>1, <2>2, <2>3, <2>4
<1> QED BY <1>1, <1>3, <1>5, <1>7 DEF ParseRowIdString, MAX_ROWID_LENGTH

(***************************************************************************)
(* A ROWID of the server, with or without its type byte, is decoded and    *)
(* written as 18 characters that are parsed as the same ROWID, for every   *)
(* u32 and u16; the ROWID of zeros has no text (decode_rowid, to_string    *)
(* and parse_rowid_string).                                                *)
(***************************************************************************)
THEOREM RowIdsReadBack == \A r \in RowIds, typed \in BOOLEAN : RowIdReadBack(r, typed)
<1> SUFFICES ASSUME NEW r \in RowIds, NEW typed \in BOOLEAN PROVE RowIdReadBack(r, typed)
  OBVIOUS
<1>1. DecodeRowId(RowIdBytes(r, typed)) = r
  BY RowIdDecoded
<1>2. CASE IsValid(r)
  BY <1>1, <1>2, RowIdText DEF RowIdReadBack
<1>3. CASE ~IsValid(r)
  BY <1>1, <1>3 DEF RowIdReadBack, RowIdToString
<1> QED BY <1>2, <1>3

----------------------------------------------------------------------------
\* Packets

\* The length of a packet fits its header.
FitsHeader(length, large) == IF large THEN length \in UInt32 ELSE length \in UInt16

LEMMA HeaderBack ==
  ASSUME NEW length, NEW type \in Byte, NEW large \in BOOLEAN, FitsHeader(length, large)
  PROVE  /\ Len(WriteHeader(length, type, large)) = PACKET_HEADER_SIZE
         /\ ReadHeader(WriteHeader(length, type, large), large) = [length |-> length, type |-> type]
<1> DEFINE l == IF large THEN Be4(length) ELSE Be2(length) \o <<0, 0>>
           t == <<type, 0, 0, 0>>
           b == WriteHeader(length, type, large)
<1>1. length \in Int
  BY SMT DEF FitsHeader, UInt32, UInt16
<1>2. t \in Seq(Byte) /\ Len(t) = 4 /\ t[1] = type
  <2>1. 0 \in Byte
    BY ByteRange
  <2> QED BY <2>1
<1>3. /\ l \in Seq(Byte) /\ Len(l) = 4
      /\ large => \A i \in 1..4 : l[i] = Be4(length)[i]
      /\ ~large => \A i \in 1..2 : l[i] = Be2(length)[i]
  <2>1. CASE large
    <3>1. l = Be4(length)
      BY <2>1
    <3> HIDE DEF l
    <3> QED BY <1>1, <2>1, <3>1, Bytes4
  <2>2. CASE ~large
    <3> DEFINE z == <<0, 0>>
               n == Be2(length)
    <3>1. 0 \in Byte
      BY ByteRange
    <3>2. z \in Seq(Byte) /\ Len(z) = 2
      BY <3>1
    <3>3. n \in Seq(Byte) /\ Len(n) = 2
      BY <1>1, Bytes2
    <3>4. l = n \o z
      BY <2>2
    <3> HIDE DEF l, z, n
    <3>5. Made2(n, z, n \o z)
      BY <3>2, <3>3, Joined2
    <3>6. Made2(n, z, l)
      BY <3>4, <3>5
    <3>7. l \in Seq(Byte) /\ Len(l) = 4 /\ \A i \in 1..2 : l[i] = n[i]
      BY <3>2, <3>3, <3>6 DEF Made2
    <3> QED BY <2>2, <3>7 DEF n
  <2> QED BY <2>1, <2>2
<1>4. b = l \o t
  BY DEF WriteHeader
<1> HIDE DEF l, t, b
<1>5. /\ Len(b) = 8 /\ b[5] = type
      /\ \A i \in 1..4 : b[i] = l[i]
  <2>1. Made2(l, t, l \o t)
    BY <1>2, <1>3, Joined2
  <2>2. Made2(l, t, b)
    BY <1>4, <2>1
  <2>3. b[4 + 1] = t[1]
    BY <1>2, <1>3, <2>2 DEF Made2
  <2> QED BY <1>2, <1>3, <2>2, <2>3 DEF Made2
<1>6. (IF large THEN FromBe4(b) ELSE FromBe2(b)) = length
  <2>1. CASE large
    <3>1. length \in UInt32
      BY <2>1 DEF FitsHeader
    <3>2. \A i \in 1..4 : b[i] = Be4(length)[i]
      BY <1>3, <1>5, <2>1
    <3> QED BY <2>1, <3>1, <3>2, UInt32Back
  <2>2. CASE ~large
    <3>1. length \in UInt16
      BY <2>2 DEF FitsHeader
    <3>2. \A i \in 1..2 : b[i] = Be2(length)[i]
      BY <1>3, <1>5, <2>2
    <3> QED BY <2>2, <3>1, <3>2, UInt16Back
  <2> QED BY <2>1, <2>2
<1>7. ReadHeader(b, large) = [length |-> length, type |-> type]
  BY <1>5, <1>6 DEF ReadHeader
<1> QED BY <1>5, <1>7 DEF b, PACKET_HEADER_SIZE

LEMMA ProductsOrdered ==
  ASSUME NEW a \in Nat, NEW b \in Nat, NEW c \in Nat, a <= b
  PROVE  a * c <= b * c
BY SMT

\* Cutting n bytes into parts of m: every part begins inside, and only the last may be short.
LEMMA PacketCuts ==
  ASSUME NEW n \in Nat, NEW m \in Nat \ {0}
  PROVE  LET k == (n + m - 1) \div m IN
         /\ k \in Nat /\ n <= k * m
         /\ \A i \in 1..k : /\ (i - 1) * m \in Nat /\ (i - 1) * m < n /\ i * m = (i - 1) * m + m
                            /\ i # k => i * m < n
<1> DEFINE a == n + m - 1
           k == a \div m
<1>1. a \in Nat
  OBVIOUS
<1>2. k \in Nat /\ m * k <= a /\ a < m * k + m
  BY <1>1, SMT
<1> HIDE DEF k
<1>3. k * m <= n + m - 1 /\ n <= k * m
  <2>1. m * k = k * m /\ m * k \in Nat
    BY <1>2, SMT
  <2> QED BY <1>2, <2>1
<1>4. ASSUME NEW i \in 1..k
      PROVE  /\ (i - 1) * m \in Nat /\ (i - 1) * m < n /\ i * m = (i - 1) * m + m
             /\ i # k => i * m < n
  <2>1. i \in Nat /\ i - 1 \in Nat /\ i <= k /\ k - 1 \in Nat
    BY <1>2
  <2>2. i * m = (i - 1) * m + m /\ k * m = (k - 1) * m + m /\ (i - 1) * m \in Nat /\ (k - 1) * m \in Nat
    BY <1>2, <2>1, SMT
  <2>3. (i - 1) * m <= (k - 1) * m
    <3>1. i - 1 <= k - 1 /\ m \in Nat
      BY <1>2, <2>1
    <3> QED BY <2>1, <3>1, ProductsOrdered
  <2>4. i # k => i * m <= (k - 1) * m
    <3>1. ASSUME i # k PROVE i <= k - 1
      BY <1>2, <2>1, <3>1
    <3>2. ASSUME i <= k - 1 PROVE i * m <= (k - 1) * m
      BY <2>1, <3>2, ProductsOrdered
    <3> QED BY <3>1, <3>2
  <2>5. (k - 1) * m < n
    BY <1>3, <2>2
  <2>6. i * m \in Nat
    BY <2>1, SMT
  <2> QED BY <2>2, <2>3, <2>4, <2>5, <2>6
<1> QED BY <1>2, <1>3, <1>4 DEF k

\* An SDU has room for the header, the data flags and a byte, and fits the header.
Sdus(large) == {sdu \in Int : 10 < sdu /\ FitsHeader(sdu, large)}

\* Each part is what comes next of the payload, and they reach its end.
PartsInOrder(payload, packets, max_payload) ==
  /\ \A i \in DOMAIN packets :
       /\ packets[i].part \in Seq(Byte)
       /\ Len(packets[i].part) = IF i # Len(packets) THEN max_payload
                                 ELSE Len(payload) - (i - 1) * max_payload
       /\ \A j \in 1..Len(packets[i].part) :
            packets[i].part[j] = payload[(i - 1) * max_payload + j]
  /\ (Len(packets) - 1) * max_payload < Len(payload) \/ packets = <<>>

(***************************************************************************)
(* send_multi_packet with any payload and SDU: every packet announces the  *)
(* bytes that it holds, none is longer than the SDU, the last one only     *)
(* ends the request, and the parts are the payload, cut at the SDU, each   *)
(* byte once and in order.                                                 *)
(***************************************************************************)
THEOREM PacketsExact ==
  \A payload \in Seq(Byte), large \in BOOLEAN : \A sdu \in Sdus(large) :
    LET packets == SendMultiPacket(payload, sdu, large)
    IN  /\ PacketsAnnounced(packets, sdu, large)
        /\ PartsInOrder(payload, packets, sdu - PACKET_HEADER_SIZE - 2)
        /\ Len(payload) > 0 <=> Len(packets) > 0
<1> SUFFICES ASSUME NEW payload \in Seq(Byte), NEW large \in BOOLEAN, NEW sdu \in Sdus(large)
             PROVE  LET packets == SendMultiPacket(payload, sdu, large)
                    IN  /\ PacketsAnnounced(packets, sdu, large)
                        /\ PartsInOrder(payload, packets, sdu - PACKET_HEADER_SIZE - 2)
                        /\ Len(payload) > 0 <=> Len(packets) > 0
  OBVIOUS
<1> DEFINE n == Len(payload)
           m == sdu - PACKET_HEADER_SIZE - 2
           k == (n + m - 1) \div m
           Part(i) == SubSeq(payload, (i - 1) * m + 1, IF i * m < n THEN i * m ELSE n)
           packets == SendMultiPacket(payload, sdu, large)
<1>1. n \in Nat /\ m \in Nat \ {0} /\ m = sdu - 10 /\ sdu \in Int /\ FitsHeader(sdu, large)
  BY LenProperties DEF Sdus, PACKET_HEADER_SIZE
<1>2. /\ k \in Nat /\ n <= k * m
      /\ \A i \in 1..k : /\ (i - 1) * m \in Nat /\ (i - 1) * m < n /\ i * m = (i - 1) * m + m
                         /\ i # k => i * m < n
  <2> HIDE DEF n, m
  <2> QED BY <1>1, PacketCuts
<1>3. /\ packets = [i \in 1..k |-> [header |-> WriteHeader(PACKET_HEADER_SIZE + 2 + Len(Part(i)), DATA, large),
                                    end_of_request |-> i = k, part |-> Part(i)]]
  BY DEF SendMultiPacket
<1> HIDE DEF n, m, k, Part, packets
<1>4. DOMAIN packets = 1..k /\ Len(packets) = k
  BY <1>2, <1>3
<1>5. ASSUME NEW i \in 1..k
      PROVE  /\ Len(Part(i)) = IF i # k THEN m ELSE n - (i - 1) * m
             /\ Len(Part(i)) \in 1..m /\ Part(i) \in Seq(Byte)
             /\ \A j \in 1..Len(Part(i)) : Part(i)[j] = payload[(i - 1) * m + j]
  <2> DEFINE from == (i - 1) * m
             to == IF i * m < n THEN i * m ELSE n
  <2>1. /\ from \in Nat /\ from < n /\ i * m = from + m /\ (i # k => i * m < n)
        /\ n <= k * m
    BY <1>2
  <2> DEFINE im == i * m
  <2>2. im = from + m /\ (i # k => im < n) /\ (i = k => n <= im) /\ to = IF im < n THEN im ELSE n
    BY <2>1
  <2>3. Part(i) = SubSeq(payload, from + 1, to)
    BY DEF Part
  <2> HIDE DEF from, im
  <2>4. /\ from + 1 \in Nat /\ to \in Nat /\ 1 <= from + 1 /\ from + 1 <= to + 1 /\ to <= n
        /\ to - from = (IF i # k THEN m ELSE n - from) /\ to - from \in 1..m
    BY <1>1, <2>1, <2>2
  <2> HIDE DEF to
  <2>5. /\ SubSeq(payload, from + 1, to) \in Seq(Byte)
        /\ Len(SubSeq(payload, from + 1, to)) = to - (from + 1) + 1
        /\ \A j \in 1..(to - (from + 1) + 1) : SubSeq(payload, from + 1, to)[j] = payload[from + 1 + j - 1]
    BY <2>4, Slice DEF n
  <2>6. to - (from + 1) + 1 = to - from
    BY <2>1, <2>4
  <2>7. \A j \in 1..(to - from) : from + 1 + j - 1 = from + j
    BY <2>1
  <2>8. /\ Len(Part(i)) = to - from
        /\ \A j \in 1..(to - from) : Part(i)[j] = payload[from + j]
    BY <2>3, <2>5, <2>6, <2>7
  <2> QED BY <2>3, <2>4, <2>5, <2>8 DEF from
<1>6. ASSUME NEW i \in 1..k
      PROVE  /\ packets[i].part = Part(i) /\ (packets[i].end_of_request <=> i = k)
             /\ packets[i].header = WriteHeader(10 + Len(Part(i)), DATA, large)
  <2>1. PACKET_HEADER_SIZE + 2 = 10
    BY DEF PACKET_HEADER_SIZE
  <2> QED BY <1>3, <2>1
<1>7. DATA \in Byte
  BY ByteRange DEF DATA
<1>8. ASSUME NEW i \in 1..k
      PROVE  LET header == ReadHeader(packets[i].header, large)
             IN  /\ Len(packets[i].header) = PACKET_HEADER_SIZE /\ header.type = DATA
                 /\ header.length = 10 + Len(packets[i].part)
                 /\ header.length <= sdu
  <2> DEFINE length == 10 + Len(Part(i))
  <2>1. length \in Nat /\ length <= sdu
    BY <1>1, <1>5
  <2> HIDE DEF length
  <2>2. FitsHeader(length, large)
    BY <1>1, <2>1, SMT DEF FitsHeader, UInt32, UInt16
  <2>3. /\ Len(packets[i].header) = PACKET_HEADER_SIZE
        /\ ReadHeader(packets[i].header, large) = [length |-> length, type |-> DATA]
    BY <1>6, <1>7, <2>2, HeaderBack DEF length
  <2>4. length = 10 + Len(packets[i].part)
    BY <1>6 DEF length
  <2> QED BY <2>1, <2>3, <2>4
<1>9. PacketsAnnounced(packets, sdu, large)
  <2>1. PACKET_HEADER_SIZE + 2 = 10
    BY DEF PACKET_HEADER_SIZE
  <2> QED BY <1>4, <1>6, <1>8, <2>1 DEF PacketsAnnounced
<1>10. PartsInOrder(payload, packets, m)
  <2>1. k = 0 => packets = <<>>
    BY <1>3, <1>4
  <2>2. k # 0 => (k - 1) * m < n
    BY <1>2
  <2>3. ASSUME NEW i \in 1..k
        PROVE  /\ Len(packets[i].part) = IF i # k THEN m ELSE Len(payload) - (i - 1) * m
               /\ \A j \in 1..Len(packets[i].part) : packets[i].part[j] = payload[(i - 1) * m + j]
               /\ packets[i].part \in Seq(Byte)
    BY <1>5, <1>6 DEF n
  <2> QED BY <1>4, <2>1, <2>2, <2>3 DEF PartsInOrder, n
<1>11. n > 0 <=> k > 0
  <2>1. k = 0 => k * m = 0
    BY <1>1, SMT
  <2>2. k = 0 => n = 0
    BY <1>1, <1>2, <2>1
  <2>3. k # 0 => n > 0
    <3>1. ASSUME k # 0 PROVE n > 0
      <4>1. 1 \in 1..k
        BY <1>2, <3>1
      <4>2. (1 - 1) * m \in Nat /\ (1 - 1) * m < n
        BY <1>2, <4>1
      <4> QED BY <1>1, <4>2
    <3> QED BY <3>1
  <2> QED BY <1>1, <1>2, <2>2, <2>3
<1> QED BY <1>4, <1>9, <1>10, <1>11 DEF packets, m, n

----------------------------------------------------------------------------
\* Sequences put one behind the other

\* What FlattenSeq has gathered behind each of its sequences.
Flat(s) == LET f[i \in 0..Len(s)] == IF i = 0 THEN <<>> ELSE f[i - 1] \o s[i] IN f

LEMMA FlatRun ==
  ASSUME NEW T, NEW s \in Seq(Seq(T))
  PROVE  /\ Flat(s)[0] = <<>>
         /\ \A i \in 1..Len(s) : Flat(s)[i] = Flat(s)[i - 1] \o s[i]
         /\ \A i \in 0..Len(s) : Flat(s)[i] \in Seq(T)
<1> DEFINE n == Len(s)
           F == [p \in (1..n) \X Seq(T) |-> p[2] \o s[p[1]]]
           Body(f) == [i \in 0..n |-> IF i = 0 THEN <<>> ELSE f[i - 1] \o s[i]]
<1>0. n \in Nat /\ <<>> \in Seq(T) /\ \A i \in 1..n : s[i] \in Seq(T)
  OBVIOUS
<1>1. F \in [(1..n) \X Seq(T) -> Seq(T)]
  <2>1. ASSUME NEW p \in (1..n) \X Seq(T) PROVE p[2] \o s[p[1]] \in Seq(T)
    <3>1. p[1] \in 1..n /\ p[2] \in Seq(T)
      OBVIOUS
    <3>2. s[p[1]] \in Seq(T)
      BY <1>0, <3>1
    <3> QED BY <3>1, <3>2, ConcatProperties
  <2> QED BY <2>1
<1>2. PICK f : IsRun(f, n, Seq(T), <<>>, F)
  <2> HIDE DEF F, n
  <2> QED BY <1>0, <1>1, RunExists
<1>3. f = Body(f)
  <2>1. f = [i \in 0..n |-> IF i = 0 THEN <<>> ELSE F[<<i, f[i - 1]>>]]
    <3> HIDE DEF F, n
    <3> QED BY <1>0, <1>2, RunUnfolds, ZenonT(30)
  <2>2. \A i \in 1..n : F[<<i, f[i - 1]>>] = f[i - 1] \o s[i]
    <3>1. ASSUME NEW i \in 1..n PROVE <<i, f[i - 1]>> \in (1..n) \X Seq(T)
      <4>1. i - 1 \in 0..n /\ f \in [0..n -> Seq(T)]
        <5> HIDE DEF F, n
        <5> QED BY <1>0, <1>2 DEF IsRun
      <4>2. f[i - 1] \in Seq(T)
        BY <4>1
      <4> QED BY <4>2
    <3> QED BY <3>1
  <2>3. \A i \in 0..n : i # 0 => i \in 1..n
    BY <1>0
  <2> HIDE DEF F, n
  <2> QED BY <2>1, <2>2, <2>3
<1> DEFINE g == Flat(s)
<1>4. g = Body(g)
  <2>1. g = CHOOSE h : h = Body(h)
    BY DEF Flat
  <2> HIDE DEF Body, g
  <2> QED BY <1>3, <2>1
<1> HIDE DEF g
<1>5. g[0] = <<>> /\ \A i \in 1..n : g[i] = g[i - 1] \o s[i]
  <2>1. \A i \in 1..n : i \in 0..n /\ i # 0
    BY <1>0
  <2>2. 0 \in 0..n
    BY <1>0
  <2> HIDE DEF n
  <2> QED BY <1>4, <2>1, <2>2
<1>6. \A i \in 0..n : g[i] \in Seq(T)
  <2>1. \A i \in 1..n : g[i - 1] \in Seq(T) => g[i] \in Seq(T)
    <3>1. ASSUME NEW i \in 1..n, g[i - 1] \in Seq(T) PROVE g[i - 1] \o s[i] \in Seq(T)
      BY <1>0, <3>1, ConcatProperties
    <3> QED BY <3>1, <1>5
  <2> HIDE DEF n
  <2> QED BY <1>0, <1>5, <2>1, RunTyped
<1> QED BY <1>5, <1>6 DEF g

LEMMA FlattenIsFlat ==
  ASSUME NEW T, NEW s \in Seq(Seq(T))
  PROVE  FlattenSeq(s) = Flat(s)[Len(s)]
<1> DEFINE n == Len(s)
           Body(f) == [i \in 1..n |-> IF i = 1 THEN s[i] ELSE f[i - 1] \o s[i]]
           h == [i \in 1..n |-> Flat(s)[i]]
           g == CHOOSE f : f = Body(f)
<1>0. n \in Nat /\ \A i \in 1..n : s[i] \in Seq(T)
  OBVIOUS
<1>1. CASE n = 0
  <2>1. s = <<>>
    BY <1>1
  <2> QED BY <1>1, <2>1, FlatRun DEF FlattenSeq
<1>2. CASE n # 0
  <2>1. h = Body(h)
    <3>1. ASSUME NEW i \in 1..n PROVE Flat(s)[i] = IF i = 1 THEN s[i] ELSE h[i - 1] \o s[i]
      <4>1. Flat(s)[i] = Flat(s)[i - 1] \o s[i] /\ Flat(s)[0] = <<>>
        BY FlatRun
      <4>2. <<>> \o s[i] = s[i]
        BY <1>0, ConcatEmptySeq
      <4>3. i # 1 => h[i - 1] = Flat(s)[i - 1]
        BY <1>0
      <4> HIDE DEF h
      <4>4. CASE i = 1
        <5>1. i - 1 = 0
          BY <4>4
        <5>2. Flat(s)[i] = s[i]
          BY <4>1, <4>2, <5>1
        <5> QED BY <4>4, <5>2
      <4>5. CASE i # 1
        BY <4>1, <4>3, <4>5
      <4> QED BY <4>4, <4>5
    <3> HIDE DEF n
    <3> QED BY <3>1
  <2>2. g = Body(g)
    <3> HIDE DEF Body, h
    <3> QED BY <2>1
  <2> HIDE DEF g
  <2> DEFINE S == {i \in 0..n : i # 0 => g[i] = Flat(s)[i]}
  <2>3. 0 \in S /\ \A i \in 1..n : i - 1 \in S => i \in S
    <3>1. ASSUME NEW i \in 1..n, i - 1 # 0 => g[i - 1] = Flat(s)[i - 1]
          PROVE  g[i] = Flat(s)[i]
      <4>1. Flat(s)[i] = Flat(s)[i - 1] \o s[i] /\ Flat(s)[0] = <<>>
        BY FlatRun
      <4>2. <<>> \o s[i] = s[i]
        BY <1>0, ConcatEmptySeq
      <4>3. g[i] = IF i = 1 THEN s[i] ELSE g[i - 1] \o s[i]
        <5> HIDE DEF n
        <5> QED BY <2>2
      <4>4. CASE i = 1
        <5>1. i - 1 = 0
          BY <4>4
        <5>2. Flat(s)[i] = s[i]
          BY <4>1, <4>2, <5>1
        <5> QED BY <4>3, <4>4, <5>2
      <4>5. CASE i # 1
        <5>1. i - 1 # 0
          BY <1>0, <4>5
        <5> QED BY <3>1, <4>1, <4>3, <4>5, <5>1
      <4> QED BY <4>4, <4>5
    <3>2. \A i \in 1..n : i - 1 \in 0..n /\ i \in 0..n
      BY <1>0
    <3> QED BY <1>0, <3>1, <3>2
  <2> HIDE DEF S
  <2>4. \A i \in 0..n : i \in S
    BY <1>0, <2>3, UpToInduction
  <2>5. g[n] = Flat(s)[n]
    BY <1>0, <1>2, <2>4 DEF S
  <2>6. FlattenSeq(s) = g[n]
    BY <1>2 DEF FlattenSeq, g
  <2> QED BY <2>5, <2>6
<1> QED BY <1>1, <1>2

\* Each gathering is the beginning of the last one, with its sequence at its end.
Gathers(s, i) ==
  /\ Len(Flat(s)[i]) = Len(Flat(s)[i - 1]) + Len(s[i])
  /\ Len(Flat(s)[i]) <= Len(FlattenSeq(s))
  /\ \A k \in 1..Len(s[i]) : FlattenSeq(s)[Len(Flat(s)[i - 1]) + k] = s[i][k]

LEMMA FlatGrows ==
  ASSUME NEW T, NEW s \in Seq(Seq(T))
  PROVE  \A i \in 1..Len(s) : Gathers(s, i)
<1> DEFINE n == Len(s)
           g(i) == Flat(s)[i]
<1>0. /\ n \in Nat /\ \A i \in 1..n : s[i] \in Seq(T) /\ Len(s[i]) \in Nat
      /\ \A i \in 0..n : g(i) \in Seq(T) /\ Len(g(i)) \in Nat
  <2>1. n \in Nat /\ \A i \in 1..n : s[i] \in Seq(T)
    OBVIOUS
  <2>2. \A i \in 0..n : g(i) \in Seq(T)
    BY FlatRun
  <2> HIDE DEF g, n
  <2> QED BY <2>1, <2>2, LenProperties
<1>1. ASSUME NEW i \in 1..n
      PROVE  /\ Len(g(i)) = Len(g(i - 1)) + Len(s[i])
             /\ \A k \in 1..Len(g(i - 1)) : g(i)[k] = g(i - 1)[k]
             /\ \A k \in 1..Len(s[i]) : g(i)[Len(g(i - 1)) + k] = s[i][k]
  <2>1. g(i) = g(i - 1) \o s[i] /\ i - 1 \in 0..n
    <3>1. g(i) = g(i - 1) \o s[i]
      BY FlatRun
    <3> HIDE DEF g, n
    <3> QED BY <1>0, <3>1
  <2> HIDE DEF g, n
  <2>2. g(i - 1) \in Seq(T) /\ s[i] \in Seq(T) /\ Len(g(i - 1)) \in Nat /\ Len(s[i]) \in Nat
    BY <1>0, <2>1
  <2> DEFINE a == g(i - 1)
             b == s[i]
  <2>3. /\ Len(a \o b) = Len(a) + Len(b)
        /\ \A k \in 1..Len(a) + Len(b) : (a \o b)[k] = IF k <= Len(a) THEN a[k] ELSE b[k - Len(a)]
    <3> HIDE DEF a, b
    <3> QED BY <2>2, ConcatProperties DEF a, b
  <2>4. g(i) = a \o b /\ Len(a) \in Nat /\ Len(b) \in Nat
    BY <2>1, <2>2
  <2>5. /\ \A k \in 1..Len(a) : k \in 1..Len(a) + Len(b) /\ k <= Len(a)
        /\ \A k \in 1..Len(b) : /\ Len(a) + k \in 1..Len(a) + Len(b) /\ ~(Len(a) + k <= Len(a))
                                /\ (Len(a) + k) - Len(a) = k
    <3> HIDE DEF a, b
    <3> QED BY <2>4
  <2> HIDE DEF a, b
  <2>6. /\ Len(g(i)) = Len(a) + Len(b)
        /\ \A k \in 1..Len(a) : g(i)[k] = a[k]
        /\ \A k \in 1..Len(b) : g(i)[Len(a) + k] = b[k]
    BY <2>3, <2>4, <2>5
  <2> QED BY <2>6 DEF a, b
<1> HIDE DEF g
<1> DEFINE P(i, j) == Len(g(i)) <= Len(g(j)) /\ \A k \in 1..Len(g(i)) : g(j)[k] = g(i)[k]
<1>2. \A j \in 0..n : \A i \in 0..j : P(i, j)
  <2> DEFINE S == {j \in 0..n : \A i \in 0..j : P(i, j)}
  <2>1. 0 \in S
    <3>1. P(0, 0)
      BY <1>0
    <3>2. \A i \in 0..0 : i = 0
      OBVIOUS
    <3> HIDE DEF P
    <3> QED BY <1>0, <3>1, <3>2
  <2>2. ASSUME NEW j \in 1..n, j - 1 \in S PROVE j \in S
    <3>1. ASSUME NEW i \in 0..j PROVE P(i, j)
      <4>1. CASE i = j
        BY <1>0, <4>1
      <4>2. CASE i # j
        <5>1. i \in 0..(j - 1) /\ j - 1 \in 0..n /\ i \in 0..n
          BY <1>0, <4>2
        <5>2. P(i, j - 1)
          BY <5>1, <2>2
        <5>3. Len(g(i)) \in Nat /\ Len(g(j - 1)) \in Nat /\ Len(s[j]) \in Nat
          BY <1>0, <5>1
        <5>4. /\ Len(g(j)) = Len(g(j - 1)) + Len(s[j])
              /\ \A k \in 1..Len(g(j - 1)) : g(j)[k] = g(j - 1)[k]
          BY <1>1
        <5>5. \A k \in 1..Len(g(i)) : k \in 1..Len(g(j - 1))
          BY <5>2, <5>3
        <5>6. Len(g(i)) <= Len(g(j))
          <6>1. Len(g(i)) <= Len(g(j - 1)) /\ Len(g(j)) = Len(g(j - 1)) + Len(s[j])
            BY <5>2, <5>4
          <6>2. Len(g(i)) <= Len(g(j - 1)) + Len(s[j])
            <7> DEFINE a == Len(g(i))
                       b == Len(g(j - 1))
                       c == Len(s[j])
            <7>1. a \in Nat /\ b \in Nat /\ c \in Nat /\ a <= b
              BY <5>3, <6>1
            <7> HIDE DEF a, b, c
            <7>2. a <= b + c
              BY <7>1
            <7> QED BY <7>2 DEF a, b, c
          <6> QED BY <6>1, <6>2
        <5>7. ASSUME NEW k \in 1..Len(g(i)) PROVE g(j)[k] = g(i)[k]
          BY <5>2, <5>4, <5>5
        <5> QED BY <5>6, <5>7
      <4> QED BY <4>1, <4>2
    <3> HIDE DEF P
    <3>2. j \in 0..n
      BY <1>0
    <3> QED BY <3>1, <3>2
  <2> HIDE DEF S
  <2>3. \A j \in 0..n : j \in S
    BY <1>0, <2>1, <2>2, UpToInduction
  <2> QED BY <2>3 DEF S
<1>3. FlattenSeq(s) = g(n)
  BY FlattenIsFlat DEF g
<1>4. ASSUME NEW i \in 1..n
      PROVE  /\ Len(g(i)) = Len(g(i - 1)) + Len(s[i])
             /\ Len(g(i)) <= Len(g(n))
             /\ \A k \in 1..Len(s[i]) : g(n)[Len(g(i - 1)) + k] = s[i][k]
  <2>1. i \in 0..n /\ n \in 0..n /\ i - 1 \in 0..n
    BY <1>0
  <2>2. P(i, n)
    BY <1>2, <2>1
  <2>3. Len(g(i)) = Len(g(i - 1)) + Len(s[i]) /\ \A k \in 1..Len(s[i]) : g(i)[Len(g(i - 1)) + k] = s[i][k]
    BY <1>1
  <2>4. \A k \in 1..Len(s[i]) : Len(g(i - 1)) + k \in 1..Len(g(i))
    <3>1. Len(g(i - 1)) \in Nat /\ Len(s[i]) \in Nat
      BY <1>0, <2>1
    <3> QED BY <2>3, <3>1
  <2> QED BY <2>2, <2>3, <2>4
<1> QED BY <1>3, <1>4 DEF g, Gathers

----------------------------------------------------------------------------
\* What stands in a buffer, and reading it

\* The bytes w stand in buf behind pos, as far as buf goes.
StandsAt(buf, pos, w) ==
  pos <= Len(buf) /\ \A k \in 1..Len(w) : pos + k <= Len(buf) => buf[pos + k] = w[k]

\* r is what a reader of w should return: v, or an Err where buf does not hold all of w.
ReadsAs(r, buf, pos, w, v) ==
  r = IF pos + Len(w) <= Len(buf) THEN [ok |-> TRUE, value |-> v, pos |-> pos + Len(w)]
      ELSE ReadErr

LEMMA StandsFirst ==
  ASSUME NEW buf \in Seq(Byte), NEW pos \in Nat, NEW a \in Seq(Byte), NEW b \in Seq(Byte),
         StandsAt(buf, pos, a \o b)
  PROVE  /\ StandsAt(buf, pos, a)
         /\ pos + Len(a) <= Len(buf) => StandsAt(buf, pos + Len(a), b)
<1> DEFINE m == Len(a)
           n == Len(b)
<1>1. /\ Len(a \o b) = m + n /\ m \in Nat /\ n \in Nat /\ Len(buf) \in Nat
      /\ \A k \in 1..m + n : (a \o b)[k] = IF k <= m THEN a[k] ELSE b[k - m]
  BY ConcatProperties, LenProperties
<1>2. /\ pos <= Len(buf)
      /\ \A k \in 1..(m + n) : pos + k <= Len(buf) => buf[pos + k] = (a \o b)[k]
  BY <1>1 DEF StandsAt
<1>3. /\ \A k \in 1..m : k \in 1..(m + n) /\ k <= m
      /\ \A k \in 1..n : m + k \in 1..(m + n) /\ ~(m + k <= m) /\ (m + k) - m = k
                         /\ pos + (m + k) = (pos + m) + k
  <2> HIDE DEF m, n
  <2> QED BY <1>1
<1> HIDE DEF m, n
<1>4. \A k \in 1..m : pos + k <= Len(buf) => buf[pos + k] = a[k]
  BY <1>1, <1>2, <1>3
<1>5. ASSUME NEW k \in 1..n, (pos + m) + k <= Len(buf) PROVE buf[(pos + m) + k] = b[k]
  <2>1. /\ m + k \in 1..(m + n) /\ ~(m + k <= m) /\ (m + k) - m = k
        /\ pos + (m + k) = (pos + m) + k
    BY <1>3
  <2>2. buf[pos + (m + k)] = (a \o b)[m + k]
    BY <1>2, <1>5, <2>1
  <2>3. (a \o b)[m + k] = b[k]
    BY <1>1, <2>1
  <2> QED BY <2>1, <2>2, <2>3
<1> QED BY <1>2, <1>4, <1>5 DEF StandsAt, m, n

LEMMA BytesRead ==
  ASSUME NEW buf \in Seq(Byte), NEW pos \in Nat, NEW w \in Seq(Byte), StandsAt(buf, pos, w)
  PROVE  ReadsAs(ReadBytes(buf, pos, Len(w)), buf, pos, w, w)
<1>1. CASE pos + Len(w) <= Len(buf)
  <2>1. Len(w) \in Nat /\ Len(buf) \in Nat
    BY LenProperties
  <2> DEFINE s == SubSeq(buf, pos + 1, pos + Len(w))
  <2>2. /\ s \in Seq(Byte) /\ Len(s) = Len(w)
        /\ \A k \in 1..Len(w) : s[k] = buf[pos + 1 + k - 1]
    <3>1. /\ pos + 1 \in Nat /\ pos + Len(w) \in Nat /\ 1 <= pos + 1 /\ pos + 1 <= (pos + Len(w)) + 1
          /\ pos + Len(w) <= Len(buf)
          /\ (pos + Len(w)) - (pos + 1) + 1 = Len(w)
      BY <1>1, <2>1
    <3>2. /\ s \in Seq(Byte) /\ Len(s) = (pos + Len(w)) - (pos + 1) + 1
          /\ \A k \in 1..((pos + Len(w)) - (pos + 1) + 1) : s[k] = buf[pos + 1 + k - 1]
      BY <3>1, Slice
    <3> HIDE DEF s
    <3> QED BY <3>1, <3>2
  <2> HIDE DEF s
  <2>3. \A k \in 1..Len(w) : pos + 1 + k - 1 = pos + k /\ pos + k <= Len(buf)
    BY <1>1, <2>1
  <2>4. \A k \in 1..Len(w) : s[k] = w[k]
    BY <2>2, <2>3 DEF StandsAt
  <2>5. s = w
    BY <2>2, <2>4, SeqEqual
  <2> QED BY <1>1, <2>5 DEF s, ReadsAs, ReadBytes
<1>2. CASE ~(pos + Len(w) <= Len(buf))
  BY <1>2 DEF ReadsAs, ReadBytes
<1> QED BY <1>1, <1>2

\* A length byte and what stands behind it.
LEMMA ByteFirst ==
  ASSUME NEW buf \in Seq(Byte), NEW pos \in Nat, NEW x \in Byte, NEW b \in Seq(Byte),
         StandsAt(buf, pos, <<x>> \o b)
  PROVE  /\ <<x>> \o b \in Seq(Byte) /\ Len(<<x>> \o b) = Len(b) + 1 /\ Len(b) \in Nat
         /\ Len(buf) \in Nat
         /\ pos + 1 <= Len(buf) => /\ ReadBytes(buf, pos, 1) = [ok |-> TRUE, value |-> <<x>>, pos |-> pos + 1]
                                   /\ StandsAt(buf, pos + 1, b)
         /\ ~(pos + 1 <= Len(buf)) => ReadBytes(buf, pos, 1) = ReadErr
<1>1. <<x>> \in Seq(Byte) /\ Len(<<x>>) = 1
  OBVIOUS
<1>2. /\ <<x>> \o b \in Seq(Byte) /\ Len(<<x>> \o b) = 1 + Len(b) /\ Len(b) \in Nat
      /\ Len(buf) \in Nat
  BY <1>1, ConcatProperties, LenProperties
<1>3. StandsAt(buf, pos, <<x>>) /\ (pos + 1 <= Len(buf) => StandsAt(buf, pos + 1, b))
  BY <1>1, StandsFirst
<1>4. ReadsAs(ReadBytes(buf, pos, 1), buf, pos, <<x>>, <<x>>)
  BY <1>1, <1>3, BytesRead
<1>5. Len(<<x>> \o b) = Len(b) + 1
  <2> HIDE DEF ReadsAs
  <2> QED BY <1>2
<1> QED BY <1>1, <1>2, <1>3, <1>4, <1>5 DEF ReadsAs

----------------------------------------------------------------------------
\* Numbers

Minimal(n) == n = <<>> \/ n[1] # 0

LEMMA ZerosAre ==
  ASSUME NEW z \in Nat
  PROVE  Zeros(z) \in Seq(Byte) /\ Len(Zeros(z)) = z /\ \A i \in 1..z : Zeros(z)[i] = 0
BY DEF Zeros, Byte

\* There is one end of the leading zeros.
LEMMA LeadingZerosEnd ==
  ASSUME NEW b, NEW m \in Nat, NEW k \in 0..m, \A i \in 1..k : b[i] = 0, k = m \/ b[k + 1] # 0
  PROVE  k = CHOOSE j \in 0..m : (\A i \in 1..j : b[i] = 0) /\ (j = m \/ b[j + 1] # 0)
<1> DEFINE Leads(j) == (\A i \in 1..j : b[i] = 0) /\ (j = m \/ b[j + 1] # 0)
           c == CHOOSE j \in 0..m : Leads(j)
<1>1. Leads(k)
  OBVIOUS
<1>2. c \in 0..m /\ Leads(c)
  <2> HIDE DEF Leads
  <2> QED BY <1>1
<1> HIDE DEF c
<1>3. c = k
  <2>1. CASE c < k
    <3>1. c + 1 \in 1..k /\ c # m
      BY <1>2, <2>1
    <3> QED BY <1>1, <1>2, <3>1
  <2>2. CASE c > k
    <3>1. k + 1 \in 1..c /\ k # m
      BY <1>2, <2>2
    <3> QED BY <1>1, <1>2, <3>1
  <2>3. c \in Int /\ k \in Int
    BY <1>2
  <2> QED BY <2>1, <2>2, <2>3
<1> QED BY <1>3 DEF c

\* What is not zero at the front stays.
LEMMA SignificantFrom ==
  ASSUME NEW b \in Seq(Byte), NEW k \in 0..Len(b), \A i \in 1..k : b[i] = 0,
         k = Len(b) \/ b[k + 1] # 0
  PROVE  /\ Significant(b) \in Seq(Byte) /\ Len(Significant(b)) = Len(b) - k
         /\ \A i \in 1..(Len(b) - k) : Significant(b)[i] = b[k + i]
         /\ Minimal(Significant(b))
<1> DEFINE m == Len(b)
           s == SubSeq(b, k + 1, m)
<1>0. m \in Nat
  BY LenProperties
<1>1. Significant(b) = s
  <2>1. k = CHOOSE j \in 0..m : (\A i \in 1..j : b[i] = 0) /\ (j = m \/ b[j + 1] # 0)
    <3>1. k \in 0..m /\ (k = m \/ b[k + 1] # 0)
      OBVIOUS
    <3> HIDE DEF m
    <3> QED BY <1>0, <3>1, LeadingZerosEnd
  <2> QED BY <2>1 DEF Significant
<1>2. s \in Seq(Byte) /\ Len(s) = m - k /\ \A i \in 1..(m - k) : s[i] = b[k + i]
  <2>1. k \in 0..m
    OBVIOUS
  <2>2. /\ k + 1 \in Nat /\ m \in Nat /\ 1 <= k + 1 /\ k + 1 <= m + 1 /\ m <= Len(b)
        /\ m - (k + 1) + 1 = m - k
        /\ \A i \in 1..(m - k) : k + 1 + i - 1 = k + i
    <3>1. m <= Len(b)
      BY <1>0
    <3> HIDE DEF m
    <3> QED BY <1>0, <2>1, <3>1
  <2>3. /\ s \in Seq(Byte) /\ Len(s) = m - (k + 1) + 1
        /\ \A i \in 1..(m - (k + 1) + 1) : s[i] = b[k + 1 + i - 1]
    <3> HIDE DEF m
    <3> QED BY <2>2, Slice
  <2> HIDE DEF s, m
  <2> QED BY <2>2, <2>3
<1>3. Minimal(s)
  <2>1. k = m \/ b[k + 1] # 0
    OBVIOUS
  <2>2. k \in 0..m
    OBVIOUS
  <2> HIDE DEF s, m
  <2>3. CASE k = m
    <3>1. Len(s) = 0
      BY <1>0, <1>2, <2>3
    <3>2. s = <<>>
      BY <1>2, <3>1, EmptySeq
    <3> QED BY <3>2 DEF Minimal
  <2>4. CASE k # m
    <3>1. 1 \in 1..(m - k)
      BY <1>0, <2>2, <2>4
    <3>2. s[1] = b[k + 1]
      BY <1>2, <3>1
    <3> QED BY <2>1, <2>4, <3>2 DEF Minimal
  <2> QED BY <2>3, <2>4
<1> QED BY <1>1, <1>2, <1>3

\* Leading zeros do not count.
LEMMA SignificantBack ==
  ASSUME NEW z \in Nat, NEW n \in Seq(Byte), Minimal(n)
  PROVE  Significant(Zeros(z) \o n) = n
<1> DEFINE b == Zeros(z) \o n
<1>1. /\ b \in Seq(Byte) /\ Len(b) = z + Len(n) /\ Len(n) \in Nat
      /\ \A i \in 1..z : b[i] = 0
      /\ \A i \in 1..Len(n) : b[z + i] = n[i]
  <2>1. Zeros(z) \in Seq(Byte) /\ Len(Zeros(z)) = z /\ \A i \in 1..z : Zeros(z)[i] = 0
    BY ZerosAre
  <2>2. /\ b \in Seq(Byte) /\ Len(b) = z + Len(n) /\ Len(n) \in Nat
        /\ \A i \in 1..z + Len(n) : b[i] = IF i <= z THEN Zeros(z)[i] ELSE n[i - z]
    BY <2>1, ConcatProperties, LenProperties
  <2> HIDE DEF b
  <2>3. \A i \in 1..z : i \in 1..z + Len(n) /\ i <= z
    BY <2>2
  <2>4. \A i \in 1..Len(n) : z + i \in 1..z + Len(n) /\ ~(z + i <= z) /\ (z + i) - z = i
    BY <2>2
  <2> QED BY <2>1, <2>2, <2>3, <2>4
<1> HIDE DEF b
<1>2. z \in 0..Len(b) /\ (z = Len(b) \/ b[z + 1] # 0) /\ Len(b) - z = Len(n)
  <2>1. n # <<>> => 1 \in 1..Len(n) /\ b[z + 1] = n[1]
    BY <1>1, EmptySeq
  <2>2. n = <<>> => z = Len(b)
    BY <1>1
  <2>3. z \in 0..Len(b) /\ Len(b) - z = Len(n)
    BY <1>1
  <2> QED BY <2>1, <2>2, <2>3 DEF Minimal
<1> DEFINE s == Significant(b)
<1>3. s \in Seq(Byte) /\ Len(s) = Len(b) - z /\ \A i \in 1..(Len(b) - z) : s[i] = b[z + i]
  BY <1>1, <1>2, SignificantFrom
<1> HIDE DEF s
<1>4. Len(s) = Len(n) /\ \A i \in 1..Len(s) : s[i] = n[i]
  BY <1>1, <1>2, <1>3
<1>5. s = n
  BY <1>3, <1>4, SeqEqual
<1> QED BY <1>5 DEF s, b

LEMMA UpTo8 == \A k \in Nat : k <= 8 => k \in 0..8
OBVIOUS

LEMMA UbWidths ==
  ASSUME NEW k \in 0..8
  PROVE  /\ UbWidth(k) \in {0, 1, 2, 4, 8} /\ k <= UbWidth(k)
         /\ \A v \in {2, 4, 8} : k <= v => UbWidth(k) <= v
<1> DEFINE W == {0, 1, 2, 4, 8}
           Is(w) == w >= k /\ \A v \in W : v >= k => v >= w
<1>1. \E w \in W : Is(w)
  <2>1. CASE k = 0
    BY <2>1
  <2>2. CASE k = 1
    BY <2>2
  <2>3. CASE k = 2
    BY <2>3
  <2>4. CASE k \in 3..4
    BY <2>4
  <2>5. CASE k \in 5..8
    BY <2>5
  <2> QED BY <2>1, <2>2, <2>3, <2>4, <2>5
<1>2. UbWidth(k) \in W /\ Is(UbWidth(k))
  <2>1. UbWidth(k) = CHOOSE w \in W : Is(w)
    BY DEF UbWidth
  <2> HIDE DEF Is, W
  <2> QED BY <1>1, <2>1
<1> QED BY <1>2

LEMMA UbBytes ==
  ASSUME NEW n \in Seq(Byte), Len(n) <= 8
  PROVE  LET w == UbWidth(Len(n))
             z == Zeros(w - Len(n)) \o n
         IN  /\ WriteUb(n) = <<w>> \o z /\ z \in Seq(Byte) /\ Len(z) = w /\ w \in Byte
             /\ WriteUb(n) \in Seq(Byte) /\ Len(WriteUb(n)) = w + 1
<1> DEFINE w == UbWidth(Len(n))
           z == Zeros(w - Len(n)) \o n
<1>1. Len(n) \in 0..8
  <2>1. Len(n) \in Nat
    BY LenProperties
  <2> QED BY <2>1, UpTo8
<1>2. w \in {0, 1, 2, 4, 8} /\ Len(n) <= w
  BY <1>1, UbWidths
<1>3. w \in Byte /\ w - Len(n) \in Nat /\ w \in Nat
  BY <1>1, <1>2 DEF Byte
<1>4. Zeros(w - Len(n)) \in Seq(Byte) /\ Len(Zeros(w - Len(n))) = w - Len(n)
  BY <1>3, ZerosAre
<1>5. z \in Seq(Byte) /\ Len(z) = (w - Len(n)) + Len(n)
  BY <1>4, ConcatProperties
<1>6. Len(z) = w
  <2> HIDE DEF w, z
  <2> QED BY <1>1, <1>3, <1>5
<1>7. <<w>> \in Seq(Byte) /\ Len(<<w>>) = 1
  BY <1>3
<1>8. <<w>> \o Zeros(w - Len(n)) \o n = <<w>> \o z
  BY <1>4, <1>7, ConcatAssociative
<1>9. <<w>> \o z \in Seq(Byte) /\ Len(<<w>> \o z) = 1 + Len(z)
  BY <1>5, <1>7, ConcatProperties
<1>10. WriteUb(n) = <<w>> \o z
  BY <1>8 DEF WriteUb
<1>11. Len(WriteUb(n)) = w + 1
  <2> HIDE DEF w, z
  <2> QED BY <1>3, <1>6, <1>9, <1>10
<1> QED BY <1>3, <1>5, <1>6, <1>9, <1>10, <1>11

\* read_ub2, ub4 and ub8 read what write_ub wrote, and skip_ub skips it.
LEMMA UbBack ==
  ASSUME NEW buf \in Seq(Byte), NEW pos \in Nat, NEW n \in Seq(Byte), NEW width \in {2, 4, 8},
         Len(n) <= width, Minimal(n), StandsAt(buf, pos, WriteUb(n))
  PROVE  /\ ReadsAs(ReadUb(buf, pos, width), buf, pos, WriteUb(n), n)
         /\ SkipUb(buf, pos).pos = ReadUb(buf, pos, width).pos
<1> DEFINE w == UbWidth(Len(n))
           zn == Zeros(w - Len(n)) \o n
<1>0. Len(n) \in 0..8 /\ Len(buf) \in Nat /\ Len(n) <= 8
  <2>1. Len(n) \in Nat /\ Len(buf) \in Nat
    BY LenProperties
  <2>2. Len(n) <= 8
    <3> DEFINE k == Len(n)
    <3>1. k \in Nat /\ k <= width
      BY <2>1
    <3> HIDE DEF k
    <3>2. k <= 8
      BY <3>1
    <3> QED BY <3>2 DEF k
  <2> QED BY <2>1, <2>2, UpTo8
<1>1. /\ WriteUb(n) = <<w>> \o zn /\ zn \in Seq(Byte) /\ Len(zn) = w /\ w \in Byte
      /\ WriteUb(n) \in Seq(Byte) /\ Len(WriteUb(n)) = w + 1
  BY <1>0, UbBytes
<1>2. w \in {0, 1, 2, 4, 8} /\ Len(n) <= w /\ w <= width
  BY <1>0, UbWidths
<1>3. Significant(zn) = n
  <2>1. w - Len(n) \in Nat
    BY <1>0, <1>2
  <2> QED BY <2>1, SignificantBack
<1> HIDE DEF w, zn
<1>4. /\ pos + 1 <= Len(buf) => /\ ReadBytes(buf, pos, 1) = [ok |-> TRUE, value |-> <<w>>, pos |-> pos + 1]
                                /\ StandsAt(buf, pos + 1, zn)
      /\ ~(pos + 1 <= Len(buf)) => ReadBytes(buf, pos, 1) = ReadErr
  BY <1>1, ByteFirst
<1>5. w % 128 = w /\ w \in Nat /\ ~(w > width)
  BY <1>2
<1>6. CASE ~(pos + 1 <= Len(buf))
  <2>1. ~(pos + (w + 1) <= Len(buf))
    BY <1>0, <1>5, <1>6
  <2>2. ReadUb(buf, pos, width) = ReadErr /\ SkipUb(buf, pos) = ReadErr
    BY <1>4, <1>6 DEF ReadUb, SkipUb, ReadErr
  <2> QED BY <1>1, <2>1, <2>2 DEF ReadsAs
<1>7. CASE pos + 1 <= Len(buf)
  <2>1. ReadBytes(buf, pos, 1) = [ok |-> TRUE, value |-> <<w>>, pos |-> pos + 1]
    BY <1>4, <1>7
  <2>2. ReadsAs(ReadBytes(buf, pos + 1, w), buf, pos + 1, zn, zn)
    BY <1>1, <1>4, <1>7, BytesRead
  <2>3. pos + (w + 1) = (pos + 1) + w
    BY <1>5
  <2> DEFINE r == ReadBytes(buf, pos + 1, w)
  <2>4. ReadUb(buf, pos, width) = IF r.ok THEN [r EXCEPT !.value = Significant(@)] ELSE ReadErr
    BY <2>1, <1>5 DEF ReadUb
  <2>5. SkipUb(buf, pos) = r
    BY <2>1, <1>5 DEF SkipUb
  <2> HIDE DEF r
  <2>6. CASE pos + (w + 1) <= Len(buf)
    <3>1. r = [ok |-> TRUE, value |-> zn, pos |-> pos + (w + 1)]
      BY <1>1, <2>2, <2>3, <2>6 DEF ReadsAs, r
    <3>2. ReadUb(buf, pos, width) = [ok |-> TRUE, value |-> n, pos |-> pos + (w + 1)]
      BY <1>3, <2>4, <3>1
    <3>3. SkipUb(buf, pos).pos = ReadUb(buf, pos, width).pos
      BY <3>1, <3>2, <2>5
    <3> QED BY <1>1, <2>6, <3>2, <3>3 DEF ReadsAs
  <2>7. CASE ~(pos + (w + 1) <= Len(buf))
    <3>1. r = ReadErr
      BY <1>1, <2>2, <2>3, <2>7 DEF ReadsAs, r
    <3>2. ReadUb(buf, pos, width) = ReadErr
      BY <2>4, <3>1 DEF ReadErr
    <3> QED BY <1>1, <2>5, <2>7, <3>1, <3>2 DEF ReadsAs
  <2> QED BY <2>6, <2>7
<1> QED BY <1>6, <1>7

\* A function whose values depend on those behind them exists too: it is made from the end.
LooksBehind(G, n, S) ==
  \A p \in 0..n : \A g, h \in [0..n -> S] :
    (\A q \in 0..n : q > p => g[q] = h[q]) => G[<<p, g>>] = G[<<p, h>>]

IsDown(f, n, S, G) == f \in [0..n -> S] /\ \A p \in 0..n : f[p] = G[<<p, f>>]

LEMMA DownExists ==
  ASSUME NEW n \in Nat, NEW S, NEW s0 \in S, NEW G \in [(0..n) \X [0..n -> S] -> S],
         LooksBehind(G, n, S)
  PROVE  \E f : IsDown(f, n, S, G)
<1> DEFINE Made(g, m) == \A p \in 0..n : p > n - m => g[p] = G[<<p, g>>]
           T == {m \in 0..(n + 1) : \E g \in [0..n -> S] : Made(g, m)}
<1>1. 0 \in T
  <2> DEFINE g == [p \in 0..n |-> s0]
  <2>1. g \in [0..n -> S] /\ Made(g, 0) /\ 0 \in 0..(n + 1)
    OBVIOUS
  <2> HIDE DEF g, Made
  <2> QED BY <2>1
<1>2. ASSUME NEW m \in 1..(n + 1), m - 1 \in T PROVE m \in T
  <2>1. PICK g \in [0..n -> S] : Made(g, m - 1)
    BY <1>2
  <2> DEFINE p0 == n - m + 1
             h == [q \in 0..n |-> IF q = p0 THEN G[<<p0, g>>] ELSE g[q]]
  <2>2. p0 \in 0..n /\ \A p \in 0..n : p > n - m => p = p0 \/ (p > n - (m - 1) /\ p > p0)
    OBVIOUS
  <2>3. G[<<p0, g>>] \in S
    <3>1. <<p0, g>> \in (0..n) \X [0..n -> S]
      BY <2>2
    <3> HIDE DEF p0
    <3> QED BY <3>1
  <2> HIDE DEF p0
  <2>4. h \in [0..n -> S] /\ h[p0] = G[<<p0, g>>] /\ \A q \in 0..n : q # p0 => h[q] = g[q]
    BY <2>2, <2>3
  <2> HIDE DEF h
  <2>5. \A p \in 0..n : p >= p0 => G[<<p, h>>] = G[<<p, g>>]
    <3>1. ASSUME NEW p \in 0..n, p >= p0 PROVE G[<<p, h>>] = G[<<p, g>>]
      <4>1. \A q \in 0..n : q > p => q # p0
        BY <2>2, <3>1
      <4>2. \A q \in 0..n : q > p => h[q] = g[q]
        BY <2>4, <4>1
      <4> QED BY <2>1, <2>4, <4>2 DEF LooksBehind
    <3> QED BY <3>1
  <2>6. ASSUME NEW p \in 0..n, p > n - m PROVE h[p] = G[<<p, h>>]
    <3>1. CASE p = p0
      <4>1. p >= p0
        BY <2>2, <3>1
      <4> QED BY <2>4, <2>5, <3>1, <4>1
    <3>2. CASE p # p0
      <4>1. p > n - (m - 1) /\ p >= p0
        BY <2>2, <2>6, <3>2
      <4>2. g[p] = G[<<p, g>>]
        BY <2>1, <4>1
      <4> QED BY <2>4, <2>5, <3>2, <4>1, <4>2
    <3> QED BY <3>1, <3>2
  <2>7. Made(h, m)
    BY <2>6
  <2>8. m \in 0..(n + 1)
    BY <1>2
  <2> HIDE DEF Made
  <2> QED BY <2>4, <2>7, <2>8
<1>3. n + 1 \in T
  <2>1. n + 1 \in Nat /\ n + 1 \in 0..(n + 1)
    OBVIOUS
  <2> HIDE DEF T
  <2>2. \A m \in 0..(n + 1) : m \in T
    BY <1>1, <1>2, <2>1, UpToInduction
  <2> QED BY <2>1, <2>2
<1>4. PICK f \in [0..n -> S] : Made(f, n + 1)
  BY <1>3
<1>5. \A p \in 0..n : p > n - (n + 1)
  OBVIOUS
<1>6. \A p \in 0..n : f[p] = G[<<p, f>>]
  BY <1>4, <1>5
<1> QED BY <1>6 DEF IsDown

----------------------------------------------------------------------------
\* Lengths

LEMMA ByteNat == \A x \in Byte : x \in Nat
BY DEF Byte

LEMMA FromBeRun ==
  ASSUME NEW b \in Seq(Byte)
  PROVE  \E g : /\ FromBe(b) = g[Len(b)] /\ g[0] = 0
                /\ \A i \in 1..Len(b) : g[i] = g[i - 1] * 256 + b[i]
                /\ \A i \in 0..Len(b) : g[i] \in Nat
<1> DEFINE n == Len(b)
           F == [p \in (1..n) \X Nat |-> p[2] * 256 + b[p[1]]]
           Body(f) == [i \in 0..n |-> IF i = 0 THEN 0 ELSE f[i - 1] * 256 + b[i]]
<1>0. n \in Nat /\ \A i \in 1..n : b[i] \in Nat
  <2>1. n \in Nat /\ \A i \in 1..n : b[i] \in Byte
    OBVIOUS
  <2> HIDE DEF n
  <2> QED BY <2>1, ByteNat
<1>1. F \in [(1..n) \X Nat -> Nat]
  <2>1. ASSUME NEW p \in (1..n) \X Nat PROVE p[2] * 256 + b[p[1]] \in Nat
    <3>1. p[1] \in 1..n /\ p[2] \in Nat
      OBVIOUS
    <3>2. b[p[1]] \in Nat
      BY <1>0, <3>1
    <3> QED BY <3>1, <3>2
  <2> QED BY <2>1
<1>2. PICK f : IsRun(f, n, Nat, 0, F)
  <2> HIDE DEF F, n
  <2> QED BY <1>0, <1>1, RunExists
<1>3. f = Body(f)
  <2>1. f = [i \in 0..n |-> IF i = 0 THEN 0 ELSE F[<<i, f[i - 1]>>]]
    <3> HIDE DEF F, n
    <3> QED BY <1>0, <1>2, RunUnfolds, ZenonT(30)
  <2>2. \A i \in 1..n : F[<<i, f[i - 1]>>] = f[i - 1] * 256 + b[i]
    <3>1. ASSUME NEW i \in 1..n PROVE <<i, f[i - 1]>> \in (1..n) \X Nat
      <4>1. i - 1 \in 0..n /\ f \in [0..n -> Nat]
        <5> HIDE DEF F, n
        <5> QED BY <1>0, <1>2 DEF IsRun
      <4>2. f[i - 1] \in Nat
        BY <4>1
      <4> QED BY <4>2
    <3> QED BY <3>1
  <2>3. \A i \in 0..n : i # 0 => i \in 1..n
    BY <1>0
  <2> HIDE DEF F, n
  <2> QED BY <2>1, <2>2, <2>3
<1> DEFINE g == CHOOSE h : h = Body(h)
<1>4. g = Body(g)
  <2> HIDE DEF Body
  <2> QED BY <1>3
<1>5. FromBe(b) = g[n]
  BY DEF FromBe
<1> HIDE DEF g
<1>6. g[0] = 0 /\ \A i \in 1..n : g[i] = g[i - 1] * 256 + b[i]
  <2>1. \A i \in 1..n : i \in 0..n /\ i # 0
    BY <1>0
  <2>2. 0 \in 0..n
    BY <1>0
  <2> HIDE DEF n
  <2> QED BY <1>4, <2>1, <2>2
<1>7. \A i \in 0..n : g[i] \in Nat
  <2>1. \A i \in 1..n : g[i - 1] \in Nat => g[i] \in Nat
    <3>1. ASSUME NEW i \in 1..n, g[i - 1] \in Nat PROVE g[i - 1] * 256 + b[i] \in Nat
      <4>1. b[i] \in Nat
        BY <1>0
      <4> QED BY <3>1, <4>1
    <3> QED BY <3>1, <1>6
  <2>2. g[0] \in Nat
    BY <1>6
  <2> HIDE DEF n, Body, F
  <2> QED BY <1>0, <2>1, <2>2, RunTyped
<1> QED BY <1>5, <1>6, <1>7

LEMMA FirstFour ==
  \A n : /\ n \in {1, 2, 3, 4} => 1 \in 1..n
         /\ n \in {2, 3, 4} => 2 \in 1..n /\ n \in {1, 2, 3, 4}
         /\ n \in {3, 4} => 3 \in 1..n /\ n \in {2, 3, 4}
         /\ n = 4 => 4 \in 1..n /\ n \in {3, 4}
OBVIOUS

\* The values of the short numbers.
LEMMA FromBeOf ==
  ASSUME NEW b \in Seq(Byte)
  PROVE  /\ FromBe(b) \in Nat
         /\ Len(b) = 0 => FromBe(b) = 0
         /\ Len(b) = 1 => FromBe(b) = b[1]
         /\ Len(b) = 2 => FromBe(b) = b[1] * 256 + b[2]
         /\ Len(b) = 3 => FromBe(b) = b[1] * 65536 + b[2] * 256 + b[3]
         /\ Len(b) = 4 => FromBe(b) = b[1] * 16777216 + b[2] * 65536 + b[3] * 256 + b[4]
<1>1. PICK g : /\ FromBe(b) = g[Len(b)] /\ g[0] = 0
               /\ \A i \in 1..Len(b) : g[i] = g[i - 1] * 256 + b[i]
               /\ \A i \in 0..Len(b) : g[i] \in Nat
  BY FromBeRun
<1>2. FromBe(b) \in Nat
  <2>1. Len(b) \in Nat
    BY LenProperties
  <2>2. Len(b) \in 0..Len(b)
    BY <2>1
  <2> QED BY <1>1, <2>2
<1>3. \A i \in 1..Len(b) : b[i] \in Nat
  <2>1. \A i \in 1..Len(b) : b[i] \in Byte
    BY ElementOfSeq
  <2> QED BY <2>1, ByteNat
<1>4. Len(b) = 0 => FromBe(b) = 0
  BY <1>1
<1> DEFINE G(i) == i \in 1..Len(b) => g[i] = g[i - 1] * 256 + b[i] /\ b[i] \in Nat
<1>5. G(1) /\ G(2) /\ G(3) /\ G(4)
  BY <1>1, <1>3
<1>6. Len(b) \in {1, 2, 3, 4} => 1 \in 1..Len(b) /\ g[1] = b[1] /\ b[1] \in Nat
  <2>1. Len(b) \in {1, 2, 3, 4} => 1 \in 1..Len(b)
    BY FirstFour
  <2> QED BY <1>1, <1>5, <2>1
<1>7. Len(b) \in {2, 3, 4} => 2 \in 1..Len(b) /\ g[2] = b[1] * 256 + b[2] /\ b[2] \in Nat
  <2>1. Len(b) \in {2, 3, 4} => 2 \in 1..Len(b) /\ Len(b) \in {1, 2, 3, 4}
    BY FirstFour
  <2> QED BY <1>5, <1>6, <2>1
<1>8. Len(b) \in {3, 4} => 3 \in 1..Len(b) /\ g[3] = (b[1] * 256 + b[2]) * 256 + b[3] /\ b[3] \in Nat
  <2>1. Len(b) \in {3, 4} => 3 \in 1..Len(b) /\ Len(b) \in {2, 3, 4}
    BY FirstFour
  <2> QED BY <1>5, <1>7, <2>1
<1>9. Len(b) = 4 => g[4] = ((b[1] * 256 + b[2]) * 256 + b[3]) * 256 + b[4] /\ b[4] \in Nat
  <2>1. Len(b) = 4 => 4 \in 1..Len(b) /\ Len(b) \in {3, 4}
    BY FirstFour
  <2> QED BY <1>5, <1>8, <2>1
<1>10. Len(b) = 3 => (b[1] * 256 + b[2]) * 256 + b[3] = b[1] * 65536 + b[2] * 256 + b[3]
  BY <1>6, <1>7, <1>8, SMT
<1>11. Len(b) = 4 => ((b[1] * 256 + b[2]) * 256 + b[3]) * 256 + b[4]
                       = b[1] * 16777216 + b[2] * 65536 + b[3] * 256 + b[4]
  BY <1>6, <1>7, <1>8, <1>9, SMTT(30)
<1> HIDE DEF G
<1>12. Len(b) = 1 => FromBe(b) = b[1]
  BY <1>1, <1>6
<1>13. Len(b) = 2 => FromBe(b) = b[1] * 256 + b[2]
  BY <1>1, <1>7
<1>14. Len(b) = 3 => FromBe(b) = b[1] * 65536 + b[2] * 256 + b[3]
  <2> SUFFICES ASSUME Len(b) = 3 PROVE FromBe(b) = b[1] * 65536 + b[2] * 256 + b[3]
    OBVIOUS
  <2>1. FromBe(b) = g[3] /\ g[3] = (b[1] * 256 + b[2]) * 256 + b[3]
    BY <1>1, <1>8
  <2> QED BY <1>10, <2>1
<1>15. Len(b) = 4 => FromBe(b) = b[1] * 16777216 + b[2] * 65536 + b[3] * 256 + b[4]
  <2> SUFFICES ASSUME Len(b) = 4 PROVE FromBe(b) = b[1] * 16777216 + b[2] * 65536 + b[3] * 256 + b[4]
    OBVIOUS
  <2>1. FromBe(b) = g[4] /\ g[4] = ((b[1] * 256 + b[2]) * 256 + b[3]) * 256 + b[4]
    BY <1>1, <1>9
  <2> QED BY <1>11, <2>1
<1> QED BY <1>2, <1>4, <1>12, <1>13, <1>14, <1>15

LEMMA FromBeEmpty ==
  ASSUME NEW b \in Seq(Byte), Len(b) = 0
  PROVE  FromBe(b) = 0
BY FromBeRun, ZenonT(30)

LEMMA SumZero ==
  \A x, y, z, w \in Nat : x * 16777216 + y * 65536 + z * 256 + w = 0
                         => x = 0 /\ y = 0 /\ z = 0 /\ w = 0
BY SMT

LEMMA SignificantTyped ==
  ASSUME NEW b \in Seq(Byte)
  PROVE  Significant(b) \in Seq(Byte) /\ Minimal(Significant(b)) /\ Len(Significant(b)) <= Len(b)
<1> DEFINE n == Len(b)
           T == {k \in 0..n : k = n \/ b[k + 1] # 0}
<1>0. n \in Nat
  BY LenProperties
<1> HIDE DEF n
<1>1. PICK k \in T : \A j \in T : k <= j
  <2>1. T \subseteq Nat /\ n \in T
    BY <1>0
  <2> HIDE DEF T
  <2> QED BY <2>1, Least
<1>2. \A i \in 1..k : b[i] = 0
  <2>1. ASSUME NEW i \in 1..k, b[i] # 0 PROVE FALSE
    <3>1. i - 1 \in 0..n /\ (i - 1) + 1 = i /\ ~(k <= i - 1)
      BY <1>0, <1>1
    <3>2. i - 1 \in T
      BY <2>1, <3>1
    <3> QED BY <1>1, <3>1, <3>2
  <2> QED BY <2>1
<1>3. /\ Significant(b) \in Seq(Byte) /\ Minimal(Significant(b))
      /\ Len(Significant(b)) = Len(b) - k
  <2>1. k \in 0..Len(b) /\ (k = Len(b) \/ b[k + 1] # 0)
    BY <1>1 DEF n
  <2> QED BY <1>2, <2>1, SignificantFrom
<1>4. k \in Nat /\ k <= n
  BY <1>0, <1>1
<1> QED BY <1>0, <1>3, <1>4 DEF n

\* A length survives as its significant bytes.
LEMMA LengthBytes ==
  ASSUME NEW v \in UInt32
  PROVE  /\ BytesOf(v) \in Seq(Byte) /\ Len(BytesOf(v)) <= 4 /\ Minimal(BytesOf(v))
         /\ FromBe(BytesOf(v)) = v /\ (BytesOf(v) = <<>> <=> v = 0)
<1> DEFINE b == Be4(v)
           s == Significant(b)
<1>0. v \in Int
  BY DEF UInt32
<1>1. b \in Seq(Byte) /\ Len(b) = 4
  BY <1>0, Bytes4
<1>2. v = b[1] * 16777216 + b[2] * 65536 + b[3] * 256 + b[4]
  <2>1. FromBe4(b) = v
    BY UInt32Back
  <2> QED BY <2>1, SMT DEF FromBe4
<1> HIDE DEF b
<1>3. b[1] \in Nat /\ b[2] \in Nat /\ b[3] \in Nat /\ b[4] \in Nat
  <2>1. \A i \in 1..4 : b[i] \in Nat
    BY <1>1, ElementOfSeq, ByteNat
  <2> QED BY <2>1
<1>4. s \in Seq(Byte) /\ Minimal(s) /\ Len(s) <= 4
  BY <1>1, SignificantTyped
<1>5. FromBe(s) = v
  <2>1. ASSUME NEW k \in 0..4, \A i \in 1..k : b[i] = 0, k = 4 \/ b[k + 1] # 0
        PROVE  Len(s) = 4 - k /\ \A i \in 1..(4 - k) : s[i] = b[k + i]
    <3>1. k \in 0..Len(b) /\ (k = Len(b) \/ b[k + 1] # 0)
      BY <1>1, <2>1
    <3>2. /\ s \in Seq(Byte) /\ Len(s) = Len(b) - k
          /\ \A i \in 1..(Len(b) - k) : s[i] = b[k + i]
      BY <1>1, <2>1, <3>1, SignificantFrom
    <3> QED BY <1>1, <3>2
  <2> HIDE DEF s
  <2>2. CASE b[1] # 0
    <3>1. Len(s) = 4 /\ \A i \in 1..4 : s[i] = b[0 + i]
      <4>1. 0 \in 0..4 /\ (\A i \in 1..0 : b[i] = 0) /\ (0 = 4 \/ b[0 + 1] # 0)
        BY <2>2
      <4>2. Len(s) = 4 - 0 /\ \A i \in 1..(4 - 0) : s[i] = b[0 + i]
        BY <2>1, <4>1
      <4> QED BY <4>2
    <3>2. s[1] = b[1] /\ s[2] = b[2] /\ s[3] = b[3] /\ s[4] = b[4]
      BY <3>1
    <3>3. FromBe(s) = s[1] * 16777216 + s[2] * 65536 + s[3] * 256 + s[4]
      BY <1>4, <3>1, FromBeOf, SMT
    <3> QED BY <1>2, <3>2, <3>3, SMT
  <2>3. CASE b[1] = 0 /\ b[2] # 0
    <3>1. Len(s) = 3 /\ \A i \in 1..3 : s[i] = b[1 + i]
      <4>1. 1 \in 0..4 /\ (\A i \in 1..1 : b[i] = 0) /\ (1 = 4 \/ b[1 + 1] # 0)
        BY <2>3
      <4>2. Len(s) = 4 - 1 /\ \A i \in 1..(4 - 1) : s[i] = b[1 + i]
        BY <2>1, <4>1
      <4> QED BY <4>2
    <3>2. s[1] = b[2] /\ s[2] = b[3] /\ s[3] = b[4]
      BY <3>1
    <3>3. FromBe(s) = s[1] * 65536 + s[2] * 256 + s[3]
      BY <1>4, <3>1, FromBeOf, SMT
    <3>4. v = b[2] * 65536 + b[3] * 256 + b[4]
      BY <1>2, <1>3, <2>3, SMT
    <3> QED BY <3>2, <3>3, <3>4, SMT
  <2>4. CASE b[1] = 0 /\ b[2] = 0 /\ b[3] # 0
    <3>1. Len(s) = 2 /\ \A i \in 1..2 : s[i] = b[2 + i]
      <4>1. 2 \in 0..4 /\ (\A i \in 1..2 : b[i] = 0) /\ (2 = 4 \/ b[2 + 1] # 0)
        BY <2>4
      <4>2. Len(s) = 4 - 2 /\ \A i \in 1..(4 - 2) : s[i] = b[2 + i]
        BY <2>1, <4>1
      <4> QED BY <4>2
    <3>2. s[1] = b[3] /\ s[2] = b[4]
      BY <3>1
    <3>3. FromBe(s) = s[1] * 256 + s[2]
      BY <1>4, <3>1, FromBeOf, SMT
    <3>4. v = b[3] * 256 + b[4]
      BY <1>2, <1>3, <2>4, SMT
    <3> QED BY <3>2, <3>3, <3>4, SMT
  <2>5. CASE b[1] = 0 /\ b[2] = 0 /\ b[3] = 0 /\ b[4] # 0
    <3>1. Len(s) = 1 /\ \A i \in 1..1 : s[i] = b[3 + i]
      <4>1. 3 \in 0..4 /\ (\A i \in 1..3 : b[i] = 0) /\ (3 = 4 \/ b[3 + 1] # 0)
        BY <2>5
      <4>2. Len(s) = 4 - 3 /\ \A i \in 1..(4 - 3) : s[i] = b[3 + i]
        BY <2>1, <4>1
      <4> QED BY <4>2
    <3>2. s[1] = b[4]
      BY <3>1
    <3>3. FromBe(s) = s[1]
      BY <1>4, <3>1, FromBeOf, SMT
    <3>4. v = b[4]
      BY <1>2, <1>3, <2>5, SMT
    <3> QED BY <3>2, <3>3, <3>4, SMT
  <2>6. CASE b[1] = 0 /\ b[2] = 0 /\ b[3] = 0 /\ b[4] = 0
    <3>1. Len(s) = 0
      <4>1. 4 \in 0..4 /\ (\A i \in 1..4 : b[i] = 0) /\ (4 = 4 \/ b[4 + 1] # 0)
        BY <2>6
      <4>2. Len(s) = 4 - 4 /\ \A i \in 1..(4 - 4) : s[i] = b[4 + i]
        BY <2>1, <4>1
      <4> QED BY <4>2
    <3>3. FromBe(s) = 0
      <4>1. s \in Seq(Byte)
        BY <1>4
      <4> QED BY <3>1, <4>1, FromBeEmpty
    <3>4. v = 0
      BY <1>2, <1>3, <2>6, SMT
    <3> QED BY <3>3, <3>4
  <2> QED BY <2>2, <2>3, <2>4, <2>5, <2>6
<1>6. s = <<>> <=> v = 0
  <2>1. ASSUME s = <<>> PROVE v = 0
    <3> HIDE DEF s
    <3>1. Len(s) = 0 /\ s \in Seq(Byte)
      BY <1>4, <2>1
    <3>2. FromBe(s) = 0
      BY <3>1, FromBeEmpty
    <3> QED BY <1>5, <3>2
  <2>2. ASSUME v = 0 PROVE s = <<>>
    <3>1. b[1] = 0 /\ b[2] = 0 /\ b[3] = 0 /\ b[4] = 0
      <4> DEFINE x == b[1]
                 y == b[2]
                 z == b[3]
                 w == b[4]
      <4>1. x \in Nat /\ y \in Nat /\ z \in Nat /\ w \in Nat
        BY <1>3
      <4>2. x * 16777216 + y * 65536 + z * 256 + w = 0
        BY <1>2, <2>2, SMT
      <4> HIDE DEF x, y, z, w
      <4>3. x = 0 /\ y = 0 /\ z = 0 /\ w = 0
        BY <4>1, <4>2, SumZero, SMT
      <4> QED BY <4>3 DEF x, y, z, w
    <3>2. 4 \in 0..Len(b) /\ (\A i \in 1..4 : b[i] = 0) /\ 4 = Len(b)
      BY <1>1, <3>1
    <3>3. Len(s) = Len(b) - 4
      BY <1>1, <3>2, SignificantFrom
    <3>4. Len(s) = 0
      BY <1>1, <3>3
    <3> HIDE DEF s
    <3> QED BY <1>4, <3>4, EmptySeq
  <2> QED BY <2>1, <2>2
<1> QED BY <1>4, <1>5, <1>6 DEF BytesOf, b

----------------------------------------------------------------------------
\* Long data

\* What the readers of bytes return.
Results == {ReadErr} \cup [ok : {TRUE}, value : Seq(Byte), pos : Nat]

LEMMA ResultsAre ==
  /\ ReadErr \in Results /\ ReadErr.ok = FALSE
  /\ \A r \in Results : r.ok => /\ r.value \in Seq(Byte) /\ r.pos \in Nat /\ r.ok = TRUE
                                /\ r = [ok |-> TRUE, value |-> r.value, pos |-> r.pos]
  /\ \A x \in Seq(Byte), p \in Nat : [ok |-> TRUE, value |-> x, pos |-> p] \in Results
  /\ \A r \in Results : r.ok \in BOOLEAN
<1>1. ReadErr \in Results /\ ReadErr.ok = FALSE
  BY DEF Results, ReadErr
<1>2. ASSUME NEW r \in Results
      PROVE  /\ r.ok \in BOOLEAN
             /\ r.ok => /\ r.value \in Seq(Byte) /\ r.pos \in Nat /\ r.ok = TRUE
                        /\ r = [ok |-> TRUE, value |-> r.value, pos |-> r.pos]
  <2>1. CASE r = ReadErr
    BY <2>1 DEF ReadErr
  <2>2. CASE r \in [ok : {TRUE}, value : Seq(Byte), pos : Nat]
    <3> HIDE DEF Results
    <3> QED BY <2>2
  <2> QED BY <2>1, <2>2 DEF Results
<1>3. ASSUME NEW x \in Seq(Byte), NEW p \in Nat PROVE [ok |-> TRUE, value |-> x, pos |-> p] \in Results
  BY DEF Results
<1> QED BY <1>1, <1>2, <1>3

LEMMA ReadTyped ==
  ASSUME NEW buf \in Seq(Byte), NEW pos \in Nat, NEW n \in Nat
  PROVE  LET r == ReadBytes(buf, pos, n)
         IN  r \in Results /\ (r.ok => r.pos = pos + n /\ r.pos <= Len(buf) /\ Len(r.value) = n)
<1> DEFINE s == SubSeq(buf, pos + 1, pos + n)
<1>0. Len(buf) \in Nat
  BY LenProperties
<1>1. CASE pos + n <= Len(buf)
  <2>1. /\ pos + 1 \in Nat /\ pos + n \in Nat /\ 1 <= pos + 1 /\ pos + 1 <= (pos + n) + 1
        /\ (pos + n) - (pos + 1) + 1 = n
    OBVIOUS
  <2>2. s \in Seq(Byte) /\ Len(s) = (pos + n) - (pos + 1) + 1
    BY <1>1, <2>1, Slice
  <2>3. ReadBytes(buf, pos, n) = [ok |-> TRUE, value |-> s, pos |-> pos + n]
    BY <1>1 DEF ReadBytes
  <2> HIDE DEF s
  <2>4. s \in Seq(Byte) /\ Len(s) = n /\ pos + n \in Nat
    BY <2>1, <2>2
  <2>5. [ok |-> TRUE, value |-> s, pos |-> pos + n] \in Results
    BY <2>4, ResultsAre
  <2> QED BY <1>1, <2>3, <2>4, <2>5
<1>2. CASE ~(pos + n <= Len(buf))
  <2>1. ReadBytes(buf, pos, n) = ReadErr
    BY <1>2 DEF ReadBytes
  <2> QED BY <2>1, ResultsAre
<1> QED BY <1>1, <1>2

LEMMA UbTyped ==
  ASSUME NEW buf \in Seq(Byte), NEW pos \in Nat
  PROVE  LET r == ReadUb(buf, pos, 4)
         IN  r \in Results /\ (r.ok => pos < r.pos /\ r.pos <= Len(buf))
<1> DEFINE len == ReadBytes(buf, pos, 1)
           n == len.value[1] % 128
           bytes == ReadBytes(buf, len.pos, n)
           r == ReadUb(buf, pos, 4)
<1>0. Len(buf) \in Nat
  BY LenProperties
<1>1. len \in Results /\ (len.ok => len.pos = pos + 1 /\ len.pos <= Len(buf) /\ Len(len.value) = 1)
  BY ReadTyped
<1>2. r = CASE ~len.ok -> ReadErr
            [] len.ok /\ n > 4 -> ReadErr
            [] OTHER -> IF bytes.ok THEN [bytes EXCEPT !.value = Significant(@)] ELSE ReadErr
  BY DEF ReadUb
<1> HIDE DEF len, r
<1>3. CASE ~len.ok
  <2>1. r = ReadErr
    BY <1>2, <1>3
  <2> QED BY <2>1, ResultsAre DEF r
<1>4. CASE len.ok
  <2>1. n \in Nat
    <3>1. len.value \in Seq(Byte) /\ Len(len.value) = 1
      BY <1>1, <1>4, ResultsAre
    <3>2. len.value[1] \in Byte
      BY <3>1, ElementOfSeq
    <3>3. len.value[1] \in Nat
      BY <3>2, ByteNat
    <3> QED BY <3>3
  <2> HIDE DEF n
  <2>2. len.pos = pos + 1 /\ len.pos \in Nat
    BY <1>1, <1>4, ResultsAre
  <2>3. bytes \in Results /\ (bytes.ok => bytes.pos = len.pos + n /\ bytes.pos <= Len(buf))
    BY <2>1, <2>2, ReadTyped
  <2> HIDE DEF bytes
  <2>4. CASE n > 4 \/ ~bytes.ok
    <3>1. r = ReadErr
      BY <1>2, <1>4, <2>4
    <3> QED BY <3>1, ResultsAre DEF r
  <2>5. CASE ~(n > 4) /\ bytes.ok
    <3>1. r = [bytes EXCEPT !.value = Significant(@)]
      BY <1>2, <1>4, <2>5
    <3>2. /\ bytes = [ok |-> TRUE, value |-> bytes.value, pos |-> bytes.pos]
          /\ bytes.value \in Seq(Byte) /\ bytes.pos \in Nat
      BY <2>3, <2>5, ResultsAre
    <3>4. Significant(bytes.value) \in Seq(Byte)
      BY <3>2, SignificantTyped
    <3>3. r = [ok |-> TRUE, value |-> Significant(bytes.value), pos |-> bytes.pos]
      <4> DEFINE v == bytes.value
                 q == bytes.pos
      <4>1. bytes = [ok |-> TRUE, value |-> v, pos |-> q] /\ v \in Seq(Byte) /\ q \in Nat
        BY <3>2
      <4>2. r = [bytes EXCEPT !.value = Significant(v)]
        BY <3>1
      <4> HIDE DEF v, q
      <4>3. r = [ok |-> TRUE, value |-> Significant(v), pos |-> q]
        BY <4>1, <4>2
      <4> QED BY <4>3 DEF v, q
    <3>5. r \in Results /\ r.pos = bytes.pos
      BY <3>2, <3>3, <3>4, ResultsAre
    <3>6. pos < bytes.pos /\ bytes.pos <= Len(buf)
      BY <2>1, <2>2, <2>3, <2>5
    <3> QED BY <3>5, <3>6 DEF r
  <2> QED BY <2>4, <2>5
<1> QED BY <1>3, <1>4

ChunkLength(buf, p) == ReadUb(buf, p, 4)
ChunkData(buf, p) == ReadBytes(buf, ChunkLength(buf, p).pos, FromBe(ChunkLength(buf, p).value))

\* What read_bytes_with_length has at a chunk, from what it has behind it.
ChunkAt(buf, p, f) ==
  IF ~ChunkLength(buf, p).ok \/ ~ChunkData(buf, p).ok THEN ReadErr
  ELSE IF ChunkLength(buf, p).value = <<>> THEN ChunkLength(buf, p)
  ELSE IF f[ChunkData(buf, p).pos].ok
       THEN [ok |-> TRUE, value |-> ChunkData(buf, p).value \o f[ChunkData(buf, p).pos].value,
             pos |-> f[ChunkData(buf, p).pos].pos]
       ELSE ReadErr

LEMMA ChunksUnfold ==
  ASSUME NEW buf \in Seq(Byte)
  PROVE  \E f : /\ \A p \in 0..Len(buf) : ReadChunks(buf, p) = f[p] /\ f[p] = ChunkAt(buf, p, f)
<1> DEFINE n == Len(buf)
           G == [a \in (0..n) \X [0..n -> Results] |-> ChunkAt(buf, a[1], a[2])]
           Body(f) == [p \in 0..n |-> ChunkAt(buf, p, f)]
           f0 == CHOOSE f : f = Body(f)
<1>0. n \in Nat
  BY LenProperties
<1>1. ASSUME NEW p \in 0..n, ChunkLength(buf, p).ok, ChunkData(buf, p).ok
      PROVE  /\ ChunkLength(buf, p) \in Results /\ ChunkData(buf, p) \in Results
             /\ ChunkData(buf, p).pos \in 0..n /\ ChunkData(buf, p).pos > p
  <2> DEFINE l == ChunkLength(buf, p)
             d == ChunkData(buf, p)
  <2>0. p \in Nat
    BY <1>0
  <2>1. l \in Results /\ (l.ok => p < l.pos /\ l.pos <= n)
    BY <2>0, UbTyped DEF ChunkLength
  <2>2. l.pos \in Nat /\ l.value \in Seq(Byte)
    BY <1>1, <2>1, ResultsAre
  <2>3. FromBe(l.value) \in Nat
    BY <2>2, FromBeRun, LenProperties
  <2>4. d \in Results /\ (d.ok => d.pos = l.pos + FromBe(l.value) /\ d.pos <= n)
    BY <2>2, <2>3, ReadTyped DEF ChunkData
  <2> HIDE DEF l, d
  <2>5. l.ok /\ d.ok
    BY <1>1 DEF l, d
  <2>6. d.pos > p /\ d.pos \in 0..n
    BY <1>0, <2>0, <2>1, <2>2, <2>3, <2>4, <2>5
  <2> QED BY <2>1, <2>4, <2>6 DEF l, d
<1>2. ASSUME NEW p \in 0..n, NEW g \in [0..n -> Results] PROVE ChunkAt(buf, p, g) \in Results
  <2> DEFINE l == ChunkLength(buf, p)
             d == ChunkData(buf, p)
             t == g[d.pos]
  <2>1. ChunkAt(buf, p, g) = IF ~l.ok \/ ~d.ok THEN ReadErr
                             ELSE IF l.value = <<>> THEN l
                             ELSE IF t.ok THEN [ok |-> TRUE, value |-> d.value \o t.value, pos |-> t.pos]
                             ELSE ReadErr
    BY DEF ChunkAt
  <2>2. CASE ~l.ok \/ ~d.ok
    BY <2>1, <2>2, ResultsAre
  <2>3. CASE l.ok /\ d.ok
    <3>1. l \in Results /\ d \in Results /\ d.pos \in 0..n
      BY <1>1, <2>3
    <3>2. t \in Results /\ d.value \in Seq(Byte)
      BY <2>3, <3>1, ResultsAre
    <3> HIDE DEF l, d, t
    <3>3. CASE t.ok
      <4>1. /\ t = [ok |-> TRUE, value |-> t.value, pos |-> t.pos]
            /\ t.value \in Seq(Byte) /\ t.pos \in Nat
        BY <3>2, <3>3, ResultsAre
      <4>3. d.value \o t.value \in Seq(Byte)
        BY <3>2, <4>1, ConcatProperties
      <4>2. ChunkAt(buf, p, g) = l \/ ChunkAt(buf, p, g) = [ok |-> TRUE, value |-> d.value \o t.value, pos |-> t.pos]
        BY <2>1, <2>3, <3>3
      <4>4. [ok |-> TRUE, value |-> d.value \o t.value, pos |-> t.pos] \in Results
        BY <4>1, <4>3, ResultsAre
      <4> QED BY <4>2, <4>4, <3>1
    <3>4. CASE ~t.ok
      BY <2>1, <2>3, <3>1, <3>4, ResultsAre
    <3> QED BY <3>3, <3>4
  <2> QED BY <2>2, <2>3
<1>3. \E f : IsDown(f, n, Results, G)
  <2>1. G \in [(0..n) \X [0..n -> Results] -> Results]
    <3>1. ASSUME NEW a \in (0..n) \X [0..n -> Results] PROVE ChunkAt(buf, a[1], a[2]) \in Results
      <4>1. a[1] \in 0..n /\ a[2] \in [0..n -> Results]
        OBVIOUS
      <4> HIDE DEF n
      <4> QED BY <1>2, <4>1
    <3> QED BY <3>1
  <2>2. ASSUME NEW p \in 0..n, NEW g \in [0..n -> Results], NEW h \in [0..n -> Results],
               \A q \in 0..n : q > p => g[q] = h[q]
        PROVE  ChunkAt(buf, p, g) = ChunkAt(buf, p, h)
    <3>1. CASE ~ChunkLength(buf, p).ok \/ ~ChunkData(buf, p).ok
      BY <3>1 DEF ChunkAt
    <3>2. CASE ChunkLength(buf, p).ok /\ ChunkData(buf, p).ok
      <4>1. ChunkData(buf, p).pos \in 0..n /\ ChunkData(buf, p).pos > p
        BY <1>1, <3>2
      <4>2. g[ChunkData(buf, p).pos] = h[ChunkData(buf, p).pos]
        BY <2>2, <4>1
      <4> QED BY <4>2 DEF ChunkAt
    <3> QED BY <3>1, <3>2
  <2>3. \A p \in 0..n : \A g \in [0..n -> Results] : G[<<p, g>>] = ChunkAt(buf, p, g)
    <3> HIDE DEF n
    <3> QED OBVIOUS
  <2>4. LooksBehind(G, n, Results)
    <3> HIDE DEF n, G
    <3>1. ASSUME NEW p \in 0..n, NEW g \in [0..n -> Results], NEW h \in [0..n -> Results],
                 \A q \in 0..n : q > p => g[q] = h[q]
          PROVE  G[<<p, g>>] = G[<<p, h>>]
      <4>1. ChunkAt(buf, p, g) = ChunkAt(buf, p, h)
        BY <2>2, <3>1
      <4>2. G[<<p, g>>] = ChunkAt(buf, p, g) /\ G[<<p, h>>] = ChunkAt(buf, p, h)
        BY <2>3
      <4> QED BY <4>1, <4>2
    <3> QED BY <3>1 DEF LooksBehind
  <2>5. ReadErr \in Results
    BY ResultsAre
  <2> HIDE DEF n, G
  <2> QED BY <1>0, <2>1, <2>4, <2>5, DownExists
<1>4. PICK f \in [0..n -> Results] : \A p \in 0..n : f[p] = ChunkAt(buf, p, f)
  <2>1. PICK f \in [0..n -> Results] : \A p \in 0..n : f[p] = G[<<p, f>>]
    BY <1>3 DEF IsDown
  <2>2. \A p \in 0..n : G[<<p, f>>] = ChunkAt(buf, p, f)
    <3> HIDE DEF n
    <3> QED OBVIOUS
  <2> HIDE DEF n, G
  <2> QED BY <2>1, <2>2
<1>5. f = Body(f)
  <2> HIDE DEF n
  <2> QED BY <1>4
<1>6. f0 = Body(f0)
  <2> HIDE DEF Body
  <2> QED BY <1>5
<1>7. \A p \in 0..n : ReadChunks(buf, p) = f0[p]
  BY DEF ReadChunks, ChunkAt, ChunkLength, ChunkData
<1> HIDE DEF f0
<1>8. \A p \in 0..n : f0[p] = ChunkAt(buf, p, f0)
  <2> HIDE DEF n
  <2> QED BY <1>6
<1> QED BY <1>7, <1>8

\* A chunk of long data as it is written: its length and its bytes.
Piece(x) == WriteUb(BytesOf(Len(x))) \o x

LEMMA PieceTyped ==
  ASSUME NEW x \in Seq(Byte), Len(x) \in UInt32
  PROVE  /\ Piece(x) \in Seq(Byte) /\ WriteUb(BytesOf(Len(x))) \in Seq(Byte)
         /\ Len(Piece(x)) = Len(WriteUb(BytesOf(Len(x)))) + Len(x)
         /\ Len(WriteUb(BytesOf(Len(x)))) \in Nat /\ Len(Piece(x)) \in Nat
<1> DEFINE b == BytesOf(Len(x))
<1>1. b \in Seq(Byte) /\ Len(b) <= 4
  BY LengthBytes
<1> HIDE DEF b
<1>2. Len(b) <= 8
  <2>1. Len(b) \in Nat
    BY <1>1, LenProperties
  <2> QED BY <1>1, <2>1
<1>3. WriteUb(b) \in Seq(Byte)
  BY <1>1, <1>2, UbBytes
<1> QED BY <1>3, ConcatProperties, LenProperties DEF Piece, b

Unfolds(f, buf) == \A p \in 0..Len(buf) : f[p] = ChunkAt(buf, p, f)

\* At a piece: its bytes, and what comes behind it.
Takes(f, buf, pos, x) ==
  LET t == f[pos + Len(Piece(x))]
  IN  f[pos] = IF pos + Len(Piece(x)) <= Len(buf) /\ t.ok
               THEN [ok |-> TRUE, value |-> x \o t.value, pos |-> t.pos] ELSE ReadErr

LEMMA ChunkStep ==
  ASSUME NEW buf \in Seq(Byte), NEW pos \in Nat, NEW x \in Seq(Byte), Len(x) \in UInt32, x # <<>>,
         NEW f, Unfolds(f, buf),
         StandsAt(buf, pos, Piece(x))
  PROVE  Takes(f, buf, pos, x)
<1> DEFINE b == BytesOf(Len(x))
           u == WriteUb(b)
           l == ChunkLength(buf, pos)
           d == ChunkData(buf, pos)
           t == f[pos + Len(Piece(x))]
<1>1. b \in Seq(Byte) /\ Len(b) <= 4 /\ Minimal(b) /\ FromBe(b) = Len(x) /\ b # <<>>
  <2>1. Len(x) # 0
    BY EmptySeq
  <2> QED BY <2>1, LengthBytes
<1>2. /\ Piece(x) = u \o x /\ u \in Seq(Byte) /\ Len(u) \in Nat /\ Len(x) \in Nat /\ Len(buf) \in Nat
      /\ Len(Piece(x)) = Len(u) + Len(x)
  BY PieceTyped, LenProperties DEF Piece
<1>3. StandsAt(buf, pos, u) /\ (pos + Len(u) <= Len(buf) => StandsAt(buf, pos + Len(u), x))
  <2> HIDE DEF u
  <2> QED BY <1>2, StandsFirst
<1>4. ReadsAs(l, buf, pos, u, b)
  <2> HIDE DEF b
  <2>1. 4 \in {2, 4, 8}
    OBVIOUS
  <2> QED BY <1>1, <1>3, <2>1, UbBack DEF ChunkLength
<1>5. f[pos] = IF ~l.ok \/ ~d.ok THEN ReadErr
               ELSE IF l.value = <<>> THEN l
               ELSE IF f[d.pos].ok
                    THEN [ok |-> TRUE, value |-> d.value \o f[d.pos].value, pos |-> f[d.pos].pos]
                    ELSE ReadErr
  <2>1. pos \in 0..Len(buf)
    BY <1>2, <1>3 DEF StandsAt
  <2>2. f[pos] = ChunkAt(buf, pos, f)
    BY <2>1 DEF Unfolds
  <2> QED BY <2>2 DEF ChunkAt
<1>6. d = ReadBytes(buf, l.pos, FromBe(l.value))
  BY DEF ChunkData
<1> HIDE DEF b, u, l, d, t
<1>7. CASE ~(pos + Len(u) <= Len(buf))
  <2>1. l = ReadErr
    BY <1>4, <1>7 DEF ReadsAs
  <2>2. f[pos] = ReadErr
    BY <1>5, <2>1 DEF ReadErr
  <2>3. ~(pos + Len(Piece(x)) <= Len(buf))
    BY <1>2, <1>7
  <2> QED BY <2>2, <2>3 DEF t, Takes
<1>8. CASE pos + Len(u) <= Len(buf)
  <2>1. l = [ok |-> TRUE, value |-> b, pos |-> pos + Len(u)]
    BY <1>4, <1>8 DEF ReadsAs
  <2>2. d = ReadBytes(buf, pos + Len(u), Len(x))
    BY <1>1, <1>6, <2>1
  <2>3. ReadsAs(d, buf, pos + Len(u), x, x)
    <3>1. pos + Len(u) \in Nat
      BY <1>2
    <3> QED BY <1>3, <1>8, <2>2, <3>1, BytesRead
  <2>4. (pos + Len(u)) + Len(x) = pos + Len(Piece(x))
    BY <1>2
  <2>5. CASE ~(pos + Len(Piece(x)) <= Len(buf))
    <3>1. d = ReadErr
      BY <2>3, <2>4, <2>5 DEF ReadsAs
    <3>2. f[pos] = ReadErr
      BY <1>5, <3>1 DEF ReadErr
    <3> QED BY <2>5, <3>2 DEF t, Takes
  <2>6. CASE pos + Len(Piece(x)) <= Len(buf)
    <3>1. d = [ok |-> TRUE, value |-> x, pos |-> pos + Len(Piece(x))]
      BY <2>3, <2>4, <2>6 DEF ReadsAs
    <3>2. l.ok /\ d.ok /\ l.value # <<>> /\ d.value = x /\ d.pos = pos + Len(Piece(x))
      BY <1>1, <2>1, <3>1
    <3>3. f[pos] = IF t.ok THEN [ok |-> TRUE, value |-> x \o t.value, pos |-> t.pos] ELSE ReadErr
      BY <1>5, <3>2 DEF t
    <3> QED BY <2>6, <3>3 DEF t, Takes
  <2> QED BY <2>5, <2>6
<1> QED BY <1>7, <1>8

LEMMA NoBytesUb ==
  WriteUb(<<>>) \in Seq(Byte) /\ Len(WriteUb(<<>>)) = 1
<1>1. <<>> \in Seq(Byte) /\ Len(<<>>) = 0 /\ Len(<<>>) <= 8 /\ 0 \in 0..8
  OBVIOUS
<1>2. UbWidth(0) = 0
  <2>1. UbWidth(0) \in {0, 1, 2, 4, 8} /\ \A v \in {2, 4, 8} : 0 <= v => UbWidth(0) <= v
    BY <1>1, UbWidths
  <2>2. UbWidth(0) = CHOOSE w \in {0, 1, 2, 4, 8} : w >= 0 /\ \A v \in {0, 1, 2, 4, 8} : v >= 0 => v >= w
    BY DEF UbWidth
  <2> QED BY <2>2
<1>3. WriteUb(<<>>) \in Seq(Byte) /\ Len(WriteUb(<<>>)) = UbWidth(Len(<<>>)) + 1
  BY <1>1, UbBytes
<1>4. UbWidth(Len(<<>>)) + 1 = 1
  BY <1>1, <1>2
<1> QED BY <1>3, <1>4

LEMMA ChunksEnd ==
  ASSUME NEW buf \in Seq(Byte), NEW pos \in Nat,
         NEW f, Unfolds(f, buf),
         StandsAt(buf, pos, WriteUb(<<>>))
  PROVE  ReadsAs(f[pos], buf, pos, WriteUb(<<>>), <<>>)
<1> DEFINE u == WriteUb(<<>>)
           l == ChunkLength(buf, pos)
           d == ChunkData(buf, pos)
<1>1. u \in Seq(Byte) /\ Len(u) = 1 /\ Len(buf) \in Nat /\ <<>> \in Seq(Byte) /\ Len(<<>>) = 0
  BY NoBytesUb, LenProperties
<1>2. ReadsAs(l, buf, pos, u, <<>>)
  <2>1. 4 \in {2, 4, 8} /\ Minimal(<<>>) /\ Len(<<>>) <= 4 /\ <<>> \in Seq(Byte)
    BY DEF Minimal
  <2> QED BY <2>1, UbBack DEF ChunkLength
<1>3. f[pos] = IF ~l.ok \/ ~d.ok THEN ReadErr
               ELSE IF l.value = <<>> THEN l
               ELSE IF f[d.pos].ok
                    THEN [ok |-> TRUE, value |-> d.value \o f[d.pos].value, pos |-> f[d.pos].pos]
                    ELSE ReadErr
  <2>1. pos \in 0..Len(buf)
    BY <1>1 DEF StandsAt
  <2>2. f[pos] = ChunkAt(buf, pos, f)
    BY <2>1 DEF Unfolds
  <2> QED BY <2>2 DEF ChunkAt
<1>4. d = ReadBytes(buf, l.pos, FromBe(l.value))
  BY DEF ChunkData
<1> HIDE DEF u, l, d
<1>5. CASE ~(pos + Len(u) <= Len(buf))
  <2>1. l = ReadErr
    BY <1>2, <1>5 DEF ReadsAs
  <2>2. f[pos] = ReadErr
    BY <1>3, <2>1 DEF ReadErr
  <2> QED BY <1>5, <2>2 DEF ReadsAs, u
<1>6. CASE pos + Len(u) <= Len(buf)
  <2>1. l = [ok |-> TRUE, value |-> <<>>, pos |-> pos + Len(u)]
    BY <1>2, <1>6 DEF ReadsAs
  <2>2. FromBe(<<>>) = 0
    BY <1>1, FromBeEmpty
  <2>3. d = ReadBytes(buf, pos + Len(u), 0)
    BY <1>4, <2>1, <2>2
  <2>4. d.ok
    <3>1. pos + Len(u) + 0 <= Len(buf)
      BY <1>1, <1>6
    <3> QED BY <2>3, <3>1 DEF ReadBytes
  <2>5. f[pos] = l
    BY <1>3, <2>1, <2>4
  <2> QED BY <1>6, <2>1, <2>5 DEF ReadsAs, u
<1> QED BY <1>5, <1>6

\* What ends behind the buffer, all ends behind it.
LEMMA EndsBefore ==
  \A pos, N, e, q, m, b \in Nat :
    q + m = pos + e /\ e <= N /\ ~(q + m <= b) => ~(pos + (N + 1) <= b)
OBVIOUS

\* The chunks of long data are read back, or an Err where the buffer ends before them.
LEMMA ChunkChain ==
  ASSUME NEW buf \in Seq(Byte), NEW pos \in Nat, NEW s \in Seq(Seq(Byte)), NEW x, NEW v,
         \A i \in 1..Len(s) : /\ x[i] \in Seq(Byte) /\ Len(x[i]) \in UInt32 /\ x[i] # <<>>
                              /\ s[i] = Piece(x[i]) /\ v[i - 1] = x[i] \o v[i],
         v[Len(s)] = <<>>,
         StandsAt(buf, pos, FlattenSeq(s) \o WriteUb(<<>>))
  PROVE  ReadsAs(ReadChunks(buf, pos), buf, pos, FlattenSeq(s) \o WriteUb(<<>>), v[0])
<1> DEFINE k == Len(s)
           all == FlattenSeq(s)
           u == WriteUb(<<>>)
           e(i) == Len(Flat(s)[i])
           N == Len(all)
<1>0. /\ k \in Nat /\ all = Flat(s)[k] /\ all \in Seq(Byte) /\ u \in Seq(Byte) /\ Len(u) = 1
      /\ Len(all \o u) = N + 1 /\ N \in Nat /\ Len(buf) \in Nat
      /\ \A i \in 0..k : e(i) \in Nat
  <2>1. k \in Nat
    OBVIOUS
  <2>2. all = Flat(s)[k]
    BY FlattenIsFlat
  <2>3. \A i \in 0..k : Flat(s)[i] \in Seq(Byte)
    BY FlatRun
  <2>4. k \in 0..k
    BY <2>1
  <2>5. all \in Seq(Byte)
    BY <2>2, <2>3, <2>4
  <2>6. u \in Seq(Byte) /\ Len(u) = 1
    BY NoBytesUb
  <2> HIDE DEF all, u, k
  <2>7. Len(all \o u) = N + 1 /\ N \in Nat /\ Len(buf) \in Nat
    <3>1. N \in Nat /\ Len(buf) \in Nat
      BY <2>5, LenProperties
    <3>2. Len(all \o u) = N + Len(u)
      BY <2>5, <2>6, ConcatProperties, ZenonT(30)
    <3> HIDE DEF N
    <3> QED BY <2>6, <3>1, <3>2
  <2>8. ASSUME NEW i \in 0..k PROVE e(i) \in Nat
    BY <2>3, LenProperties
  <2> QED BY <2>1, <2>2, <2>5, <2>6, <2>7, <2>8
<1>1. ASSUME NEW i \in 1..k
      PROVE  /\ e(i) = e(i - 1) + Len(s[i]) /\ e(i) <= N
             /\ \A j \in 1..Len(s[i]) : all[e(i - 1) + j] = s[i][j]
  <2>1. Gathers(s, i)
    BY FlatGrows
  <2> QED BY <2>1 DEF Gathers
<1>2. e(0) = 0 /\ e(k) = N
  <2>1. Flat(s)[0] = <<>>
    BY FlatRun
  <2> QED BY <1>0, <2>1
<1>3. PICK f : Unfolds(f, buf) /\ \A p \in 0..Len(buf) : ReadChunks(buf, p) = f[p]
  BY ChunksUnfold DEF Unfolds
<1>4. StandsAt(buf, pos, all) /\ (pos + N <= Len(buf) => StandsAt(buf, pos + N, u))
  <2>1. all \in Seq(Byte) /\ u \in Seq(Byte)
    BY <1>0
  <2> HIDE DEF all, u
  <2> QED BY <2>1, StandsFirst DEF all, u
<1> HIDE DEF k, all, u, e, N
<1> DEFINE Claim(i) == pos + e(i) <= Len(buf) =>
                         f[pos + e(i)] = IF pos + (N + 1) <= Len(buf)
                                         THEN [ok |-> TRUE, value |-> v[i], pos |-> pos + (N + 1)]
                                         ELSE ReadErr
<1>5. Claim(k)
  <2>1. ASSUME pos + N <= Len(buf)
        PROVE  f[pos + N] = IF pos + (N + 1) <= Len(buf)
                            THEN [ok |-> TRUE, value |-> v[k], pos |-> pos + (N + 1)] ELSE ReadErr
    <3>1. ReadsAs(f[pos + N], buf, pos + N, u, <<>>)
      <4>1. pos + N \in Nat /\ StandsAt(buf, pos + N, WriteUb(<<>>))
        BY <1>0, <1>4, <2>1 DEF u
      <4> QED BY <1>3, <4>1, ChunksEnd DEF u
    <3>2. (pos + N) + Len(u) = pos + (N + 1) /\ v[k] = <<>>
      BY <1>0 DEF k
    <3> QED BY <3>1, <3>2 DEF ReadsAs
  <2> QED BY <1>2, <2>1
<1>6. ASSUME NEW i \in 1..k, Claim(i) PROVE Claim(i - 1)
  <2>1. /\ x[i] \in Seq(Byte) /\ Len(x[i]) \in UInt32 /\ x[i] # <<>>
        /\ s[i] = Piece(x[i]) /\ v[i - 1] = x[i] \o v[i]
    BY DEF k
  <2>2. i - 1 \in 0..k /\ i \in 0..k
    BY <1>0
  <2> DEFINE q == pos + e(i - 1)
             m == Len(Piece(x[i]))
  <2>3. /\ q \in Nat /\ m \in Nat /\ e(i) = e(i - 1) + m /\ e(i) <= N /\ q + m = pos + e(i)
        /\ e(i - 1) \in Nat /\ e(i) \in Nat
    <3>1. m \in Nat
      BY <2>1, PieceTyped
    <3>2. e(i) = e(i - 1) + m /\ e(i) <= N
      BY <1>1, <2>1
    <3>3. e(i - 1) \in Nat /\ e(i) \in Nat
      BY <1>0, <2>2
    <3> HIDE DEF m
    <3> QED BY <3>1, <3>2, <3>3
  <2>4. ASSUME q <= Len(buf) PROVE StandsAt(buf, q, Piece(x[i]))
    <3>1. ASSUME NEW j \in 1..m, q + j <= Len(buf) PROVE buf[q + j] = Piece(x[i])[j]
      <4>1. all[e(i - 1) + j] = s[i][j]
        BY <1>1, <2>1
      <4>2. e(i - 1) + j \in 1..N /\ pos + (e(i - 1) + j) = q + j
        <5> DEFINE a == e(i - 1)
        <5>1. a \in Nat /\ m \in Nat /\ a + m <= N /\ N \in Nat /\ q = pos + a
          BY <1>0, <2>3
        <5> HIDE DEF a, m, q
        <5>2. a + j \in 1..N /\ pos + (a + j) = q + j
          BY <5>1
        <5> QED BY <5>2 DEF a
      <4>3. \A h \in 1..N : pos + h <= Len(buf) => buf[pos + h] = all[h]
        BY <1>4 DEF StandsAt, N
      <4>4. buf[pos + (e(i - 1) + j)] = all[e(i - 1) + j]
        BY <3>1, <4>2, <4>3
      <4> QED BY <2>1, <4>1, <4>2, <4>4
    <3> QED BY <2>4, <3>1 DEF StandsAt
  <2>5. ASSUME q <= Len(buf)
        PROVE  LET t == f[q + m]
               IN  f[q] = IF q + m <= Len(buf) /\ t.ok
                          THEN [ok |-> TRUE, value |-> x[i] \o t.value, pos |-> t.pos] ELSE ReadErr
    <3> DEFINE y == x[i]
    <3>1. q \in Nat /\ y \in Seq(Byte) /\ Len(y) \in UInt32 /\ y # <<>> /\ StandsAt(buf, q, Piece(y))
      BY <2>1, <2>3, <2>4, <2>5
    <3> HIDE DEF y, q
    <3>3. Takes(f, buf, q, y)
      BY <1>3, <3>1, ChunkStep
    <3> QED BY <3>3 DEF y, Takes
  <2> HIDE DEF q, m
  <2>6. ASSUME q <= Len(buf)
        PROVE  f[q] = IF pos + (N + 1) <= Len(buf)
                      THEN [ok |-> TRUE, value |-> v[i - 1], pos |-> pos + (N + 1)] ELSE ReadErr
    <3>1. CASE ~(q + m <= Len(buf))
      <4>1. f[q] = ReadErr
        BY <2>5, <2>6, <3>1
      <4>2. ~(pos + (N + 1) <= Len(buf))
        <5> DEFINE ei == e(i)
                   b == Len(buf)
        <5>1. /\ q \in Nat /\ m \in Nat /\ q + m = pos + ei /\ ei \in Nat /\ ei <= N
              /\ N \in Nat /\ b \in Nat /\ ~(q + m <= b)
          BY <1>0, <2>3, <3>1
        <5> HIDE DEF ei, b
        <5>2. ~(pos + (N + 1) <= b)
          BY <5>1, EndsBefore
        <5> QED BY <5>2 DEF b
      <4> QED BY <4>1, <4>2
    <3>2. CASE q + m <= Len(buf) /\ pos + (N + 1) <= Len(buf)
      <4>1. f[q + m] = [ok |-> TRUE, value |-> v[i], pos |-> pos + (N + 1)]
        BY <1>6, <2>3, <3>2
      <4>2. f[q] = [ok |-> TRUE, value |-> x[i] \o v[i], pos |-> pos + (N + 1)]
        BY <2>5, <2>6, <3>2, <4>1
      <4> QED BY <2>1, <3>2, <4>2
    <3>3. CASE q + m <= Len(buf) /\ ~(pos + (N + 1) <= Len(buf))
      <4>1. f[q + m] = ReadErr
        BY <1>6, <2>3, <3>3
      <4>2. f[q] = ReadErr
        BY <2>5, <2>6, <3>3, <4>1 DEF ReadErr
      <4> QED BY <3>3, <4>2
    <3> QED BY <3>1, <3>2, <3>3
  <2> QED BY <2>6 DEF q
<1>7. Claim(0)
  <2> DEFINE S == {j \in 0..k : Claim(k - j)}
  <2>1. 0 \in S
    <3>1. k - 0 = k /\ 0 \in 0..k
      BY <1>0
    <3> HIDE DEF Claim
    <3> QED BY <1>5, <3>1
  <2>2. ASSUME NEW j \in 1..k, j - 1 \in S PROVE j \in S
    <3>1. k - (j - 1) \in 1..k /\ (k - (j - 1)) - 1 = k - j /\ j \in 0..k
      BY <1>0
    <3>2. Claim(k - (j - 1))
      BY <2>2
    <3> HIDE DEF Claim
    <3>3. Claim((k - (j - 1)) - 1)
      BY <1>6, <3>1, <3>2
    <3> QED BY <3>1, <3>3
  <2> HIDE DEF S
  <2>3. \A j \in 0..k : j \in S
    BY <1>0, <2>1, <2>2, UpToInduction
  <2>4. k \in S /\ k - k = 0
    BY <1>0, <2>3
  <2> HIDE DEF Claim
  <2>5. Claim(k - k)
    BY <2>4 DEF S
  <2> QED BY <2>4, <2>5
<1>8. pos \in 0..Len(buf) /\ pos + e(0) = pos
  BY <1>0, <1>2, <1>4 DEF StandsAt
<1>9. f[pos] = IF pos + (N + 1) <= Len(buf)
               THEN [ok |-> TRUE, value |-> v[0], pos |-> pos + (N + 1)] ELSE ReadErr
  BY <1>7, <1>8
<1>10. ReadChunks(buf, pos) = f[pos]
  BY <1>3, <1>8
<1> QED BY <1>0, <1>9, <1>10 DEF ReadsAs, all, u

LEMMA SubSeqSplit ==
  ASSUME NEW d \in Seq(Byte), NEW a \in Nat, NEW b \in Nat, a <= b, b <= Len(d)
  PROVE  SubSeq(d, a + 1, Len(d)) = SubSeq(d, a + 1, b) \o SubSeq(d, b + 1, Len(d))
<1> DEFINE n == Len(d)
           s == SubSeq(d, a + 1, n)
           t == SubSeq(d, a + 1, b)
           u == SubSeq(d, b + 1, n)
           w == t \o u
<1>0. n \in Nat
  BY LenProperties
<1>1. s \in Seq(Byte) /\ Len(s) = n - a /\ \A i \in 1..(n - a) : s[i] = d[a + i]
  <2>1. /\ a + 1 \in Nat /\ 1 <= a + 1 /\ a + 1 <= n + 1 /\ n <= Len(d)
        /\ n - (a + 1) + 1 = n - a /\ \A i \in 1..(n - a) : (a + 1) + i - 1 = a + i
    BY <1>0
  <2>2. /\ s \in Seq(Byte) /\ Len(s) = n - (a + 1) + 1
        /\ \A i \in 1..(n - (a + 1) + 1) : s[i] = d[(a + 1) + i - 1]
    BY <1>0, <2>1, Slice
  <2> HIDE DEF s, n
  <2> QED BY <2>1, <2>2
<1>2. t \in Seq(Byte) /\ Len(t) = b - a /\ \A i \in 1..(b - a) : t[i] = d[a + i]
  <2>1. /\ a + 1 \in Nat /\ 1 <= a + 1 /\ a + 1 <= b + 1
        /\ b - (a + 1) + 1 = b - a /\ \A i \in 1..(b - a) : (a + 1) + i - 1 = a + i
    BY <1>0
  <2>2. /\ t \in Seq(Byte) /\ Len(t) = b - (a + 1) + 1
        /\ \A i \in 1..(b - (a + 1) + 1) : t[i] = d[(a + 1) + i - 1]
    BY <2>1, Slice
  <2> HIDE DEF t
  <2> QED BY <2>1, <2>2
<1>3. u \in Seq(Byte) /\ Len(u) = n - b /\ \A i \in 1..(n - b) : u[i] = d[b + i]
  <2>1. /\ b + 1 \in Nat /\ 1 <= b + 1 /\ b + 1 <= n + 1 /\ n <= Len(d)
        /\ n - (b + 1) + 1 = n - b /\ \A i \in 1..(n - b) : (b + 1) + i - 1 = b + i
    BY <1>0
  <2>2. /\ u \in Seq(Byte) /\ Len(u) = n - (b + 1) + 1
        /\ \A i \in 1..(n - (b + 1) + 1) : u[i] = d[(b + 1) + i - 1]
    BY <1>0, <2>1, Slice
  <2> HIDE DEF u, n
  <2> QED BY <2>1, <2>2
<1> HIDE DEF s, t, u
<1>4. /\ w \in Seq(Byte) /\ Len(w) = Len(t) + Len(u)
      /\ \A i \in 1..Len(t) + Len(u) : w[i] = IF i <= Len(t) THEN t[i] ELSE u[i - Len(t)]
  BY <1>2, <1>3, ConcatProperties
<1>5. Len(t) + Len(u) = n - a /\ b <= n
  BY <1>0, <1>2, <1>3
<1> HIDE DEF n, w
<1>6. ASSUME NEW i \in 1..(n - a) PROVE w[i] = s[i]
  <2>1. w[i] = IF i <= b - a THEN t[i] ELSE u[i - (b - a)]
    BY <1>2, <1>4, <1>5
  <2>2. CASE i <= b - a
    <3>1. i \in 1..(b - a)
      BY <2>2
    <3> QED BY <1>1, <1>2, <2>1, <2>2, <3>1
  <2>3. CASE ~(i <= b - a)
    <3>1. i - (b - a) \in 1..(n - b) /\ b + (i - (b - a)) = a + i
      BY <1>0, <2>3
    <3> QED BY <1>1, <1>3, <2>1, <2>3, <3>1
  <2> QED BY <2>2, <2>3
<1>7. s = w
  <2>1. Len(s) = Len(w) /\ \A i \in 1..Len(s) : s[i] = w[i]
    BY <1>1, <1>4, <1>5, <1>6
  <2> QED BY <1>1, <1>4, <2>1, SeqEqual
<1> QED BY <1>7 DEF s, t, u, w, n

\* Long data is a sequence of pieces, none empty, and each tail of it the next piece and the rest.
IsPieces(s, x, v, d) ==
  /\ s \in Seq(Seq(Byte))
  /\ \A i \in 1..Len(s) : /\ x[i] \in Seq(Byte) /\ Len(x[i]) \in UInt32 /\ x[i] # <<>>
                          /\ s[i] = Piece(x[i]) /\ v[i - 1] = x[i] \o v[i]
  /\ v[Len(s)] = <<>> /\ v[0] = d

LEMMA FewerToo ==
  ASSUME NEW n \in Nat, NEW m \in UInt32, n <= m
  PROVE  n \in UInt32
BY SMT DEF UInt32

LEMMA LongPieces ==
  ASSUME NEW d \in Seq(Byte), ~IsShort(Len(d)), ChunkSize \in UInt32 \ {0}
  PROVE  \E s, x, v : /\ IsPieces(s, x, v, d)
                      /\ WriteBytesWithLength(d)
                           = <<LONG_INDICATOR>> \o FlattenSeq(s) \o WriteUb(<<>>)
<1> DEFINE n == Len(d)
           c == ChunkSize
           k == (n + c - 1) \div c
           m(i) == IF i * c < n THEN i * c ELSE n
           x == [i \in 1..k |-> SubSeq(d, (i - 1) * c + 1, m(i))]
           v == [i \in 0..k |-> SubSeq(d, m(i) + 1, n)]
           s == [i \in 1..k |-> Piece(x[i])]
<1>0. n \in Nat /\ c \in Nat \ {0}
  <2>1. ChunkSize \in Nat \ {0}
    BY SMT DEF UInt32
  <2> QED BY <2>1, LenProperties
<1>1. /\ k \in Nat /\ n <= k * c
      /\ \A i \in 1..k : /\ (i - 1) * c \in Nat /\ (i - 1) * c < n /\ i * c = (i - 1) * c + c
                         /\ i # k => i * c < n
  <2> HIDE DEF n, c
  <2> QED BY <1>0, PacketCuts
<1> HIDE DEF k
<1>2. ASSUME NEW i \in 1..k
      PROVE  /\ m(i - 1) = (i - 1) * c /\ m(i - 1) \in Nat /\ m(i) \in Nat
             /\ m(i - 1) < m(i) /\ m(i) <= n /\ m(i) - m(i - 1) <= c
  <2> DEFINE a == (i - 1) * c
             b == i * c
  <2>1. a \in Nat /\ a < n /\ b = a + c
    BY <1>1
  <2>2. m(i - 1) = (IF a < n THEN a ELSE n) /\ m(i) = IF b < n THEN b ELSE n
    OBVIOUS
  <2> HIDE DEF a, b, n, c, m
  <2>3. m(i - 1) = a
    BY <2>1, <2>2
  <2>4. m(i) \in Nat /\ a < m(i) /\ m(i) <= n /\ m(i) - a <= c
    BY <1>0, <2>1, <2>2
  <2> QED BY <2>1, <2>3, <2>4 DEF a
<1>3. m(0) = 0 /\ m(k) = n
  <2>1. 0 * c = 0
    BY <1>0, SMT
  <2>2. m(0) = 0
    BY <1>0, <2>1
  <2> DEFINE b == k * c
  <2>3. m(k) = IF b < n THEN b ELSE n
    OBVIOUS
  <2>4. n <= b
    BY <1>1
  <2>5. b \in Nat
    BY <1>0, <1>1, SMT
  <2> HIDE DEF b, n, m
  <2>6. m(k) = n
    BY <1>0, <2>3, <2>4, <2>5
  <2> QED BY <2>2, <2>6
<1> HIDE DEF m
<1>4. ASSUME NEW i \in 1..k
      PROVE  /\ x[i] \in Seq(Byte) /\ Len(x[i]) \in UInt32 /\ x[i] # <<>>
             /\ v[i - 1] = x[i] \o v[i]
  <2> DEFINE a == m(i - 1)
             b == m(i)
             y == SubSeq(d, a + 1, b)
  <2>1. a \in Nat /\ b \in Nat /\ a < b /\ b <= n /\ b - a <= c /\ a = (i - 1) * c
    BY <1>2
  <2>2. x[i] = y /\ i - 1 \in 0..k /\ i \in 0..k
    BY <1>1, <2>1, SMTT(30)
  <2>3. v[i - 1] = SubSeq(d, a + 1, n) /\ v[i] = SubSeq(d, b + 1, n)
    BY <2>2
  <2> HIDE DEF a, b, x, v, y
  <2>4. y \in Seq(Byte) /\ Len(y) = b - a
    <3>1. /\ a + 1 \in Nat /\ 1 <= a + 1 /\ a + 1 <= b + 1 /\ b <= Len(d)
          /\ b - (a + 1) + 1 = b - a
      BY <2>1
    <3>2. y \in Seq(Byte) /\ Len(y) = b - (a + 1) + 1
      BY <2>1, <3>1, Slice DEF y
    <3> QED BY <3>1, <3>2
  <2>5. Len(y) \in UInt32
    <3>1. b - a \in Nat /\ c \in UInt32
      BY <2>1
    <3> HIDE DEF c
    <3> QED BY <2>1, <2>4, <3>1, FewerToo
  <2>6. y # <<>>
    <3>1. Len(y) # 0
      BY <2>1, <2>4
    <3> QED BY <3>1
  <2>7. SubSeq(d, a + 1, n) = y \o SubSeq(d, b + 1, n)
    <3>1. a <= b /\ b <= Len(d)
      BY <2>1
    <3> QED BY <2>1, <3>1, SubSeqSplit DEF y
  <2> QED BY <2>2, <2>3, <2>4, <2>5, <2>6, <2>7
<1>5. v[0] = d /\ v[k] = <<>>
  <2>1. v[0] = SubSeq(d, 1, n) /\ v[k] = SubSeq(d, n + 1, n)
    <3>1. 0 \in 0..k /\ k \in 0..k /\ 0 + 1 = 1
      BY <1>1
    <3>2. v[0] = SubSeq(d, m(0) + 1, n) /\ v[k] = SubSeq(d, m(k) + 1, n)
      BY <3>1
    <3> HIDE DEF v
    <3> QED BY <1>3, <3>1, <3>2
  <2>2. SubSeq(d, 1, n) = d
    <3> DEFINE e == SubSeq(d, 1, n)
    <3>1. /\ 1 \in Nat /\ n \in Nat /\ 1 <= 1 /\ 1 <= n + 1 /\ n <= Len(d) /\ n - 1 + 1 = n
          /\ \A i \in 1..n : 1 + i - 1 = i
      BY <1>0
    <3>2. e \in Seq(Byte) /\ Len(e) = n - 1 + 1 /\ \A i \in 1..(n - 1 + 1) : e[i] = d[1 + i - 1]
      BY <3>1, Slice
    <3> HIDE DEF e
    <3>3. Len(e) = Len(d) /\ \A i \in 1..Len(e) : e[i] = d[i]
      BY <3>1, <3>2
    <3>4. e = d
      BY <3>2, <3>3, SeqEqual
    <3> QED BY <3>4 DEF e
  <2>3. SubSeq(d, n + 1, n) = <<>>
    <3>1. /\ n + 1 \in Nat /\ n \in Nat /\ 1 <= n + 1 /\ n + 1 <= n + 1 /\ n <= Len(d)
          /\ n - (n + 1) + 1 = 0
      BY <1>0
    <3>2. SubSeq(d, n + 1, n) \in Seq(Byte) /\ Len(SubSeq(d, n + 1, n)) = n - (n + 1) + 1
      BY <3>1, Slice
    <3> QED BY <3>1, <3>2, EmptySeq
  <2> HIDE DEF v
  <2> QED BY <2>1, <2>2, <2>3
<1>6. IsPieces(s, x, v, d)
  <2> HIDE DEF x, v
  <2>1. \A i \in 1..k : s[i] = Piece(x[i]) /\ Piece(x[i]) \in Seq(Byte)
    BY <1>4, PieceTyped
  <2>2. s \in Seq(Seq(Byte)) /\ Len(s) = k
    BY <1>1, <2>1
  <2> HIDE DEF s
  <2> QED BY <1>4, <1>5, <2>1, <2>2 DEF IsPieces
<1>7. WriteBytesWithLength(d) = <<LONG_INDICATOR>> \o FlattenSeq(s) \o WriteUb(<<>>)
  <2>1. d # NoBytes
    <3>1. n # 1
      BY DEF IsShort, MAX_SHORT
    <3> QED BY <3>1 DEF NoBytes
  <2>2. s = [i \in 1..k |-> WriteUb(BytesOf(Len(SubSeq(d, (i - 1) * c + 1, m(i)))))
                              \o SubSeq(d, (i - 1) * c + 1, m(i))]
    BY DEF Piece
  <2> HIDE DEF s
  <2> QED BY <2>1, <2>2 DEF WriteBytesWithLength, m, k
<1> HIDE DEF s, x, v
<1> QED BY <1>6, <1>7

----------------------------------------------------------------------------
\* Data and numbers with a sign

LEMMA Indicators ==
  /\ MAX_SHORT = 252 /\ ESCAPE_CHAR = 253 /\ LONG_INDICATOR = 254 /\ NULL_INDICATOR = 255
  /\ ESCAPE_CHAR \in Byte /\ LONG_INDICATOR \in Byte /\ NULL_INDICATOR \in Byte
BY DEF MAX_SHORT, ESCAPE_CHAR, LONG_INDICATOR, NULL_INDICATOR, Byte

LEMMA NoBytesApart == \A d \in Seq(Byte) : d # NoBytes
<1>1. ASSUME NEW d \in Seq(Byte), d = NoBytes PROVE FALSE
  <2>1. Len(d) = 1 /\ d[1] = -1
    BY <1>1 DEF NoBytes
  <2>2. d[1] \in Byte
    BY <2>1, ElementOfSeq
  <2> QED BY <2>1, <2>2 DEF Byte
<1> QED BY <1>1

\* The three forms of data: NULL, short and long.
LEMMA DataForms ==
  ASSUME NEW d \in Seq(Byte) \cup {NoBytes}, ChunkSize \in UInt32 \ {0}
  PROVE  \/ d = NoBytes /\ WriteBytesWithLength(d) = <<NULL_INDICATOR>> \o <<>>
         \/ d \in Seq(Byte) /\ IsShort(Len(d)) /\ WriteBytesWithLength(d) = <<Len(d)>> \o d
         \/ d \in Seq(Byte) /\ \E s, x, v :
              /\ IsPieces(s, x, v, d)
              /\ FlattenSeq(s) \o WriteUb(<<>>) \in Seq(Byte)
              /\ WriteBytesWithLength(d) = <<LONG_INDICATOR>> \o (FlattenSeq(s) \o WriteUb(<<>>))
<1>1. CASE d = NoBytes
  <2>1. WriteBytesWithLength(d) = <<NULL_INDICATOR>>
    BY <1>1 DEF WriteBytesWithLength
  <2>2. <<NULL_INDICATOR>> \o <<>> = <<NULL_INDICATOR>>
    BY Indicators, ConcatEmptySeq
  <2> QED BY <1>1, <2>1, <2>2
<1>2. CASE d # NoBytes /\ IsShort(Len(d))
  <2>1. WriteBytesWithLength(d) = <<Len(d)>> \o d
    BY <1>2 DEF WriteBytesWithLength
  <2> QED BY <1>2, <2>1
<1>3. CASE d # NoBytes /\ ~IsShort(Len(d))
  <2>0. d \in Seq(Byte)
    BY <1>3
  <2>1. PICK s, x, v : /\ IsPieces(s, x, v, d)
                       /\ WriteBytesWithLength(d)
                            = <<LONG_INDICATOR>> \o FlattenSeq(s) \o WriteUb(<<>>)
    BY <1>3, <2>0, LongPieces
  <2> DEFINE all == FlattenSeq(s)
             u == WriteUb(<<>>)
  <2>2. all \in Seq(Byte)
    <3>1. s \in Seq(Seq(Byte))
      BY <2>1 DEF IsPieces
    <3>2. all = Flat(s)[Len(s)] /\ Len(s) \in Nat /\ \A i \in 0..Len(s) : Flat(s)[i] \in Seq(Byte)
      BY <3>1, FlattenIsFlat, FlatRun, LenProperties
    <3>3. Len(s) \in 0..Len(s)
      BY <3>2
    <3> QED BY <3>2, <3>3
  <2>3. u \in Seq(Byte) /\ <<LONG_INDICATOR>> \in Seq(Byte)
    BY NoBytesUb, Indicators
  <2> HIDE DEF all, u
  <2>4. /\ all \o u \in Seq(Byte)
        /\ (<<LONG_INDICATOR>> \o all) \o u = <<LONG_INDICATOR>> \o (all \o u)
    BY <2>2, <2>3, ConcatProperties, ConcatAssociative
  <2>5. WriteBytesWithLength(d) = <<LONG_INDICATOR>> \o (all \o u)
    BY <2>1, <2>4 DEF all, u
  <2> QED BY <2>0, <2>1, <2>4, <2>5 DEF all, u
<1> QED BY <1>1, <1>2, <1>3

LEMMA ShortLength ==
  ASSUME NEW d \in Seq(Byte), IsShort(Len(d))
  PROVE  /\ Len(d) \in Byte /\ Len(d) \in Nat /\ Len(d) # NULL_INDICATOR /\ Len(d) # LONG_INDICATOR
         /\ Len(d) # ESCAPE_CHAR
<1>1. Len(d) \in Nat
  BY LenProperties
<1> DEFINE n == Len(d)
<1>2. n \in Nat /\ n <= 252
  BY <1>1 DEF IsShort, MAX_SHORT
<1> HIDE DEF n
<1>3. n \in Byte /\ n # 255 /\ n # 254 /\ n # 253
  BY <1>2 DEF Byte
<1> QED BY <1>1, <1>3, Indicators DEF n

\* Behind the length byte x stands b, which `rest` reads as v: so read both.
LEMMA Behind ==
  ASSUME NEW buf \in Seq(Byte), NEW pos \in Nat, NEW x \in Byte, NEW b \in Seq(Byte),
         StandsAt(buf, pos, <<x>> \o b), NEW v, NEW r, NEW rest,
         pos + 1 <= Len(buf) => ReadsAs(rest, buf, pos + 1, b, v),
         ReadBytes(buf, pos, 1) = [ok |-> TRUE, value |-> <<x>>, pos |-> pos + 1] => r = rest,
         ReadBytes(buf, pos, 1) = ReadErr => r = ReadErr
  PROVE  ReadsAs(r, buf, pos, <<x>> \o b, v)
<1> DEFINE w == <<x>> \o b
<1>1. /\ Len(w) = Len(b) + 1 /\ Len(b) \in Nat /\ Len(buf) \in Nat
      /\ pos + 1 <= Len(buf) => ReadBytes(buf, pos, 1) = [ok |-> TRUE, value |-> <<x>>, pos |-> pos + 1]
      /\ ~(pos + 1 <= Len(buf)) => ReadBytes(buf, pos, 1) = ReadErr
  BY ByteFirst
<1> HIDE DEF w
<1>2. CASE ~(pos + 1 <= Len(buf))
  <2>1. r = ReadErr /\ ~(pos + Len(w) <= Len(buf))
    BY <1>1, <1>2
  <2> QED BY <2>1 DEF ReadsAs, w
<1>3. CASE pos + 1 <= Len(buf)
  <2>1. r = rest /\ ReadsAs(rest, buf, pos + 1, b, v)
    BY <1>1, <1>3
  <2>2. (pos + 1) + Len(b) = pos + Len(w)
    BY <1>1
  <2> QED BY <2>1, <2>2 DEF ReadsAs, w
<1> QED BY <1>2, <1>3

\* read_bytes_with_length and read_raw_bytes_chunked read what write_bytes_with_length wrote.
LEMMA DataBack ==
  ASSUME NEW buf \in Seq(Byte), NEW pos \in Nat, NEW d \in Seq(Byte) \cup {NoBytes},
         ChunkSize \in UInt32 \ {0}, StandsAt(buf, pos, WriteBytesWithLength(d))
  PROVE  /\ WriteBytesWithLength(d) \in Seq(Byte) /\ Len(WriteBytesWithLength(d)) > 0
         /\ ReadsAs(ReadBytesWithLength(buf, pos), buf, pos, WriteBytesWithLength(d), d)
         /\ d # NoBytes => ReadsAs(ReadRawBytesChunked(buf, pos), buf, pos, WriteBytesWithLength(d), d)
<1> DEFINE w == WriteBytesWithLength(d)
           len == ReadBytes(buf, pos, 1)
           r == ReadBytesWithLength(buf, pos)
           raw == ReadRawBytesChunked(buf, pos)
<1>0. pos + 1 \in Nat /\ Len(buf) \in Nat
  BY LenProperties
<1>1. /\ len = ReadErr => r = ReadErr /\ raw = ReadErr
      /\ len = [ok |-> TRUE, value |-> <<NULL_INDICATOR>>, pos |-> pos + 1]
           => r = [ok |-> TRUE, value |-> NoBytes, pos |-> pos + 1]
      /\ len = [ok |-> TRUE, value |-> <<LONG_INDICATOR>>, pos |-> pos + 1]
           => r = ReadChunks(buf, pos + 1) /\ raw = ReadChunks(buf, pos + 1)
  <2>1. len = ReadErr => r = ReadErr /\ raw = ReadErr
    BY DEF ReadBytesWithLength, ReadRawBytesChunked, ReadErr
  <2>2. ASSUME len = [ok |-> TRUE, value |-> <<NULL_INDICATOR>>, pos |-> pos + 1]
        PROVE  r = [ok |-> TRUE, value |-> NoBytes, pos |-> pos + 1]
    <3> HIDE DEF len
    <3>1. len.ok /\ len.value[1] = NULL_INDICATOR
      BY <2>2
    <3>2. r = [len EXCEPT !.value = NoBytes]
      BY <3>1, Indicators DEF ReadBytesWithLength, len
    <3> HIDE DEF r
    <3>3. r = [ok |-> TRUE, value |-> NoBytes, pos |-> pos + 1]
      BY <2>2, <3>2
    <3> QED BY <3>3
  <2>3. ASSUME len = [ok |-> TRUE, value |-> <<LONG_INDICATOR>>, pos |-> pos + 1]
        PROVE  r = ReadChunks(buf, pos + 1) /\ raw = ReadChunks(buf, pos + 1)
    <3> HIDE DEF len
    <3>1. len.ok /\ len.value[1] = LONG_INDICATOR /\ len.pos = pos + 1
      BY <2>3
    <3>2. len.value[1] # NULL_INDICATOR
      BY <3>1, Indicators
    <3>3. r = ReadChunks(buf, len.pos)
      <4>1. len.value[1] # ESCAPE_CHAR
        BY <3>1, Indicators
      <4> DEFINE chunks == ReadChunks(buf, len.pos)
      <4>2. r = CASE ~len.ok -> ReadErr
                  [] len.ok /\ len.value[1] = NULL_INDICATOR -> [len EXCEPT !.value = NoBytes]
                  [] len.ok /\ len.value[1] = LONG_INDICATOR -> chunks
                  [] len.ok /\ len.value[1] = ESCAPE_CHAR ->
                       IF ReadBytes(buf, len.pos, 1).ok
                       THEN ReadBytes(buf, ReadBytes(buf, len.pos, 1).pos, ReadBytes(buf, len.pos, 1).value[1])
                       ELSE ReadErr
                  [] OTHER -> ReadBytes(buf, len.pos, len.value[1])
        BY DEF ReadBytesWithLength, len, r
      <4> HIDE DEF r, chunks
      <4>3. r = chunks
        BY <3>1, <3>2, <4>1, <4>2
      <4> QED BY <4>3 DEF chunks, r
    <3>4. raw = ReadChunks(buf, len.pos)
      BY <3>1 DEF ReadRawBytesChunked, len
    <3> QED BY <3>1, <3>3, <3>4
  <2> QED BY <2>1, <2>2, <2>3
<1>2. ASSUME NEW n \in Nat, n # NULL_INDICATOR, n # LONG_INDICATOR, n # ESCAPE_CHAR,
             len = [ok |-> TRUE, value |-> <<n>>, pos |-> pos + 1]
      PROVE  r = ReadBytes(buf, pos + 1, n) /\ raw = ReadBytes(buf, pos + 1, n)
  <2> HIDE DEF len
  <2>1. len.ok /\ len.value[1] = n /\ len.pos = pos + 1
    BY <1>2
  <2>2. r = ReadBytes(buf, len.pos, len.value[1])
    BY <1>2, <2>1 DEF ReadBytesWithLength, len
  <2>3. raw = ReadBytes(buf, len.pos, len.value[1])
    BY <1>2, <2>1 DEF ReadRawBytesChunked, len
  <2> QED BY <2>1, <2>2, <2>3
<1> HIDE DEF len, r, raw
<1>3. CASE d = NoBytes /\ w = <<NULL_INDICATOR>> \o <<>>
  <2> DEFINE z == [ok |-> TRUE, value |-> NoBytes, pos |-> pos + 1]
  <2>1. NULL_INDICATOR \in Byte /\ <<>> \in Seq(Byte) /\ Len(<<>>) = 0
    BY Indicators
  <2>2. StandsAt(buf, pos, <<NULL_INDICATOR>> \o <<>>)
    BY <1>3
  <2>3. pos + 1 <= Len(buf) => ReadsAs(z, buf, pos + 1, <<>>, NoBytes)
    BY <1>0, <2>1 DEF ReadsAs
  <2> HIDE DEF z, w
  <2>4. ReadsAs(r, buf, pos, <<NULL_INDICATOR>> \o <<>>, NoBytes)
    BY <1>1, <2>1, <2>2, <2>3, Behind DEF len, z
  <2>5. /\ <<NULL_INDICATOR>> \o <<>> \in Seq(Byte)
        /\ Len(<<NULL_INDICATOR>> \o <<>>) = Len(<<>>) + 1
    BY <2>1, <2>2, ByteFirst
  <2> QED BY <1>3, <2>1, <2>4, <2>5 DEF w, r, raw
<1>4. CASE d \in Seq(Byte) /\ IsShort(Len(d)) /\ w = <<Len(d)>> \o d
  <2>1. /\ Len(d) \in Byte /\ Len(d) \in Nat /\ Len(d) # NULL_INDICATOR /\ Len(d) # LONG_INDICATOR
        /\ Len(d) # ESCAPE_CHAR
    BY <1>4, ShortLength
  <2> DEFINE z == ReadBytes(buf, pos + 1, Len(d))
  <2>2. StandsAt(buf, pos, <<Len(d)>> \o d) /\ d \in Seq(Byte)
    BY <1>4
  <2>3. /\ <<Len(d)>> \o d \in Seq(Byte) /\ Len(<<Len(d)>> \o d) = Len(d) + 1
        /\ pos + 1 <= Len(buf) => StandsAt(buf, pos + 1, d)
    BY <2>1, <2>2, ByteFirst
  <2>4. pos + 1 <= Len(buf) => ReadsAs(z, buf, pos + 1, d, d)
    BY <1>0, <2>2, <2>3, BytesRead
  <2>5. len = [ok |-> TRUE, value |-> <<Len(d)>>, pos |-> pos + 1] => r = z /\ raw = z
    BY <1>2, <2>1
  <2> HIDE DEF z, w
  <2>6. ReadsAs(r, buf, pos, <<Len(d)>> \o d, d)
    BY <1>1, <2>1, <2>2, <2>4, <2>5, Behind DEF len
  <2>7. ReadsAs(raw, buf, pos, <<Len(d)>> \o d, d)
    BY <1>1, <2>1, <2>2, <2>4, <2>5, Behind DEF len
  <2>8. Len(d) + 1 > 0
    BY <2>1
  <2> QED BY <1>4, <2>3, <2>6, <2>7, <2>8 DEF w, r, raw
<1>5. ASSUME NEW s, NEW x, NEW v, d \in Seq(Byte),
             IsPieces(s, x, v, d), FlattenSeq(s) \o WriteUb(<<>>) \in Seq(Byte),
             w = <<LONG_INDICATOR>> \o (FlattenSeq(s) \o WriteUb(<<>>))
      PROVE  /\ w \in Seq(Byte) /\ Len(w) > 0
             /\ ReadsAs(r, buf, pos, w, d) /\ ReadsAs(raw, buf, pos, w, d)
  <2> DEFINE b == FlattenSeq(s) \o WriteUb(<<>>)
             z == ReadChunks(buf, pos + 1)
  <2>1. b \in Seq(Byte) /\ StandsAt(buf, pos, <<LONG_INDICATOR>> \o b) /\ LONG_INDICATOR \in Byte
    BY <1>5, Indicators
  <2>2. ASSUME pos + 1 <= Len(buf) PROVE ReadsAs(z, buf, pos + 1, b, d)
    <3>1. StandsAt(buf, pos + 1, b)
      <4> HIDE DEF b
      <4> QED BY <2>1, <2>2, ByteFirst
    <3>2. /\ s \in Seq(Seq(Byte))
          /\ \A i \in 1..Len(s) : /\ x[i] \in Seq(Byte) /\ Len(x[i]) \in UInt32 /\ x[i] # <<>>
                                  /\ s[i] = Piece(x[i]) /\ v[i - 1] = x[i] \o v[i]
          /\ v[Len(s)] = <<>> /\ v[0] = d
      BY <1>5 DEF IsPieces
    <3>3. ReadsAs(z, buf, pos + 1, b, v[0])
      BY <1>0, <3>1, <3>2, ChunkChain
    <3> QED BY <3>2, <3>3
  <2>3. /\ len = ReadErr => r = ReadErr /\ raw = ReadErr
        /\ len = [ok |-> TRUE, value |-> <<LONG_INDICATOR>>, pos |-> pos + 1] => r = z /\ raw = z
    BY <1>1
  <2> HIDE DEF b, z, w
  <2>4. ReadsAs(r, buf, pos, <<LONG_INDICATOR>> \o b, d)
    BY <2>1, <2>2, <2>3, Behind DEF len
  <2>5. ReadsAs(raw, buf, pos, <<LONG_INDICATOR>> \o b, d)
    BY <2>1, <2>2, <2>3, Behind DEF len
  <2>6. /\ <<LONG_INDICATOR>> \o b \in Seq(Byte) /\ Len(<<LONG_INDICATOR>> \o b) = Len(b) + 1
        /\ Len(b) \in Nat
    BY <2>1, ByteFirst
  <2>7. Len(b) + 1 > 0
    BY <2>6
  <2> QED BY <1>5, <2>4, <2>5, <2>6, <2>7 DEF b
<1>6. \/ d = NoBytes /\ w = <<NULL_INDICATOR>> \o <<>>
      \/ d \in Seq(Byte) /\ IsShort(Len(d)) /\ w = <<Len(d)>> \o d
      \/ d \in Seq(Byte) /\ \E s, x, v :
           /\ IsPieces(s, x, v, d) /\ FlattenSeq(s) \o WriteUb(<<>>) \in Seq(Byte)
           /\ w = <<LONG_INDICATOR>> \o (FlattenSeq(s) \o WriteUb(<<>>))
  BY DataForms
<1> HIDE DEF w
<1>7. CASE d \in Seq(Byte) /\ \E s, x, v :
           /\ IsPieces(s, x, v, d) /\ FlattenSeq(s) \o WriteUb(<<>>) \in Seq(Byte)
           /\ w = <<LONG_INDICATOR>> \o (FlattenSeq(s) \o WriteUb(<<>>))
  <2>1. w \in Seq(Byte) /\ Len(w) > 0 /\ ReadsAs(r, buf, pos, w, d) /\ ReadsAs(raw, buf, pos, w, d)
    BY <1>5, <1>7
  <2> QED BY <2>1 DEF w, r, raw
<1> QED BY <1>3, <1>4, <1>6, <1>7

LEMMA MinimalStays ==
  ASSUME NEW n \in Seq(Byte), Minimal(n)
  PROVE  Significant(n) = n
<1> DEFINE s == Significant(n)
<1>0. Len(n) \in Nat
  BY LenProperties
<1>1. 0 \in 0..Len(n) /\ (\A i \in 1..0 : n[i] = 0) /\ (0 = Len(n) \/ n[0 + 1] # 0)
  <2>1. n = <<>> => Len(n) = 0
    OBVIOUS
  <2> QED BY <1>0, <2>1 DEF Minimal
<1>2. s \in Seq(Byte) /\ Len(s) = Len(n) - 0 /\ \A i \in 1..(Len(n) - 0) : s[i] = n[0 + i]
  BY <1>1, SignificantFrom
<1> HIDE DEF s
<1>3. Len(s) = Len(n) /\ \A i \in 1..Len(s) : s[i] = n[i]
  BY <1>0, <1>2
<1>4. s = n
  BY <1>2, <1>3, SeqEqual
<1> QED BY <1>4 DEF s

\* A length of up to eight, with the bit of the sign or without.
LEMMA SmallByte == \A k \in Nat : k <= 8 => k \in Byte /\ k + 128 \in Byte
BY DEF Byte

\* read_oracle_int and read_oracle_uint read what write_oracle_int and _uint wrote.
LEMMA IntBack ==
  ASSUME NEW buf \in Seq(Byte), NEW pos \in Nat, NEW n \in Seq(Byte), NEW negative \in BOOLEAN,
         NEW signed \in BOOLEAN, Len(n) <= 8, Minimal(n), negative => signed /\ n # <<>>,
         StandsAt(buf, pos, WriteOracleInt(n, negative))
  PROVE  /\ WriteOracleInt(n, negative) \in Seq(Byte) /\ Len(WriteOracleInt(n, negative)) > 0
         /\ ReadsAs(ReadOracleInt(buf, pos, signed), buf, pos, WriteOracleInt(n, negative),
                    [negative |-> negative, n |-> n])
<1> DEFINE x == Len(n) + IF negative /\ n # <<>> THEN 128 ELSE 0
           len == ReadBytes(buf, pos, 1)
           r == ReadOracleInt(buf, pos, signed)
           v == [negative |-> negative, n |-> n]
           bytes == ReadBytes(buf, pos + 1, Len(n))
           rest == IF bytes.ok THEN [ok |-> TRUE, value |-> v, pos |-> bytes.pos] ELSE ReadErr
<1>0. Len(n) \in Nat /\ pos + 1 \in Nat /\ Len(buf) \in Nat /\ Len(n) \in 0..8
  <2>1. Len(n) \in Nat /\ Len(buf) \in Nat
    BY LenProperties
  <2>2. Len(n) \in 0..8
    <3> DEFINE k == Len(n)
    <3>1. k \in Nat /\ k <= 8
      BY <2>1
    <3> HIDE DEF k
    <3>2. k \in 0..8
      BY <3>1
    <3> QED BY <3>2 DEF k
  <2> QED BY <2>1, <2>2
<1>1. /\ x \in Byte /\ x \in Nat /\ (~negative => x = Len(n)) /\ (negative => x = Len(n) + 128)
      /\ (signed => x % 128 = Len(n)) /\ (~signed => x = Len(n))
      /\ (negative <=> signed /\ x >= 128 /\ Len(n) > 0)
  <2> DEFINE k == Len(n)
  <2>1. k \in 0..8 /\ (n # <<>> => k # 0)
    BY <1>0, EmptySeq
  <2>2. x = IF negative THEN k + 128 ELSE k
    <3>1. CASE negative
      <4>1. (negative /\ n # <<>>) = TRUE
        BY <3>1
      <4>2. x = k + 128
        BY <4>1
      <4> HIDE DEF x, k
      <4> QED BY <3>1, <4>2
    <3>2. CASE ~negative
      <4>1. (negative /\ n # <<>>) = FALSE
        BY <3>2
      <4>2. x = k + 0
        BY <4>1
      <4> HIDE DEF x, k
      <4> QED BY <2>1, <3>2, <4>2
    <3> QED BY <3>1, <3>2
  <2> HIDE DEF k, x
  <2>3. CASE negative
    <3>0. x = k + 128 /\ k > 0 /\ k \in Nat /\ k <= 8
      BY <2>1, <2>2, <2>3
    <3>1. signed /\ k > 0 /\ x % 128 = k /\ x >= 128 /\ x \in Nat
      BY <2>1, <2>3, <3>0
    <3>2. x \in Byte
      BY <3>0, SmallByte
    <3> QED BY <2>3, <3>0, <3>1, <3>2 DEF k
  <2>4. CASE ~negative
    <3>0. x = k /\ k \in Nat /\ k <= 8
      BY <2>1, <2>2, <2>4
    <3>1. x % 128 = k /\ ~(x >= 128) /\ x \in Nat
      BY <3>0
    <3>2. x \in Byte
      BY <3>0, SmallByte
    <3> QED BY <2>4, <3>0, <3>1, <3>2 DEF k
  <2> QED BY <2>3, <2>4
<1>2. WriteOracleInt(n, negative) = <<x>> \o n
  BY DEF WriteOracleInt
<1> HIDE DEF x
<1>3. StandsAt(buf, pos, <<x>> \o n)
  BY <1>2
<1>4. /\ <<x>> \o n \in Seq(Byte) /\ Len(<<x>> \o n) = Len(n) + 1
      /\ pos + 1 <= Len(buf) => StandsAt(buf, pos + 1, n)
  BY <1>1, <1>3, ByteFirst
<1>5. ASSUME pos + 1 <= Len(buf) PROVE ReadsAs(rest, buf, pos + 1, n, v)
  <2>1. ReadsAs(bytes, buf, pos + 1, n, n)
    BY <1>0, <1>4, <1>5, BytesRead
  <2> HIDE DEF bytes, v
  <2>2. CASE (pos + 1) + Len(n) <= Len(buf)
    <3>1. bytes = [ok |-> TRUE, value |-> n, pos |-> (pos + 1) + Len(n)]
      BY <2>1, <2>2 DEF ReadsAs
    <3>2. rest = [ok |-> TRUE, value |-> v, pos |-> (pos + 1) + Len(n)]
      BY <3>1
    <3> QED BY <2>2, <3>2 DEF ReadsAs
  <2>3. CASE ~((pos + 1) + Len(n) <= Len(buf))
    <3>1. bytes = ReadErr
      BY <2>1, <2>3 DEF ReadsAs
    <3>2. rest = ReadErr
      BY <3>1 DEF ReadErr
    <3> QED BY <2>3, <3>2 DEF ReadsAs
  <2> QED BY <2>2, <2>3
<1>6. len = ReadErr => r = ReadErr
  BY DEF ReadOracleInt, ReadErr
<1>7. ASSUME len = [ok |-> TRUE, value |-> <<x>>, pos |-> pos + 1] PROVE r = rest
  <2> DEFINE m == IF signed THEN x % 128 ELSE x
             taken == ReadBytes(buf, pos + 1, m)
  <2> HIDE DEF len
  <2>1. len.ok /\ len.value[1] = x /\ len.pos = pos + 1
    BY <1>7
  <2>2. m = Len(n) /\ ~(m > 8)
    BY <1>0, <1>1
  <2>3. r = CASE ~len.ok -> ReadErr
              [] len.ok /\ m > 8 -> ReadErr
              [] OTHER -> IF ~taken.ok THEN ReadErr
                          ELSE [taken EXCEPT !.value = [negative |-> signed /\ x >= 128 /\ m > 0,
                                                      n |-> Significant(@)]]
    BY <2>1 DEF ReadOracleInt, len
  <2> HIDE DEF r, m, taken
  <2>4. r = IF ~taken.ok THEN ReadErr
            ELSE [taken EXCEPT !.value = [negative |-> signed /\ x >= 128 /\ m > 0, n |-> Significant(@)]]
    BY <2>1, <2>2, <2>3
  <2>5. taken = bytes
    BY <2>2 DEF taken
  <2>6. CASE ~bytes.ok
    BY <2>4, <2>5, <2>6
  <2>7. CASE bytes.ok
    <3>1. (pos + 1) + Len(n) <= Len(buf)
      BY <2>7 DEF ReadBytes, ReadErr
    <3>2. pos + 1 <= Len(buf)
      BY <1>0, <3>1
    <3>3. ReadsAs(bytes, buf, pos + 1, n, n)
      BY <1>0, <1>4, <3>2, BytesRead
    <3>4. bytes = [ok |-> TRUE, value |-> n, pos |-> (pos + 1) + Len(n)]
      BY <3>1, <3>3 DEF ReadsAs
    <3> HIDE DEF bytes
    <3>5. r = [bytes EXCEPT !.value = [negative |-> signed /\ x >= 128 /\ m > 0, n |-> Significant(n)]]
      BY <2>4, <2>5, <2>7, <3>4
    <3>6. Significant(n) = n /\ (signed /\ x >= 128 /\ m > 0) = negative
      BY <1>1, <2>2, MinimalStays
    <3>7. [negative |-> signed /\ x >= 128 /\ m > 0, n |-> Significant(n)] = v
      BY <3>6
    <3> HIDE DEF v
    <3>8. r = [bytes EXCEPT !.value = v]
      BY <3>5, <3>7
    <3>9. r = [ok |-> TRUE, value |-> v, pos |-> (pos + 1) + Len(n)]
      BY <3>4, <3>8
    <3>10. rest = [ok |-> TRUE, value |-> v, pos |-> (pos + 1) + Len(n)]
      BY <3>4
    <3> QED BY <3>9, <3>10 DEF r
  <2> QED BY <2>6, <2>7 DEF r
<1> HIDE DEF rest, r, v
<1>8. ReadsAs(r, buf, pos, <<x>> \o n, v)
  BY <1>1, <1>3, <1>5, <1>6, <1>7, Behind DEF len
<1>9. Len(n) + 1 > 0
  BY <1>0
<1> QED BY <1>2, <1>4, <1>8, <1>9 DEF r, v

\* read_string_with_ub4_length reads what write_ub4 and write_bytes_with_length wrote.
LEMMA StringBack ==
  ASSUME NEW buf \in Seq(Byte), NEW pos \in Nat, NEW d \in Seq(Byte), d # <<>>, Len(d) \in UInt32,
         ChunkSize \in UInt32 \ {0},
         StandsAt(buf, pos, WriteUb(BytesOf(Len(d))) \o WriteBytesWithLength(d))
  PROVE  LET w == WriteUb(BytesOf(Len(d))) \o WriteBytesWithLength(d)
         IN  /\ w \in Seq(Byte) /\ Len(w) > 0
             /\ ReadsAs(ReadStringWithUb4Length(buf, pos), buf, pos, w, d)
<1> DEFINE b == BytesOf(Len(d))
           u == WriteUb(b)
           t == WriteBytesWithLength(d)
           w == u \o t
           outer == ReadUb(buf, pos, 4)
           rest == ReadBytesWithLength(buf, pos + Len(u))
           r == ReadStringWithUb4Length(buf, pos)
<1>1. b \in Seq(Byte) /\ Len(b) <= 4 /\ Minimal(b) /\ b # <<>>
  <2>1. Len(d) # 0
    BY EmptySeq
  <2> QED BY <2>1, LengthBytes
<1>2. u \in Seq(Byte) /\ Len(u) \in Nat /\ Len(buf) \in Nat
  BY PieceTyped, LenProperties
<1>3. t \in Seq(Byte) /\ Len(t) > 0 /\ Len(t) \in Nat
  <2>1. StandsAt(<<>>, 0, t) /\ <<>> \in Seq(Byte)
    BY DEF StandsAt
  <2>2. d \in Seq(Byte) \cup {NoBytes} /\ 0 \in Nat
    OBVIOUS
  <2> HIDE DEF t
  <2>3. t \in Seq(Byte) /\ Len(t) > 0
    BY <2>1, <2>2, DataBack DEF t
  <2> QED BY <2>3, LenProperties
<1>4. outer = ReadErr => r = ReadErr
  BY DEF ReadStringWithUb4Length, ReadErr
<1>5. ASSUME NEW p, outer = [ok |-> TRUE, value |-> b, pos |-> p] PROVE r = ReadBytesWithLength(buf, p)
  <2> HIDE DEF outer, b
  <2>1. outer.ok /\ outer.value # <<>> /\ outer.pos = p
    BY <1>1, <1>5
  <2>2. r = ReadBytesWithLength(buf, outer.pos)
    BY <2>1 DEF ReadStringWithUb4Length, outer
  <2> QED BY <2>1, <2>2
<1> HIDE DEF u, t
<1>6. StandsAt(buf, pos, u) /\ (pos + Len(u) <= Len(buf) => StandsAt(buf, pos + Len(u), t))
  <2>1. StandsAt(buf, pos, u \o t)
    BY DEF u, t
  <2> QED BY <1>2, <1>3, <2>1, StandsFirst
<1>7. ReadsAs(outer, buf, pos, u, b)
  <2> HIDE DEF b
  <2>1. 4 \in {2, 4, 8}
    OBVIOUS
  <2> QED BY <1>1, <1>6, <2>1, UbBack DEF u
<1>8. w \in Seq(Byte) /\ Len(w) = Len(u) + Len(t)
  BY <1>2, <1>3, ConcatProperties
<1> HIDE DEF w, outer, b, r, rest
<1>9. Len(w) > 0
  BY <1>2, <1>3, <1>8
<1>10. CASE ~(pos + Len(u) <= Len(buf))
  <2>1. r = ReadErr
    BY <1>4, <1>7, <1>10 DEF ReadsAs
  <2>2. ~(pos + Len(w) <= Len(buf))
    BY <1>2, <1>3, <1>8, <1>10
  <2>3. ReadsAs(r, buf, pos, w, d)
    BY <2>1, <2>2 DEF ReadsAs
  <2> QED BY <1>8, <1>9, <2>3 DEF r, w, u, t, b
<1>11. CASE pos + Len(u) <= Len(buf)
  <2>1. outer = [ok |-> TRUE, value |-> b, pos |-> pos + Len(u)]
    BY <1>7, <1>11 DEF ReadsAs
  <2>2. r = rest
    BY <1>5, <2>1 DEF rest
  <2>3. ReadsAs(rest, buf, pos + Len(u), t, d)
    <3>1. StandsAt(buf, pos + Len(u), t) /\ pos + Len(u) \in Nat /\ d \in Seq(Byte) \cup {NoBytes}
      BY <1>2, <1>6, <1>11
    <3> QED BY <3>1, DataBack DEF rest, t
  <2>4. (pos + Len(u)) + Len(t) = pos + Len(w)
    BY <1>2, <1>3, <1>8
  <2>5. ReadsAs(r, buf, pos, w, d)
    BY <2>2, <2>3, <2>4 DEF ReadsAs
  <2> QED BY <1>8, <1>9, <2>5 DEF r, w, u, t, b
<1> QED BY <1>10, <1>11

\* And None.
LEMMA NoStringBack ==
  ASSUME NEW buf \in Seq(Byte), NEW pos \in Nat, StandsAt(buf, pos, WriteUb(<<>>))
  PROVE  ReadsAs(ReadStringWithUb4Length(buf, pos), buf, pos, WriteUb(<<>>), NoBytes)
<1> DEFINE u == WriteUb(<<>>)
           outer == ReadUb(buf, pos, 4)
           r == ReadStringWithUb4Length(buf, pos)
<1>1. ReadsAs(outer, buf, pos, u, <<>>)
  <2>1. 4 \in {2, 4, 8} /\ Minimal(<<>>) /\ Len(<<>>) <= 4 /\ <<>> \in Seq(Byte)
    BY DEF Minimal
  <2> QED BY <2>1, UbBack
<1>2. outer = ReadErr => r = ReadErr
  BY DEF ReadStringWithUb4Length, ReadErr
<1>3. ASSUME NEW p, outer = [ok |-> TRUE, value |-> <<>>, pos |-> p]
      PROVE  r = [ok |-> TRUE, value |-> NoBytes, pos |-> p]
  <2> HIDE DEF outer
  <2>1. outer.ok /\ outer.value = <<>>
    BY <1>3
  <2>2. r = [outer EXCEPT !.value = NoBytes]
    BY <2>1 DEF ReadStringWithUb4Length, outer
  <2> HIDE DEF r
  <2>3. r = [ok |-> TRUE, value |-> NoBytes, pos |-> p]
    BY <1>3, <2>2
  <2> QED BY <2>3
<1> HIDE DEF u, outer, r
<1>4. CASE pos + Len(u) <= Len(buf)
  <2>1. outer = [ok |-> TRUE, value |-> <<>>, pos |-> pos + Len(u)]
    BY <1>1, <1>4 DEF ReadsAs
  <2>2. r = [ok |-> TRUE, value |-> NoBytes, pos |-> pos + Len(u)]
    BY <1>3, <2>1
  <2> QED BY <1>4, <2>2 DEF ReadsAs, u, r
<1>5. CASE ~(pos + Len(u) <= Len(buf))
  <2>1. r = ReadErr
    BY <1>1, <1>2, <1>5 DEF ReadsAs
  <2> QED BY <1>5, <2>1 DEF ReadsAs, u, r
<1> QED BY <1>4, <1>5

----------------------------------------------------------------------------
\* Fields

\* What the writers of messages write: numbers without leading zeros that fit their width, data
\* or None, text that is not empty or None, and bytes whose number both sides know.
UbFields == {f \in [type : {"ub"}, width : {2, 4, 8}, value : Seq(Byte)] :
               Len(f.value) <= f.width /\ Minimal(f.value)}
IntFields == {f \in [type : {"int"}, signed : BOOLEAN, value : [negative : BOOLEAN, n : Seq(Byte)]] :
                /\ Len(f.value.n) <= 8 /\ Minimal(f.value.n)
                /\ f.value.negative => f.signed /\ f.value.n # <<>>}
DataFields == [type : {"bytes"}, value : Seq(Byte) \cup {NoBytes}] \cup [type : {"raw"}, value : Seq(Byte)]
StringFields == {f \in [type : {"string"}, value : Seq(Byte) \cup {NoBytes}] :
                   f.value # NoBytes => f.value # <<>> /\ Len(f.value) \in UInt32}
FixedFields == {f \in [type : {"fixed"}, width : Nat, value : Seq(Byte)] :
                  f.width = Len(f.value) /\ f.value # <<>>}
WireFields == UbFields \cup IntFields \cup DataFields \cup StringFields \cup FixedFields

LEMMA FieldBack ==
  ASSUME NEW buf \in Seq(Byte), NEW pos \in Nat, NEW f \in WireFields, ChunkSize \in UInt32 \ {0},
         StandsAt(buf, pos, WriteField(f))
  PROVE  /\ WriteField(f) \in Seq(Byte) /\ Len(WriteField(f)) > 0
         /\ ReadsAs(ReadField(f, buf, pos), buf, pos, WriteField(f), f.value)
         /\ SkipField(f, buf, pos).pos = ReadField(f, buf, pos).pos
<1> DEFINE w == WriteField(f)
           r == ReadField(f, buf, pos)
<1>1. CASE f \in UbFields
  <2> DEFINE n == f.value
             width == f.width
  <2>1. /\ f.type = "ub" /\ width \in {2, 4, 8} /\ n \in Seq(Byte) /\ Len(n) <= width /\ Minimal(n)
    BY <1>1 DEF UbFields
  <2>2. w = WriteUb(n) /\ r = ReadUb(buf, pos, width) /\ SkipField(f, buf, pos) = SkipUb(buf, pos)
    BY <2>1 DEF WriteField, ReadField, SkipField
  <2> HIDE DEF n, width
  <2>3. Len(n) <= 8
    <3> DEFINE k == Len(n)
    <3>1. k \in Nat /\ k <= width
      BY <2>1, LenProperties
    <3> HIDE DEF k
    <3>2. k <= 8
      BY <2>1, <3>1
    <3> QED BY <3>2 DEF k
  <2>4. WriteUb(n) \in Seq(Byte) /\ Len(WriteUb(n)) > 0
    <3>1. /\ WriteUb(n) \in Seq(Byte) /\ Len(WriteUb(n)) = UbWidth(Len(n)) + 1 /\ UbWidth(Len(n)) \in Byte
      BY <2>1, <2>3, UbBytes
    <3>2. UbWidth(Len(n)) + 1 > 0
      BY <3>1, ByteRange
    <3> QED BY <3>1, <3>2
  <2>5. StandsAt(buf, pos, WriteUb(n))
    BY <2>2
  <2>6. /\ ReadsAs(ReadUb(buf, pos, width), buf, pos, WriteUb(n), n)
        /\ SkipUb(buf, pos).pos = ReadUb(buf, pos, width).pos
    BY <2>1, <2>5, UbBack
  <2> QED BY <2>2, <2>4, <2>6 DEF n
<1>2. CASE f \in IntFields
  <2> DEFINE n == f.value.n
             negative == f.value.negative
             signed == f.signed
  <2>1. /\ f.type = "int" /\ signed \in BOOLEAN /\ negative \in BOOLEAN /\ n \in Seq(Byte)
        /\ Len(n) <= 8 /\ Minimal(n) /\ (negative => signed /\ n # <<>>)
        /\ f.value = [negative |-> negative, n |-> n]
    BY <1>2 DEF IntFields
  <2>2. w = WriteOracleInt(n, negative) /\ r = ReadOracleInt(buf, pos, signed) /\ SkipField(f, buf, pos) = r
    BY <2>1 DEF WriteField, ReadField, SkipField
  <2> HIDE DEF n, negative, signed
  <2>3. StandsAt(buf, pos, WriteOracleInt(n, negative))
    BY <2>2
  <2>4. /\ WriteOracleInt(n, negative) \in Seq(Byte) /\ Len(WriteOracleInt(n, negative)) > 0
        /\ ReadsAs(ReadOracleInt(buf, pos, signed), buf, pos, WriteOracleInt(n, negative),
                   [negative |-> negative, n |-> n])
    BY <2>1, <2>3, IntBack
  <2> QED BY <2>1, <2>2, <2>4
<1>3. CASE f \in DataFields
  <2> DEFINE d == f.value
  <2>1. /\ f.type \in {"bytes", "raw"} /\ d \in Seq(Byte) \cup {NoBytes}
        /\ (f.type = "raw" => d # NoBytes)
    BY <1>3, NoBytesApart DEF DataFields
  <2>2. /\ w = WriteBytesWithLength(d) /\ SkipField(f, buf, pos) = r
        /\ (f.type = "bytes" => r = ReadBytesWithLength(buf, pos))
        /\ (f.type = "raw" => r = ReadRawBytesChunked(buf, pos))
    BY <2>1 DEF WriteField, ReadField, SkipField
  <2> HIDE DEF d
  <2>3. StandsAt(buf, pos, WriteBytesWithLength(d))
    BY <2>2
  <2>4. /\ WriteBytesWithLength(d) \in Seq(Byte) /\ Len(WriteBytesWithLength(d)) > 0
        /\ ReadsAs(ReadBytesWithLength(buf, pos), buf, pos, WriteBytesWithLength(d), d)
        /\ d # NoBytes => ReadsAs(ReadRawBytesChunked(buf, pos), buf, pos, WriteBytesWithLength(d), d)
    BY <2>1, <2>3, DataBack
  <2> QED BY <2>1, <2>2, <2>4 DEF d
<1>4. CASE f \in StringFields
  <2> DEFINE d == f.value
  <2>1. /\ f.type = "string" /\ d \in Seq(Byte) \cup {NoBytes}
        /\ (d # NoBytes => d # <<>> /\ Len(d) \in UInt32)
    BY <1>4 DEF StringFields
  <2>2. /\ r = ReadStringWithUb4Length(buf, pos) /\ SkipField(f, buf, pos) = r
        /\ w = IF d = NoBytes THEN WriteUb(<<>>)
               ELSE WriteUb(BytesOf(Len(d))) \o WriteBytesWithLength(d)
    BY <2>1 DEF WriteField, ReadField, SkipField
  <2> HIDE DEF d
  <2>3. CASE d = NoBytes
    <3>1. StandsAt(buf, pos, WriteUb(<<>>)) /\ w = WriteUb(<<>>)
      BY <2>2, <2>3
    <3>2. ReadsAs(ReadStringWithUb4Length(buf, pos), buf, pos, WriteUb(<<>>), NoBytes)
      BY <3>1, NoStringBack
    <3>3. WriteUb(<<>>) \in Seq(Byte) /\ Len(WriteUb(<<>>)) > 0
      <4> DEFINE k == Len(WriteUb(<<>>))
      <4>1. WriteUb(<<>>) \in Seq(Byte) /\ k = 1
        BY NoBytesUb
      <4> HIDE DEF k
      <4>2. k > 0
        BY <4>1
      <4> QED BY <4>1, <4>2 DEF k
    <3> QED BY <2>2, <2>3, <3>1, <3>2, <3>3 DEF d
  <2>4. CASE d # NoBytes
    <3>1. /\ d \in Seq(Byte) /\ d # <<>> /\ Len(d) \in UInt32
          /\ w = WriteUb(BytesOf(Len(d))) \o WriteBytesWithLength(d)
      BY <2>1, <2>2, <2>4
    <3>2. StandsAt(buf, pos, WriteUb(BytesOf(Len(d))) \o WriteBytesWithLength(d))
      BY <3>1
    <3>3. LET x == WriteUb(BytesOf(Len(d))) \o WriteBytesWithLength(d)
          IN  /\ x \in Seq(Byte) /\ Len(x) > 0
              /\ ReadsAs(ReadStringWithUb4Length(buf, pos), buf, pos, x, d)
      BY <3>1, <3>2, StringBack
    <3> QED BY <2>2, <3>1, <3>3 DEF d
  <2> QED BY <2>3, <2>4
<1>5. CASE f \in FixedFields
  <2> DEFINE d == f.value
             k == f.width
  <2>1. f.type = "fixed" /\ d \in Seq(Byte) /\ k = Len(d) /\ d # <<>>
    BY <1>5 DEF FixedFields
  <2>2. w = d /\ r = ReadBytes(buf, pos, k) /\ SkipField(f, buf, pos) = r
    BY <2>1 DEF WriteField, ReadField, SkipField
  <2> HIDE DEF d, k
  <2>3. StandsAt(buf, pos, d) /\ Len(d) > 0
    BY <2>1, <2>2
  <2>4. ReadsAs(ReadBytes(buf, pos, Len(d)), buf, pos, d, d)
    BY <2>1, <2>3, BytesRead
  <2> QED BY <2>1, <2>2, <2>3, <2>4 DEF d
<1> QED BY <1>1, <1>2, <1>3, <1>4, <1>5 DEF WireFields

LEMMA FieldTyped ==
  ASSUME NEW f \in WireFields, ChunkSize \in UInt32 \ {0}
  PROVE  WriteField(f) \in Seq(Byte) /\ Len(WriteField(f)) \in Nat \ {0}
<1>1. StandsAt(<<>>, 0, WriteField(f)) /\ <<>> \in Seq(Byte) /\ 0 \in Nat
  BY DEF StandsAt
<1>2. WriteField(f) \in Seq(Byte) /\ Len(WriteField(f)) > 0
  BY <1>1, FieldBack
<1>3. Len(WriteField(f)) \in Nat
  BY <1>2, LenProperties
<1> QED BY <1>2, <1>3

\* The values of the first j fields.
Firsts(fields, j) == [i \in 1..j |-> fields[i].value]

\* Where the first j fields end.
Ends(fields, j) == Len(Flat([i \in DOMAIN fields |-> WriteField(fields[i])])[j])

LEMMA MessageEnds ==
  ASSUME NEW fields \in Seq(WireFields), ChunkSize \in UInt32 \ {0}
  PROVE  /\ Message(fields) \in Seq(Byte) /\ Ends(fields, 0) = 0
         /\ Ends(fields, Len(fields)) = Len(Message(fields))
         /\ \A i \in 0..Len(fields) : Ends(fields, i) \in Nat
         /\ \A i \in 1..Len(fields) :
              /\ Ends(fields, i) = Ends(fields, i - 1) + Len(WriteField(fields[i]))
              /\ Ends(fields, i) <= Len(Message(fields))
              /\ \A k \in 1..Len(WriteField(fields[i])) :
                   Message(fields)[Ends(fields, i - 1) + k] = WriteField(fields[i])[k]
<1> DEFINE n == Len(fields)
           s == [i \in DOMAIN fields |-> WriteField(fields[i])]
<1>0. n \in Nat /\ DOMAIN fields = 1..n /\ \A i \in 1..n : fields[i] \in WireFields
  BY LenProperties
<1>1. \A i \in 1..n : WriteField(fields[i]) \in Seq(Byte)
  BY <1>0, FieldTyped
<1>2. s \in Seq(Seq(Byte)) /\ Len(s) = n /\ \A i \in 1..n : s[i] = WriteField(fields[i])
  <2> HIDE DEF n
  <2> QED BY <1>0, <1>1
<1>3. Message(fields) = FlattenSeq(s) /\ \A i : Ends(fields, i) = Len(Flat(s)[i])
  BY DEF Message, Ends
<1> HIDE DEF s, n
<1>4. \A i \in 0..n : Flat(s)[i] \in Seq(Byte)
  BY <1>2, FlatRun
<1>5. Flat(s)[0] = <<>> /\ FlattenSeq(s) = Flat(s)[n]
  BY <1>2, FlatRun, FlattenIsFlat
<1>6. ASSUME NEW i \in 1..n PROVE Gathers(s, i)
  BY <1>2, FlatGrows
<1>7. 0 \in 0..n /\ n \in 0..n
  BY <1>0
<1>8. ASSUME NEW i \in 0..n PROVE Ends(fields, i) \in Nat
  BY <1>3, <1>4, LenProperties
<1>9. Message(fields) \in Seq(Byte) /\ Ends(fields, 0) = 0 /\ Ends(fields, n) = Len(Message(fields))
  BY <1>3, <1>4, <1>5, <1>7
<1>10. ASSUME NEW i \in 1..n
       PROVE  /\ Ends(fields, i) = Ends(fields, i - 1) + Len(WriteField(fields[i]))
              /\ Ends(fields, i) <= Len(Message(fields))
              /\ \A k \in 1..Len(WriteField(fields[i])) :
                   Message(fields)[Ends(fields, i - 1) + k] = WriteField(fields[i])[k]
  <2>1. /\ Len(Flat(s)[i]) = Len(Flat(s)[i - 1]) + Len(s[i])
        /\ Len(Flat(s)[i]) <= Len(FlattenSeq(s))
        /\ \A k \in 1..Len(s[i]) : FlattenSeq(s)[Len(Flat(s)[i - 1]) + k] = s[i][k]
    BY <1>6 DEF Gathers
  <2>2. /\ s[i] = WriteField(fields[i]) /\ Ends(fields, i) = Len(Flat(s)[i])
        /\ Ends(fields, i - 1) = Len(Flat(s)[i - 1])
    BY <1>2, <1>3
  <2> QED BY <1>3, <2>1, <2>2
<1> QED BY <1>8, <1>9, <1>10 DEF n

\* Where the reading of the fields may be after i of them: behind them all, or stopped before one
\* that the buffer does not hold.
States(fields) ==
  {[ok |-> b, value |-> Firsts(fields, j), pos |-> Ends(fields, j)] : b \in BOOLEAN, j \in 0..Len(fields)}

ReadUpTo(st, fields, buf, i) ==
  \/ /\ st = [ok |-> TRUE, value |-> Firsts(fields, i), pos |-> Ends(fields, i)]
     /\ Ends(fields, i) <= Len(buf)
  \/ /\ \E j \in 0..Len(fields) : st = [ok |-> FALSE, value |-> Firsts(fields, j), pos |-> Ends(fields, j)]
     /\ ~(Ends(fields, i) <= Len(buf))

LEMMA FirstsGrow ==
  ASSUME NEW fields, NEW i \in Nat \ {0}
  PROVE  Append(Firsts(fields, i - 1), fields[i].value) = Firsts(fields, i)
<1> DEFINE V == {fields[k].value : k \in 1..i}
           a == Firsts(fields, i - 1)
           b == Firsts(fields, i)
<1>1. i - 1 \in Nat /\ (i - 1) + 1 = i /\ i \in Nat /\ i \in 1..i
  OBVIOUS
<1>2. \A k \in 1..(i - 1) : k \in 1..i
  OBVIOUS
<1>3. a \in Seq(V) /\ Len(a) = i - 1 /\ \A k \in 1..(i - 1) : a[k] = fields[k].value
  BY <1>1, <1>2 DEF Firsts
<1>4. b \in Seq(V) /\ Len(b) = i /\ \A k \in 1..i : b[k] = fields[k].value
  BY <1>1 DEF Firsts
<1>5. fields[i].value \in V
  BY <1>1
<1> DEFINE c == Append(a, fields[i].value)
<1>6. /\ c \in Seq(V) /\ Len(c) = (i - 1) + 1 /\ \A k \in 1..(i - 1) : c[k] = a[k]
      /\ c[(i - 1) + 1] = fields[i].value
  <2> HIDE DEF a, V
  <2> QED BY <1>3, <1>5, AppendProperties
<1> HIDE DEF a, b, c, V
<1>7. ASSUME NEW k \in 1..i PROVE c[k] = b[k]
  <2>1. CASE k = i
    BY <1>1, <1>4, <1>6, <2>1
  <2>2. CASE k # i
    <3>1. k \in 1..(i - 1)
      BY <2>2
    <3> QED BY <1>3, <1>4, <1>6, <3>1
  <2> QED BY <2>1, <2>2
<1>8. c = b
  <2>1. Len(c) = Len(b) /\ \A k \in 1..Len(c) : c[k] = b[k]
    BY <1>1, <1>4, <1>6, <1>7
  <2> QED BY <1>4, <1>6, <2>1, SeqEqual
<1> QED BY <1>8 DEF c, a, b

LEMMA NextField ==
  ASSUME NEW fields \in Seq(WireFields), NEW buf \in Seq(Byte), ChunkSize \in UInt32 \ {0},
         StandsAt(buf, 0, Message(fields)),
         NEW i \in 1..Len(fields), NEW st, ReadUpTo(st, fields, buf, i - 1)
  PROVE  ReadUpTo(ReadNext(st, fields[i], buf), fields, buf, i)
<1> DEFINE n == Len(fields)
           w == WriteField(fields[i])
           e == Ends(fields, i - 1)
           e2 == Ends(fields, i)
           msg == Message(fields)
           r == ReadField(fields[i], buf, st.pos)
<1>0. /\ n \in Nat /\ fields[i] \in WireFields /\ Len(buf) \in Nat /\ w \in Seq(Byte) /\ Len(w) \in Nat
      /\ i - 1 \in 0..n /\ i \in 0..n /\ i \in Nat \ {0}
  <2>1. n \in Nat /\ fields[i] \in WireFields /\ Len(buf) \in Nat
    BY LenProperties
  <2> QED BY <2>1, FieldTyped
<1>1. /\ e \in Nat /\ e2 \in Nat /\ e2 = e + Len(w) /\ e2 <= Len(msg)
      /\ \A k \in 1..Len(w) : msg[e + k] = w[k]
  BY <1>0, MessageEnds
<1>2. \A k \in 1..Len(msg) : k <= Len(buf) => buf[k] = msg[k]
  <2>1. \A k \in 1..Len(msg) : 0 + k <= Len(buf) => buf[0 + k] = msg[k]
    BY DEF StandsAt
  <2>2. Len(msg) \in Nat
    BY MessageEnds, LenProperties
  <2>3. \A k \in 1..Len(msg) : 0 + k = k
    BY <2>2
  <2> HIDE DEF msg
  <2> QED BY <2>1, <2>3
<1> HIDE DEF e, e2, w, msg, n
<1>3. CASE st = [ok |-> TRUE, value |-> Firsts(fields, i - 1), pos |-> e] /\ e <= Len(buf)
  <2>1. StandsAt(buf, e, w)
    <3>1. ASSUME NEW k \in 1..Len(w), e + k <= Len(buf) PROVE buf[e + k] = w[k]
      <4>1. e + k \in 1..Len(msg)
        <5> DEFINE a == Len(msg)
                   b == Len(w)
        <5>1. a \in Nat /\ b \in Nat /\ e + b <= a
          BY <1>0, <1>1, MessageEnds, LenProperties DEF msg
        <5> HIDE DEF a, b
        <5>2. e + k \in 1..a
          BY <1>1, <5>1 DEF b
        <5> QED BY <5>2 DEF a
      <4> QED BY <1>1, <1>2, <3>1, <4>1
    <3> QED BY <1>3, <3>1 DEF StandsAt
  <2>2. ReadsAs(r, buf, e, w, fields[i].value)
    <3>1. st.pos = e
      BY <1>3
    <3>2. ReadsAs(ReadField(fields[i], buf, e), buf, e, w, fields[i].value)
      BY <1>0, <1>1, <2>1, FieldBack DEF w
    <3> QED BY <3>1, <3>2
  <2> HIDE DEF r
  <2>3. ReadNext(st, fields[i], buf)
          = IF st.ok /\ r.ok THEN [ok |-> TRUE, value |-> Append(st.value, r.value), pos |-> r.pos]
            ELSE [st EXCEPT !.ok = FALSE]
    BY DEF ReadNext, r
  <2>4. CASE e2 <= Len(buf)
    <3>1. r = [ok |-> TRUE, value |-> fields[i].value, pos |-> e2]
      BY <1>1, <2>2, <2>4 DEF ReadsAs
    <3>2. ReadNext(st, fields[i], buf)
            = [ok |-> TRUE, value |-> Append(Firsts(fields, i - 1), fields[i].value), pos |-> e2]
      BY <1>3, <2>3, <3>1
    <3>3. Append(Firsts(fields, i - 1), fields[i].value) = Firsts(fields, i)
      BY <1>0, FirstsGrow
    <3>4. ReadNext(st, fields[i], buf) = [ok |-> TRUE, value |-> Firsts(fields, i), pos |-> e2]
      BY <3>2, <3>3
    <3> QED BY <2>4, <3>4 DEF ReadUpTo, e2
  <2>5. CASE ~(e2 <= Len(buf))
    <3>1. r = ReadErr
      BY <1>1, <2>2, <2>5 DEF ReadsAs
    <3>2. r.ok = FALSE
      BY <3>1 DEF ReadErr
    <3> DEFINE st2 == ReadNext(st, fields[i], buf)
    <3>3. st2 = [st EXCEPT !.ok = FALSE]
      BY <2>3, <3>2
    <3> HIDE DEF st2
    <3>4. st2 = [ok |-> FALSE, value |-> Firsts(fields, i - 1), pos |-> e]
      BY <1>3, <3>3
    <3>5. i - 1 \in 0..Len(fields)
      BY <1>0 DEF n
    <3>6. ReadUpTo(st2, fields, buf, i)
      BY <2>5, <3>4, <3>5 DEF ReadUpTo, e, e2
    <3> QED BY <3>6 DEF st2
  <2> QED BY <2>4, <2>5
<1>4. CASE /\ \E j \in 0..n : st = [ok |-> FALSE, value |-> Firsts(fields, j), pos |-> Ends(fields, j)]
           /\ ~(e <= Len(buf))
  <2>1. PICK j \in 0..n : st = [ok |-> FALSE, value |-> Firsts(fields, j), pos |-> Ends(fields, j)]
    BY <1>4
  <2> DEFINE st2 == ReadNext(st, fields[i], buf)
  <2>2. st.ok = FALSE
    BY <2>1
  <2>3. st2 = [st EXCEPT !.ok = FALSE]
    BY <2>2 DEF ReadNext
  <2> HIDE DEF st2
  <2>4. st2 = [ok |-> FALSE, value |-> Firsts(fields, j), pos |-> Ends(fields, j)]
    BY <2>1, <2>3
  <2>5. ~(e2 <= Len(buf))
    BY <1>0, <1>1, <1>4
  <2>6. ReadUpTo(st2, fields, buf, i)
    BY <2>4, <2>5 DEF ReadUpTo, e2, n
  <2> QED BY <2>6 DEF st2
<1> QED BY <1>3, <1>4 DEF ReadUpTo, e, n

\* The fields of a message, read from a buffer that holds its beginning.
LEMMA FieldsRead ==
  ASSUME NEW fields \in Seq(WireFields), NEW buf \in Seq(Byte), ChunkSize \in UInt32 \ {0},
         StandsAt(buf, 0, Message(fields))
  PROVE  ReadUpTo(ReadFields(fields, buf), fields, buf, Len(fields))
<1> DEFINE n == Len(fields)
           S == States(fields)
           st0 == [ok |-> TRUE, value |-> <<>>, pos |-> 0]
           F == [p \in (1..n) \X S |-> IF ReadNext(p[2], fields[p[1]], buf) \in S
                                       THEN ReadNext(p[2], fields[p[1]], buf) ELSE p[2]]
           Body(f) == [i \in 0..n |-> IF i = 0 THEN st0 ELSE ReadNext(f[i - 1], fields[i], buf)]
           g == CHOOSE f : f = Body(f)
           Good(st, i) == ReadUpTo(st, fields, buf, i)
<1>0. n \in Nat /\ 0 \in 0..n /\ n \in 0..n /\ Len(buf) \in Nat
  BY LenProperties
<1>1. Good(st0, 0)
  <2>1. Ends(fields, 0) = 0
    BY MessageEnds
  <2>2. Firsts(fields, 0) = <<>>
    BY DEF Firsts
  <2>3. 0 <= Len(buf)
    BY <1>0
  <2> QED BY <2>1, <2>2, <2>3 DEF ReadUpTo
<1>2. ASSUME NEW i \in 0..n, NEW st, Good(st, i) PROVE st \in S
  <2>1. \E b \in BOOLEAN, j \in 0..n :
          st = [ok |-> b, value |-> Firsts(fields, j), pos |-> Ends(fields, j)]
    <3>1. CASE st = [ok |-> TRUE, value |-> Firsts(fields, i), pos |-> Ends(fields, i)]
      BY <3>1
    <3>2. CASE \E j \in 0..n : st = [ok |-> FALSE, value |-> Firsts(fields, j), pos |-> Ends(fields, j)]
      BY <3>2
    <3> QED BY <1>2, <3>1, <3>2 DEF ReadUpTo
  <2> QED BY <2>1 DEF States
<1>3. ASSUME NEW i \in 1..n, NEW st, Good(st, i - 1) PROVE Good(ReadNext(st, fields[i], buf), i)
  BY <1>3, NextField
<1>4. st0 \in S
  BY <1>0, <1>1, <1>2
<1>5. F \in [(1..n) \X S -> S]
  <2> HIDE DEF S, n
  <2> QED OBVIOUS
<1> HIDE DEF Good
<1>6. PICK f : IsRun(f, n, S, st0, F)
  <2> HIDE DEF F, n, S, st0
  <2> QED BY <1>0, <1>4, <1>5, RunExists
<1>7. f[0] = st0 /\ \A i \in 1..n : f[i] = F[<<i, f[i - 1]>>]
  <2> HIDE DEF F, n, S, st0
  <2> QED BY <1>6 DEF IsRun
<1>8. ASSUME NEW i \in 1..n, Good(f[i - 1], i - 1)
      PROVE  f[i] = ReadNext(f[i - 1], fields[i], buf) /\ Good(f[i], i)
  <2>1. i - 1 \in 0..n /\ i \in 0..n
    BY <1>0
  <2>2. Good(ReadNext(f[i - 1], fields[i], buf), i)
    BY <1>3, <1>8
  <2>3. f[i - 1] \in S /\ ReadNext(f[i - 1], fields[i], buf) \in S
    BY <1>2, <1>8, <2>1, <2>2
  <2>4. <<i, f[i - 1]>> \in (1..n) \X S
    BY <2>3
  <2>5. F[<<i, f[i - 1]>>] = ReadNext(f[i - 1], fields[i], buf)
    <3> HIDE DEF S, n
    <3> QED BY <2>3, <2>4
  <2>6. f[i] = ReadNext(f[i - 1], fields[i], buf)
    <3> HIDE DEF F, S, n
    <3> QED BY <1>7, <2>5
  <2> QED BY <2>2, <2>6
<1>9. \A i \in 0..n : Good(f[i], i)
  <2> DEFINE T == {i \in 0..n : Good(f[i], i)}
  <2>1. 0 \in T
    BY <1>0, <1>1, <1>7
  <2>2. ASSUME NEW i \in 1..n, i - 1 \in T PROVE i \in T
    <3>1. Good(f[i - 1], i - 1) /\ i \in 0..n
      BY <1>0, <2>2
    <3> QED BY <1>8, <3>1
  <2> HIDE DEF T, n
  <2>3. \A i \in 0..n : i \in T
    BY <1>0, <2>1, <2>2, UpToInduction
  <2> QED BY <2>3 DEF T
<1>10. f = Body(f)
  <2>1. f = [i \in 0..n |-> IF i = 0 THEN st0 ELSE F[<<i, f[i - 1]>>]]
    <3> HIDE DEF F, n, S, st0
    <3> QED BY <1>0, <1>4, <1>6, RunUnfolds
  <2>2. ASSUME NEW i \in 0..n, i # 0 PROVE F[<<i, f[i - 1]>>] = ReadNext(f[i - 1], fields[i], buf)
    <3>1. i \in 1..n /\ i - 1 \in 0..n
      BY <1>0, <2>2
    <3>2. f[i] = F[<<i, f[i - 1]>>] /\ Good(f[i - 1], i - 1)
      BY <1>7, <1>9, <3>1
    <3> QED BY <1>8, <3>1, <3>2
  <2> HIDE DEF F, n, S, st0
  <2> QED BY <2>1, <2>2
<1>11. g = Body(g)
  <2> HIDE DEF Body
  <2> QED BY <1>10
<1>12. ReadFields(fields, buf) = g[n]
  BY DEF ReadFields
<1> HIDE DEF g
<1>13. g[0] = st0 /\ \A i \in 1..n : g[i] = ReadNext(g[i - 1], fields[i], buf)
  <2>1. \A i \in 1..n : i \in 0..n /\ i # 0
    BY <1>0
  <2> HIDE DEF n, st0
  <2> QED BY <1>0, <1>11, <2>1
<1>14. \A i \in 0..n : Good(g[i], i)
  <2> DEFINE T == {i \in 0..n : Good(g[i], i)}
  <2>1. 0 \in T
    BY <1>0, <1>1, <1>13
  <2>2. ASSUME NEW i \in 1..n, i - 1 \in T PROVE i \in T
    <3>1. Good(g[i - 1], i - 1) /\ i \in 0..n
      BY <1>0, <2>2
    <3>2. Good(ReadNext(g[i - 1], fields[i], buf), i)
      BY <1>3, <3>1
    <3> QED BY <1>13, <3>1, <3>2
  <2> HIDE DEF T, n
  <2>3. \A i \in 0..n : i \in T
    BY <1>0, <2>1, <2>2, UpToInduction
  <2> QED BY <2>3 DEF T
<1>15. Good(ReadFields(fields, buf), n)
  BY <1>0, <1>12, <1>14
<1> QED BY <1>15 DEF Good

\* Whole, the message gives all its values; cut short, an Err behind the values before the cut.
LEMMA WholeRead ==
  ASSUME NEW fields \in Seq(WireFields), ChunkSize \in UInt32 \ {0}
  PROVE  ReadFields(fields, Message(fields))
           = [ok |-> TRUE, value |-> Values(fields), pos |-> Len(Message(fields))]
<1> DEFINE buf == Message(fields)
           n == Len(fields)
<1>1. buf \in Seq(Byte) /\ Ends(fields, n) = Len(buf) /\ Len(buf) \in Nat
  BY MessageEnds, LenProperties
<1>2. StandsAt(buf, 0, buf)
  BY <1>1 DEF StandsAt
<1>3. ReadUpTo(ReadFields(fields, buf), fields, buf, n)
  BY <1>1, <1>2, FieldsRead
<1>4. Firsts(fields, n) = Values(fields)
  <2>1. DOMAIN fields = 1..n
    BY LenProperties
  <2> QED BY <2>1 DEF Firsts, Values
<1>5. Ends(fields, n) <= Len(buf)
  BY <1>1
<1> HIDE DEF buf, n
<1>6. ReadFields(fields, buf) = [ok |-> TRUE, value |-> Firsts(fields, n), pos |-> Ends(fields, n)]
  BY <1>3, <1>5 DEF ReadUpTo
<1>7. ReadFields(fields, buf) = [ok |-> TRUE, value |-> Values(fields), pos |-> Len(buf)]
  BY <1>1, <1>4, <1>6
<1> QED BY <1>7 DEF buf

LEMMA FirstsPrefix ==
  ASSUME NEW fields \in Seq(WireFields), NEW j \in 0..Len(fields)
  PROVE  IsPrefix(Firsts(fields, j), Values(fields))
<1> DEFINE n == Len(fields)
           V == {fields[k].value : k \in 1..n}
           a == Firsts(fields, j)
           b == Values(fields)
<1>0. n \in Nat /\ j \in Nat /\ j <= n /\ DOMAIN fields = 1..n /\ \A k \in 1..j : k \in 1..n
  BY LenProperties
<1>1. a \in Seq(V) /\ Len(a) = j /\ \A k \in 1..j : a[k] = fields[k].value
  <2> HIDE DEF n
  <2> QED BY <1>0 DEF Firsts
<1>2. b \in Seq(V) /\ Len(b) = n /\ \A k \in 1..n : b[k] = fields[k].value
  <2> HIDE DEF n
  <2> QED BY <1>0 DEF Values
<1> HIDE DEF a, b, V, n
<1>3. SubSeq(a, 1, j) = SubSeq(b, 1, j)
  <2> DEFINE c == SubSeq(a, 1, j)
             d == SubSeq(b, 1, j)
  <2>1. /\ 1 \in Int /\ j \in Int /\ (IF 1 <= j THEN j - 1 + 1 ELSE 0) = j /\ j - 1 + 1 = j
        /\ \A k \in 1..j : 1 + k - 1 = k /\ a[k] \in V /\ b[k] \in V
    BY <1>0, <1>1, <1>2, ElementOfSeq
  <2>2. c \in Seq(V) /\ Len(c) = j /\ \A k \in 1..j : c[k] = a[k]
    <3>1. /\ c \in Seq(V) /\ Len(c) = (IF 1 <= j THEN j - 1 + 1 ELSE 0)
          /\ \A k \in 1..(j - 1 + 1) : c[k] = a[1 + k - 1]
      BY <1>1, <2>1, SubSeqProperties
    <3> HIDE DEF c
    <3> QED BY <2>1, <3>1
  <2>3. d \in Seq(V) /\ Len(d) = j /\ \A k \in 1..j : d[k] = b[k]
    <3>1. /\ d \in Seq(V) /\ Len(d) = (IF 1 <= j THEN j - 1 + 1 ELSE 0)
          /\ \A k \in 1..(j - 1 + 1) : d[k] = b[1 + k - 1]
      BY <1>2, <2>1, SubSeqProperties
    <3> HIDE DEF d
    <3> QED BY <2>1, <3>1
  <2> HIDE DEF c, d
  <2>4. Len(c) = Len(d) /\ \A k \in 1..Len(c) : c[k] = d[k]
    BY <1>0, <1>1, <1>2, <2>2, <2>3
  <2>5. c = d
    BY <2>2, <2>3, <2>4, SeqEqual
  <2> QED BY <2>5 DEF c, d
<1>4. Len(a) <= Len(b)
  BY <1>0, <1>1, <1>2
<1> QED BY <1>1, <1>3, <1>4 DEF IsPrefix, a, b

LEMMA CutRead ==
  ASSUME NEW fields \in Seq(WireFields), ChunkSize \in UInt32 \ {0},
         NEW cut \in 1..Len(Message(fields))
  PROVE  LET short == ReadFields(fields, SubSeq(Message(fields), 1, Len(Message(fields)) - cut))
         IN  ~short.ok /\ IsPrefix(short.value, Values(fields))
<1> DEFINE msg == Message(fields)
           n == Len(fields)
           m == Len(msg)
           buf == SubSeq(msg, 1, m - cut)
           short == ReadFields(fields, buf)
<1>1. msg \in Seq(Byte) /\ Ends(fields, n) = m /\ m \in Nat
  BY MessageEnds, LenProperties
<1>2. m - cut \in Nat /\ m - cut < m /\ cut \in 1..m
  BY <1>1
<1>3. buf \in Seq(Byte) /\ Len(buf) = m - cut /\ \A k \in 1..(m - cut) : buf[k] = msg[k]
  <2> DEFINE h == m - cut
  <2>1. h \in Nat /\ h <= m
    BY <1>1, <1>2
  <2> HIDE DEF h
  <2>2. /\ 1 \in Nat /\ 1 <= 1 /\ 1 <= h + 1 /\ h <= Len(msg) /\ h - 1 + 1 = h
        /\ \A k \in 1..h : 1 + k - 1 = k
    BY <2>1
  <2>3. /\ SubSeq(msg, 1, h) \in Seq(Byte) /\ Len(SubSeq(msg, 1, h)) = h - 1 + 1
        /\ \A k \in 1..(h - 1 + 1) : SubSeq(msg, 1, h)[k] = msg[1 + k - 1]
    BY <1>1, <2>1, <2>2, Slice
  <2> QED BY <2>2, <2>3 DEF h
<1> HIDE DEF msg, m, buf, n
<1>4. StandsAt(buf, 0, msg)
  <2>1. 0 <= Len(buf)
    BY <1>2, <1>3
  <2>2. ASSUME NEW k \in 1..m, 0 + k <= Len(buf) PROVE buf[0 + k] = msg[k]
    <3>1. 0 + k = k /\ k \in 1..(m - cut)
      BY <1>1, <1>2, <1>3, <2>2
    <3> QED BY <1>3, <3>1
  <2> QED BY <2>1, <2>2 DEF StandsAt, m
<1>5. ReadUpTo(short, fields, buf, n)
  BY <1>3, <1>4, FieldsRead DEF msg, n
<1>6. ~(Ends(fields, n) <= Len(buf))
  BY <1>1, <1>2, <1>3
<1> HIDE DEF short
<1>7. PICK j \in 0..Len(fields) : short = [ok |-> FALSE, value |-> Firsts(fields, j), pos |-> Ends(fields, j)]
  BY <1>5, <1>6 DEF ReadUpTo
<1>8. ~short.ok /\ short.value = Firsts(fields, j)
  BY <1>7
<1>9. IsPrefix(short.value, Values(fields))
  BY <1>8, FirstsPrefix
<1> QED BY <1>8, <1>9 DEF short, buf, m, msg

----------------------------------------------------------------------------
\* The message, through the packets

\* The parts of packets one behind the other are the payload.
LEMMA PacketsJoined ==
  ASSUME NEW payload \in Seq(Byte), NEW large \in BOOLEAN, NEW sdu \in Sdus(large)
  PROVE  Joined(SendMultiPacket(payload, sdu, large)) = payload
<1> DEFINE packets == SendMultiPacket(payload, sdu, large)
           m == sdu - PACKET_HEADER_SIZE - 2
           n == Len(payload)
           k == Len(packets)
           s == [i \in DOMAIN packets |-> packets[i].part]
           e(i) == Len(Flat(s)[i])
<1>0. n \in Nat /\ m \in Nat \ {0}
  <2>1. sdu \in Int /\ 10 < sdu
    BY DEF Sdus
  <2> HIDE DEF packets
  <2> QED BY <2>1, LenProperties DEF PACKET_HEADER_SIZE
<1>1. PartsInOrder(payload, packets, m) /\ (n > 0 <=> k > 0)
  BY PacketsExact
<1>2. k \in Nat /\ DOMAIN packets = 1..k
  <2>1. packets = [i \in 1..((n + m - 1) \div m) |-> packets[i]]
    BY DEF SendMultiPacket
  <2>2. (n + m - 1) \div m \in Nat
    <3> HIDE DEF n, m
    <3> QED BY <1>0, PacketCuts
  <2> HIDE DEF packets
  <2> QED BY <2>1, <2>2
<1> HIDE DEF packets
<1>3. \A i \in 1..k : /\ packets[i].part \in Seq(Byte)
                      /\ Len(packets[i].part) = IF i # k THEN m ELSE n - (i - 1) * m
                      /\ \A j \in 1..Len(packets[i].part) :
                           packets[i].part[j] = payload[(i - 1) * m + j]
  BY <1>1, <1>2 DEF PartsInOrder
<1>4. s \in Seq(Seq(Byte)) /\ Len(s) = k /\ \A i \in 1..k : s[i] = packets[i].part
  <2> HIDE DEF k
  <2> QED BY <1>2, <1>3
<1> HIDE DEF s, k, m, n
<1>5. Flat(s)[0] = <<>> /\ FlattenSeq(s) = Flat(s)[k] /\ \A i \in 0..k : Flat(s)[i] \in Seq(Byte)
  BY <1>4, FlatRun, FlattenIsFlat
<1> DEFINE Prefix(i) == /\ e(i) = IF i # k \/ i = 0 THEN i * m ELSE n
                        /\ \A p \in 1..e(i) : Flat(s)[i][p] = payload[p]
<1>6. Prefix(0)
  <2>1. 0 * m = 0
    BY <1>0, SMT
  <2>2. e(0) = 0
    BY <1>5
  <2> QED BY <2>1, <2>2
<1>7. ASSUME NEW i \in 1..k, Prefix(i - 1) PROVE Prefix(i)
  <2> DEFINE a == Flat(s)[i - 1]
             b == s[i]
             h == (i - 1) * m
  <2>1. i - 1 \in 0..k /\ i - 1 # k /\ i \in 0..k /\ i \in Nat /\ i # 0
    BY <1>2
  <2>2. Flat(s)[i] = a \o b /\ a \in Seq(Byte) /\ b \in Seq(Byte)
    <3>1. Flat(s)[i] = a \o b
      BY <1>4, FlatRun
    <3> QED BY <1>3, <1>4, <1>5, <2>1, <3>1
  <2>3. e(i - 1) = h /\ \A p \in 1..h : a[p] = payload[p]
    BY <1>7, <2>1
  <2>4. /\ Len(b) = (IF i # k THEN m ELSE n - h) /\ Len(a) = h
        /\ \A j \in 1..Len(b) : b[j] = payload[h + j]
    <3>1. packets[i].part = b
      BY <1>4
    <3>2. Len(packets[i].part) = IF i # k THEN m ELSE n - (i - 1) * m
      BY <1>3
    <3>3. \A j \in 1..Len(packets[i].part) : packets[i].part[j] = payload[(i - 1) * m + j]
      BY <1>3
    <3>4. Len(a) = h
      BY <2>3 DEF e, a
    <3> HIDE DEF b
    <3>5. Len(b) = (IF i # k THEN m ELSE n - h) /\ \A j \in 1..Len(b) : b[j] = payload[h + j]
      BY <3>1, <3>2, <3>3
    <3> QED BY <3>4, <3>5
  <2>5. /\ Len(a \o b) = Len(a) + Len(b)
        /\ \A p \in 1..Len(a) + Len(b) : (a \o b)[p] = IF p <= Len(a) THEN a[p] ELSE b[p - Len(a)]
        /\ Len(a) \in Nat /\ Len(b) \in Nat
    <3> HIDE DEF a, b
    <3> QED BY <2>2, ConcatProperties, LenProperties
  <2>6. i * m = h + m
    BY <1>0, <2>1, SMT
  <2> HIDE DEF a, b, h
  <2>7. e(i) = Len(a) + Len(b) /\ Flat(s)[i] = a \o b
    BY <2>2, <2>5
  <2>8. e(i) = IF i # k \/ i = 0 THEN i * m ELSE n
    <3> DEFINE im == i * m
    <3>1. im = h + m
      BY <2>6
    <3> HIDE DEF im
    <3>2. e(i) = h + Len(b)
      BY <2>4, <2>7
    <3> HIDE DEF e
    <3>3. h \in Nat
      BY <2>4, <2>5
    <3>4. e(i) = IF i # k THEN im ELSE n
      BY <1>0, <2>4, <3>1, <3>2, <3>3
    <3> QED BY <2>1, <3>4 DEF im
  <2>9. ASSUME NEW p \in 1..e(i) PROVE Flat(s)[i][p] = payload[p]
    <3>0. p \in 1..Len(a) + Len(b)
      BY <2>7
    <3>1. CASE p <= Len(a)
      <4>1. p \in 1..h
        BY <2>4, <2>5, <3>0, <3>1
      <4> QED BY <2>3, <2>5, <2>7, <3>0, <3>1, <4>1
    <3>2. CASE ~(p <= Len(a))
      <4>1. p - Len(a) \in 1..Len(b) /\ h + (p - Len(a)) = p
        BY <2>4, <2>5, <3>0, <3>2
      <4> QED BY <2>4, <2>5, <2>7, <3>0, <3>2, <4>1
    <3> QED BY <3>1, <3>2
  <2> QED BY <2>8, <2>9
<1>8. Prefix(k)
  <2> DEFINE T == {i \in 0..k : Prefix(i)}
  <2>1. 0 \in T
    BY <1>2, <1>6
  <2>2. ASSUME NEW i \in 1..k, i - 1 \in T PROVE i \in T
    <3>1. Prefix(i - 1) /\ i \in 0..k
      BY <1>2, <2>2
    <3> HIDE DEF Prefix
    <3> QED BY <1>7, <3>1
  <2> HIDE DEF T
  <2>3. \A i \in 0..k : i \in T
    BY <1>2, <2>1, <2>2, UpToInduction
  <2> HIDE DEF Prefix
  <2>4. k \in 0..k
    BY <1>2
  <2> QED BY <2>3, <2>4 DEF T
<1>9. e(k) = n
  <2>1. CASE k = 0
    <3>1. n = 0
      BY <1>0, <1>1, <2>1 DEF n, k
    <3> QED BY <1>5, <2>1, <3>1
  <2>2. CASE k # 0
    BY <1>8, <2>2
  <2> QED BY <2>1, <2>2
<1>10. Flat(s)[k] = payload
  <2> DEFINE w == Flat(s)[k]
  <2>1. w \in Seq(Byte)
    BY <1>2, <1>5
  <2>2. Len(w) = Len(payload) /\ \A p \in 1..Len(w) : w[p] = payload[p]
    BY <1>8, <1>9 DEF n
  <2> HIDE DEF w
  <2>3. w = payload
    BY <2>1, <2>2, SeqEqual
  <2> QED BY <2>3 DEF w
<1>11. Joined(packets) = FlattenSeq(s)
  BY DEF Joined, s
<1> QED BY <1>5, <1>10, <1>11 DEF packets

(***************************************************************************)
(* WriteBuffer, send_multi_packet and ReadBuffer: whatever fields are      *)
(* written, in whatever chunks and packets, they are read back with their  *)
(* values to the last byte, a skip ends where the read does, and a message *)
(* cut short is an Err behind the fields before the cut.                   *)
(***************************************************************************)
THEOREM FieldsAlwaysReadBack ==
  ASSUME ChunkSize \in UInt32 \ {0}
  PROVE  \A fields \in Seq(WireFields) \ {<<>>}, large \in BOOLEAN, cut \in Nat :
           \A sdu \in Sdus(large) : FieldsReadBack(fields, sdu, large, cut)
<1> SUFFICES ASSUME NEW fields \in Seq(WireFields) \ {<<>>}, NEW large \in BOOLEAN, NEW cut \in Nat,
                    NEW sdu \in Sdus(large)
             PROVE  FieldsReadBack(fields, sdu, large, cut)
  OBVIOUS
<1> DEFINE msg == Message(fields)
           packets == SendMultiPacket(msg, sdu, large)
           buf == Joined(packets)
           result == ReadFields(fields, buf)
           short == ReadFields(fields, SubSeq(buf, 1, Len(buf) - cut))
<1>1. msg \in Seq(Byte)
  BY MessageEnds
<1>2. buf = msg
  <2> HIDE DEF msg
  <2> QED BY <1>1, PacketsJoined
<1>3. PacketsAnnounced(packets, sdu, large)
  <2> HIDE DEF msg
  <2> QED BY <1>1, PacketsExact
<1> HIDE DEF packets, buf
<1>4. result.ok /\ result.value = Values(fields) /\ result.pos = Len(buf)
  <2>1. ReadFields(fields, msg) = [ok |-> TRUE, value |-> Values(fields), pos |-> Len(msg)]
    BY WholeRead
  <2> HIDE DEF msg
  <2> QED BY <1>2, <2>1
<1>5. SkipField(fields[1], buf, 0).pos = ReadField(fields[1], buf, 0).pos
  <2>1. fields \in Seq(WireFields) /\ 1 \in 1..Len(fields)
    BY EmptySeq, LenProperties
  <2>2. fields[1] \in WireFields
    BY <2>1, ElementOfSeq
  <2> DEFINE w == WriteField(fields[1])
  <2>3. StandsAt(msg, 0, w)
    <3>1. /\ Ends(fields, 0) = 0 /\ Ends(fields, 1 - 1) \in Nat
          /\ \A j \in 1..Len(w) : msg[Ends(fields, 1 - 1) + j] = w[j]
      <4>1. 1 - 1 = 0 /\ 0 \in 0..Len(fields)
        BY <2>1, LenProperties
      <4> HIDE DEF w, msg
      <4> QED BY <2>1, <4>1, MessageEnds DEF w, msg
    <3>2. Len(msg) \in Nat /\ 0 <= Len(msg)
      BY <1>1, LenProperties
    <3> HIDE DEF w, msg
    <3> QED BY <3>1, <3>2 DEF StandsAt
  <2>4. SkipField(fields[1], msg, 0).pos = ReadField(fields[1], msg, 0).pos
    <3> HIDE DEF msg
    <3> QED BY <1>1, <2>2, <2>3, FieldBack
  <2> HIDE DEF msg
  <2> QED BY <1>2, <2>4
<1>6. ASSUME cut \in 1..Len(buf) PROVE ~short.ok /\ IsPrefix(short.value, Values(fields))
  <2>1. cut \in 1..Len(msg)
    BY <1>2, <1>6
  <2>2. LET sh == ReadFields(fields, SubSeq(msg, 1, Len(msg) - cut))
        IN  ~sh.ok /\ IsPrefix(sh.value, Values(fields))
    BY <2>1, CutRead
  <2> HIDE DEF msg
  <2> QED BY <1>2, <2>2
<1> QED BY <1>3, <1>4, <1>5, <1>6 DEF FieldsReadBack, packets, buf

----------------------------------------------------------------------------
\* VECTOR

\* What stands in b behind p is its slice there.
LEMMA PieceIn ==
  ASSUME NEW b \in Seq(Byte), NEW p \in Nat, NEW y \in Seq(Byte), NEW c \in Nat, Len(y) = c,
         p + c <= Len(b), \A j \in 1..c : b[p + j] = y[j]
  PROVE  SubSeq(b, p + 1, p + c) = y
<1> DEFINE m == p + 1
           n == p + c
           z == SubSeq(b, m, n)
<1>1. m \in Nat /\ n \in Nat /\ 1 <= m /\ m <= n + 1 /\ n <= Len(b) /\ n - m + 1 = c
  OBVIOUS
<1>2. \A i \in 1..c : m + i - 1 = p + i
  OBVIOUS
<1> HIDE DEF m, n
<1>3. z \in Seq(Byte) /\ Len(z) = c /\ \A i \in 1..c : z[i] = b[m + i - 1]
  BY <1>1, Slice
<1> HIDE DEF z
<1>4. \A i \in 1..c : z[i] = y[i]
  BY <1>2, <1>3
<1>5. z = y
  BY <1>3, <1>4, SeqEqual
<1> QED BY <1>5 DEF z, m, n

\* Pieces of one length, put one behind the other.
LEMMA EvenPieces ==
  ASSUME NEW c \in Nat, NEW s \in Seq(Seq(Byte)), \A i \in 1..Len(s) : Len(s[i]) = c
  PROVE  /\ FlattenSeq(s) \in Seq(Byte) /\ Len(FlattenSeq(s)) = Len(s) * c
         /\ \A i \in 1..Len(s) : /\ (i - 1) * c \in Nat /\ i * c = (i - 1) * c + c
                                 /\ i * c <= Len(s) * c
                                 /\ \A j \in 1..c : FlattenSeq(s)[(i - 1) * c + j] = s[i][j]
<1> DEFINE n == Len(s)
           e(i) == Len(Flat(s)[i])
           all == FlattenSeq(s)
<1>1. n \in Nat /\ Flat(s)[0] = <<>> /\ \A i \in 0..n : Flat(s)[i] \in Seq(Byte)
  BY FlatRun, LenProperties
<1>2. all = Flat(s)[n]
  BY FlattenIsFlat
<1>3. ASSUME NEW i \in 1..n
      PROVE  /\ e(i) = e(i - 1) + c /\ e(i) <= Len(all)
             /\ \A j \in 1..c : all[e(i - 1) + j] = s[i][j]
  <2>1. Gathers(s, i) /\ Len(s[i]) = c
    BY FlatGrows
  <2> QED BY <2>1 DEF Gathers
<1>4. n \in 0..n
  BY <1>1
<1>5. all \in Seq(Byte) /\ Len(all) = e(n) /\ e(0) = 0
  BY <1>1, <1>2, <1>4
<1> HIDE DEF n, e, all
<1> DEFINE S == {i \in 0..n : e(i) = i * c}
<1>6. 0 \in S
  <2>1. 0 * c = 0
    BY SMT
  <2> QED BY <1>1, <1>5, <2>1
<1>7. ASSUME NEW i \in 1..n PROVE (i - 1) * c \in Nat /\ i * c = (i - 1) * c + c /\ i - 1 \in 0..n /\ i \in 0..n
  <2>1. i \in Nat /\ i - 1 \in Nat
    BY <1>1
  <2>2. (i - 1) * c \in Nat /\ i * c = (i - 1) * c + c
    BY <2>1, SMT
  <2> QED BY <1>1, <2>2
<1>8. ASSUME NEW i \in 1..n, i - 1 \in S PROVE i \in S
  <2>1. e(i - 1) = (i - 1) * c
    BY <1>8
  <2>2. e(i) = e(i - 1) + c
    BY <1>3
  <2>3. i * c = (i - 1) * c + c /\ i \in 0..n
    BY <1>7
  <2>4. e(i) = i * c
    BY <2>1, <2>2, <2>3
  <2> QED BY <2>3, <2>4
<1> HIDE DEF S
<1>9. \A i \in 0..n : i \in S
  BY <1>1, <1>6, <1>8, UpToInduction
<1>10. \A i \in 0..n : e(i) = i * c
  BY <1>9 DEF S
<1>11. Len(all) = n * c
  BY <1>4, <1>5, <1>10
<1>12. ASSUME NEW i \in 1..n
       PROVE  /\ (i - 1) * c \in Nat /\ i * c = (i - 1) * c + c /\ i * c <= n * c
              /\ \A j \in 1..c : all[(i - 1) * c + j] = s[i][j]
  <2>1. e(i) = i * c /\ e(i - 1) = (i - 1) * c
    BY <1>7, <1>10
  <2>2. i * c <= n * c
    BY <1>3, <1>11, <2>1
  <2>3. \A j \in 1..c : all[(i - 1) * c + j] = s[i][j]
    BY <1>3, <2>1
  <2> QED BY <1>7, <2>2, <2>3
<1> QED BY <1>5, <1>11, <1>12 DEF n, all

\* And cut out of a buffer again.
LEMMA PiecesBack ==
  ASSUME NEW b \in Seq(Byte), NEW first \in Nat, NEW c \in Nat, NEW s \in Seq(Seq(Byte)),
         \A i \in 1..Len(s) : Len(s[i]) = c,
         first + Len(FlattenSeq(s)) <= Len(b),
         \A h \in 1..Len(FlattenSeq(s)) : b[first + h] = FlattenSeq(s)[h]
  PROVE  \A i \in 1..Len(s) : SubSeq(b, first + (i - 1) * c + 1, first + i * c) = s[i]
<1> SUFFICES ASSUME NEW i \in 1..Len(s)
             PROVE  SubSeq(b, first + (i - 1) * c + 1, first + i * c) = s[i]
  OBVIOUS
<1> DEFINE all == FlattenSeq(s)
           n == Len(s)
           o == (i - 1) * c
           N == n * c
           ic == i * c
           y == s[i]
<1>1. /\ Len(all) = N /\ o \in Nat /\ ic = o + c /\ ic <= N
      /\ \A j \in 1..c : all[o + j] = y[j]
  BY EvenPieces
<1>2. y \in Seq(Byte) /\ Len(y) = c
  BY ElementOfSeq
<1>3. first + N <= Len(b) /\ \A h \in 1..N : b[first + h] = all[h]
  BY <1>1
<1>4. N \in Nat /\ Len(b) \in Nat
  <2>1. FlattenSeq(s) \in Seq(Byte)
    BY EvenPieces
  <2>2. Len(all) \in Nat
    BY <2>1, LenProperties
  <2> HIDE DEF all, N
  <2> QED BY <1>1, <2>2, LenProperties
<1> HIDE DEF all, n, o, N, ic, y
<1> DEFINE p == first + o
<1>5. p \in Nat /\ p + c <= Len(b) /\ p + c = first + ic
  BY <1>1, <1>3, <1>4
<1>6. ASSUME NEW j \in 1..c PROVE b[p + j] = y[j]
  <2>1. o + j \in 1..N /\ p + j = first + (o + j)
    BY <1>1, <1>4
  <2>2. b[first + (o + j)] = all[o + j]
    BY <1>3, <2>1
  <2> QED BY <1>1, <2>1, <2>2
<1> HIDE DEF p
<1>7. SubSeq(b, p + 1, p + c) = y
  BY <1>2, <1>5, <1>6, PieceIn
<1>8. SubSeq(b, p + 1, first + ic) = y
  BY <1>5, <1>7
<1> QED BY <1>8 DEF p, y, ic, o

\* A header: two bytes, the flags, the format, the number of elements and the norm.
HeadOf(s, f, x, n) ==
  /\ s \in Seq(Byte) /\ Len(s) = 17 /\ s[5] = x
  /\ \A i \in 1..2 : s[2 + i] = f[i]
  /\ \A i \in 1..4 : s[5 + i] = n[i]

LEMMA VectorHead ==
  ASSUME NEW h \in Seq(Byte), NEW f \in Seq(Byte), NEW x \in Byte, NEW n \in Seq(Byte),
         NEW z \in Seq(Byte), Len(h) = 2, Len(f) = 2, Len(n) = 4, Len(z) = 8
  PROVE  HeadOf(h \o f \o <<x>> \o n \o z, f, x, n)
<1> DEFINE t == <<x>>
           q == h \o f \o t
           s == q \o n \o z
<1>1. t \in Seq(Byte) /\ Len(t) = 1 /\ t[1] = x
  OBVIOUS
<1> HIDE DEF t
<1>2. Made3(h, f, t, q)
  BY <1>1, Joined3
<1> HIDE DEF q
<1>3. q \in Seq(Byte) /\ Len(q) = 5 /\ q[5] = x /\ \A i \in 1..2 : q[2 + i] = f[i]
  BY <1>1, <1>2 DEF Made3
<1>4. Made3(q, n, z, s)
  BY <1>3, Joined3
<1> HIDE DEF s
<1>5. s \in Seq(Byte) /\ Len(s) = 17 /\ (\A i \in 1..5 : s[i] = q[i]) /\ \A i \in 1..4 : s[5 + i] = n[i]
  BY <1>3, <1>4 DEF Made3
<1>6. s[5] = x /\ \A i \in 1..2 : s[2 + i] = f[i]
  BY <1>3, <1>5
<1>7. HeadOf(s, f, x, n)
  BY <1>5, <1>6 DEF HeadOf
<1> QED BY <1>7 DEF s, q, t

Formats == {"float32", "float64", "int8", "binary"}

\* The elements of a vector, each of the size of its format.
Elements(format) == {s \in Seq(Seq(Byte)) : \A i \in 1..Len(s) : Len(s[i]) = ElementSize[format]}

\* How VectorData::len counts the elements of a format: a binary one in bits.
PerElement(format) == IF format = "binary" THEN 8 ELSE 1

\* As many elements as the header can count, and as many indices as elements, which a u16 can.
DenseVectors ==
  {v \in [format : Formats, sparse : {FALSE}, dims : Nat, indices : {<<>>}, values : Seq(Seq(Byte))] :
     /\ v.values \in Elements(v.format) /\ v.dims = Len(v.values)
     /\ v.dims * PerElement(v.format) \in UInt32}
SparseVectors ==
  {v \in [format : Formats, sparse : {TRUE}, dims : UInt32, indices : Seq(UInt32),
          values : Seq(Seq(Byte))] :
     /\ v.values \in Elements(v.format) /\ Len(v.indices) = Len(v.values) * PerElement(v.format)
     /\ Len(v.indices) \in UInt16}

LEMMA Sizes == \A f \in Formats : ElementSize[f] \in Nat \ {0} /\ FormatOnWire[f] \in Byte
                                  /\ Format(FormatOnWire[f]) = f
<1>1. ASSUME NEW f \in Formats PROVE ElementSize[f] \in Nat \ {0} /\ FormatOnWire[f] \in Byte
  BY DEF Formats, ElementSize, FormatOnWire, Byte
<1>2. DOMAIN FormatOnWire = Formats
  BY DEF FormatOnWire, Formats
<1>3. ASSUME NEW f \in Formats, NEW g \in Formats, FormatOnWire[g] = FormatOnWire[f] PROVE g = f
  BY <1>3 DEF Formats, FormatOnWire
<1>4. ASSUME NEW f \in Formats PROVE Format(FormatOnWire[f]) = f
  BY <1>2, <1>3 DEF Format
<1> QED BY <1>1, <1>4

\* An element is read back.
LEMMA ElementBack ==
  ASSUME NEW f \in Formats, NEW x \in Seq(Byte), Len(x) = ElementSize[f]
  PROVE  /\ EncodeElement(f, x) \in Seq(Byte) /\ Len(EncodeElement(f, x)) = ElementSize[f]
         /\ DecodeElement(f, EncodeElement(f, x)) = x
<1> DEFINE n == ElementSize[f]
<1>1. n \in Nat \ {0}
  BY Sizes
<1>2. x \in [1..n -> Byte]
  BY LenProperties
<1> HIDE DEF n
<1>3. EncodeBinary(x) \in [1..n -> Byte] /\ DecodeBinary(EncodeBinary(x)) = x
  BY <1>1, <1>2, EncodedBinary, BinaryBack
<1>4. EncodeBinary(x) \in Seq(Byte) /\ Len(EncodeBinary(x)) = n
  <2> DEFINE e == EncodeBinary(x)
  <2>1. e \in [1..n -> Byte]
    BY <1>3
  <2> HIDE DEF e
  <2>2. e \in Seq(Byte) /\ Len(e) = n
    BY <1>1, <2>1
  <2> QED BY <2>2 DEF e
<1>5. Len(x) = n
  BY DEF n
<1>6. CASE f \in {"float32", "float64"}
  BY <1>3, <1>4, <1>6 DEF EncodeElement, DecodeElement, n
<1>7. CASE f \notin {"float32", "float64"}
  BY <1>5, <1>7 DEF EncodeElement, DecodeElement, n
<1> QED BY <1>6, <1>7

LEMMA VectorFlags ==
  /\ HasFlag(50, 16) /\ HasFlag(50, 32)
  /\ HasFlag(18, 16) /\ ~HasFlag(18, 32)
  /\ HasFlag(16, 16) /\ ~HasFlag(16, 32)
  /\ 50 \in UInt16 /\ 18 \in UInt16 /\ 16 \in UInt16
BY SMT DEF HasFlag, UInt16

\* The elements as they are written, and as they are read behind the first `first` bytes of b.
Encoded(f, values) == [i \in DOMAIN values |-> EncodeElement(f, values[i])]
Decoded(b, first, f, n) ==
  [i \in 1..n |->
     DecodeElement(f, SubSeq(b, first + (i - 1) * ElementSize[f] + 1, first + i * ElementSize[f]))]

\* b holds all of e behind its first `first` bytes.
Holds(b, first, e) ==
  /\ b \in Seq(Byte) /\ first \in Nat /\ first + Len(e) <= Len(b)
  /\ \A h \in 1..Len(e) : b[first + h] = e[h]

LEMMA EncodedElements ==
  ASSUME NEW f \in Formats, NEW values \in Elements(f)
  PROVE  /\ Encoded(f, values) \in Seq(Seq(Byte)) /\ FlattenSeq(Encoded(f, values)) \in Seq(Byte)
         /\ Len(Encoded(f, values)) = Len(values) /\ DOMAIN values = 1..Len(values)
         /\ \A i \in 1..Len(values) : /\ Len(Encoded(f, values)[i]) = ElementSize[f]
                                       /\ DecodeElement(f, Encoded(f, values)[i]) = values[i]
<1> DEFINE n == Len(values)
           c == ElementSize[f]
           enc == Encoded(f, values)
<1>1. /\ values \in Seq(Seq(Byte)) /\ n \in Nat /\ DOMAIN values = 1..n
      /\ \A i \in 1..n : values[i] \in Seq(Byte) /\ Len(values[i]) = c
  BY LenProperties, ElementOfSeq DEF Elements
<1>2. \A i \in 1..n : /\ EncodeElement(f, values[i]) \in Seq(Byte)
                      /\ Len(EncodeElement(f, values[i])) = c
                      /\ DecodeElement(f, EncodeElement(f, values[i])) = values[i]
  BY <1>1, ElementBack
<1>3. c \in Nat
  BY Sizes
<1>4. enc = [i \in 1..n |-> EncodeElement(f, values[i])]
  BY <1>1 DEF Encoded
<1> HIDE DEF n, c, enc
<1>5. enc \in Seq(Seq(Byte)) /\ Len(enc) = n /\ \A i \in 1..n : enc[i] = EncodeElement(f, values[i])
  BY <1>1, <1>2, <1>4
<1>6. \A i \in 1..n : Len(enc[i]) = c /\ DecodeElement(f, enc[i]) = values[i]
  BY <1>2, <1>5
<1>7. FlattenSeq(enc) \in Seq(Byte)
  BY <1>3, <1>5, <1>6, EvenPieces
<1> QED BY <1>1, <1>5, <1>6, <1>7 DEF n, c, enc

LEMMA ValuesBack ==
  ASSUME NEW f \in Formats, NEW values \in Elements(f), NEW b, NEW first,
         Holds(b, first, FlattenSeq(Encoded(f, values)))
  PROVE  Decoded(b, first, f, Len(values)) = values
<1> DEFINE c == ElementSize[f]
           n == Len(values)
           enc == Encoded(f, values)
<1>1. c \in Nat
  BY Sizes
<1>2. /\ enc \in Seq(Seq(Byte)) /\ Len(enc) = n
      /\ \A i \in 1..n : Len(enc[i]) = c
      /\ \A i \in 1..n : DecodeElement(f, enc[i]) = values[i]
  BY EncodedElements
<1>3. values = [i \in 1..n |-> values[i]]
  <2>1. DOMAIN values = 1..n /\ values \in Seq(Seq(Byte))
    BY EncodedElements DEF Elements
  <2> QED BY <2>1
<1>4. /\ b \in Seq(Byte) /\ first \in Nat /\ first + Len(FlattenSeq(enc)) <= Len(b)
      /\ \A h \in 1..Len(FlattenSeq(enc)) : b[first + h] = FlattenSeq(enc)[h]
  BY DEF Holds
<1> HIDE DEF c, n, enc
<1>5. \A i \in 1..Len(enc) : SubSeq(b, first + (i - 1) * c + 1, first + i * c) = enc[i]
  <2>1. \A i \in 1..Len(enc) : Len(enc[i]) = c
    BY <1>2
  <2> QED BY <1>1, <1>2, <1>4, <2>1, PiecesBack
<1>6. ASSUME NEW i \in 1..n
      PROVE  DecodeElement(f, SubSeq(b, first + (i - 1) * c + 1, first + i * c)) = values[i]
  <2>1. SubSeq(b, first + (i - 1) * c + 1, first + i * c) = enc[i]
    BY <1>2, <1>5
  <2> QED BY <1>2, <2>1
<1>7. Decoded(b, first, f, n) = [i \in 1..n |-> values[i]]
  BY <1>6 DEF Decoded, c
<1> QED BY <1>3, <1>7 DEF n

LEMMA HeadMade ==
  ASSUME NEW version \in Byte, NEW flags \in UInt16, NEW wire \in Byte, NEW k \in UInt32
  PROVE  HeadOf(<<219, version>> \o Be2(flags) \o <<wire>> \o Be4(k) \o Zeros(8), Be2(flags), wire, Be4(k))
<1> DEFINE h == <<219, version>>
           f == Be2(flags)
           n == Be4(k)
           z == Zeros(8)
<1>1. h \in Seq(Byte) /\ Len(h) = 2
  <2>1. 219 \in Byte
    BY DEF Byte
  <2> QED BY <2>1
<1>2. f \in Seq(Byte) /\ Len(f) = 2
  <2>1. flags \in Int
    BY DEF UInt16
  <2> QED BY <2>1, Bytes2
<1>3. n \in Seq(Byte) /\ Len(n) = 4
  <2>1. k \in Int
    BY DEF UInt32
  <2> QED BY <2>1, Bytes4
<1>4. z \in Seq(Byte) /\ Len(z) = 8
  BY DEF Zeros, Byte
<1> HIDE DEF h, f, n, z
<1>5. HeadOf(h \o f \o <<wire>> \o n \o z, f, wire, n)
  BY <1>1, <1>2, <1>3, <1>4, VectorHead
<1> QED BY <1>5 DEF h, f, n, z

\* What decode_vector reads of a header.
HeaderRead(b, flags, f, k) ==
  FromBe2(SubSeq(b, 3, 4)) = flags /\ Format(b[5]) = f /\ FromBe4(SubSeq(b, 6, 9)) = k

\* It is read back, and behind it stand x and e.
LEMMA HeadBack ==
  ASSUME NEW head, NEW x \in Seq(Byte), NEW e \in Seq(Byte), NEW b, Made3(head, x, e, b),
         NEW flags \in UInt16, NEW f \in Formats, NEW k \in UInt32,
         HeadOf(head, Be2(flags), FormatOnWire[f], Be4(k))
  PROVE  HeaderRead(b, flags, f, k) /\ Holds(b, 17, x) /\ Holds(b, 17 + Len(x), e)
<1>0. /\ head \in Seq(Byte) /\ Len(head) = 17 /\ head[5] = FormatOnWire[f]
      /\ \A i \in 1..2 : head[2 + i] = Be2(flags)[i]
      /\ \A i \in 1..4 : head[5 + i] = Be4(k)[i]
  BY DEF HeadOf
<1>1. /\ b \in Seq(Byte) /\ Len(b) = 17 + Len(x) + Len(e)
      /\ \A i \in 1..17 : b[i] = head[i]
      /\ \A i \in 1..Len(x) : b[17 + i] = x[i]
      /\ \A i \in 1..Len(e) : b[17 + Len(x) + i] = e[i]
  BY <1>0 DEF Made3
<1>2. Len(x) \in Nat /\ Len(e) \in Nat /\ Len(b) \in Nat /\ Len(b) >= 17
  <2>1. Len(x) \in Nat /\ Len(e) \in Nat
    BY LenProperties
  <2> QED BY <1>1, <2>1
<1>3. ASSUME NEW i \in 1..2 PROVE SubSeq(b, 3, 4)[i] = Be2(flags)[i]
  <2>1. SubSeq(b, 3, 4)[i] = b[3 + i - 1]
    <3>1. 3 \in Nat /\ 4 \in Nat /\ 1 <= 3 /\ 3 <= 4 + 1 /\ 4 <= Len(b) /\ 4 - 3 + 1 = 2
      BY <1>2
    <3>2. \A h \in 1..(4 - 3 + 1) : SubSeq(b, 3, 4)[h] = b[3 + h - 1]
      BY <1>1, <3>1, Slice
    <3> QED BY <3>1, <3>2
  <2>2. 3 + i - 1 = 2 + i /\ 2 + i \in 1..17
    OBVIOUS
  <2> QED BY <1>0, <1>1, <2>1, <2>2
<1>4. ASSUME NEW i \in 1..4 PROVE SubSeq(b, 6, 9)[i] = Be4(k)[i]
  <2>1. SubSeq(b, 6, 9)[i] = b[6 + i - 1]
    <3>1. 6 \in Nat /\ 9 \in Nat /\ 1 <= 6 /\ 6 <= 9 + 1 /\ 9 <= Len(b) /\ 9 - 6 + 1 = 4
      BY <1>2
    <3>2. \A h \in 1..(9 - 6 + 1) : SubSeq(b, 6, 9)[h] = b[6 + h - 1]
      BY <1>1, <3>1, Slice
    <3> QED BY <3>1, <3>2
  <2>2. 6 + i - 1 = 5 + i /\ 5 + i \in 1..17
    OBVIOUS
  <2> QED BY <1>0, <1>1, <2>1, <2>2
<1>5. FromBe2(SubSeq(b, 3, 4)) = flags
  BY <1>3, UInt16Back
<1>6. FromBe4(SubSeq(b, 6, 9)) = k
  BY <1>4, UInt32Back
<1>7. Format(b[5]) = f
  <2>1. b[5] = head[5]
    BY <1>1
  <2> QED BY <1>0, <2>1, Sizes
<1>8. Holds(b, 17, x) /\ Holds(b, 17 + Len(x), e)
  BY <1>1, <1>2 DEF Holds
<1> QED BY <1>5, <1>6, <1>7, <1>8 DEF HeaderRead

\* A dense vector: 17 bytes of header and its elements.
LEMMA DenseBack == \A v \in DenseVectors : VectorReadBack(v)
<1> SUFFICES ASSUME NEW v \in DenseVectors PROVE DecodeVector(EncodeVector(v)) = v
  BY DEF VectorReadBack
<1> DEFINE f == v.format
           values == v.values
           n == Len(values)
           k == n * (IF f = "binary" THEN 8 ELSE 1)
           version == IF f = "binary" THEN 1 ELSE 0
           flags == IF f = "binary" THEN 16 ELSE 18
           head == <<219, version>> \o Be2(flags) \o <<FormatOnWire[f]>> \o Be4(k) \o Zeros(8)
           enc == Encoded(f, values)
           e == FlattenSeq(enc)
           b == EncodeVector(v)
<1>1. /\ f \in Formats /\ values \in Elements(f) /\ v.dims = n /\ n \in Nat
      /\ v.sparse = FALSE /\ v.indices = <<>>
      /\ v = [format |-> f, sparse |-> FALSE, dims |-> n, indices |-> <<>>, values |-> values]
      /\ k \in UInt32
  BY DEF DenseVectors, PerElement
<1>2. b = head \o <<>> \o e
  <2>1. /\ (CASE v.sparse -> 2 [] ~v.sparse /\ v.format = "binary" -> 1 [] OTHER -> 0) = version
        /\ VECTOR_FLAG_NORM_RESERVED + (IF v.sparse THEN VECTOR_FLAG_SPARSE ELSE 0)
             + (IF v.sparse \/ v.format # "binary" THEN VECTOR_FLAG_NORM ELSE 0) = flags
        /\ (IF v.sparse THEN v.dims ELSE Len(v.values) * (IF v.format = "binary" THEN 8 ELSE 1)) = k
    <3>1. CASE f = "binary"
      BY <1>1, <3>1 DEF VECTOR_FLAG_NORM_RESERVED, VECTOR_FLAG_NORM, VECTOR_FLAG_SPARSE
    <3>2. CASE f # "binary"
      BY <1>1, <3>2 DEF VECTOR_FLAG_NORM_RESERVED, VECTOR_FLAG_NORM, VECTOR_FLAG_SPARSE
    <3> QED BY <3>1, <3>2
  <2>2. (IF v.sparse THEN Be2(Len(v.indices)) \o FlattenSeq([i \in DOMAIN v.indices |-> Be4(v.indices[i])])
         ELSE <<>>) = <<>>
    BY <1>1
  <2> QED BY <2>1, <2>2, Zenon DEF EncodeVector, Encoded
<1>3. /\ flags \in UInt16 /\ flags \in Int /\ HasFlag(flags, 16) /\ ~HasFlag(flags, 32)
  <2>1. CASE f = "binary"
    BY <2>1, VectorFlags
  <2>2. CASE f # "binary"
    BY <2>2, VectorFlags
  <2> QED BY <2>1, <2>2
<1>4. HeadOf(head, Be2(flags), FormatOnWire[f], Be4(k))
  <2>1. version \in Byte /\ FormatOnWire[f] \in Byte
    BY <1>1, Sizes DEF Byte
  <2> DEFINE wire == FormatOnWire[f]
  <2>2. wire \in Byte
    BY <2>1
  <2> HIDE DEF version, flags, k, wire
  <2>3. HeadOf(<<219, version>> \o Be2(flags) \o <<wire>> \o Be4(k) \o Zeros(8), Be2(flags), wire, Be4(k))
    BY <1>1, <1>3, <2>1, <2>2, HeadMade
  <2> QED BY <2>3 DEF wire
<1> HIDE DEF f, values
<1>5. e \in Seq(Byte)
  BY <1>1, EncodedElements
<1>6. b = head \o <<>> \o e /\ head \in Seq(Byte)
  BY <1>2, <1>4 DEF HeadOf
<1> HIDE DEF head, e, b, version, flags, k
<1>7. HeaderRead(b, flags, f, k) /\ Holds(b, 17, e)
  <2> DEFINE x == <<>>
  <2>1. x \in Seq(Byte) /\ Len(x) = 0 /\ b = head \o x \o e
    BY <1>6
  <2> HIDE DEF x
  <2>2. Made3(head, x, e, b)
    BY <1>5, <1>6, <2>1, Joined3
  <2>3. HeaderRead(b, flags, f, k) /\ Holds(b, 17, x) /\ Holds(b, 17 + Len(x), e)
    <3>1. f \in Formats /\ k \in UInt32 /\ flags \in UInt16
      BY <1>1, <1>3
    <3> QED BY <1>4, <1>5, <2>1, <2>2, <3>1, HeadBack
  <2>4. 17 + Len(x) = 17
    BY <2>1
  <2> QED BY <2>3, <2>4
<1>8. Decoded(b, 17, f, n) = values
  BY <1>1, <1>7, ValuesBack DEF e
<1>9. (IF f = "binary" THEN k \div 8 ELSE k) = n
  <2>1. \A m \in Nat : (m * 8) \div 8 = m /\ m * 1 = m
    BY SMT
  <2>2. CASE f = "binary"
    BY <1>1, <2>1, <2>2 DEF k
  <2>3. CASE f # "binary"
    BY <1>1, <2>1, <2>3 DEF k
  <2> QED BY <2>2, <2>3
<1>10. DecodeVector(b) = [format |-> f, sparse |-> FALSE, dims |-> n, indices |-> <<>>, values |-> values]
  <2> DEFINE fl == FromBe2(SubSeq(b, 3, 4))
             fmt == Format(b[5])
             num_elements == FromBe4(SubSeq(b, 6, 9))
             at == IF HasFlag(fl, VECTOR_FLAG_NORM_RESERVED) \/ HasFlag(fl, VECTOR_FLAG_NORM)
                   THEN 17 ELSE 9
             sparse == HasFlag(fl, VECTOR_FLAG_SPARSE)
             num_sparse == FromBe2(SubSeq(b, at + 1, at + 2))
             first == IF sparse THEN at + 2 + 4 * num_sparse ELSE at
             m == IF sparse THEN num_sparse ELSE num_elements
             count == IF fmt = "binary" THEN m \div 8 ELSE m
             indices == IF sparse THEN [i \in 1..num_sparse |->
                                          FromBe4(SubSeq(b, at + 4 * i - 1, at + 4 * i + 2))]
                        ELSE <<>>
  <2>1. DecodeVector(b) =
          [format |-> fmt, sparse |-> sparse, dims |-> IF sparse THEN num_elements ELSE count,
           indices |-> indices,
           values |-> Decoded(b, first, fmt, count)]
    BY Zenon DEF DecodeVector, Decoded
  <2>2. fl = flags /\ fmt = f /\ num_elements = k /\ sparse = FALSE /\ at = 17
    BY <1>3, <1>7 DEF HeaderRead, VECTOR_FLAG_NORM_RESERVED, VECTOR_FLAG_SPARSE
  <2> HIDE DEF fl, fmt, num_elements, sparse, at
  <2>3. count = n
    BY <1>9, <2>2
  <2>4. first = 17 /\ indices = <<>>
    BY <2>2
  <2> HIDE DEF num_sparse, count, first, indices
  <2> QED BY <1>8, <2>1, <2>2, <2>3, <2>4, Zenon
<1> QED BY <1>1, <1>10 DEF b

\* The indices of a sparse vector: their number and, behind it, each in four bytes.
IndexBytes(indices) == [i \in DOMAIN indices |-> Be4(indices[i])]
IndicesWritten(indices) == Be2(Len(indices)) \o FlattenSeq(IndexBytes(indices))

LEMMA IndicesTyped ==
  ASSUME NEW indices \in Seq(UInt32), Len(indices) \in UInt16
  PROVE  /\ IndexBytes(indices) \in Seq(Seq(Byte)) /\ Len(IndexBytes(indices)) = Len(indices)
         /\ \A i \in 1..Len(indices) : /\ IndexBytes(indices)[i] = Be4(indices[i])
                                       /\ Len(IndexBytes(indices)[i]) = 4
         /\ FlattenSeq(IndexBytes(indices)) \in Seq(Byte)
         /\ Len(FlattenSeq(IndexBytes(indices))) = Len(indices) * 4
         /\ Be2(Len(indices)) \in Seq(Byte) /\ Len(Be2(Len(indices))) = 2
<1> DEFINE n == Len(indices)
           s == IndexBytes(indices)
<1>1. n \in Nat /\ n \in UInt16 /\ n \in Int /\ DOMAIN indices = 1..n
      /\ \A i \in 1..n : indices[i] \in UInt32
  BY LenProperties, ElementOfSeq
<1>2. ASSUME NEW v \in UInt32 PROVE Be4(v) \in Seq(Byte) /\ Len(Be4(v)) = 4
  <2>1. v \in Int
    BY DEF UInt32
  <2> QED BY <2>1, Bytes4
<1>3. s = [i \in 1..n |-> Be4(indices[i])]
  BY <1>1 DEF IndexBytes
<1> HIDE DEF n, s
<1>4. s \in Seq(Seq(Byte)) /\ Len(s) = n /\ \A i \in 1..n : s[i] = Be4(indices[i])
  BY <1>1, <1>2, <1>3
<1>5. \A i \in 1..n : Len(s[i]) = 4
  BY <1>1, <1>2, <1>4
<1>6. FlattenSeq(s) \in Seq(Byte) /\ Len(FlattenSeq(s)) = n * 4
  <2>1. 4 \in Nat /\ \A i \in 1..Len(s) : Len(s[i]) = 4
    BY <1>4, <1>5
  <2>2. FlattenSeq(s) \in Seq(Byte) /\ Len(FlattenSeq(s)) = Len(s) * 4
    BY <1>4, <2>1, EvenPieces
  <2> QED BY <1>4, <2>2
<1>7. Be2(n) \in Seq(Byte) /\ Len(Be2(n)) = 2
  BY <1>1, Bytes2
<1> QED BY <1>4, <1>5, <1>6, <1>7 DEF n, s

LEMMA IndicesBytes ==
  ASSUME NEW indices \in Seq(UInt32), Len(indices) \in UInt16
  PROVE  /\ IndicesWritten(indices) \in Seq(Byte)
         /\ Len(IndicesWritten(indices)) = 2 + 4 * Len(indices)
         /\ Made2(Be2(Len(indices)), FlattenSeq(IndexBytes(indices)), IndicesWritten(indices))
<1> DEFINE n == Len(indices)
           y == Be2(n)
           z == FlattenSeq(IndexBytes(indices))
<1>1. /\ y \in Seq(Byte) /\ Len(y) = 2 /\ z \in Seq(Byte) /\ Len(z) = n * 4 /\ n \in Nat
  BY IndicesTyped, LenProperties
<1>2. IndicesWritten(indices) = y \o z
  BY DEF IndicesWritten
<1> HIDE DEF n, y, z
<1>3. Made2(y, z, y \o z)
  BY <1>1, Joined2
<1> DEFINE x == y \o z
<1> HIDE DEF x
<1>4. x \in Seq(Byte) /\ Len(x) = Len(y) + Len(z)
  BY <1>3 DEF Made2, x
<1>5. Len(x) = 2 + 4 * n
  BY <1>1, <1>4
<1> QED BY <1>2, <1>3, <1>4, <1>5 DEF x, y, z, n

\* They are read back.
LEMMA IndicesBack ==
  ASSUME NEW indices \in Seq(UInt32), Len(indices) \in UInt16, NEW b,
         Holds(b, 17, IndicesWritten(indices))
  PROVE  /\ FromBe2(SubSeq(b, 18, 19)) = Len(indices)
         /\ [i \in 1..Len(indices) |-> FromBe4(SubSeq(b, 17 + 4 * i - 1, 17 + 4 * i + 2))] = indices
<1> DEFINE n == Len(indices)
           x == IndicesWritten(indices)
           y == Be2(n)
           s == IndexBytes(indices)
           z == FlattenSeq(s)
<1>1. /\ s \in Seq(Seq(Byte)) /\ Len(s) = n /\ \A i \in 1..n : s[i] = Be4(indices[i]) /\ Len(s[i]) = 4
      /\ z \in Seq(Byte) /\ Len(z) = n * 4 /\ y \in Seq(Byte) /\ Len(y) = 2
  BY IndicesTyped
<1>2. x \in Seq(Byte) /\ Len(x) = 2 + 4 * n /\ Made2(y, z, x)
  BY IndicesBytes
<1>3. /\ n \in Nat /\ n \in UInt16 /\ \A i \in 1..n : indices[i] \in UInt32
      /\ indices = [i \in 1..n |-> indices[i]]
  BY LenProperties, ElementOfSeq
<1>4. /\ b \in Seq(Byte) /\ 17 + Len(x) <= Len(b) /\ \A h \in 1..Len(x) : b[17 + h] = x[h]
  BY DEF Holds
<1>5. Len(b) \in Nat
  BY <1>4, LenProperties
<1> HIDE DEF n, x, s, z, y
<1>6. FromBe2(SubSeq(b, 18, 19)) = n
  <2>1. ASSUME NEW i \in 1..2 PROVE SubSeq(b, 18, 19)[i] = y[i]
    <3>1. /\ 18 \in Nat /\ 19 \in Nat /\ 1 <= 18 /\ 18 <= 19 + 1 /\ 19 <= Len(b) /\ 19 - 18 + 1 = 2
      BY <1>2, <1>3, <1>4, <1>5
    <3>2. \A h \in 1..(19 - 18 + 1) : SubSeq(b, 18, 19)[h] = b[18 + h - 1]
      BY <1>4, <3>1, Slice
    <3>3. 18 + i - 1 = 17 + i /\ i \in 1..Len(x)
      BY <1>2, <1>3
    <3>4. x[i] = y[i]
      BY <1>1, <1>2 DEF Made2
    <3> QED BY <1>4, <3>1, <3>2, <3>3, <3>4
  <2> QED BY <1>3, <2>1, UInt16Back DEF y
<1>7. ASSUME NEW i \in 1..n PROVE FromBe4(SubSeq(b, 17 + 4 * i - 1, 17 + 4 * i + 2)) = indices[i]
  <2>1. 19 + Len(z) <= Len(b) /\ \A h \in 1..Len(z) : b[19 + h] = z[h]
    <3>0. Len(z) = 4 * n /\ Len(z) \in Nat /\ 2 + Len(z) = Len(x)
      BY <1>1, <1>2, <1>3
    <3>1. 19 + Len(z) <= Len(b)
      BY <1>4, <1>5, <3>0
    <3>2. ASSUME NEW h \in 1..Len(z) PROVE b[19 + h] = z[h]
      <4>1. 17 + (2 + h) = 19 + h /\ 2 + h \in 1..Len(x)
        BY <3>0
      <4>2. x[2 + h] = z[h]
        BY <1>1, <1>2 DEF Made2
      <4> QED BY <1>4, <4>1, <4>2
    <3> QED BY <3>1, <3>2
  <2>2. SubSeq(b, 19 + (i - 1) * 4 + 1, 19 + i * 4) = s[i]
    <3>1. 19 \in Nat /\ 4 \in Nat /\ \A h \in 1..Len(s) : Len(s[h]) = 4
      BY <1>1
    <3>2. \A h \in 1..Len(s) : SubSeq(b, 19 + (h - 1) * 4 + 1, 19 + h * 4) = s[h]
      BY <1>1, <1>4, <2>1, <3>1, PiecesBack DEF z
    <3> QED BY <1>1, <3>2
  <2>3. 19 + (i - 1) * 4 + 1 = 17 + 4 * i - 1 /\ 19 + i * 4 = 17 + 4 * i + 2
    BY <1>3
  <2>4. SubSeq(b, 17 + 4 * i - 1, 17 + 4 * i + 2) = Be4(indices[i])
    BY <1>1, <2>2, <2>3
  <2> QED BY <1>3, <2>4, UInt32Back
<1> DEFINE d == [i \in 1..n |-> FromBe4(SubSeq(b, 17 + 4 * i - 1, 17 + 4 * i + 2))]
<1>8. d = [i \in 1..n |-> indices[i]]
  BY <1>7
<1>9. d = indices
  BY <1>3, <1>8
<1> QED BY <1>6, <1>9 DEF n

\* A sparse vector: the header, the indices and the elements.
LEMMA SparseBack == \A v \in SparseVectors : VectorReadBack(v)
<1> SUFFICES ASSUME NEW v \in SparseVectors PROVE DecodeVector(EncodeVector(v)) = v
  BY DEF VectorReadBack
<1> DEFINE f == v.format
           values == v.values
           at == v.indices
           n == Len(values)
           c == Len(at)
           k == v.dims
           head == <<219, 2>> \o Be2(50) \o <<FormatOnWire[f]>> \o Be4(k) \o Zeros(8)
           enc == Encoded(f, values)
           e == FlattenSeq(enc)
           x == IndicesWritten(at)
           b == EncodeVector(v)
<1>1. /\ f \in Formats /\ values \in Elements(f) /\ n \in Nat /\ c \in UInt16 /\ c \in Nat
      /\ v.sparse = TRUE /\ at \in Seq(UInt32) /\ c = n * PerElement(f) /\ k \in UInt32
      /\ v = [format |-> f, sparse |-> TRUE, dims |-> k, indices |-> at, values |-> values]
  <2>1. /\ v \in [format : Formats, sparse : {TRUE}, dims : UInt32, indices : Seq(UInt32),
                 values : Seq(Seq(Byte))]
        /\ v.values \in Elements(v.format)
        /\ Len(v.indices) = Len(v.values) * PerElement(v.format) /\ Len(v.indices) \in UInt16
    BY DEF SparseVectors
  <2>2. n \in Nat /\ c \in Nat
    BY <2>1, LenProperties
  <2>3. /\ f \in Formats /\ v.sparse = TRUE /\ at \in Seq(UInt32) /\ k \in UInt32
        /\ v = [format |-> f, sparse |-> v.sparse, dims |-> k, indices |-> at, values |-> values]
    BY <2>1
  <2> QED BY <2>1, <2>2, <2>3, Zenon
<1>2. b = head \o x \o e
  <2>1. /\ (CASE v.sparse -> 2 [] ~v.sparse /\ v.format = "binary" -> 1 [] OTHER -> 0) = 2
        /\ VECTOR_FLAG_NORM_RESERVED + (IF v.sparse THEN VECTOR_FLAG_SPARSE ELSE 0)
             + (IF v.sparse \/ v.format # "binary" THEN VECTOR_FLAG_NORM ELSE 0) = 50
        /\ (IF v.sparse THEN v.dims ELSE Len(v.values) * (IF v.format = "binary" THEN 8 ELSE 1)) = k
    BY <1>1 DEF VECTOR_FLAG_NORM_RESERVED, VECTOR_FLAG_NORM, VECTOR_FLAG_SPARSE
  <2>2. (IF v.sparse THEN Be2(Len(v.indices)) \o FlattenSeq([i \in DOMAIN v.indices |-> Be4(v.indices[i])])
         ELSE <<>>) = x
    BY <1>1, Zenon DEF IndicesWritten, IndexBytes
  <2> HIDE DEF x
  <2> QED BY <2>1, <2>2, Zenon DEF EncodeVector, Encoded
<1> DEFINE flags == 50
<1>3. flags \in UInt16 /\ HasFlag(flags, 16) /\ HasFlag(flags, 32)
  BY VectorFlags
<1>4. HeadOf(head, Be2(flags), FormatOnWire[f], Be4(k))
  <2> DEFINE wire == FormatOnWire[f]
  <2>1. wire \in Byte /\ 2 \in Byte
    BY <1>1, Sizes DEF Byte
  <2> HIDE DEF wire
  <2>2. HeadOf(<<219, 2>> \o Be2(50) \o <<wire>> \o Be4(k) \o Zeros(8), Be2(50), wire, Be4(k))
    BY <1>1, <1>3, <2>1, HeadMade
  <2> QED BY <2>2 DEF wire
<1>5. e \in Seq(Byte) /\ x \in Seq(Byte) /\ Len(x) = 2 + 4 * c
  BY <1>1, EncodedElements, IndicesBytes
<1>6. head \in Seq(Byte)
  BY <1>4 DEF HeadOf
<1> HIDE DEF head, e, b, x, flags, k, f, values, at, c
<1>7. HeaderRead(b, flags, f, k) /\ Holds(b, 17, x) /\ Holds(b, 17 + Len(x), e)
  <2>1. Made3(head, x, e, b)
    BY <1>2, <1>5, <1>6, Joined3
  <2>2. f \in Formats /\ k \in UInt32 /\ flags \in UInt16
    BY <1>1, <1>3
  <2> QED BY <1>4, <1>5, <2>1, <2>2, HeadBack
<1> DEFINE start == 17 + Len(x)
<1>8. Decoded(b, start, f, n) = values
  BY <1>1, <1>7, ValuesBack DEF e
<1>9. /\ FromBe2(SubSeq(b, 18, 19)) = c
      /\ [i \in 1..c |-> FromBe4(SubSeq(b, 17 + 4 * i - 1, 17 + 4 * i + 2))] = at
  <2>1. Len(at) \in UInt16 /\ Holds(b, 17, IndicesWritten(at))
    BY <1>1, <1>7 DEF x, c
  <2>2. /\ FromBe2(SubSeq(b, 18, 19)) = Len(at)
        /\ [i \in 1..Len(at) |-> FromBe4(SubSeq(b, 17 + 4 * i - 1, 17 + 4 * i + 2))] = at
    BY <1>1, <2>1, IndicesBack
  <2> QED BY <2>2 DEF c
<1>10. start = 17 + 2 + 4 * c
  BY <1>1, <1>5
<1> HIDE DEF start
<1>11. DecodeVector(b) = [format |-> f, sparse |-> TRUE, dims |-> k, indices |-> at, values |-> values]
  <2> DEFINE fl == FromBe2(SubSeq(b, 3, 4))
             fmt == Format(b[5])
             num_elements == FromBe4(SubSeq(b, 6, 9))
             norm == IF HasFlag(fl, VECTOR_FLAG_NORM_RESERVED) \/ HasFlag(fl, VECTOR_FLAG_NORM)
                     THEN 17 ELSE 9
             sparse == HasFlag(fl, VECTOR_FLAG_SPARSE)
             num_sparse == FromBe2(SubSeq(b, norm + 1, norm + 2))
             first == IF sparse THEN norm + 2 + 4 * num_sparse ELSE norm
             m == IF sparse THEN num_sparse ELSE num_elements
             count == IF fmt = "binary" THEN m \div 8 ELSE m
             indices == IF sparse THEN [i \in 1..num_sparse |->
                                          FromBe4(SubSeq(b, norm + 4 * i - 1, norm + 4 * i + 2))]
                        ELSE <<>>
  <2>1. DecodeVector(b) =
          [format |-> fmt, sparse |-> sparse, dims |-> IF sparse THEN num_elements ELSE count,
           indices |-> indices,
           values |-> Decoded(b, first, fmt, count)]
    BY Zenon DEF DecodeVector, Decoded
  <2>2. fl = flags /\ fmt = f /\ num_elements = k
    BY <1>7 DEF HeaderRead
  <2> HIDE DEF fl, fmt, num_elements
  <2>3. sparse = TRUE /\ norm = 17
    <3>1. sparse
      BY <1>3, <2>2 DEF VECTOR_FLAG_SPARSE
    <3>2. norm = 17
      BY <1>3, <2>2 DEF VECTOR_FLAG_NORM_RESERVED
    <3> QED BY <3>1, <3>2, Zenon DEF HasFlag
  <2> HIDE DEF sparse, norm
  <2>4. num_sparse = c
    <3>1. norm + 1 = 18 /\ norm + 2 = 19
      BY <2>3
    <3> QED BY <1>9, <3>1
  <2> HIDE DEF num_sparse
  <2>5. count = n /\ first = start
    <3>1. \A i \in Nat : (i * 8) \div 8 = i /\ i * 1 = i
      BY SMT
    <3>2. CASE f = "binary"
      BY <1>1, <1>10, <2>2, <2>3, <2>4, <3>1, <3>2 DEF PerElement
    <3>3. CASE f # "binary"
      BY <1>1, <1>10, <2>2, <2>3, <2>4, <3>1, <3>3 DEF PerElement
    <3> QED BY <3>2, <3>3
  <2>6. indices = at
    BY <1>9, <2>3, <2>4
  <2> HIDE DEF count, first, indices
  <2> QED BY <1>8, <2>1, <2>2, <2>3, <2>5, <2>6, Zenon
<1> QED BY <1>1, <1>11 DEF b

(***************************************************************************)
(* encode_vector and decode_vector: a vector of any format and length,     *)
(* dense or sparse, is read back with its dimensions, indices and values.  *)
(* A sparse vector has as many indices as VectorData::len counts values,   *)
(* in a binary one a bit for each; OracleVector::sparse does not check it, *)
(* and one with a byte for each index is not read back.                    *)
(***************************************************************************)
THEOREM VectorsReadBack == \A v \in DenseVectors \cup SparseVectors : VectorReadBack(v)
BY DenseBack, SparseBack

----------------------------------------------------------------------------
\* NUMBER

\* Digits without zeros at either end, and a sequence of them between zeros, a in front.
Bare(d) == d # <<>> /\ d[1] # 0 /\ d[Len(d)] # 0
Padded(s, d, a) ==
  /\ a + Len(d) <= Len(s)
  /\ \A i \in 1..Len(s) : s[i] = IF a < i /\ i <= a + Len(d) THEN d[i - a] ELSE 0

\* Where the digits of a padded sequence begin and end.
LEMMA PaddedEnds ==
  ASSUME NEW s \in Seq(Byte), NEW d \in Seq(Byte), NEW a \in Nat, Bare(d), Padded(s, d, a)
  PROVE  /\ a + 1 \in 1..Len(s) /\ s[a + 1] # 0
         /\ a + Len(d) \in 1..Len(s) /\ s[a + Len(d)] # 0
         /\ \A i \in 1..Len(s) : s[i] # 0 => a + 1 <= i /\ i <= a + Len(d)
         /\ \A i \in 1..Len(d) : s[a + i] = d[i]
<1> DEFINE n == Len(s)
           m == Len(d)
<1>1. n \in Nat /\ m \in Nat /\ m # 0
  BY EmptySeq, LenProperties DEF Bare
<1>2. d[1] # 0 /\ d[m] # 0
  BY DEF Bare
<1>3. a + m <= n /\ \A i \in 1..n : s[i] = IF a < i /\ i <= a + m THEN d[i - a] ELSE 0
  BY DEF Padded
<1> HIDE DEF n, m
<1>4. ASSUME NEW i \in 1..m PROVE a + i \in 1..n /\ s[a + i] = d[i]
  <2>1. a + i \in 1..n /\ a < a + i /\ a + i <= a + m /\ (a + i) - a = i
    BY <1>1, <1>3
  <2> QED BY <2>1, <1>3
<1>5. 1 \in 1..m /\ m \in 1..m
  BY <1>1
<1>6. ASSUME NEW i \in 1..n, s[i] # 0 PROVE a + 1 <= i /\ i <= a + m
  BY <1>1, <1>3, <1>6
<1>7. s[a + 1] # 0 /\ s[a + m] # 0 /\ a + 1 \in 1..n /\ a + m \in 1..n
  BY <1>2, <1>4, <1>5
<1> QED BY <1>4, <1>6, <1>7 DEF n, m

LEMMA LeastIs ==
  ASSUME NEW T, T \subseteq Int, NEW p \in T, \A i \in T : p <= i
  PROVE  Min(T) = p
<1> DEFINE m == CHOOSE x \in T : \A y \in T : x <= y
<1>1. m \in T /\ \A y \in T : m <= y
  OBVIOUS
<1>2. Min(T) = m
  BY DEF Min
<1> HIDE DEF m
<1>3. m <= p /\ p <= m /\ m \in Int /\ p \in Int
  BY <1>1
<1> QED BY <1>2, <1>3

LEMMA GreatestIs ==
  ASSUME NEW T, T \subseteq Int, NEW p \in T, \A i \in T : i <= p
  PROVE  Max(T) = p
<1> DEFINE m == CHOOSE x \in T : \A y \in T : x >= y
<1>1. \A y \in T : p >= y
  OBVIOUS
<1>2. m \in T /\ \A y \in T : m >= y
  BY <1>1
<1>3. Max(T) = m
  BY DEF Max
<1> HIDE DEF m
<1>4. m <= p /\ p <= m /\ m \in Int /\ p \in Int
  BY <1>2
<1> QED BY <1>3, <1>4

\* The least and the greatest place of a digit that is not zero.
LEMMA NonzeroBounds ==
  ASSUME NEW s \in Seq(Byte), NEW p \in 1..Len(s), NEW q \in 1..Len(s), s[p] # 0, s[q] # 0,
         \A i \in 1..Len(s) : s[i] # 0 => p <= i /\ i <= q
  PROVE  /\ Stripped(s) = SubSeq(s, p, q)
         /\ LeadingZeros(s) = p - 1
<1> DEFINE n == Len(s)
           nonzero == {i \in DOMAIN s : s[i] # 0}
<1>1. n \in Nat /\ DOMAIN s = 1..n
  BY LenProperties
<1>2. p \in nonzero /\ q \in nonzero /\ \A i \in nonzero : p <= i /\ i <= q
  BY <1>1
<1>3. nonzero \subseteq Int
  BY <1>1
<1>4. Stripped(s) = SubSeq(s, Min(nonzero), Max(nonzero))
  BY <1>2 DEF Stripped
<1> HIDE DEF nonzero
<1>5. Min(nonzero) = p
  BY <1>2, <1>3, LeastIs
<1>6. Max(nonzero) = q
  BY <1>2, <1>3, GreatestIs
<1>7. LeadingZeros(s) = p - 1
  <2>1. p - 1 \in 0..n /\ (p - 1) + 1 = p
    BY <1>1
  <2>2. \A i \in 1..(p - 1) : s[i] = 0
    BY <1>1
  <2> HIDE DEF n
  <2>3. p - 1 = CHOOSE j \in 0..n : (\A i \in 1..j : s[i] = 0) /\ (j = n \/ s[j + 1] # 0)
    BY <1>1, <2>1, <2>2, LeadingZerosEnd
  <2> QED BY <2>3 DEF LeadingZeros, n
<1> QED BY <1>4, <1>5, <1>6, <1>7

LEMMA PaddedStripped ==
  ASSUME NEW s \in Seq(Byte), NEW d \in Seq(Byte), NEW a \in Nat, Bare(d), Padded(s, d, a)
  PROVE  Stripped(s) = d /\ LeadingZeros(s) = a
<1> DEFINE p == a + 1
           q == a + Len(d)
           z == SubSeq(s, p, q)
<1>1. /\ p \in 1..Len(s) /\ s[p] # 0 /\ q \in 1..Len(s) /\ s[q] # 0
      /\ \A i \in 1..Len(s) : s[i] # 0 => p <= i /\ i <= q
      /\ \A i \in 1..Len(d) : s[a + i] = d[i]
  BY PaddedEnds
<1>2. Len(s) \in Nat /\ Len(d) \in Nat /\ p - 1 = a
  BY LenProperties
<1>3. p \in Nat /\ q \in Nat /\ 1 <= p /\ p <= q + 1 /\ q <= Len(s) /\ q - p + 1 = Len(d)
      /\ \A i \in 1..Len(d) : p + i - 1 = a + i
  BY <1>1, <1>2
<1> HIDE DEF p, q
<1>4. z = Stripped(s) /\ LeadingZeros(s) = p - 1
  BY <1>1, NonzeroBounds
<1>5. z \in Seq(Byte) /\ Len(z) = Len(d) /\ \A i \in 1..Len(d) : z[i] = s[p + i - 1]
  BY <1>3, Slice
<1> HIDE DEF z
<1>6. \A i \in 1..Len(d) : z[i] = d[i]
  BY <1>1, <1>3, <1>5
<1>7. z = d
  BY <1>5, <1>6, SeqEqual
<1> QED BY <1>2, <1>4, <1>7

\* Every sequence is zeros, or such digits between zeros.
LEMMA StrippedOf ==
  ASSUME NEW s \in Seq(Byte)
  PROVE  \/ Stripped(s) = <<>>
         \/ /\ Stripped(s) \in Seq(Byte) /\ Bare(Stripped(s))
            /\ LeadingZeros(s) \in Nat /\ Padded(s, Stripped(s), LeadingZeros(s))
<1> DEFINE n == Len(s)
           nonzero == {i \in DOMAIN s : s[i] # 0}
<1>1. n \in Nat /\ DOMAIN s = 1..n
  BY LenProperties
<1>2. nonzero = {i \in 1..n : s[i] # 0}
  BY <1>1
<1>3. CASE nonzero = {}
  BY <1>3 DEF Stripped
<1>4. CASE nonzero # {}
  <2>1. nonzero \subseteq Nat
    BY <1>1
  <2>2. PICK p \in nonzero : \A i \in nonzero : p <= i
    <3> HIDE DEF nonzero
    <3> QED BY <1>4, <2>1, Least
  <2> DEFINE back == {n - i : i \in nonzero}
  <2>3. back \subseteq Nat /\ back # {}
    <3>1. \A i \in nonzero : n - i \in Nat
      BY <1>1
    <3> HIDE DEF nonzero
    <3> QED BY <1>4, <3>1
  <2>4. PICK k \in back : \A j \in back : k <= j
    <3> HIDE DEF back
    <3> QED BY <2>3, Least
  <2>5. PICK q \in nonzero : k = n - q
    OBVIOUS
  <2>6. \A i \in nonzero : i <= q
    <3>1. \A i \in nonzero : n - q <= n - i /\ i \in Nat /\ q \in Nat
      BY <2>1, <2>4, <2>5
    <3> QED BY <1>1, <3>1
  <2>7. p \in 1..n /\ s[p] # 0 /\ q \in 1..n /\ s[q] # 0 /\ p <= q
        /\ \A i \in 1..n : s[i] # 0 => p <= i /\ i <= q
    BY <1>2, <2>2, <2>5, <2>6
  <2> HIDE DEF nonzero, back
  <2> DEFINE z == SubSeq(s, p, q)
  <2>8. Stripped(s) = z /\ LeadingZeros(s) = p - 1
    BY <2>7, NonzeroBounds DEF n
  <2>9. z \in Seq(Byte) /\ Len(z) = q - p + 1 /\ \A i \in 1..(q - p + 1) : z[i] = s[p + i - 1]
    <3>1. p \in Nat /\ q \in Nat /\ 1 <= p /\ p <= q + 1 /\ q <= Len(s)
      BY <2>7 DEF n
    <3> QED BY <3>1, Slice
  <2> HIDE DEF z
  <2>10. Len(z) \in Nat /\ Len(z) # 0 /\ 1 \in 1..(q - p + 1) /\ Len(z) \in 1..(q - p + 1)
    BY <2>7, <2>9, <1>1
  <2>11. z[1] = s[p] /\ z[Len(z)] = s[q]
    <3>1. z[1] = s[p + 1 - 1] /\ z[Len(z)] = s[p + Len(z) - 1]
      BY <2>9, <2>10
    <3>2. p + 1 - 1 = p /\ p + Len(z) - 1 = q
      BY <2>7, <2>9, <1>1
    <3> QED BY <3>1, <3>2
  <2>12. Bare(z)
    <3>1. z # <<>>
      BY <2>10
    <3> QED BY <2>7, <2>11, <3>1 DEF Bare
  <2>13. Padded(s, z, p - 1)
    <3>1. (p - 1) + Len(z) = q /\ q <= n
      BY <1>1, <2>7, <2>9
    <3>2. ASSUME NEW i \in 1..n
          PROVE s[i] = IF p - 1 < i /\ i <= q THEN z[i - (p - 1)] ELSE 0
      <4>1. CASE p <= i /\ i <= q
        <5>1. i - (p - 1) \in 1..(q - p + 1) /\ p + (i - (p - 1)) - 1 = i /\ p - 1 < i
          BY <1>1, <2>7, <4>1
        <5>2. z[i - (p - 1)] = s[i]
          BY <5>1, <2>9
        <5> QED BY <4>1, <5>1, <5>2
      <4>2. CASE ~(p <= i /\ i <= q)
        <5>1. s[i] = 0 /\ ~(p - 1 < i /\ i <= q)
          BY <1>1, <2>7, <4>2
        <5> QED BY <5>1
      <4> QED BY <4>1, <4>2
    <3> QED BY <3>1, <3>2 DEF Padded, n
  <2>14. p - 1 \in Nat
    BY <2>7, <1>1
  <2> QED BY <2>8, <2>9, <2>12, <2>13, <2>14
<1> QED BY <1>3, <1>4

Digit == 0..9

\* The digits of a number with a zero in front of them, or not, and behind them, or not: h pairs.
Pairing(e, dig, z, h) ==
  /\ e \in Seq(Digit) /\ dig \in Seq(Digit) /\ Bare(dig) /\ Padded(e, dig, z)
  /\ z \in {0, 1} /\ h \in Nat \ {0} /\ Len(e) = 2 * h /\ 2 * h <= z + Len(dig) + 1

\* The first k digits.
IsFront(t, dig, k) == t \in Seq(Digit) /\ Len(t) = k /\ k <= Len(dig) /\ \A j \in 1..k : t[j] = dig[j]

LEMMA PairingSizes ==
  ASSUME NEW e, NEW dig, NEW z, NEW h, Pairing(e, dig, z, h)
  PROVE  /\ h \in Nat \ {0} /\ z \in {0, 1} /\ Len(dig) \in Nat /\ Len(dig) # 0
         /\ z + Len(dig) <= 2 * h /\ 2 * h <= z + Len(dig) + 1
         /\ \A i \in 1..(2 * h) : /\ e[i] \in Digit
                                  /\ e[i] = IF z < i /\ i <= z + Len(dig) THEN dig[i - z] ELSE 0
         /\ \A j \in 1..Len(dig) : dig[j] \in Digit
         /\ dig[1] # 0 /\ dig[Len(dig)] # 0
<1>1. /\ h \in Nat \ {0} /\ z \in {0, 1} /\ dig \in Seq(Digit) /\ e \in Seq(Digit)
      /\ Len(e) = 2 * h /\ 2 * h <= z + Len(dig) + 1
      /\ dig # <<>> /\ dig[1] # 0 /\ dig[Len(dig)] # 0
      /\ z + Len(dig) <= 2 * h
      /\ \A i \in 1..(2 * h) : e[i] = IF z < i /\ i <= z + Len(dig) THEN dig[i - z] ELSE 0
  BY DEF Pairing, Padded, Bare
<1>2. Len(dig) \in Nat /\ Len(dig) # 0
  BY <1>1, EmptySeq, LenProperties
<1>3. (\A i \in 1..(2 * h) : e[i] \in Digit) /\ \A j \in 1..Len(dig) : dig[j] \in Digit
  BY <1>1, ElementOfSeq
<1> QED BY <1>1, <1>2, <1>3

LEMMA FrontGrows ==
  ASSUME NEW dig, NEW k \in Nat, NEW t, IsFront(t, dig, k), NEW b \in Digit, k + 1 <= Len(dig),
         b = dig[k + 1]
  PROVE  IsFront(Append(t, b), dig, k + 1)
<1> DEFINE u == Append(t, b)
<1>1. t \in Seq(Digit) /\ Len(t) = k /\ \A j \in 1..k : t[j] = dig[j]
  BY DEF IsFront
<1>2. u \in Seq(Digit) /\ Len(u) = k + 1 /\ (\A j \in 1..k : u[j] = t[j]) /\ u[k + 1] = b
  BY <1>1, AppendProperties
<1> HIDE DEF u
<1>3. ASSUME NEW j \in 1..(k + 1) PROVE u[j] = dig[j]
  <2>1. j = k + 1 \/ j \in 1..k
    OBVIOUS
  <2> QED BY <1>1, <1>2, <2>1
<1>4. IsFront(u, dig, k + 1)
  BY <1>2, <1>3 DEF IsFront
<1> QED BY <1>4 DEF u

\* The second digit of a pair; a zero at the very end is left out.
LEMMA SecondDigit ==
  ASSUME NEW e, NEW dig, NEW z, NEW h, Pairing(e, dig, z, h), NEW i \in 1..h, NEW t,
         IsFront(t, dig, 2 * i - 1 - z)
  PROVE  IsFront(IF e[2 * i] # 0 \/ i # h THEN Append(t, e[2 * i]) ELSE t, dig,
               IF i = h THEN Len(dig) ELSE 2 * i - z)
<1> DEFINE m == Len(dig)
           b == e[2 * i]
           k == 2 * i - 1 - z
<1>1. /\ h \in Nat \ {0} /\ z \in {0, 1} /\ m \in Nat /\ m # 0 /\ z + m <= 2 * h
      /\ 2 * h <= z + m + 1 /\ dig[m] # 0
      /\ \A j \in 1..(2 * h) : e[j] \in Digit /\ e[j] = IF z < j /\ j <= z + m THEN dig[j - z] ELSE 0
  BY PairingSizes
<1>2. i \in Nat /\ 1 <= i /\ i <= h /\ 2 * i \in 1..(2 * h) /\ k \in Nat
  BY <1>1
<1>3. b \in Digit /\ b = IF z < 2 * i /\ 2 * i <= z + m THEN dig[2 * i - z] ELSE 0
  BY <1>1, <1>2
<1>4. IsFront(t, dig, k)
  OBVIOUS
<1> HIDE DEF m, b
<1>5. CASE 2 * i <= z + m
  <2>1. k + 1 = 2 * i - z /\ k + 1 <= m /\ z < 2 * i
    BY <1>1, <1>2, <1>5
  <2>2. b = dig[k + 1]
    BY <1>3, <1>5, <2>1
  <2>3. IsFront(Append(t, b), dig, k + 1)
    <3> HIDE DEF k
    <3> QED BY <1>2, <1>3, <1>4, <2>1, <2>2, FrontGrows DEF m
  <2>4. i = h => k + 1 = m
    BY <1>1, <1>2, <1>5
  <2>5. i = h => b # 0
    BY <1>1, <2>2, <2>4
  <2> QED BY <2>1, <2>3, <2>4, <2>5 DEF b, m
<1>6. CASE z + m < 2 * i
  <2>1. i = h /\ k = m
    BY <1>1, <1>2, <1>6
  <2>2. b = 0
    BY <1>1, <1>2, <1>3, <1>6
  <2> QED BY <1>4, <2>1, <2>2 DEF b, m
<1> QED BY <1>1, <1>2, <1>5, <1>6

PairStates == [digits : Seq(Digit), point : Int]

\* The first digit of a pair; the zero in front moves the point instead.
LEMMA FirstDigitOf ==
  ASSUME NEW e, NEW dig, NEW z, NEW h, Pairing(e, dig, z, h), NEW i \in 1..h, NEW st \in PairStates,
         IsFront(st.digits, dig, IF i = 1 THEN 0 ELSE 2 * (i - 1) - z)
  PROVE  /\ IsFront(FirstDigit(st, e[2 * i - 1]).digits, dig, 2 * i - 1 - z)
         /\ FirstDigit(st, e[2 * i - 1]).point = st.point - (IF i = 1 THEN z ELSE 0)
         /\ FirstDigit(st, e[2 * i - 1]) \in PairStates
<1> DEFINE m == Len(dig)
           a == e[2 * i - 1]
           r == FirstDigit(st, a)
<1>1. /\ h \in Nat \ {0} /\ z \in {0, 1} /\ m \in Nat /\ m # 0 /\ z + m <= 2 * h
      /\ 2 * h <= z + m + 1 /\ dig[1] # 0
      /\ \A j \in 1..(2 * h) : e[j] \in Digit /\ e[j] = IF z < j /\ j <= z + m THEN dig[j - z] ELSE 0
  BY PairingSizes
<1>2. i \in Nat /\ 1 <= i /\ i <= h /\ 2 * i - 1 \in 1..(2 * h)
  BY <1>1
<1>3. a \in Digit /\ a = IF z < 2 * i - 1 /\ 2 * i - 1 <= z + m THEN dig[2 * i - 1 - z] ELSE 0
  BY <1>1, <1>2
<1>4. a # 10 /\ st.digits \in Seq(Digit) /\ st.point \in Int
  BY <1>3 DEF Digit, PairStates
<1> HIDE DEF a, m
<1>5. CASE i = 1 /\ z = 1
  <2>1. a = 0
    BY <1>3, <1>5
  <2>2. IsFront(st.digits, dig, 0)
    BY <1>5
  <2>3. st.digits = <<>>
    <3>1. Len(st.digits) = 0
      BY <2>2 DEF IsFront
    <3> QED BY <1>4, <3>1, EmptySeq
  <2>4. r = [st EXCEPT !.point = @ - 1]
    BY <2>1, <2>3 DEF FirstDigit
  <2>5. r.digits = st.digits /\ r.point = st.point - 1 /\ r \in PairStates
    BY <1>4, <2>4 DEF PairStates
  <2> QED BY <1>5, <2>2, <2>5 DEF a
<1>6. CASE ~(i = 1 /\ z = 1)
  <2> DEFINE k == IF i = 1 THEN 0 ELSE 2 * (i - 1) - z
  <2>1. k \in Nat /\ k + 1 = 2 * i - 1 - z /\ k + 1 <= m /\ z < 2 * i - 1 /\ 2 * i - 1 <= z + m
    BY <1>1, <1>2, <1>6
  <2>2. a = dig[k + 1]
    BY <1>3, <2>1
  <2>3. IsFront(st.digits, dig, k)
    OBVIOUS
  <2>4. ~(a = 0 /\ st.digits = <<>>)
    <3>1. CASE i = 1
      <4>1. k + 1 = 1
        BY <3>1
      <4> QED BY <1>1, <2>2, <4>1
    <3>2. CASE i # 1
      <4>1. k # 0
        BY <1>1, <1>2, <3>2
      <4>2. Len(st.digits) = k
        BY <2>3 DEF IsFront
      <4> QED BY <1>4, <4>1, <4>2
    <3> QED BY <3>1, <3>2
  <2>5. r = [st EXCEPT !.digits = Append(@, a)]
    BY <1>4, <2>4 DEF FirstDigit
  <2>6. r.digits = Append(st.digits, a) /\ r.point = st.point
    BY <2>5, <1>4 DEF PairStates
  <2>7. IsFront(Append(st.digits, a), dig, k + 1)
    <3> HIDE DEF k
    <3> QED BY <1>3, <2>1, <2>2, <2>3, FrontGrows DEF m
  <2>8. r \in PairStates
    <3>1. Append(st.digits, a) \in Seq(Digit)
      BY <1>3, <1>4, AppendProperties
    <3> QED BY <2>5, <3>1 DEF PairStates
  <2>9. st.point = st.point - (IF i = 1 THEN z ELSE 0)
    BY <1>1, <1>4, <1>6
  <2> HIDE DEF k, r
  <2>10. IsFront(r.digits, dig, 2 * i - 1 - z)
    BY <2>1, <2>6, <2>7
  <2>11. r.point = st.point - (IF i = 1 THEN z ELSE 0)
    BY <2>6, <2>9
  <2> QED BY <2>8, <2>10, <2>11 DEF a, r
<1> QED BY <1>5, <1>6

LEMMA TwoDigits ==
  ASSUME NEW a \in Digit, NEW b \in Digit
  PROVE  (a * 10 + b) \div 10 = a /\ (a * 10 + b) % 10 = b
BY SMT DEF Digit

Pairs == 0..99

LEMMA DecodePairIs ==
  ASSUME NEW st \in PairStates, NEW a \in Digit, NEW b \in Digit, NEW last \in BOOLEAN,
         FirstDigit(st, a) \in PairStates
  PROVE  /\ DecodePair(st, a * 10 + b, last) \in PairStates
         /\ DecodePair(st, a * 10 + b, last).point = FirstDigit(st, a).point
         /\ DecodePair(st, a * 10 + b, last).digits =
              IF b # 0 \/ ~last THEN Append(FirstDigit(st, a).digits, b)
              ELSE FirstDigit(st, a).digits
<1> DEFINE v == a * 10 + b
           first == FirstDigit(st, a)
<1>1. v \div 10 = a /\ v % 10 = b
  BY TwoDigits
<1> HIDE DEF v
<1>2. DecodePair(st, v, last) = IF b # 0 \/ ~last THEN [first EXCEPT !.digits = Append(@, b)]
                                ELSE first
  BY <1>1 DEF DecodePair
<1> HIDE DEF first
<1>3. Append(first.digits, b) \in Seq(Digit)
  <2>1. first.digits \in Seq(Digit)
    BY DEF first, PairStates
  <2> QED BY <2>1, AppendProperties
<1>4. first \in PairStates
  BY DEF first
<1>5. [first EXCEPT !.digits = Append(@, b)] \in PairStates
      /\ [first EXCEPT !.digits = Append(@, b)].digits = Append(first.digits, b)
      /\ [first EXCEPT !.digits = Append(@, b)].point = first.point
  BY <1>3, <1>4 DEF PairStates
<1>6. CASE b # 0 \/ ~last
  BY <1>2, <1>5, <1>6 DEF v, first
<1>7. CASE ~(b # 0 \/ ~last)
  BY <1>2, <1>4, <1>7 DEF v, first
<1> QED BY <1>6, <1>7

LEMMA DecodePairTyped ==
  ASSUME NEW st \in PairStates, NEW v \in Pairs, NEW last \in BOOLEAN
  PROVE  DecodePair(st, v, last) \in PairStates
<1> DEFINE a == v \div 10
           b == v % 10
<1>1. a \in Digit /\ b \in Digit /\ v = a * 10 + b
  BY SMT DEF Pairs, Digit
<1> HIDE DEF a, b
<1>2. a # 10 /\ st.digits \in Seq(Digit) /\ st.point \in Int
  BY <1>1 DEF Digit, PairStates
<1>3. FirstDigit(st, a) \in PairStates
  <2>1. Append(st.digits, a) \in Seq(Digit)
    BY <1>1, <1>2, AppendProperties
  <2>2. [st EXCEPT !.digits = Append(@, a)] \in PairStates
    BY <2>1 DEF PairStates
  <2>3. [st EXCEPT !.point = @ - 1] \in PairStates
    <3>1. st.point - 1 \in Int
      BY <1>2
    <3> QED BY <3>1 DEF PairStates
  <2> QED BY <1>2, <2>2, <2>3 DEF FirstDigit
<1> QED BY <1>1, <1>3, DecodePairIs

\* One mantissa byte of a number.
LEMMA PairStep ==
  ASSUME NEW e, NEW dig, NEW z, NEW h, Pairing(e, dig, z, h), NEW i \in 1..h, NEW st \in PairStates,
         IsFront(st.digits, dig, IF i = 1 THEN 0 ELSE 2 * (i - 1) - z),
         NEW r, r = DecodePair(st, e[2 * i - 1] * 10 + e[2 * i], i = h)
  PROVE  /\ IsFront(r.digits, dig, IF i = h THEN Len(dig) ELSE 2 * i - z)
         /\ r.point = st.point - (IF i = 1 THEN z ELSE 0)
         /\ r \in PairStates
<1> DEFINE a == e[2 * i - 1]
           b == e[2 * i]
           st1 == FirstDigit(st, a)
           last == i = h
<1>1. /\ IsFront(st1.digits, dig, 2 * i - 1 - z)
      /\ st1.point = st.point - (IF i = 1 THEN z ELSE 0)
      /\ st1 \in PairStates
  BY FirstDigitOf
<1>2. a \in Digit /\ b \in Digit
  <2>1. \A j \in 1..(2 * h) : e[j] \in Digit
    BY PairingSizes
  <2>2. h \in Nat
    BY PairingSizes
  <2>3. 2 * i - 1 \in 1..(2 * h) /\ 2 * i \in 1..(2 * h)
    BY <2>2
  <2> QED BY <2>1, <2>3
<1>3. last \in BOOLEAN
  OBVIOUS
<1> HIDE DEF a, b, last
<1>4. /\ r \in PairStates /\ r.point = st1.point
      /\ r.digits = IF b # 0 \/ ~last THEN Append(st1.digits, b) ELSE st1.digits
  <2>1. r = DecodePair(st, a * 10 + b, last)
    BY DEF a, b, last
  <2> QED BY <1>1, <1>2, <1>3, <2>1, DecodePairIs
<1> HIDE DEF st1
<1>5. IsFront(IF b # 0 \/ i # h THEN Append(st1.digits, b) ELSE st1.digits, dig,
            IF i = h THEN Len(dig) ELSE 2 * i - z)
  BY <1>1, SecondDigit DEF b
<1> QED BY <1>1, <1>4, <1>5 DEF last

LEMMA PairsRun ==
  ASSUME NEW values \in Seq(Pairs), NEW exponent \in Int
  PROVE  LET start == [digits |-> <<>>, point |-> exponent * 2 + 2]
             scans == PairScans(values, exponent)
         IN  /\ scans[0] = start /\ start \in PairStates
             /\ \A i \in 1..Len(values) : scans[i] = DecodePair(scans[i - 1], values[i], i = Len(values))
<1> DEFINE n == Len(values)
           start == [digits |-> <<>>, point |-> exponent * 2 + 2]
           F == [p \in (1..n) \X PairStates |-> DecodePair(p[2], values[p[1]], p[1] = n)]
           Body(f) == [i \in 0..n |-> IF i = 0 THEN start ELSE DecodePair(f[i - 1], values[i], i = n)]
<1>1. n \in Nat /\ \A i \in 1..n : values[i] \in Pairs
  BY LenProperties, ElementOfSeq
<1>2. start \in PairStates
  <2>1. exponent * 2 + 2 \in Int /\ <<>> \in Seq(Digit)
    OBVIOUS
  <2> QED BY <2>1 DEF PairStates
<1>3. F \in [(1..n) \X PairStates -> PairStates]
  <2>1. ASSUME NEW p \in (1..n) \X PairStates
        PROVE DecodePair(p[2], values[p[1]], p[1] = n) \in PairStates
    <3>1. p[2] \in PairStates /\ values[p[1]] \in Pairs /\ (p[1] = n) \in BOOLEAN
      BY <1>1
    <3> QED BY <3>1, DecodePairTyped
  <2> QED BY <2>1
<1>4. PICK f : IsRun(f, n, PairStates, start, F)
  <2> HIDE DEF F, n, start
  <2> QED BY <1>1, <1>2, <1>3, RunExists
<1>5. f = Body(f)
  <2>1. f = [i \in 0..n |-> IF i = 0 THEN start ELSE F[<<i, f[i - 1]>>]]
    <3> HIDE DEF F, n, start
    <3> QED BY <1>1, <1>2, <1>4, RunUnfolds
  <2>2. \A i \in 1..n : F[<<i, f[i - 1]>>] = DecodePair(f[i - 1], values[i], i = n)
    <3>1. ASSUME NEW i \in 1..n PROVE <<i, f[i - 1]>> \in (1..n) \X PairStates
      BY <1>1, <1>4 DEF IsRun
    <3> QED BY <3>1
  <2>3. \A i \in 0..n : i # 0 => i \in 1..n
    BY <1>1
  <2> HIDE DEF F, n, start
  <2> QED BY <2>1, <2>2, <2>3
<1> DEFINE g == PairScans(values, exponent)
<1>6. g = Body(g)
  <2>1. g = CHOOSE h : h = Body(h)
    BY DEF PairScans
  <2> HIDE DEF Body, g
  <2> QED BY <1>5, <2>1
<1> HIDE DEF g
<1>7. g[0] = start /\ \A i \in 1..n : g[i] = DecodePair(g[i - 1], values[i], i = n)
  <2> HIDE DEF start
  <2> QED BY <1>1, <1>6
<1> QED BY <1>2, <1>7 DEF g

LEMMA DigitsAreBytes == \A s \in Seq(Digit) : s \in Seq(Byte)
<1>1. Digit \subseteq Byte
  BY DEF Digit, Byte
<1> QED BY <1>1

LEMMA FrontWhole ==
  ASSUME NEW dig \in Seq(Digit), NEW t, IsFront(t, dig, Len(dig))
  PROVE  t = dig
<1>1. t \in Seq(Digit) /\ Len(t) = Len(dig) /\ \A j \in 1..Len(dig) : t[j] = dig[j]
  BY DEF IsFront
<1> QED BY <1>1, SeqEqual

\* The pairs are read as the digits that were paired, with the point where it was.
LEMMA PairsBack ==
  ASSUME NEW e, NEW dig, NEW z, NEW h, Pairing(e, dig, z, h), NEW exponent \in Int,
         NEW values \in Seq(Pairs), Len(values) = h,
         \A i \in 1..h : values[i] = e[2 * i - 1] * 10 + e[2 * i]
  PROVE  /\ PairScans(values, exponent)[h].digits = dig
         /\ PairScans(values, exponent)[h].point = exponent * 2 + 2 - z
<1> DEFINE start == [digits |-> <<>>, point |-> exponent * 2 + 2]
           g == PairScans(values, exponent)
           At(st, i) == /\ st \in PairStates
                        /\ IsFront(st.digits, dig, IF i = 0 THEN 0 ELSE 2 * i - z)
                        /\ st.point = start.point - (IF i = 0 THEN 0 ELSE z)
           T == {i \in 0..(h - 1) : At(g[i], i)}
<1>1. h \in Nat \ {0} /\ z \in {0, 1} /\ Len(dig) \in Nat /\ Len(dig) # 0 /\ dig \in Seq(Digit)
  BY PairingSizes DEF Pairing
<1>2. /\ g[0] = start /\ start \in PairStates
      /\ \A i \in 1..h : g[i] = DecodePair(g[i - 1], values[i], i = h)
  BY PairsRun
<1> HIDE DEF g
<1>3. \A i \in 1..h : g[i] = DecodePair(g[i - 1], e[2 * i - 1] * 10 + e[2 * i], i = h)
  BY <1>2
<1>4. At(start, 0)
  <2>1. IsFront(<<>>, dig, 0)
    BY <1>1 DEF IsFront
  <2>2. start.digits = <<>> /\ start.point = start.point - 0
    OBVIOUS
  <2> QED BY <1>2, <2>1, <2>2
<1> HIDE DEF start
<1>5. ASSUME NEW i \in 1..h, At(g[i - 1], i - 1)
      PROVE  /\ g[i] \in PairStates
             /\ IsFront(g[i].digits, dig, IF i = h THEN Len(dig) ELSE 2 * i - z)
             /\ g[i].point = start.point - z
  <2>1. /\ g[i - 1] \in PairStates
        /\ IsFront(g[i - 1].digits, dig, IF i = 1 THEN 0 ELSE 2 * (i - 1) - z)
        /\ g[i - 1].point = start.point - (IF i = 1 THEN 0 ELSE z)
    <3>1. i - 1 = 0 <=> i = 1
      BY <1>1
    <3> QED BY <1>5, <3>1
  <2>2. g[i] = DecodePair(g[i - 1], e[2 * i - 1] * 10 + e[2 * i], i = h)
    BY <1>3
  <2> HIDE DEF At
  <2>3. /\ IsFront(g[i].digits, dig, IF i = h THEN Len(dig) ELSE 2 * i - z)
        /\ g[i].point = g[i - 1].point - (IF i = 1 THEN z ELSE 0)
        /\ g[i] \in PairStates
    BY <2>1, <2>2, PairStep
  <2>4. start.point \in Int
    BY <1>2 DEF PairStates
  <2> QED BY <1>1, <2>1, <2>3, <2>4
<1>6. 0 \in T /\ \A i \in 1..(h - 1) : i - 1 \in T => i \in T
  <2>1. 0 \in T
    BY <1>1, <1>2, <1>4
  <2>2. ASSUME NEW i \in 1..(h - 1), i - 1 \in T PROVE i \in T
    <3>1. i \in 1..h /\ i # h /\ i # 0 /\ i \in 0..(h - 1)
      BY <1>1
    <3>2. At(g[i - 1], i - 1)
      BY <2>2
    <3> HIDE DEF At
    <3>3. /\ g[i] \in PairStates
          /\ IsFront(g[i].digits, dig, IF i = h THEN Len(dig) ELSE 2 * i - z)
          /\ g[i].point = start.point - z
      BY <1>5, <3>1, <3>2
    <3>4. At(g[i], i)
      BY <3>1, <3>3 DEF At
    <3> QED BY <3>1, <3>4
  <2> QED BY <2>1, <2>2
<1>7. h - 1 \in T
  <2>1. h - 1 \in Nat /\ h - 1 \in 0..(h - 1)
    BY <1>1
  <2> HIDE DEF T
  <2> QED BY <1>6, <2>1, UpToInduction
<1>8. h \in 1..h
  BY <1>1
<1>9. At(g[h - 1], h - 1)
  BY <1>7
<1> HIDE DEF At
<1>10. IsFront(g[h].digits, dig, Len(dig)) /\ g[h].point = start.point - z
  BY <1>5, <1>8, <1>9
<1>11. g[h].digits = dig
  BY <1>1, <1>10, FrontWhole
<1>12. start.point = exponent * 2 + 2
  BY DEF start
<1> HIDE DEF start
<1>13. g[h].point = exponent * 2 + 2 - z
  BY <1>1, <1>10, <1>12
<1> QED BY <1>11, <1>13 DEF g

----------------------------------------------------------------------------
\* The digits in pairs

LEMMA EvenPairing ==
  ASSUME NEW dig \in Seq(Digit), Bare(dig), NEW P \in BOOLEAN
  PROVE  \E h : Pairing(EvenDigits(dig, P), dig, IF P THEN 1 ELSE 0, h)
<1> DEFINE z == IF P THEN 1 ELSE 0
           front == IF P THEN <<0>> ELSE <<>>
           aligned == front \o dig
           n == Len(aligned)
           back == Zeros(n % 2)
           e == aligned \o back
           m == Len(dig)
<1>1. EvenDigits(dig, P) = e
  BY DEF EvenDigits
<1>2. front \in Seq(Digit) /\ Len(front) = z /\ z \in {0, 1} /\ \A i \in 1..z : front[i] = 0
  <2>1. <<0>> \in Seq(Digit) /\ Len(<<0>>) = 1 /\ \A i \in 1..1 : <<0>>[i] = 0
    BY DEF Digit
  <2>2. <<>> \in Seq(Digit) /\ Len(<<>>) = 0
    OBVIOUS
  <2>3. CASE P
    <3>1. front = <<0>> /\ z = 1
      BY <2>3
    <3> HIDE DEF front, z
    <3> QED BY <2>1, <3>1
  <2>4. CASE ~P
    <3>1. front = <<>> /\ z = 0
      BY <2>4
    <3> HIDE DEF front, z
    <3> QED BY <2>2, <3>1
  <2> QED BY <2>3, <2>4
<1>3. m \in Nat /\ m # 0
  BY EmptySeq, LenProperties DEF Bare
<1>4. /\ aligned \in Seq(Digit) /\ n = z + m
      /\ \A i \in 1..n : aligned[i] = IF i <= z THEN 0 ELSE dig[i - z]
  <2>1. /\ aligned \in Seq(Digit) /\ n = z + m
        /\ \A i \in 1..n : aligned[i] = IF i <= z THEN front[i] ELSE dig[i - z]
    <3> HIDE DEF front, z
    <3> QED BY <1>2, ConcatProperties
  <2> HIDE DEF front, aligned, n
  <2> QED BY <1>2, <1>3, <2>1
<1> HIDE DEF front, aligned, z, m
<1>5. n \in Nat /\ n % 2 \in {0, 1}
  BY <1>2, <1>3, <1>4, SMT
<1>6. back \in Seq(Digit) /\ Len(back) = n % 2 /\ \A i \in 1..(n % 2) : back[i] = 0
  <2> DEFINE k == n % 2
  <2>1. k \in Nat /\ 0 \in Digit
    BY <1>5 DEF Digit
  <2> HIDE DEF k
  <2>2. Zeros(k) \in Seq(Digit) /\ Len(Zeros(k)) = k /\ \A i \in 1..k : Zeros(k)[i] = 0
    BY <2>1 DEF Zeros
  <2> QED BY <2>2 DEF k
<1> HIDE DEF back
<1>7. /\ e \in Seq(Digit) /\ Len(e) = n + (n % 2)
      /\ \A i \in 1..(n + (n % 2)) : e[i] = IF i <= n THEN aligned[i] ELSE back[i - n]
  <2> HIDE DEF n
  <2>1. aligned \in Seq(Digit) /\ Len(aligned) = n
    BY <1>4 DEF n
  <2> QED BY <1>6, <2>1, ConcatProperties
<1> HIDE DEF n, e
<1>8. PICK h \in Nat : n + (n % 2) = 2 * h
  <2>1. (n + (n % 2)) \div 2 \in Nat /\ n + (n % 2) = 2 * ((n + (n % 2)) \div 2)
    BY <1>5, SMT
  <2> QED BY <2>1
<1>9. h # 0 /\ 2 * h <= z + m + 1 /\ z + m <= 2 * h
  BY <1>2, <1>3, <1>4, <1>5, <1>8
<1>10. ASSUME NEW i \in 1..(2 * h) PROVE e[i] = IF z < i /\ i <= z + m THEN dig[i - z] ELSE 0
  <2>1. CASE i <= n
    <3>1. i \in 1..n /\ e[i] = aligned[i]
      BY <1>5, <1>7, <1>8, <2>1
    <3> QED BY <1>2, <1>3, <1>4, <2>1, <3>1
  <2>2. CASE n < i
    <3>1. i - n \in 1..(n % 2) /\ ~(i <= n)
      BY <1>5, <1>8, <2>2
    <3>2. e[i] = back[i - n]
      BY <1>7, <1>8, <3>1
    <3>3. ~(i <= z + m)
      BY <1>4, <2>2
    <3> QED BY <1>6, <3>1, <3>2, <3>3
  <2> QED BY <1>5, <2>1, <2>2
<1>11. Padded(e, dig, z)
  BY <1>7, <1>8, <1>9, <1>10 DEF Padded, m
<1>12. Pairing(e, dig, z, h)
  BY <1>2, <1>7, <1>8, <1>9, <1>11 DEF Pairing, m
<1> QED BY <1>1, <1>12 DEF z

\* A number that ends in a digit other than zero has nothing to drop.
LEMMA NoTrailingZeros ==
  ASSUME NEW dig \in Seq(Digit), Bare(dig), NEW point \in Int
  PROVE  WithoutTrailingZeros(dig, point) = dig
<1> DEFINE m == Len(dig)
           EndsAt(k) == /\ \A i \in (k + 1)..m : dig[i] = 0 /\ i > point
                        /\ k > 0 => dig[k] # 0 \/ k <= point
           c == CHOOSE k \in 0..m : EndsAt(k)
           t == SubSeq(dig, 1, c)
<1>1. m \in Nat /\ m # 0 /\ dig[m] # 0
  BY EmptySeq, LenProperties DEF Bare
<1>2. WithoutTrailingZeros(dig, point) = t
  BY DEF WithoutTrailingZeros
<1> HIDE DEF m
<1>3. m \in 0..m /\ EndsAt(m)
  BY <1>1
<1>4. ASSUME NEW k \in 0..m, EndsAt(k) PROVE k = m
  <2>1. k < m => m \in (k + 1)..m
    BY <1>1
  <2> QED BY <1>1, <1>4, <2>1
<1> HIDE DEF EndsAt
<1>5. c \in 0..m /\ EndsAt(c)
  BY <1>3
<1>6. c = m
  BY <1>4, <1>5
<1> HIDE DEF c
<1>7. t = SubSeq(dig, 1, m)
  BY <1>6
<1> DEFINE u == SubSeq(dig, 1, m)
<1>8. u \in Seq(Byte) /\ Len(u) = m - 1 + 1 /\ \A i \in 1..(m - 1 + 1) : u[i] = dig[1 + i - 1]
  <2>1. m \in Nat /\ 1 \in Nat /\ 1 <= 1 /\ 1 <= m + 1 /\ m <= Len(dig) /\ dig \in Seq(Byte)
    BY <1>1, DigitsAreBytes DEF m
  <2> QED BY <2>1, Slice
<1> HIDE DEF u
<1>9. Len(u) = m /\ \A i \in 1..m : u[i] = dig[i]
  <2>1. m - 1 + 1 = m /\ \A i \in 1..m : 1 + i - 1 = i
    BY <1>1
  <2> QED BY <1>8, <2>1
<1>10. u = dig
  <2>1. dig \in Seq(Byte)
    BY DigitsAreBytes
  <2> QED BY <1>8, <1>9, <2>1, SeqEqual DEF m
<1> QED BY <1>2, <1>7, <1>10 DEF u

\* What stands before and behind the point of a text.
LEMMA TextOfNumber ==
  ASSUME NEW dig \in Seq(Digit), Bare(dig), NEW point \in Int, NEW neg \in BOOLEAN
  PROVE  LET x == NumberText(neg, dig, point)
             a == IF point <= 0 THEN 1 - point ELSE 0
         IN  /\ x.neg = neg /\ x.exp = 0
             /\ x.int \o x.frac \in Seq(Digit) /\ a \in Nat /\ Len(x.int) = a + point
             /\ Padded(x.int \o x.frac, dig, a)
<1> DEFINE x == NumberText(neg, dig, point)
           m == Len(dig)
<1>1. m \in Nat /\ m # 0 /\ \A i \in 1..m : dig[i] \in Digit
  BY EmptySeq, LenProperties, ElementOfSeq DEF Bare
<1>2. x.neg = neg /\ x.exp = 0
  BY DEF NumberText
<1>3. CASE point <= 0
  <2> DEFINE k == -point
             lead == Zeros(k)
             frac == lead \o dig
             s == <<0>> \o frac
             a == 1 - point
  <2>1. k \in Nat /\ a = k + 1 /\ a \in Nat
    BY <1>3
  <2>2. x.int = <<0>> /\ x.frac = frac
    BY <1>3 DEF NumberText
  <2> HIDE DEF k, x
  <2>3. lead \in Seq(Digit) /\ Len(lead) = k /\ \A i \in 1..k : lead[i] = 0
    <3>1. 0 \in Digit
      BY DEF Digit
    <3> QED BY <2>1, <3>1 DEF Zeros
  <2> HIDE DEF lead
  <2>4. /\ frac \in Seq(Digit) /\ Len(frac) = k + m
        /\ \A i \in 1..(k + m) : frac[i] = IF i <= k THEN lead[i] ELSE dig[i - k]
    BY <2>3, ConcatProperties DEF m
  <2> HIDE DEF frac
  <2>5. <<0>> \in Seq(Digit) /\ Len(<<0>>) = 1 /\ <<0>>[1] = 0
    BY DEF Digit
  <2> DEFINE zero == <<0>>
             w == zero \o frac
  <2> HIDE DEF zero
  <2>6. zero \in Seq(Digit) /\ Len(zero) = 1 /\ zero[1] = 0
    BY <2>5 DEF zero
  <2> HIDE DEF m
  <2>7. /\ w \in Seq(Digit) /\ Len(w) = 1 + (k + m)
        /\ \A i \in 1..(1 + (k + m)) : w[i] = IF i <= 1 THEN zero[i] ELSE frac[i - 1]
    <3>1. /\ w \in Seq(Digit) /\ Len(w) = Len(zero) + Len(frac)
          /\ \A i \in 1..(Len(zero) + Len(frac)) :
                w[i] = IF i <= Len(zero) THEN zero[i] ELSE frac[i - Len(zero)]
      BY <2>4, <2>6, ConcatProperties
    <3> HIDE DEF w
    <3> QED BY <2>4, <2>6, <3>1
  <2> HIDE DEF w, a
  <2>8. ASSUME NEW i \in 1..(1 + (k + m))
        PROVE w[i] = IF a < i /\ i <= a + m THEN dig[i - a] ELSE 0
    <3>1. CASE i = 1
      <4>1. w[i] = zero[1] /\ ~(a < i)
        BY <2>1, <2>7, <3>1
      <4> QED BY <2>6, <4>1
    <3>2. CASE i # 1 /\ i <= a
      <4>1. i - 1 \in 1..k /\ i - 1 \in 1..(k + m) /\ i - 1 <= k /\ ~(i <= 1) /\ ~(a < i)
        BY <1>1, <2>1, <3>2
      <4> QED BY <2>3, <2>4, <2>7, <4>1
    <3>3. CASE a < i
      <4>1. i - 1 \in 1..(k + m) /\ ~(i - 1 <= k) /\ ~(i <= 1) /\ i <= a + m
            /\ (i - 1) - k = i - a
        BY <1>1, <2>1, <3>3
      <4>2. w[i] = dig[(i - 1) - k]
        BY <2>4, <2>7, <4>1
      <4> QED BY <3>3, <4>1, <4>2
    <3>4. i \in Int /\ a \in Int
      BY <1>1, <2>1
    <3> QED BY <3>1, <3>2, <3>3, <3>4
  <2>9. Padded(w, dig, a)
    <3>1. a + m = 1 + (k + m) /\ Len(w) = 1 + (k + m)
      BY <1>1, <2>1, <2>7
    <3>2. a + m <= Len(w)
      BY <1>1, <2>1, <3>1
    <3> QED BY <2>8, <3>1, <3>2 DEF Padded, m
  <2>10. x.int \o x.frac = w /\ Len(x.int) = a + point
    <3>1. 1 = a + point
      BY DEF a
    <3> QED BY <2>2, <2>5, <3>1 DEF w, zero
  <2>11. a = IF point <= 0 THEN 1 - point ELSE 0
    BY <1>3 DEF a
  <2> HIDE DEF a, w
  <2>12. /\ x.int \o x.frac \in Seq(Digit) /\ a \in Nat /\ Len(x.int) = a + point
         /\ Padded(x.int \o x.frac, dig, a)
    BY <2>1, <2>7, <2>9, <2>10
  <2> QED BY <1>2, <2>11, <2>12 DEF x
<1>4. CASE point > 0
  <2> DEFINE int == [i \in 1..point |-> IF i <= m THEN dig[i] ELSE 0]
             frac == SubSeq(dig, point + 1, m)
             r == IF point < m THEN m - point ELSE 0
             w == int \o frac
  <2>1. x.int = int /\ x.frac = frac
    BY <1>4 DEF NumberText
  <2>2. int \in Seq(Digit) /\ Len(int) = point /\ \A i \in 1..point : int[i] = IF i <= m THEN dig[i] ELSE 0
    <3>1. \A i \in 1..point : (IF i <= m THEN dig[i] ELSE 0) \in Digit
      <4>1. 0 \in Digit
        BY DEF Digit
      <4> QED BY <1>1, <4>1
    <3>2. point \in Nat
      BY <1>4
    <3> QED BY <3>1, <3>2
  <2>3. r \in Nat
    BY <1>1, <1>4
  <2>4. frac \in Seq(Digit) /\ Len(frac) = r /\ \A i \in 1..r : frac[i] = dig[point + i]
    <3>1. CASE point < m
      <4>1. /\ frac \in Seq(Digit) /\ Len(frac) = IF point + 1 <= m THEN m - (point + 1) + 1 ELSE 0
            /\ \A i \in 1..(m - (point + 1) + 1) : frac[i] = dig[(point + 1) + i - 1]
        <5>1. \A i \in (point + 1)..m : dig[i] \in Digit
          BY <1>1, <1>4
        <5>2. point + 1 \in Int /\ m \in Int
          BY <1>1
        <5> HIDE DEF m
        <5> QED BY <1>1, <1>4, <5>1, <5>2, SubSeqProperties
      <4> HIDE DEF frac
      <4>2. m - (point + 1) + 1 = r /\ \A i \in 1..r : (point + 1) + i - 1 = point + i
        BY <1>1, <3>1
      <4> HIDE DEF r, m
      <4>3. point + 1 <= m
        BY <1>1, <3>1
      <4> QED BY <4>1, <4>2, <4>3
    <3>2. CASE ~(point < m)
      <4>1. frac = <<>> /\ r = 0
        BY <1>1, <1>4, <3>2
      <4> HIDE DEF frac, r
      <4> QED BY <4>1
    <3> QED BY <3>1, <3>2
  <2> HIDE DEF int, frac, r, x
  <2>5. /\ w \in Seq(Digit) /\ Len(w) = point + r
        /\ \A i \in 1..(point + r) : w[i] = IF i <= point THEN int[i] ELSE frac[i - point]
    BY <2>2, <2>4, ConcatProperties
  <2> HIDE DEF m, w
  <2>6. ASSUME NEW i \in 1..(point + r) PROVE w[i] = IF 0 < i /\ i <= 0 + m THEN dig[i - 0] ELSE 0
    <3>0. i \in Int /\ 0 < i /\ i - 0 = i /\ 0 + m = m
      BY <1>1, <1>4, <2>3
    <3>1. CASE i <= point
      <4>1. i \in 1..point
        BY <1>4, <3>1
      <4>2. w[i] = IF i <= m THEN dig[i] ELSE 0
        BY <2>2, <2>5, <3>1, <4>1
      <4> QED BY <3>0, <4>2
    <3>2. CASE ~(i <= point)
      <4>1. i - point \in 1..r /\ point + (i - point) = i
        BY <1>4, <2>3, <3>2
      <4>2. w[i] = dig[i]
        BY <2>4, <2>5, <3>2, <4>1
      <4>3. i <= m
        BY <1>1, <1>4, <2>3, <3>2 DEF r
      <4> QED BY <3>0, <4>2, <4>3
    <3> QED BY <3>1, <3>2
  <2>7. Padded(w, dig, 0)
    <3>1. 0 + m <= point + r
      BY <1>1, <1>4 DEF r
    <3> QED BY <2>5, <2>6, <3>1 DEF Padded, m
  <2>8. /\ x.int \o x.frac \in Seq(Digit) /\ 0 \in Nat /\ Len(x.int) = 0 + point
        /\ Padded(x.int \o x.frac, dig, 0)
    BY <2>1, <2>2, <2>5, <2>7, <1>4 DEF w
  <2>9. 0 = IF point <= 0 THEN 1 - point ELSE 0
    BY <1>4
  <2> QED BY <1>2, <2>8, <2>9 DEF x
<1> QED BY <1>3, <1>4

\* A text stands for the digits and the point it was made of.
LEMMA TextValue ==
  ASSUME NEW dig \in Seq(Digit), Bare(dig), NEW point \in Int, NEW neg \in BOOLEAN
  PROVE  NumberValue(NumberText(neg, dig, point)) = [neg |-> neg, digits |-> dig, point |-> point]
<1> DEFINE x == NumberText(neg, dig, point)
           a == IF point <= 0 THEN 1 - point ELSE 0
           s == x.int \o x.frac
<1>1. /\ x.neg = neg /\ x.exp = 0
      /\ s \in Seq(Digit) /\ a \in Nat /\ Len(x.int) = a + point
      /\ Padded(s, dig, a)
  BY TextOfNumber
<1> HIDE DEF a, x
<1>2. Stripped(s) = dig /\ LeadingZeros(s) = a
  <2>1. s \in Seq(Byte) /\ dig \in Seq(Byte)
    BY <1>1, DigitsAreBytes
  <2> HIDE DEF s
  <2> QED BY <1>1, <2>1, PaddedStripped
<1>3. Digits(x) = dig
  BY <1>2 DEF Digits
<1>4. DecimalPointIndex(x) = point
  <2>1. DecimalPointIndex(x) = a + point - a + 0
    BY <1>1, <1>2 DEF DecimalPointIndex
  <2> QED BY <1>1, <2>1
<1>5. dig # <<>>
  BY DEF Bare
<1> QED BY <1>1, <1>3, <1>4, <1>5 DEF NumberValue, x

\* Zero is written as the text 0.
LEMMA ZeroValue ==
  ASSUME NEW neg \in BOOLEAN
  PROVE  NumberValue(NumberText(neg, <<>>, 1)) = [neg |-> FALSE, digits |-> <<>>, point |-> 0]
<1> DEFINE x == NumberText(neg, <<>>, 1)
           int == [i \in 1..1 |-> IF i <= Len(<<>>) THEN <<>>[i] ELSE 0]
           frac == SubSeq(<<>>, 2, Len(<<>>))
<1>1. x.int = int /\ x.frac = frac
  BY DEF NumberText
<1>2. Len(<<>>) = 0
  OBVIOUS
<1>3. int = [i \in 1..1 |-> 0]
  <2>1. \A i \in 1..1 : ~(i <= Len(<<>>))
    BY <1>2
  <2> QED BY <2>1
<1>4. frac = <<>>
  BY <1>2
<1> HIDE DEF int, frac
<1> DEFINE s == int \o frac
<1>5. s = int
  <2>1. int \in Seq(Nat)
    BY <1>3
  <2> QED BY <1>4, <2>1, ConcatEmptySeq
<1>6. DOMAIN s = 1..1 /\ \A i \in 1..1 : s[i] = 0
  BY <1>3, <1>5
<1> HIDE DEF s
<1>7. {i \in DOMAIN s : s[i] # 0} = {}
  BY <1>6
<1>8. Stripped(s) = <<>>
  BY <1>7 DEF Stripped
<1> HIDE DEF x
<1>9. Digits(x) = <<>>
  BY <1>1, <1>8 DEF Digits, s
<1> QED BY <1>9 DEF NumberValue, x

LEMMA PairBytes ==
  /\ \A a \in Digit : \A b \in Digit : a * 10 + b \in Pairs
  /\ \A v \in Pairs : 101 - v \in Byte /\ v + 1 \in Byte /\ 101 - v # 102
  /\ \A v \in Pairs : (v + 1 - 1) % 256 = v /\ (101 - (101 - v)) % 256 = v
  /\ \A ex \in 128..255 : ex \in Byte /\ 255 - ex \in Byte /\ 255 - ex < 128 /\ 255 - (255 - ex) = ex
  /\ 102 \in Byte
BY SMT DEF Digit, Pairs, Byte

\* The exponent byte of a positive number.
ExponentByte(point) ==
  (Quot(IF PrependZero(point) THEN point + 1 ELSE point, 2) + 192) % 256

\* The exponent byte keeps the point: base 100, with the zero in front counted in.
LEMMA PointKept ==
  ASSUME NEW point \in -129..126, ~(point < 0 /\ point % 2 = 1)
  PROVE  LET z == IF PrependZero(point) THEN 1 ELSE 0
         IN  /\ ExponentByte(point) \in 128..255
             /\ (ExponentByte(point) - 193) * 2 + 2 - z = point
<1> DEFINE P == PrependZero(point)
           z == IF P THEN 1 ELSE 0
           q == Quot(IF P THEN point + 1 ELSE point, 2)
<1>0. ExponentByte(point) = (q + 192) % 256
  BY DEF ExponentByte
<1>1. CASE point >= 0
  <2>1. Rem(point, 2) = point % 2
    BY <1>1, SMT DEF Rem, Quot
  <2>2. CASE point % 2 = 1
    <3>1. P
      BY <2>1, <2>2 DEF PrependZero
    <3>2. q = (point + 1) \div 2 /\ z = 1
      BY <1>1, <3>1, SMT DEF Quot
    <3> HIDE DEF q, z
    <3>3. q \in 0..63 /\ 2 * q - z = point
      BY <1>1, <2>2, <3>2, SMT
    <3>4. (q + 192) % 256 = q + 192
      BY <3>3, SMT
    <3>5. (q + 192) % 256 \in 128..255 /\ (((q + 192) % 256) - 193) * 2 + 2 - z = point
      BY <3>2, <3>3, <3>4, SMT
    <3> QED BY <1>0, <3>5 DEF q, z
  <2>3. CASE point % 2 # 1
    <3>1. ~P
      BY <2>1, <2>3 DEF PrependZero
    <3>2. q = point \div 2 /\ z = 0
      BY <1>1, <3>1, SMT DEF Quot
    <3> HIDE DEF q, z
    <3>3. q \in 0..63 /\ 2 * q - z = point
      BY <1>1, <2>3, <3>2, SMT
    <3>4. (q + 192) % 256 = q + 192
      BY <3>3, SMT
    <3>5. (q + 192) % 256 \in 128..255 /\ (((q + 192) % 256) - 193) * 2 + 2 - z = point
      BY <3>2, <3>3, <3>4, SMT
    <3> QED BY <1>0, <3>5 DEF q, z
  <2> QED BY <2>2, <2>3
<1>2. CASE point < 0
  <2>1. Quot(point, 2) = -((-point) \div 2) /\ 2 * ((-point) \div 2) = -point
    BY <1>2, SMT DEF Quot
  <2>2. Rem(point, 2) = 0
    BY <2>1, SMT DEF Rem
  <2>3. ~P
    BY <2>2 DEF PrependZero
  <2>4. q = -((-point) \div 2) /\ z = 0
    BY <2>1, <2>3
  <2> HIDE DEF q, z
  <2>5. q \in -64..63 /\ 2 * q - z = point
    BY <1>2, <2>1, <2>4, SMT
  <2>6. (q + 192) % 256 = q + 192
    BY <2>5, SMT
  <2>7. (q + 192) % 256 \in 128..255 /\ (((q + 192) % 256) - 193) * 2 + 2 - z = point
    BY <2>4, <2>5, <2>6, SMT
  <2> QED BY <1>0, <2>7 DEF q, z
<1> QED BY <1>1, <1>2

\* One byte, the mantissa and perhaps another byte.
NumberParts(a, s, t) == <<a>> \o s \o t

LEMMA ThreeParts ==
  ASSUME NEW a \in Byte, NEW s \in Seq(Byte), NEW t \in Seq(Byte)
  PROVE  /\ Len(NumberParts(a, s, t)) = 1 + Len(s) + Len(t) /\ NumberParts(a, s, t)[1] = a
         /\ \A i \in 1..Len(s) : NumberParts(a, s, t)[i + 1] = s[i]
         /\ \A i \in 1..Len(t) : NumberParts(a, s, t)[1 + Len(s) + i] = t[i]
<1> DEFINE one == <<a>>
           u == one \o s
           d == u \o t
           n == Len(s)
           k == Len(t)
<1>1. one \in Seq(Byte) /\ Len(one) = 1 /\ one[1] = a
  OBVIOUS
<1>2. n \in Nat /\ k \in Nat
  BY LenProperties
<1> HIDE DEF one
<1>3. /\ u \in Seq(Byte) /\ Len(u) = 1 + n
      /\ \A i \in 1..(1 + n) : u[i] = IF i <= 1 THEN one[i] ELSE s[i - 1]
  <2>1. /\ u \in Seq(Byte) /\ Len(u) = Len(one) + Len(s)
        /\ \A i \in 1..(Len(one) + Len(s)) : u[i] = IF i <= Len(one) THEN one[i] ELSE s[i - Len(one)]
    BY <1>1, ConcatProperties
  <2> HIDE DEF u
  <2> QED BY <1>1, <2>1
<1> HIDE DEF u
<1>4. /\ d \in Seq(Byte) /\ Len(d) = (1 + n) + k
      /\ \A i \in 1..((1 + n) + k) : d[i] = IF i <= 1 + n THEN u[i] ELSE t[i - (1 + n)]
  <2>1. /\ d \in Seq(Byte) /\ Len(d) = Len(u) + Len(t)
        /\ \A i \in 1..(Len(u) + Len(t)) : d[i] = IF i <= Len(u) THEN u[i] ELSE t[i - Len(u)]
    BY <1>3, ConcatProperties
  <2> HIDE DEF d
  <2> QED BY <1>3, <2>1
<1> HIDE DEF d, n, k
<1>5. d[1] = a
  <2>1. 1 \in 1..((1 + n) + k) /\ 1 \in 1..(1 + n) /\ 1 <= 1 + n
    BY <1>2
  <2> QED BY <1>1, <1>3, <1>4, <2>1
<1>6. ASSUME NEW i \in 1..n PROVE d[i + 1] = s[i]
  <2>1. i + 1 \in 1..((1 + n) + k) /\ i + 1 \in 1..(1 + n) /\ i + 1 <= 1 + n /\ ~(i + 1 <= 1)
        /\ (i + 1) - 1 = i
    BY <1>2
  <2> QED BY <1>3, <1>4, <2>1
<1>7. ASSUME NEW i \in 1..k PROVE d[1 + n + i] = t[i]
  <2>1. 1 + n + i \in 1..((1 + n) + k) /\ ~(1 + n + i <= 1 + n) /\ (1 + n + i) - (1 + n) = i
    BY <1>2
  <2> QED BY <1>4, <2>1
<1>8. Len(d) = 1 + n + k
  BY <1>2, <1>4
<1> QED BY <1>5, <1>6, <1>7, <1>8 DEF d, u, one, n, k, NumberParts

\* The bytes of a number: the exponent, the pairs and behind few pairs of a negative one 102.
NumberBytes(data, neg, ex, values) ==
  LET h == Len(values)
  IN  /\ Len(data) = 1 + h + (IF neg /\ h < 20 THEN 1 ELSE 0)
      /\ data[1] = IF neg THEN 255 - ex ELSE ex
      /\ \A i \in 1..h : data[i + 1] = IF neg THEN 101 - values[i] ELSE values[i] + 1
      /\ neg /\ h < 20 => data[Len(data)] = 102

\* The numbers that encode_oracle_number scans from texts.
Decimals == [neg : BOOLEAN, int : Seq(Digit), frac : Seq(Digit), exp : Int]

\* The pairs of a number.
Evened(x) == EvenDigits(Digits(x), PrependZero(DecimalPointIndex(x)))
PairValues(e, h) == [i \in 1..h |-> e[2 * i - 1] * 10 + e[2 * i]]

LEMMA NumberEncoded ==
  ASSUME NEW x \in Decimals, Digits(x) # <<>>, NEW dig, NEW z, NEW h,
         ExponentByte(DecimalPointIndex(x)) \in 128..255, Pairing(Evened(x), dig, z, h)
  PROVE  /\ PairValues(Evened(x), h) \in Seq(Pairs) /\ Len(PairValues(Evened(x), h)) = h
         /\ NumberBytes(EncodeOracleNumber(x), x.neg, ExponentByte(DecimalPointIndex(x)),
                        PairValues(Evened(x), h))
<1> DEFINE e == Evened(x)
           ex == ExponentByte(DecimalPointIndex(x))
           values == [i \in 1..h |-> e[2 * i - 1] * 10 + e[2 * i]]
           a == IF x.neg THEN 255 - ex ELSE ex
           pairs == [i \in 1..(Len(e) \div 2) |->
                       IF x.neg THEN 101 - (e[2 * i - 1] * 10 + e[2 * i])
                       ELSE (e[2 * i - 1] * 10 + e[2 * i]) + 1]
           short == [i \in 1..h |-> IF x.neg THEN 101 - values[i] ELSE values[i] + 1]
           term == IF x.neg /\ Len(pairs) < 20 THEN <<102>> ELSE <<>>
           t == IF x.neg /\ h < 20 THEN <<102>> ELSE <<>>
           data == NumberParts(a, short, t)
<1>1. EncodeOracleNumber(x) = <<a>> \o pairs \o term
  BY DEF EncodeOracleNumber, ExponentByte, Evened
<1>2. h \in Nat \ {0} /\ Len(e) = 2 * h /\ \A i \in 1..(2 * h) : e[i] \in Digit
  BY PairingSizes DEF Pairing
<1>0. ex \in 128..255
  OBVIOUS
<1> HIDE DEF e, ex
<1>3. \A i \in 1..h : values[i] \in Pairs
  <2>1. ASSUME NEW i \in 1..h PROVE e[2 * i - 1] * 10 + e[2 * i] \in Pairs
    <3>1. 2 * i - 1 \in 1..(2 * h) /\ 2 * i \in 1..(2 * h)
      BY <1>2
    <3>2. e[2 * i - 1] \in Digit /\ e[2 * i] \in Digit
      BY <1>2, <3>1
    <3> QED BY <3>2, PairBytes
  <2> QED BY <2>1
<1>4. values \in Seq(Pairs) /\ Len(values) = h
  <2>1. values = [i \in 1..h |-> values[i]]
    OBVIOUS
  <2>2. \A i \in 1..h : e[2 * i - 1] * 10 + e[2 * i] \in Pairs
    BY <1>3
  <2>3. h \in Nat
    BY <1>2
  <2> QED BY <2>2, <2>3
<1>5. pairs = short
  <2>1. Len(e) \div 2 = h
    BY <1>2, SMT
  <2> QED BY <2>1
<1>6. short \in Seq(Byte) /\ Len(short) = h
      /\ \A i \in 1..h : short[i] = IF x.neg THEN 101 - values[i] ELSE values[i] + 1
  <2> HIDE DEF values
  <2>1. \A i \in 1..h : (IF x.neg THEN 101 - values[i] ELSE values[i] + 1) \in Byte
    <3>1. ASSUME NEW i \in 1..h PROVE 101 - values[i] \in Byte /\ values[i] + 1 \in Byte
      BY <1>3, PairBytes
    <3> QED BY <3>1
  <2>2. h \in Nat
    BY <1>2
  <2> QED BY <2>1, <2>2
<1>7. term = t
  BY <1>5, <1>6
<1> HIDE DEF short, pairs, values, term
<1>8. a \in Byte
  BY <1>0, PairBytes
<1>9. t \in Seq(Byte) /\ Len(t) = (IF x.neg /\ h < 20 THEN 1 ELSE 0)
      /\ (x.neg /\ h < 20 => t[1] = 102)
  <2>1. 102 \in Byte
    BY PairBytes
  <2>2. CASE x.neg /\ h < 20
    <3>1. t = <<102>>
      BY <2>2
    <3> HIDE DEF t
    <3> QED BY <2>1, <2>2, <3>1
  <2>3. CASE ~(x.neg /\ h < 20)
    <3>1. t = <<>>
      BY <2>3
    <3> HIDE DEF t
    <3> QED BY <2>3, <3>1
  <2> QED BY <2>2, <2>3
<1> HIDE DEF t, a
<1>10. /\ Len(data) = 1 + Len(short) + Len(t) /\ data[1] = a
       /\ \A i \in 1..Len(short) : data[i + 1] = short[i]
       /\ \A i \in 1..Len(t) : data[1 + Len(short) + i] = t[i]
  <2>1. short \in Seq(Byte) /\ t \in Seq(Byte)
    BY <1>6, <1>9
  <2> QED BY <1>8, <2>1, ThreeParts
<1> HIDE DEF data
<1>11. /\ Len(data) = 1 + h + (IF x.neg /\ h < 20 THEN 1 ELSE 0)
       /\ \A i \in 1..h : data[i + 1] = IF x.neg THEN 101 - values[i] ELSE values[i] + 1
  BY <1>6, <1>9, <1>10
<1>12. x.neg /\ h < 20 => data[Len(data)] = 102
  <2> SUFFICES ASSUME x.neg /\ h < 20 PROVE data[Len(data)] = 102
    OBVIOUS
  <2>1. Len(t) = 1 /\ t[1] = 102
    BY <1>9
  <2>2. data[1 + Len(short) + 1] = 102
    BY <1>10, <2>1
  <2>3. 1 + Len(short) + 1 = Len(data)
    BY <1>10, <2>1
  <2> QED BY <2>2, <2>3
<1>13. NumberBytes(data, x.neg, ex, values)
  BY <1>4, <1>10, <1>11, <1>12 DEF NumberBytes, a
<1>14. EncodeOracleNumber(x) = data
  BY <1>1, <1>5, <1>7 DEF data, NumberParts
<1> QED BY <1>4, <1>13, <1>14 DEF values, e, ex, PairValues

\* The number read from such bytes.
ReadAs(data, neg, end) ==
  DecodeOracleNumber(data) = NumberText(neg, WithoutTrailingZeros(end.digits, end.point), end.point)

LEMMA NumberDecoded ==
  ASSUME NEW data, NEW neg \in BOOLEAN, NEW ex \in 128..255, NEW values \in Seq(Pairs),
         Len(values) # 0, NumberBytes(data, neg, ex, values)
  PROVE  ReadAs(data, neg, PairScans(values, ex - 193)[Len(values)])
<1> DEFINE h == Len(values)
           positive == data[1] >= 128
           r == ~positive
           exponent == (IF positive THEN data[1] ELSE 255 - data[1]) - 193
           ended == ~positive /\ data[Len(data)] = 102
           mantissa == IF ended THEN Len(data) - 2 ELSE Len(data) - 1
           read == [i \in 1..mantissa |-> (IF positive THEN data[i + 1] - 1 ELSE 101 - data[i + 1]) % 256]
           end == PairScans(read, exponent)[mantissa]
<1>1. /\ Len(data) = 1 + h + (IF neg /\ h < 20 THEN 1 ELSE 0)
      /\ data[1] = IF neg THEN 255 - ex ELSE ex
      /\ \A i \in 1..h : data[i + 1] = IF neg THEN 101 - values[i] ELSE values[i] + 1
      /\ neg /\ h < 20 => data[Len(data)] = 102
  BY DEF NumberBytes
<1>2. h \in Nat /\ h # 0 /\ \A i \in 1..h : values[i] \in Pairs
  BY LenProperties, ElementOfSeq
<1> HIDE DEF h
<1>3. Len(data) # 1
  BY <1>1, <1>2
<1>4. ReadAs(data, r, end)
  BY <1>3 DEF DecodeOracleNumber, ReadAs
<1>5. positive = ~neg
  <2>1. ex >= 128 /\ 255 - ex < 128 /\ 255 - ex \in Int
    OBVIOUS
  <2>2. CASE neg
    <3>1. data[1] = 255 - ex
      BY <1>1, <2>2
    <3> QED BY <2>1, <2>2, <3>1
  <2>3. CASE ~neg
    <3>1. data[1] = ex
      BY <1>1, <2>3
    <3> QED BY <2>1, <2>3, <3>1
  <2> QED BY <2>2, <2>3
<1> HIDE DEF positive
<1>6. exponent = ex - 193
  <2>1. CASE neg
    <3>1. data[1] = 255 - ex /\ ~positive
      BY <1>1, <1>5, <2>1
    <3>2. 255 - data[1] = ex
      BY <3>1, PairBytes
    <3>3. (IF positive THEN data[1] ELSE 255 - data[1]) = ex
      BY <3>1, <3>2
    <3> QED BY <3>3
  <2>2. CASE ~neg
    <3>1. data[1] = ex /\ positive
      BY <1>1, <1>5, <2>2
    <3>2. (IF positive THEN data[1] ELSE 255 - data[1]) = ex
      BY <3>1
    <3> QED BY <3>2
  <2> QED BY <2>1, <2>2
<1>7. mantissa = h
  <2>1. CASE ~neg
    <3>0. positive
      BY <1>5, <2>1
    <3>1. Len(data) = 1 + h
      BY <1>1, <1>2, <2>1
    <3>2. ~ended
      BY <3>0
    <3> HIDE DEF ended
    <3>3. mantissa = Len(data) - 1
      BY <3>2
    <3> QED BY <1>2, <3>1, <3>3
  <2>2. CASE neg /\ h < 20
    <3>1. Len(data) = 1 + h + 1 /\ data[Len(data)] = 102 /\ ~positive
      BY <1>1, <1>5, <2>2
    <3>2. ended
      BY <3>1
    <3> HIDE DEF ended
    <3>3. mantissa = Len(data) - 2
      BY <3>2
    <3> QED BY <1>2, <3>1, <3>3
  <2>3. CASE neg /\ ~(h < 20)
    <3>1. Len(data) = h + 1
      BY <1>1, <1>2, <2>3
    <3>2. h \in 1..h
      BY <1>2
    <3>3. data[h + 1] = 101 - values[h] /\ values[h] \in Pairs
      BY <1>1, <1>2, <2>3, <3>2
    <3>4. data[Len(data)] # 102
      <4>1. 101 - values[h] # 102
        BY <3>3, PairBytes
      <4> QED BY <3>1, <3>3, <4>1
    <3>5. ~ended
      BY <3>4
    <3> HIDE DEF ended
    <3>6. mantissa = Len(data) - 1
      BY <3>5
    <3> QED BY <1>2, <3>1, <3>6
  <2> QED BY <2>1, <2>2, <2>3
<1> HIDE DEF mantissa, exponent
<1>8. read = values
  <2>1. ASSUME NEW i \in 1..h
        PROVE (IF positive THEN data[i + 1] - 1 ELSE 101 - data[i + 1]) % 256 = values[i]
    <3> DEFINE v == values[i]
    <3>1. v \in Pairs
      BY <1>2
    <3>2. (v + 1 - 1) % 256 = v /\ (101 - (101 - v)) % 256 = v
      BY <3>1, PairBytes
    <3> HIDE DEF v
    <3>3. CASE neg
      <4>1. data[i + 1] = 101 - v /\ ~positive
        BY <1>1, <1>5, <3>3 DEF v
      <4> QED BY <3>2, <4>1 DEF v
    <3>4. CASE ~neg
      <4>1. data[i + 1] = v + 1 /\ positive
        BY <1>1, <1>5, <3>4 DEF v
      <4>2. v + 1 - 1 = (v + 1) - 1
        BY <3>1 DEF Pairs
      <4>3. ((v + 1) - 1) % 256 = v
        BY <3>2, <4>2
      <4> QED BY <4>1, <4>3 DEF v
    <3> QED BY <3>3, <3>4
  <2>2. read = [i \in 1..h |-> values[i]]
    BY <1>7, <2>1
  <2>3. values = [i \in 1..h |-> values[i]]
    BY LenProperties DEF h
  <2> QED BY <2>2, <2>3
<1> HIDE DEF read
<1>9. end = PairScans(values, ex - 193)[h]
  BY <1>6, <1>7, <1>8
<1>10. r = neg
  BY <1>5
<1> HIDE DEF end
<1> HIDE DEF r
<1>11. ReadAs(data, neg, end)
  BY <1>4, <1>10
<1> QED BY <1>9, <1>11 DEF h

(***************************************************************************)
(* A NUMBER that encode_oracle_number writes and decode_oracle_number      *)
(* reads is the same number, whatever its sign, its digits and its         *)
(* exponent, but for the fractions that lose a zero behind their point.    *)
(***************************************************************************)
THEOREM NumbersReadBack ==
  \A x \in Decimals : ~IsSmallFraction(x) => NumberReadBack(x)
<1> SUFFICES ASSUME NEW x \in Decimals, ~IsSmallFraction(x), InRange(x)
             PROVE NumberValue(DecodeOracleNumber(EncodeOracleNumber(x))) = NumberValue(x)
  BY DEF NumberReadBack
<1> DEFINE s == x.int \o x.frac
           dig == Digits(x)
           point == DecimalPointIndex(x)
           P == PrependZero(point)
           z == IF P THEN 1 ELSE 0
           ex == ExponentByte(point)
           e == Evened(x)
<1>1. x.neg \in BOOLEAN /\ x.int \in Seq(Digit) /\ x.frac \in Seq(Digit) /\ x.exp \in Int
  BY DEF Decimals
<1>2. s \in Seq(Digit)
  BY <1>1, ConcatProperties
<1>3. CASE dig = <<>>
  <2>1. EncodeOracleNumber(x) = <<128>>
    BY <1>3 DEF EncodeOracleNumber
  <2>2. Len(<<128>>) = 1 /\ <<128>>[1] = 128
    OBVIOUS
  <2>3. DecodeOracleNumber(<<128>>) = NumberText(FALSE, <<>>, 1)
    <3>1. <<128>>[1] >= 128
      BY <2>2
    <3>2. (~(<<128>>[1] >= 128)) = FALSE
      BY <3>1
    <3> QED BY <2>2, <3>2 DEF DecodeOracleNumber
  <2>4. NumberValue(x) = [neg |-> FALSE, digits |-> <<>>, point |-> 0]
    BY <1>3 DEF NumberValue
  <2>5. FALSE \in BOOLEAN
    OBVIOUS
  <2> QED BY <2>1, <2>3, <2>4, <2>5, ZeroValue
<1>4. CASE dig # <<>>
  <2>1. dig \in Seq(Byte) /\ Bare(dig) /\ LeadingZeros(s) \in Nat /\ Padded(s, dig, LeadingZeros(s))
    <3>1. s \in Seq(Byte)
      BY <1>2, DigitsAreBytes
    <3>2. dig = Stripped(s)
      BY DEF Digits
    <3> HIDE DEF s, dig
    <3> QED BY <1>4, <3>1, <3>2, StrippedOf
  <2>2. dig \in Seq(Digit)
    <3> HIDE DEF s, dig
    <3>1. \A i \in 1..Len(dig) : dig[i] \in Digit
      <4>1. /\ LeadingZeros(s) + 1 \in 1..Len(s)
            /\ \A i \in 1..Len(dig) : s[LeadingZeros(s) + i] = dig[i]
        <5>1. s \in Seq(Byte)
          BY <1>2, DigitsAreBytes
        <5> QED BY <2>1, <5>1, PaddedEnds
      <4>2. ASSUME NEW i \in 1..Len(dig) PROVE dig[i] \in Digit
        <5>1. LeadingZeros(s) + Len(dig) <= Len(s) /\ Len(s) \in Nat /\ Len(dig) \in Nat
          BY <1>2, <2>1, LenProperties DEF Padded
        <5>2. LeadingZeros(s) + i \in 1..Len(s)
          BY <2>1, <5>1
        <5>3. s[LeadingZeros(s) + i] \in Digit
          BY <1>2, <5>2, ElementOfSeq
        <5> QED BY <4>1, <5>3
      <4> QED BY <4>2
    <3>2. Len(dig) \in Nat /\ dig = [i \in 1..Len(dig) |-> dig[i]]
      BY <2>1, LenProperties
    <3> QED BY <3>1, <3>2
  <2>3. point \in -129..126
    BY DEF InRange
  <2>4. ~(point < 0 /\ point % 2 = 1)
    BY DEF IsSmallFraction
  <2> HIDE DEF point, dig
  <2>5. ex \in 128..255 /\ (ex - 193) * 2 + 2 - z = point
    BY <2>3, <2>4, PointKept
  <2>6. P \in BOOLEAN
    BY DEF PrependZero
  <2>7. PICK h : Pairing(e, dig, z, h)
    <3>1. e = EvenDigits(dig, P)
      BY DEF Evened, dig, point
    <3> HIDE DEF P, e
    <3>2. \E h : Pairing(EvenDigits(dig, P), dig, IF P THEN 1 ELSE 0, h)
      BY <2>1, <2>2, <2>6, EvenPairing
    <3> QED BY <3>1, <3>2
  <2> DEFINE values == PairValues(e, h)
             end == PairScans(values, ex - 193)[h]
  <2>8. values \in Seq(Pairs) /\ Len(values) = h /\ NumberBytes(EncodeOracleNumber(x), x.neg, ex, values)
    <3>1. Digits(x) # <<>>
      BY <1>4 DEF dig
    <3>2. ExponentByte(DecimalPointIndex(x)) \in 128..255
      BY <2>5 DEF point
    <3>3. Pairing(Evened(x), dig, z, h)
      BY <2>7
    <3> HIDE DEF ex, z
    <3>4. /\ PairValues(Evened(x), h) \in Seq(Pairs) /\ Len(PairValues(Evened(x), h)) = h
          /\ NumberBytes(EncodeOracleNumber(x), x.neg, ExponentByte(DecimalPointIndex(x)),
                         PairValues(Evened(x), h))
      BY <3>1, <3>2, <3>3, NumberEncoded
    <3> QED BY <3>4 DEF ex, point
  <2> HIDE DEF ex, z, e
  <2>9. h \in Nat /\ h # 0
    BY <2>7, PairingSizes
  <2>10. \A i \in 1..h : values[i] = e[2 * i - 1] * 10 + e[2 * i]
    BY DEF PairValues
  <2> HIDE DEF values
  <2>11. ex - 193 \in Int
    BY <2>5
  <2>12. end.digits = dig /\ end.point = (ex - 193) * 2 + 2 - z
    BY <2>7, <2>8, <2>10, <2>11, PairsBack
  <2>13. end.point = point
    BY <2>5, <2>12
  <2>14. ReadAs(EncodeOracleNumber(x), x.neg, end)
    <3>1. Len(values) # 0
      BY <2>8, <2>9
    <3>2. ReadAs(EncodeOracleNumber(x), x.neg, PairScans(values, ex - 193)[Len(values)])
      BY <1>1, <2>5, <2>8, <3>1, NumberDecoded
    <3> QED BY <2>8, <3>2
  <2> HIDE DEF end
  <2>15. point \in Int
    BY <2>3
  <2>16. DecodeOracleNumber(EncodeOracleNumber(x)) = NumberText(x.neg, dig, point)
    <3>1. WithoutTrailingZeros(dig, point) = dig
      BY <2>1, <2>2, <2>15, NoTrailingZeros
    <3> QED BY <2>12, <2>13, <2>14, <3>1 DEF ReadAs
  <2>17. NumberValue(NumberText(x.neg, dig, point)) = [neg |-> x.neg, digits |-> dig, point |-> point]
    BY <1>1, <2>1, <2>2, <2>15, TextValue
  <2>18. NumberValue(x) = [neg |-> x.neg, digits |-> dig, point |-> point]
    BY <1>4 DEF NumberValue, dig, point
  <2> QED BY <2>16, <2>17, <2>18
<1> QED BY <1>3, <1>4
=============================================================================
