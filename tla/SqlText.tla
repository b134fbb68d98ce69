------------------------------ MODULE SqlText ------------------------------
(***************************************************************************)
(* The scanners over SQL text: parse_bind_variables of Statement, and      *)
(* bind_names_for_sql and split_top_level of sqlrs, which must agree with  *)
(* it.  A text is a sequence of lexemes: "quote" ('), "dashes" (--),       *)
(* "open" and "close" (of a block comment), "newline", the keywords        *)
(* "RETURNING" and "INTO", "word", the bind variables ":A" and ":B", and   *)
(* the "(", ")" and "," of a call.                                         *)
(***************************************************************************)
EXTENDS Integers, Sequences, FiniteSets

Lexemes == {"quote", "dashes", "open", "close", "newline", "RETURNING", "INTO", ":A", ":B"}
CallLexemes == {"quote", "(", ")", ",", "word"}
Binds == {":A", ":B"}
StatementTypes == {"Query", "Dml", "PlSql"}

----------------------------------------------------------------------------
\* parse_bind_variables

ScanStart == [in_string |-> FALSE, in_comment |-> FALSE, in_line_comment |-> FALSE,
              returning |-> FALSE, into |-> FALSE, binds |-> <<>>]

\* A bind is added again unless the statement is PL/SQL.
AddBind(st, type, x) ==
  IF type = "PlSql" /\ \E k \in DOMAIN st.binds : st.binds[k].name = x THEN st
  ELSE [st EXCEPT !.binds = Append(@, [name |-> x, is_return |-> st.into])]

\* Mutant: a quote in a comment begins a string.
QuoteCountsEverywhere(st) == TRUE

QuoteCounts(st) == ~st.in_comment /\ ~st.in_line_comment

\* One turn of the loop; dashes are looked for inside a block comment too.
Scan(st, type, x) ==
  IF x = "quote" /\ QuoteCounts(st) THEN [st EXCEPT !.in_string = ~@]
  ELSE IF st.in_string THEN st
  ELSE IF x = "dashes" THEN [st EXCEPT !.in_line_comment = TRUE]
  ELSE IF st.in_line_comment THEN [st EXCEPT !.in_line_comment = x # "newline"]
  ELSE IF x = "open" THEN [st EXCEPT !.in_comment = TRUE]
  ELSE IF st.in_comment THEN [st EXCEPT !.in_comment = x # "close"]
  ELSE CASE x = "RETURNING" -> [st EXCEPT !.returning = @ \/ type = "Dml"]
         [] x = "INTO" -> [st EXCEPT !.into = st.returning]
         [] x \in Binds -> AddBind(st, type, x)
         [] OTHER -> st

\* The locals of the loop behind each position of the text.
Scans(text, type) ==
  LET scan[i \in 0..Len(text)] ==
        IF i = 0 THEN ScanStart ELSE Scan(scan[i - 1], type, text[i])
  IN  scan

\* The bind_info_list of a statement.
BindInfo(text, type) == Scans(text, type)[Len(text)].binds

----------------------------------------------------------------------------
\* sqlrs

\* bind_names_for_sql knows strings but no comments, and keeps repetitions.
NamesStart == [in_single_quote |-> FALSE, names |-> <<>>]

NamesStep(st, x) ==
  CASE x = "quote" -> [st EXCEPT !.in_single_quote = ~@]
    [] x \in Binds /\ ~st.in_single_quote -> [st EXCEPT !.names = Append(@, x)]
    [] OTHER -> st

NameScans(text) ==
  LET scan[i \in 0..Len(text)] ==
        IF i = 0 THEN NamesStart ELSE NamesStep(scan[i - 1], text[i])
  IN  scan

BindNamesForSql(text) == NameScans(text)[Len(text)].names

DepthAfter(st, x) == CASE x = "(" /\ ~st.quoted -> st.depth + 1
                       [] x = ")" /\ ~st.quoted -> st.depth - 1
                       [] OTHER -> st.depth

SplitStep(st, x) ==
  IF x = "," /\ ~st.quoted /\ st.depth = 0
  THEN [st EXCEPT !.parts = Append(@, st.part), !.part = <<>>]
  ELSE [st EXCEPT !.part = Append(@, x), !.depth = DepthAfter(st, x),
                  !.quoted = IF x = "quote" THEN ~@ ELSE @]

SplitStart == [depth |-> 0, quoted |-> FALSE, parts |-> <<>>, part |-> <<>>]

SplitScans(text) ==
  LET scan[i \in 0..Len(text)] ==
        IF i = 0 THEN SplitStart ELSE SplitStep(scan[i - 1], text[i])
  IN  scan

SplitTopLevel(text) ==
  LET end == SplitScans(text)[Len(text)]
  IN  Append(end.parts, end.part)

----------------------------------------------------------------------------
\* Reference definitions, by position in the text

\* The regions of SQL: code, string, line or block comment.
RegionAfter(r, x) ==
  CASE r = "code" /\ x = "quote" -> "string"
    [] r = "code" /\ x = "dashes" -> "line"
    [] r = "code" /\ x = "open" -> "block"
    [] \/ r = "string" /\ x = "quote"
       \/ r = "line" /\ x = "newline"
       \/ r = "block" /\ x = "close" -> "code"
    [] OTHER -> r

\* The region behind each position, and the one a position stands in.
Regions(text) ==
  LET region[i \in 0..Len(text)] ==
        IF i = 0 THEN "code" ELSE RegionAfter(region[i - 1], text[i])
  IN  region

Region(text) == [i \in 1..Len(text) |-> Regions(text)[i - 1]]

InCode(text) == {i \in DOMAIN text : Region(text)[i] = "code"}

\* Positions of the binds that count: in code, and for PL/SQL the first of a name.
BindPositions(text, type) ==
  {i \in InCode(text) :
     /\ text[i] \in Binds
     /\ type = "PlSql" => ~\E j \in InCode(text) : j < i /\ text[j] = text[i]}

\* A bind returns a value if RETURNING and then INTO stand before it.
Returns(text, type, i) ==
  /\ type = "Dml"
  /\ \E j, k \in InCode(text) : j < k /\ k < i /\ text[j] = "RETURNING" /\ text[k] = "INTO"

\* Block comments that hold a double dash are scanned wrongly.
Plain(text) == \A i \in DOMAIN text : text[i] = "dashes" => Region(text)[i] # "block"

----------------------------------------------------------------------------
\* Properties, of one text

(***************************************************************************)
(* The binds of a statement are those outside strings and comments, in     *)
(* order, each flagged as a return bind if it follows RETURNING .. INTO,   *)
(* and once per name for PL/SQL: for every text without a double dash in a *)
(* block comment.                                                          *)
(***************************************************************************)
BindsOfTextExact(text, type) ==
  Plain(text) =>
    LET positions == BindPositions(text, type)
    IN  /\ Len(BindInfo(text, type)) = Cardinality(positions)
        /\ \A i \in positions :
             BindInfo(text, type)[Cardinality({j \in positions : j <= i})] =
               [name |-> text[i], is_return |-> Returns(text, type, i)]

(***************************************************************************)
(* sqlrs computes its bind values with a scanner of its own: it finds the  *)
(* names that the statement has, for texts without comments that name each *)
(* bind of a PL/SQL block once.                                            *)
(***************************************************************************)
SqlrsNamesAgree(text, type) ==
  (\A i \in DOMAIN text : text[i] \notin {"dashes", "open"})
    /\ (type = "PlSql" => \A i, j \in DOMAIN text :
          text[i] = text[j] /\ text[i] \in Binds => i = j)
    => BindNamesForSql(text) = [k \in DOMAIN BindInfo(text, type) |->
                                  BindInfo(text, type)[k].name]

(***************************************************************************)
(* The arguments of a call are cut at its top-level commas and at no       *)
(* other: the part before the n-th cut is the text between it and the cut  *)
(* before, where a cut is a comma with an even number of quotes before it  *)
(* and, outside strings, as many opening as closing parentheses.           *)
(***************************************************************************)
Before(text, i, S) == Cardinality({j \in 1..(i - 1) : text[j] \in S})
Unquoted(text, i) == Before(text, i, {"quote"}) % 2 = 0
Opened(text, i, p) == Cardinality({j \in 1..(i - 1) : text[j] = p /\ Unquoted(text, j)})
Cuts(text) == {i \in DOMAIN text : /\ text[i] = "," /\ Unquoted(text, i)
                                   /\ Opened(text, i, "(") = Opened(text, i, ")")}

ArgumentsExact(text) ==
  LET cuts == Cuts(text)
      bounds == {0, Len(text) + 1} \cup cuts
  IN  /\ Len(SplitTopLevel(text)) = Cardinality(cuts) + 1
      /\ \A c, d \in bounds :
           c < d /\ (\A e \in cuts : e <= c \/ d <= e)
             => SplitTopLevel(text)[Cardinality({e \in cuts : e < d}) + 1]
                  = SubSeq(text, c + 1, d - 1)

Texts(n) == UNION {[1..k -> Lexemes] : k \in 0..n}
CallTexts(n) == UNION {[1..k -> CallLexemes] : k \in 0..n}
=============================================================================
