-------------------------- MODULE OperationsProofs --------------------------
(***************************************************************************)
(* Proofs about Operations.  First one of its parts, Script, for scripts   *)
(* of any length, statements of any number of lines and any sequence of    *)
(* commands, errors and outputs (LOBs and responses have modules of their  *)
(* own).  Then the module itself: its parts behave as their own            *)
(* specifications say, and what the algorithms compute is right for any    *)
(* samples.  Then the requests, of executions and of LOB operations: what  *)
(* their headers and pointers announce follows, and is read back.          *)
(***************************************************************************)
EXTENDS Operations, LobOpsProofs, ResponsesProofs, AlgorithmProofs, TLAPS

----------------------------------------------------------------------------
\* Script: the state and its invariant

Line0 == [unit : Nat, k : Nat]
Modes == {"top", "sql", "block", "end"}
Vars == {"undeclared", "none", "assigned", "out"}
Steps == {"read", "drain", "stopped"}

\* The lines of a unit, as they are gathered and executed.
Whole(u, n) == [i \in 1..n |-> [unit |-> u, k |-> i]]

Sessions == [buffer : Seq(Line0), block_mode : BOOLEAN, step : Steps,
             serveroutput : BOOLEAN, continue_on_error : BOOLEAN, var : Vars]
TextStates == [mode : Modes, unit : Nat, lines : Nat, commands : Nat]
OutputStates == [enabled : BOOLEAN, lines : Nat, owed : BOOLEAN]

ScriptTyped ==
  /\ text \in TextStates
  /\ sqlrs \in Sessions
  /\ output \in OutputStates
  /\ ran \in [count : Nat, lines : Seq(Line0)]

(***************************************************************************)
(* The inductive invariant behind StatementsWhole.  Between statements     *)
(* nothing is gathered and the last statement written is the last one      *)
(* executed.  Inside a statement its lines so far are in the buffer, the   *)
(* statement before it is the last one executed, and run_script knows a    *)
(* block from SQL.                                                         *)
(***************************************************************************)
BetweenStatements ==
  text.mode = "top" /\ sqlrs.step # "stopped" =>
    /\ sqlrs.buffer = <<>> /\ ~sqlrs.block_mode
    /\ ran.count = text.unit
    /\ ran.lines = Whole(text.unit, text.lines)

InsideStatement ==
  text.mode \in {"sql", "block"} /\ sqlrs.step # "stopped" =>
    /\ sqlrs.step = "read"
    /\ text.lines > 0
    /\ sqlrs.buffer = Whole(text.unit, text.lines)
    /\ sqlrs.block_mode <=> text.mode = "block"
    /\ ran.count + 1 = text.unit

ScriptInv == ScriptTyped /\ BetweenStatements /\ InsideStatement

----------------------------------------------------------------------------
\* Lines

LEMMA WholeLemma ==
  ASSUME NEW u \in Nat, NEW n \in Nat
  PROVE  /\ Whole(u, n) \in Seq(Line0) /\ Len(Whole(u, n)) = n
         /\ Append(Whole(u, n), [unit |-> u, k |-> n + 1]) = Whole(u, n + 1)
         /\ Whole(u, 0) = <<>>
         /\ Whole(u, n) = <<>> <=> n = 0
<1>1. Whole(u, n) \in Seq(Line0) /\ Len(Whole(u, n)) = n
  BY DEF Whole, Line0
<1>2. Whole(u, n + 1) \in Seq(Line0) /\ Len(Whole(u, n + 1)) = n + 1
  BY DEF Whole, Line0
<1>3. Append(Whole(u, n), [unit |-> u, k |-> n + 1]) = Whole(u, n + 1)
  BY <1>1, <1>2 DEF Whole
<1>4. Whole(u, 0) = <<>>
  BY DEF Whole
<1> QED BY <1>1, <1>3, <1>4

----------------------------------------------------------------------------
\* What is executed

LEMMA StatementEnds ==
  ASSUME output \in OutputStates, NEW rs \in Sessions, NEW plsql \in BOOLEAN,
         StatementFails(rs) \/ Succeeds(rs, plsql)
  PROVE  /\ sqlrs' \in Sessions /\ output' \in OutputStates
         /\ sqlrs'.buffer = rs.buffer /\ sqlrs'.block_mode = rs.block_mode
         /\ sqlrs'.step = "read" => ~output'.owed
<1>1. PICK st \in Steps : sqlrs' = [rs EXCEPT !.step = st]
  BY DEF StatementFails, Succeeds, Steps
<1>2. /\ sqlrs' \in Sessions
      /\ sqlrs'.buffer = rs.buffer /\ sqlrs'.block_mode = rs.block_mode
  BY <1>1 DEF Sessions
<1>3. MaxOutput \in Nat
  BY ScriptConstants
<1>4. ASSUME NEW owed \in BOOLEAN, Writes(owed) PROVE output' \in OutputStates /\ output'.owed = owed
  <2>1. PICK n \in 0..MaxOutput : output' = [output EXCEPT !.lines = @ + n, !.owed = owed]
    BY <1>4 DEF Writes
  <2>2. \A k \in Nat : [output EXCEPT !.lines = k, !.owed = owed] \in OutputStates
    BY DEF OutputStates
  <2>3. output.lines + n \in Nat
    BY <1>3, <2>1 DEF OutputStates
  <2> QED BY <2>1, <2>2, <2>3 DEF OutputStates
<1>5. CASE StatementFails(rs)
  <2>1. Writes(FALSE)
    BY <1>5 DEF StatementFails
  <2> QED BY <1>2, <1>4, <2>1
<1>6. CASE Succeeds(rs, plsql)
  <2> DEFINE listens == plsql /\ rs.serveroutput
  <2>1. listens \in BOOLEAN
    OBVIOUS
  <2>2. Writes(listens) /\ (sqlrs'.step = "read" => ~listens)
    BY <1>6 DEF Succeeds, Sessions
  <2> HIDE DEF listens
  <2> QED BY <1>2, <1>4, <2>1, <2>2
<1> QED BY <1>5, <1>6

(***************************************************************************)
(* execute_statement empties the buffer, whatever the statement does.      *)
(***************************************************************************)
LEMMA Executed ==
  ASSUME ScriptTyped, NEW lines \in Seq(Line0), NEW plsql \in BOOLEAN, ExecuteStatement(lines, plsql)
  PROVE  /\ ran' = [count |-> ran.count + 1, lines |-> lines]
         /\ sqlrs' \in Sessions /\ output' \in OutputStates
         /\ sqlrs'.buffer = <<>> /\ ~sqlrs'.block_mode
         /\ OutputDrained'
<1> DEFINE rs == [sqlrs EXCEPT !.buffer = <<>>, !.block_mode = FALSE]
<1>1. rs \in Sessions /\ rs.buffer = <<>> /\ ~rs.block_mode
  <2>1. \A b \in Seq(Line0) : [sqlrs EXCEPT !.buffer = b, !.block_mode = FALSE] \in Sessions
    BY DEF ScriptTyped, Sessions
  <2>2. <<>> \in Seq(Line0)
    OBVIOUS
  <2> QED BY <2>1, <2>2 DEF ScriptTyped, Sessions
<1>2. /\ ran' = [count |-> ran.count + 1, lines |-> lines]
      /\ StatementFails(rs) \/ Succeeds(rs, plsql)
  BY DEF ExecuteStatement
<1>3. output \in OutputStates
  BY DEF ScriptTyped
<1> HIDE DEF rs
<1>4. /\ sqlrs' \in Sessions /\ output' \in OutputStates
      /\ sqlrs'.buffer = rs.buffer /\ sqlrs'.block_mode = rs.block_mode
      /\ sqlrs'.step = "read" => ~output'.owed
  BY <1>1, <1>2, <1>3, StatementEnds
<1> QED BY <1>1, <1>2, <1>4 DEF OutputDrained

----------------------------------------------------------------------------
\* The steps

LEMMA ScriptInvInit == ScriptInit => ScriptInv
<1> SUFFICES ASSUME ScriptInit PROVE ScriptInv
  OBVIOUS
<1>1. ScriptTyped
  BY DEF ScriptInit, ScriptTyped, Sessions, TextStates, OutputStates, Modes, Steps, Vars
<1>2. BetweenStatements /\ InsideStatement
  BY WholeLemma DEF ScriptInit, BetweenStatements, InsideStatement
<1> QED BY <1>1, <1>2 DEF ScriptInv

\* The lines that may come between statements, in SQL and in a block.
AtTop(x, mode) ==
  \/ x = "blank" /\ mode = "top"
  \/ x = "end_sql" /\ mode = "top"
  \/ x = "sql" /\ mode = "sql"
  \/ x = "block" /\ mode = "block"

InSql(x, mode) ==
  \/ x \in {"blank", "sql", "command", "block"} /\ mode = "sql"
  \/ x = "end_sql" /\ mode = "top"

InBlock(x, mode) ==
  \/ x \in {"blank", "end_sql", "command"} /\ mode = "block"
  \/ x = "slash" /\ mode = "top"

LEMMA LinesAre ==
  ASSUME NEW l \in Lines
  PROVE  \/ text.mode = "top" /\ AtTop(l[1], l[2])
         \/ text.mode = "sql" /\ InSql(l[1], l[2])
         \/ text.mode = "block" /\ InBlock(l[1], l[2])
BY DEF Lines, AtTop, InSql, InBlock

LEMMA TextTyped ==
  ASSUME ScriptTyped, NEW mode \in Modes, NEW u \in Nat, NEW n \in Nat,
         text' = [text EXCEPT !.mode = mode, !.unit = u, !.lines = n]
  PROVE  /\ text' \in TextStates
         /\ text'.mode = mode /\ text'.unit = u /\ text'.lines = n
BY DEF ScriptTyped, TextStates

\* A line gathered in the buffer.
LEMMA Gathered ==
  ASSUME ScriptTyped, NEW lines \in Seq(Line0), NEW block \in BOOLEAN,
         sqlrs' = [sqlrs EXCEPT !.buffer = lines, !.block_mode = block]
  PROVE  /\ sqlrs' \in Sessions
         /\ sqlrs'.buffer = lines /\ sqlrs'.block_mode = block /\ sqlrs'.step = sqlrs.step
BY DEF ScriptTyped, Sessions

(***************************************************************************)
(* A line between two statements opens one, or is one, or is blank.        *)
(***************************************************************************)
LEMMA ReadAtTop ==
  ASSUME ScriptInv, NEW x, NEW mode, AtTop(x, mode), ReadLine(x, mode), text.mode = "top"
  PROVE  ScriptInv'
<1>1. /\ sqlrs.step = "read" /\ sqlrs.buffer = <<>> /\ ~sqlrs.block_mode
      /\ ran.count = text.unit /\ ran.lines = Whole(text.unit, text.lines)
      /\ ScriptTyped /\ text.unit \in Nat /\ text.lines \in Nat /\ ran.count \in Nat
  BY DEF ScriptInv, BetweenStatements, ReadLine, ScriptTyped, TextStates
<1> DEFINE u == IF x # "blank" THEN text.unit + 1 ELSE text.unit
           n == IF x # "blank" THEN 1 ELSE text.lines
           line == [unit |-> text.unit + 1, k |-> 1]
           lines == Append(<<>>, line)
<1>2. /\ text' \in TextStates
      /\ text'.mode = mode /\ text'.unit = u /\ text'.lines = n
  <2>1. mode \in Modes
    BY DEF AtTop, Modes
  <2>2. u \in Nat /\ n \in Nat
    BY <1>1
  <2>3. text' = [text EXCEPT !.mode = mode, !.unit = u, !.lines = n]
    BY DEF ReadLine, Written, StartsUnit
  <2> HIDE DEF u, n
  <2> QED BY <1>1, <2>1, <2>2, <2>3, TextTyped
<1>3. line \in Line0 /\ lines \in Seq(Line0) /\ lines = Whole(text.unit + 1, 1)
  <2>1. line \in Line0
    BY <1>1 DEF Line0
  <2>2. <<>> \in Seq(Line0) /\ \A q \in Seq(Line0) : Append(q, line) \in Seq(Line0)
    BY <2>1
  <2>3. text.unit + 1 \in Nat /\ 0 \in Nat /\ 0 + 1 = 1
    BY <1>1
  <2>4. Whole(text.unit + 1, 0) = <<>>
    BY <2>3, WholeLemma
  <2>5. Append(Whole(text.unit + 1, 0), [unit |-> text.unit + 1, k |-> 0 + 1])
          = Whole(text.unit + 1, 0 + 1)
    BY <2>3, WholeLemma
  <2> QED BY <2>1, <2>2, <2>3, <2>4, <2>5
<1>4. x # "blank" => Line(x) = line
  BY DEF Line, StartsUnit
<1>5. CASE x = "blank"
  <2>1. UNCHANGED <<sqlrs, output, ran>>
    BY <1>1, <1>5 DEF ReadLine
  <2>2. text'.mode = "top" /\ text'.unit = text.unit /\ text'.lines = text.lines
    BY <1>2, <1>5 DEF AtTop
  <2>3. ScriptTyped'
    BY <1>1, <1>2, <2>1 DEF ScriptTyped
  <2>4. BetweenStatements' /\ InsideStatement'
    BY <1>1, <2>1, <2>2 DEF BetweenStatements, InsideStatement
  <2> QED BY <2>3, <2>4 DEF ScriptInv
<1>6. CASE x = "end_sql"
  <2>1. ExecuteStatement(lines, FALSE)
    BY <1>1, <1>4, <1>6 DEF ReadLine, TakenForCommand
  <2> HIDE DEF line, lines
  <2>2. /\ ran' = [count |-> ran.count + 1, lines |-> lines]
        /\ sqlrs' \in Sessions
        /\ output' \in OutputStates
        /\ sqlrs'.buffer = <<>> /\ ~sqlrs'.block_mode
    BY <1>1, <1>3, <2>1, Executed
  <2>3. text'.mode = "top" /\ text'.unit = text.unit + 1 /\ text'.lines = 1
    BY <1>2, <1>6 DEF AtTop
  <2>4. ScriptTyped'
    BY <1>1, <1>2, <1>3, <2>2 DEF ScriptTyped
  <2>5. BetweenStatements' /\ InsideStatement'
    BY <1>1, <1>3, <2>2, <2>3 DEF BetweenStatements, InsideStatement
  <2> QED BY <2>4, <2>5 DEF ScriptInv
<1>7. CASE x \in {"sql", "block"}
  <2> DEFINE block == (x = "block")
  <2>1. /\ sqlrs' = [sqlrs EXCEPT !.buffer = lines, !.block_mode = block]
        /\ UNCHANGED <<output, ran>>
    BY <1>1, <1>4, <1>7 DEF ReadLine, TakenForCommand
  <2>2. block \in BOOLEAN /\ (block <=> mode = "block") /\ mode \in {"sql", "block"}
    BY <1>7 DEF AtTop
  <2>3. text'.mode = mode /\ text'.unit = text.unit + 1 /\ text'.lines = 1
    BY <1>2, <1>7
  <2> HIDE DEF block, line, lines
  <2>4. /\ sqlrs' \in Sessions
        /\ sqlrs'.buffer = lines /\ sqlrs'.block_mode = block /\ sqlrs'.step = sqlrs.step
    BY <1>1, <1>3, <2>1, <2>2, Gathered
  <2>5. ScriptTyped'
    BY <1>1, <1>2, <2>1, <2>4 DEF ScriptTyped
  <2>6. sqlrs'.block_mode <=> mode = "block"
    BY <2>2, <2>4
  <2>7. BetweenStatements'
    BY <2>2, <2>3 DEF BetweenStatements
  <2>8. InsideStatement'
    BY <1>1, <1>3, <2>1, <2>3, <2>4, <2>6 DEF InsideStatement
  <2> QED BY <2>5, <2>7, <2>8 DEF ScriptInv
<1> QED BY <1>5, <1>6, <1>7 DEF AtTop

(***************************************************************************)
(* A line inside a statement is gathered, whatever it looks like, until    *)
(* the one that completes the statement.                                   *)
(***************************************************************************)
LEMMA ReadInside ==
  ASSUME ScriptInv, NEW x, NEW mode, ReadLine(x, mode),
         \/ text.mode = "sql" /\ InSql(x, mode)
         \/ text.mode = "block" /\ InBlock(x, mode)
  PROVE  ScriptInv'
<1> DEFINE line == [unit |-> text.unit, k |-> text.lines + 1]
           lines == Append(sqlrs.buffer, line)
           n == IF x = "slash" THEN text.lines ELSE text.lines + 1
<1>1. /\ sqlrs.step = "read" /\ text.lines > 0 /\ ran.count + 1 = text.unit
      /\ sqlrs.buffer = Whole(text.unit, text.lines)
      /\ sqlrs.block_mode <=> text.mode = "block"
      /\ ScriptTyped /\ text.lines \in Nat /\ text.unit \in Nat /\ text.mode \in {"sql", "block"}
  BY DEF ScriptInv, InsideStatement, ReadLine, ScriptTyped, TextStates
<1>2. /\ text' \in TextStates
      /\ text'.mode = mode /\ text'.unit = text.unit /\ text'.lines = n
  <2>1. mode \in Modes
    BY DEF InSql, InBlock, Modes
  <2>2. n \in Nat
    BY <1>1
  <2>3. text' = [text EXCEPT !.mode = mode, !.unit = text.unit, !.lines = n]
    BY <1>1 DEF ReadLine, Written, StartsUnit, ScriptTyped
  <2> HIDE DEF n
  <2> QED BY <1>1, <2>1, <2>2, <2>3, TextTyped
<1>3. /\ lines \in Seq(Line0) /\ lines = Whole(text.unit, text.lines + 1)
      /\ sqlrs.buffer # <<>> /\ sqlrs.buffer \in Seq(Line0)
  <2>1. text.lines + 1 \in Nat
    BY <1>1
  <2>2. \A u, k \in Nat : Append(Whole(u, k), [unit |-> u, k |-> k + 1]) = Whole(u, k + 1)
    BY WholeLemma
  <2>3. Whole(text.unit, text.lines + 1) \in Seq(Line0)
    BY <1>1, <2>1, WholeLemma
  <2>4. text.lines # 0
    BY <1>1
  <2>5. Whole(text.unit, text.lines) # <<>> /\ Whole(text.unit, text.lines) \in Seq(Line0)
    BY <1>1, <2>4, WholeLemma, Zenon
  <2> QED BY <1>1, <2>2, <2>3, <2>5
<1>4. line = Line(x)
  BY <1>1 DEF Line, StartsUnit
<1>5. ASSUME mode = "top", NEW executed \in Seq(Line0), NEW plsql \in BOOLEAN,
             ExecuteStatement(executed, plsql), executed = Whole(text.unit, text'.lines)
      PROVE  ScriptInv'
  <2>1. /\ ran' = [count |-> ran.count + 1, lines |-> executed]
        /\ sqlrs' \in Sessions
        /\ output' \in OutputStates
        /\ sqlrs'.buffer = <<>> /\ ~sqlrs'.block_mode
    BY <1>1, <1>5, Executed
  <2>2. ScriptTyped'
    BY <1>1, <1>2, <1>5, <2>1 DEF ScriptTyped
  <2>3. BetweenStatements' /\ InsideStatement'
    BY <1>1, <1>2, <1>5, <2>1 DEF BetweenStatements, InsideStatement
  <2> QED BY <2>2, <2>3 DEF ScriptInv
<1>6. CASE x = "slash"
  <2>1. text.mode = "block" /\ mode = "top"
    BY <1>6 DEF InSql, InBlock
  <2>2. ExecuteBuffer
    BY <1>1, <1>3, <1>6, <2>1 DEF ReadLine, TakenForCommand
  <2>3. PICK plsql \in BOOLEAN : ExecuteStatement(sqlrs.buffer, plsql)
    BY <1>1, <2>2 DEF ExecuteBuffer, ScriptTyped, Sessions
  <2>4. text'.lines = text.lines
    BY <1>2, <1>6
  <2> QED BY <1>1, <1>3, <1>5, <2>1, <2>3, <2>4
<1>7. CASE text.mode = "sql" /\ x = "end_sql"
  <2>1. mode = "top"
    BY <1>7 DEF InSql
  <2>2. ExecuteStatement(lines, FALSE)
    BY <1>1, <1>3, <1>4, <1>7 DEF ReadLine, TakenForCommand
  <2>3. text'.lines = text.lines + 1
    BY <1>2, <1>7
  <2> HIDE DEF lines
  <2> QED BY <1>3, <1>5, <2>1, <2>2, <2>3
<1>8. CASE x # "slash" /\ ~(text.mode = "sql" /\ x = "end_sql")
  <2>1. mode = text.mode /\ mode \in {"sql", "block"}
    BY <1>1, <1>8 DEF InSql, InBlock
  <2>2. sqlrs.block_mode \in BOOLEAN
    BY <1>1 DEF ScriptTyped, Sessions
  <2>3. /\ sqlrs' = [sqlrs EXCEPT !.buffer = lines, !.block_mode = sqlrs.block_mode]
        /\ UNCHANGED <<output, ran>>
    <3> DEFINE gathers == sqlrs.block_mode \/ (sqlrs.buffer = <<>> /\ x = "block")
    <3>1. gathers = sqlrs.block_mode
      BY <1>3, <2>2
    <3>2. /\ sqlrs' = [sqlrs EXCEPT !.buffer = lines, !.block_mode = gathers]
          /\ UNCHANGED <<output, ran>>
      BY <1>1, <1>3, <1>4, <1>8 DEF ReadLine, TakenForCommand
    <3> HIDE DEF gathers
    <3> QED BY <3>1, <3>2
  <2>4. text'.lines = text.lines + 1
    BY <1>2, <1>8
  <2> HIDE DEF lines, line
  <2>5. /\ sqlrs' \in Sessions
        /\ sqlrs'.buffer = lines /\ sqlrs'.block_mode = sqlrs.block_mode
        /\ sqlrs'.step = sqlrs.step
    BY <1>1, <1>3, <2>2, <2>3, Gathered
  <2>6. ScriptTyped'
    BY <1>1, <1>2, <2>3, <2>5 DEF ScriptTyped
  <2>7. BetweenStatements'
    BY <1>2, <2>1 DEF BetweenStatements
  <2>8. sqlrs'.block_mode <=> text'.mode = "block"
    BY <1>1, <1>2, <2>1, <2>5
  <2>9. InsideStatement'
    BY <1>1, <1>2, <1>3, <2>3, <2>4, <2>5, <2>8 DEF InsideStatement
  <2> QED BY <2>6, <2>7, <2>9 DEF ScriptInv
<1> QED BY <1>6, <1>7, <1>8

(***************************************************************************)
(* A command changes the session and leaves what is gathered alone.        *)
(***************************************************************************)
LEMMA CommandStep ==
  ASSUME ScriptInv, NEW c \in Commands, HandleCommand(c)
  PROVE  ScriptInv'
<1>1. /\ sqlrs.step = "read" /\ sqlrs.buffer = <<>> /\ text.mode = "top" /\ ~sqlrs.block_mode
      /\ ScriptTyped /\ ran.count = text.unit /\ ran.lines = Whole(text.unit, text.lines)
  BY DEF ScriptInv, BetweenStatements, HandleCommand
<1>2. /\ text' \in TextStates
      /\ text'.mode = "top" /\ text'.unit = text.unit /\ text'.lines = text.lines
      /\ ran' = ran
  BY <1>1 DEF HandleCommand, ScriptTyped, TextStates
<1>3. sqlrs \in Sessions /\ output \in OutputStates
  BY <1>1 DEF ScriptTyped
<1> DEFINE Kept == /\ sqlrs' \in Sessions /\ output' \in OutputStates
                   /\ sqlrs'.buffer = sqlrs.buffer /\ sqlrs'.block_mode = sqlrs.block_mode
<1>4. ASSUME NEW on \in BOOLEAN, HandleSet(on) \/ HandleWhenever(on) PROVE Kept
  BY <1>3, <1>4 DEF HandleSet, HandleWhenever, Sessions, OutputStates
<1>5. ASSUME Variable(c) PROVE Kept
  BY <1>3, <1>5 DEF Variable, Sessions, Vars, Steps
<1>6. ASSUME NEW rs \in {sqlrs, [sqlrs EXCEPT !.var = "out"]}, NEW plsql \in BOOLEAN,
             StatementFails(rs) \/ Succeeds(rs, plsql)
      PROVE  Kept
  <2>1. rs \in Sessions /\ rs.buffer = sqlrs.buffer /\ rs.block_mode = sqlrs.block_mode
    BY <1>3 DEF Sessions, Vars
  <2> QED BY <1>3, <1>6, <2>1, StatementEnds
<1>7. ASSUME Malformed PROVE Kept
  BY <1>3, <1>7 DEF Malformed, Sessions, Steps
<1>8. Kept
  <2> HIDE DEF Kept
  <2> QED BY <1>4, <1>5, <1>6, <1>7 DEF HandleCommand, ExecutePlsqlCall
<1>9. ran' \in [count : Nat, lines : Seq(Line0)]
  BY <1>1, <1>2 DEF ScriptTyped
<1>10. ScriptTyped'
  BY <1>2, <1>8, <1>9 DEF ScriptTyped
<1>11. BetweenStatements' /\ InsideStatement'
  BY <1>1, <1>2, <1>8 DEF BetweenStatements, InsideStatement
<1> QED BY <1>10, <1>11 DEF ScriptInv

LEMMA DrainStep == ScriptInv /\ DrainDbmsOutput => ScriptInv'
<1> SUFFICES ASSUME ScriptInv, DrainDbmsOutput PROVE ScriptInv'
  OBVIOUS
<1>1. /\ ScriptTyped /\ sqlrs.step = "drain" /\ UNCHANGED <<text, ran>>
  BY DEF ScriptInv, DrainDbmsOutput
<1>2. /\ sqlrs' \in Sessions
      /\ sqlrs'.buffer = sqlrs.buffer /\ sqlrs'.block_mode = sqlrs.block_mode
  BY <1>1 DEF DrainDbmsOutput, ScriptTyped, Sessions, Steps
<1>3. output' \in OutputStates
  BY <1>1 DEF DrainDbmsOutput, ScriptTyped, OutputStates
<1>4. ScriptTyped'
  BY <1>1, <1>2, <1>3 DEF ScriptTyped
<1>5. BetweenStatements' /\ InsideStatement'
  BY <1>1, <1>2 DEF ScriptInv, BetweenStatements, InsideStatement
<1> QED BY <1>4, <1>5 DEF ScriptInv

\* Behind the end of the script nothing is written: what is left was executed.
LEMMA EndStep == ScriptInv /\ EndOfScript => ScriptInv'
<1> SUFFICES ASSUME ScriptInv, EndOfScript PROVE ScriptInv'
  OBVIOUS
<1>1. /\ ScriptTyped
      /\ text' \in TextStates /\ text'.mode = "end"
  BY DEF ScriptInv, EndOfScript, ScriptTyped, TextStates, Modes
<1>2. CASE sqlrs.buffer = <<>>
  <2>1. sqlrs' = [sqlrs EXCEPT !.step = "stopped"] /\ UNCHANGED <<output, ran>>
    BY <1>2 DEF EndOfScript
  <2> QED BY <1>1, <2>1 DEF ScriptInv, ScriptTyped, Sessions, Steps, BetweenStatements, InsideStatement
<1>3. CASE sqlrs.buffer # <<>>
  <2>1. PICK plsql \in BOOLEAN : ExecuteStatement(sqlrs.buffer, plsql)
    BY <1>1, <1>3 DEF EndOfScript, ExecuteBuffer, ScriptTyped, Sessions
  <2>2. sqlrs.buffer \in Seq(Line0) /\ ran.count + 1 \in Nat
    BY <1>1 DEF ScriptTyped, Sessions
  <2>3. /\ ran' = [count |-> ran.count + 1, lines |-> sqlrs.buffer]
        /\ sqlrs' \in Sessions
        /\ output' \in OutputStates
    BY <1>1, <2>1, <2>2, Executed
  <2>4. ScriptTyped'
    BY <1>1, <2>2, <2>3 DEF ScriptTyped
  <2> QED BY <1>1, <2>4 DEF ScriptInv, BetweenStatements, InsideStatement
<1> QED BY <1>2, <1>3

LEMMA ScriptStep == ScriptInv /\ [ScriptNext]_scriptVars => ScriptInv'
<1> SUFFICES ASSUME ScriptInv, [ScriptNext]_scriptVars PROVE ScriptInv'
  OBVIOUS
<1>1. ASSUME NEW l \in Lines, ReadLine(l[1], l[2]) PROVE ScriptInv'
  BY <1>1, LinesAre, ReadAtTop, ReadInside
<1>2. ASSUME NEW c \in Commands, HandleCommand(c) PROVE ScriptInv'
  BY <1>2, CommandStep
<1>3. CASE UNCHANGED scriptVars
  BY <1>3 DEF scriptVars, ScriptInv, ScriptTyped, BetweenStatements, InsideStatement
<1> QED BY <1>1, <1>2, <1>3, DrainStep, EndStep DEF ScriptNext

LEMMA ScriptAlways == ScriptSpec => []ScriptInv
BY ScriptInvInit, ScriptStep, PTL DEF ScriptSpec

----------------------------------------------------------------------------
\* The output

\* No line is owed behind a statement that is not followed by the drain,
LEMMA ReadOrDrain ==
  ASSUME ScriptTyped, NEW rs \in Sessions, NEW plsql \in BOOLEAN,
         StatementFails(rs) \/ Succeeds(rs, plsql)
  PROVE  OutputDrained'
<1>1. output \in OutputStates
  BY DEF ScriptTyped
<1> QED BY <1>1, StatementEnds DEF OutputDrained

\* and the drain goes on until no line is left.
LEMMA DrainedStep ==
  ASSUME ScriptInv, OutputDrained, [ScriptNext]_scriptVars
  PROVE  OutputDrained'
<1>1. ScriptTyped /\ sqlrs \in Sessions /\ output \in OutputStates
  BY DEF ScriptInv, ScriptTyped
<1>2. ASSUME sqlrs'.step \in {sqlrs.step, "stopped"}, UNCHANGED output PROVE OutputDrained'
  BY <1>2 DEF OutputDrained
<1>3. ASSUME NEW lines \in Seq(Line0), NEW plsql \in BOOLEAN, ExecuteStatement(lines, plsql)
      PROVE  OutputDrained'
  BY <1>1, <1>3, Executed
<1>4. ASSUME ExecuteBuffer PROVE OutputDrained'
  <2>1. PICK plsql \in BOOLEAN : ExecuteStatement(sqlrs.buffer, plsql)
    BY <1>1, <1>4 DEF ExecuteBuffer, Sessions
  <2> QED BY <1>1, <1>3, <2>1 DEF Sessions
<1>5. ASSUME NEW l \in Lines, ReadLine(l[1], l[2]) PROVE OutputDrained'
  <2> DEFINE x == l[1]
             line == Line(x)
             lines == Append(sqlrs.buffer, line)
             block == sqlrs.block_mode \/ (sqlrs.buffer = <<>> /\ x = "block")
  <2>1. \/ UNCHANGED <<sqlrs, output>>
        \/ ExecuteBuffer
        \/ ExecuteStatement(lines, FALSE)
        \/ sqlrs' = [sqlrs EXCEPT !.buffer = lines, !.block_mode = block] /\ UNCHANGED output
    BY <1>5 DEF ReadLine
  <2>2. line \in Line0
    BY <1>1 DEF Line, Line0, ScriptTyped, TextStates
  <2>3. lines \in Seq(Line0)
    BY <1>1, <2>2 DEF Sessions
  <2>4. [sqlrs EXCEPT !.buffer = lines, !.block_mode = block].step = sqlrs.step
    BY <1>1 DEF Sessions
  <2> HIDE DEF line, lines, block
  <2> QED BY <1>2, <1>3, <1>4, <2>1, <2>3, <2>4
<1>6. ASSUME NEW c \in Commands, HandleCommand(c) PROVE OutputDrained'
  <2>1. ASSUME NEW on \in BOOLEAN, HandleSet(on) PROVE OutputDrained'
    BY <1>1, <2>1 DEF HandleSet, OutputDrained, Sessions, OutputStates
  <2>2. ASSUME NEW on \in BOOLEAN, HandleWhenever(on) PROVE OutputDrained'
    BY <1>1, <1>2, <2>2 DEF HandleWhenever, Sessions
  <2>3. ASSUME Variable(c) \/ Malformed PROVE OutputDrained'
    BY <1>1, <1>2, <2>3 DEF Variable, Malformed, Sessions
  <2>4. ASSUME NEW rs \in {sqlrs, [sqlrs EXCEPT !.var = "out"]}, NEW plsql \in BOOLEAN,
               StatementFails(rs) \/ Succeeds(rs, plsql)
        PROVE  OutputDrained'
    <3>1. rs \in Sessions
      BY <1>1 DEF Sessions, Vars
    <3> QED BY <1>1, <2>4, <3>1, ReadOrDrain
  <2> QED BY <1>6, <2>1, <2>2, <2>3, <2>4 DEF HandleCommand, ExecutePlsqlCall
<1>7. ASSUME DrainDbmsOutput PROVE OutputDrained'
  BY <1>1, <1>7 DEF DrainDbmsOutput, StatusEnds, OutputDrained, Sessions, OutputStates
<1>8. ASSUME EndOfScript PROVE OutputDrained'
  <2>1. CASE sqlrs.buffer = <<>>
    BY <1>1, <1>2, <1>8, <2>1 DEF EndOfScript, Sessions
  <2>2. CASE sqlrs.buffer # <<>>
    BY <1>4, <1>8, <2>2 DEF EndOfScript
  <2> QED BY <2>1, <2>2
<1>9. CASE UNCHANGED scriptVars
  BY <1>9 DEF scriptVars, OutputDrained
<1> QED BY <1>5, <1>6, <1>7, <1>8, <1>9 DEF ScriptNext

----------------------------------------------------------------------------
\* Theorems

(***************************************************************************)
(* The session of sqlrs, the script and the server's output have their     *)
(* types.                                                                  *)
(***************************************************************************)
THEOREM ScriptTypeCorrect == ScriptSpec => []ScriptTypeOK
<1>1. ScriptInv => ScriptTypeOK
  BY DEF ScriptInv, ScriptTyped, Sessions, TextStates, OutputStates, ScriptTypeOK, Steps, Vars, Modes
<1> QED BY <1>1, ScriptAlways, PTL

(***************************************************************************)
(* run_script executes every statement of a script of any length once, as  *)
(* soon as it is complete, with all of its lines and no others, whatever   *)
(* its lines look like and whatever statements and commands fail.          *)
(***************************************************************************)
THEOREM StatementsAlwaysWhole == ScriptSpec => []StatementsWhole
<1>1. ScriptInv => StatementsWhole
  <2> SUFFICES ASSUME ScriptInv, sqlrs.step = "read", text.mode = "top"
               PROVE  /\ ran.count = text.unit
                      /\ ran.lines = [i \in DOMAIN ran.lines |-> [unit |-> text.unit, k |-> i]]
                      /\ text.unit > 0 => Len(ran.lines) = text.lines
    BY DEF StatementsWhole
  <2>1. /\ ran.count = text.unit /\ ran.lines = Whole(text.unit, text.lines)
        /\ text.unit \in Nat /\ text.lines \in Nat
    BY DEF ScriptInv, BetweenStatements, ScriptTyped, TextStates
  <2>2. Len(Whole(text.unit, text.lines)) = text.lines
    BY <2>1, WholeLemma
  <2>3. Whole(text.unit, text.lines)
          = [i \in DOMAIN Whole(text.unit, text.lines) |-> [unit |-> text.unit, k |-> i]]
    BY DEF Whole
  <2> QED BY <2>1, <2>2, <2>3
<1> QED BY <1>1, ScriptAlways, PTL

(***************************************************************************)
(* Behind a block or an EXEC that succeeded with SERVEROUTPUT ON every     *)
(* line of DBMS_OUTPUT is shown before sqlrs reads on, however many lines  *)
(* it and the statements before it have written.                           *)
(***************************************************************************)
THEOREM OutputAlwaysDrained == ScriptSpec => []OutputDrained
<1>1. ScriptInit => OutputDrained
  BY DEF ScriptInit, OutputDrained
<1>2. ScriptInv /\ OutputDrained /\ [ScriptNext]_scriptVars => OutputDrained'
  BY DrainedStep
<1> QED BY <1>1, <1>2, ScriptAlways, PTL DEF ScriptSpec

----------------------------------------------------------------------------
\* Operations

\* Whatever part moves, every part starts in one of its initial states,
LEMMA PartsInit == Init => LobInit /\ CursorInit /\ RespInit /\ ScriptInit
<1> SUFFICES ASSUME Init PROVE LobInit /\ CursorInit /\ RespInit /\ ScriptInit
  OBVIOUS
<1>1. CASE part = "responses"
  BY <1>1 DEF Init
<1>2. CASE part # "responses"
  <2>1. call = [kind |-> "dml"] /\ reply = NewReply /\ parse = Parser("dml", FALSE, <<>>)
    BY <1>2 DEF Init
  <2>2. call \in Calls /\ call.kind = "dml"
    BY <2>1 DEF Calls
  <2>3. RespInit
    BY <2>1, <2>2 DEF RespInit
  <2> QED BY <2>3 DEF Init
<1> QED BY <1>1, <1>2

\* and every step is one of each part's own, or leaves it alone.
LEMMA PartsStep ==
  [Next]_vars => /\ [LobNext]_lobOpsVars /\ [CursorNext]_cursor
                 /\ [RespNext]_respVars /\ [ScriptNext]_scriptVars
BY DEF Next, vars, LobOperations, Cursors, ResponseParsing, Scripts, TakeSample

(***************************************************************************)
(* The LOB operations, the scrollable cursor, the response parsers and the *)
(* script loop behave in every run as their own specifications say: what   *)
(* is proved of those holds of a behaviour of Operations, whichever part   *)
(* of the client it is about.                                              *)
(***************************************************************************)
THEOREM PartsBehave == Spec => LobSpec /\ CursorSpec /\ RespSpec /\ ScriptSpec
BY PartsInit, PartsStep, PTL DEF Spec, LobSpec, CursorSpec, RespSpec, ScriptSpec

(***************************************************************************)
(* The variables of all parts keep their types: LOBs that a few reads hold *)
(* stay within the length to which the model lets them grow.               *)
(***************************************************************************)
THEOREM TypesCorrect ==
  ASSUME \A l \in Lobs : Len(Contents[l]) <= MaxLen
  PROVE  Spec => []TypeOK
<1>1. LobSpec => []LobTypeOK
  BY LobTypeCorrect
<1>2. LobTypeOK /\ RespTypeOK /\ ScriptTypeOK => TypeOK
  BY DEF TypeOK
<1> QED BY <1>1, <1>2, PartsBehave, RespTypeCorrect, ScriptTypeCorrect, PTL

\* The kind of input was chosen among those there are.
SampleKinds == part = "samples" => sample.kind \in DOMAIN Samples

LEMMA SampleKindsAlways == Spec => []SampleKinds
<1>1. Init => SampleKinds
  BY DEF Init, SampleKinds
<1>2. SampleKinds /\ [Next]_vars => SampleKinds'
  BY DEF SampleKinds, Next, vars, TakeSample
<1> QED BY <1>1, <1>2, PTL DEF Spec

\* The only step that changes the sample takes an input of its kind.
LEMMA SampleTaken ==
  ASSUME SampleKinds, [Next]_vars, sample' # sample
  PROVE  /\ sample'.kind \in DOMAIN Samples
         /\ sample'.value \in Samples[sample'.kind]
<1>1. TakeSample
  BY DEF Next, vars
<1>2. PICK v \in Samples[sample.kind] : sample' = [kind |-> sample.kind, value |-> v]
  BY <1>1 DEF TakeSample
<1> QED BY <1>1, <1>2 DEF SampleKinds, TakeSample

(***************************************************************************)
(* Whatever texts the samples hold, parse_bind_variables, the scanner of   *)
(* sqlrs and split_top_level find in each what stands there.               *)
(***************************************************************************)
THEOREM TextsAlwaysScanned == Spec => TextScansExact
<1> DEFINE Exact ==
             /\ Sample("sql", LAMBDA v :
                         BindsOfTextExact(v.text, v.type) /\ SqlrsNamesAgree(v.text, v.type))
             /\ Sample("call", LAMBDA v : ArgumentsExact(v))
<1>1. ASSUME SampleKinds, [Next]_vars PROVE [Exact]_sample
  <2> SUFFICES ASSUME sample' # sample PROVE Exact
    OBVIOUS
  <2>1. /\ sample'.kind \in DOMAIN Samples
        /\ sample'.value \in Samples[sample'.kind]
    BY <1>1, SampleTaken
  <2>2. ASSUME sample'.kind = "sql"
        PROVE  /\ BindsOfTextExact(sample'.value.text, sample'.value.type)
               /\ SqlrsNamesAgree(sample'.value.text, sample'.value.type)
    <3>1. sample'.value.text \in Seq(Lexemes)
      BY <2>1, <2>2, SamplesTyped
    <3> QED BY <3>1, BindsAlwaysExact, SqlrsAlwaysAgrees
  <2>3. ASSUME sample'.kind = "call" PROVE ArgumentsExact(sample'.value)
    <3>1. sample'.value \in Seq(CallLexemes)
      BY <2>1, <2>3, SamplesTyped
    <3> QED BY <3>1, ArgumentsAlwaysExact
  <2> QED BY <2>2, <2>3 DEF Sample
<1> QED BY <1>1, SampleKindsAlways, PTL DEF Spec, TextScansExact

(***************************************************************************)
(* Whatever fields are written, they are read back from their packets, and *)
(* a message cut short is an Err: for numbers without leading zeros that   *)
(* fit their width, data or NULL of any length (below 4 GB for text, whose *)
(* length is sent), every SDU with room for a byte that the header's       *)
(* length field holds, and chunks of a length that a ub4 holds.            *)
(***************************************************************************)
THEOREM FieldsAlwaysRoundTrip ==
  ASSUME ChunkSize \in UInt32 \ {0},
         \A v \in Samples["fields"] : /\ v.fields \in Seq(WireFields) \ {<<>>}
                                      /\ v.large \in BOOLEAN /\ v.sdu \in Sdus(v.large)
                                      /\ v.cut \in Nat
  PROVE  Spec => FieldsRoundTrip
<1> DEFINE Exact == Sample("fields", LAMBDA v : FieldsReadBack(v.fields, v.sdu, v.large, v.cut))
<1>1. ASSUME SampleKinds, [Next]_vars PROVE [Exact]_sample
  <2> SUFFICES ASSUME sample' # sample, sample'.kind = "fields"
               PROVE  LET v == sample'.value IN FieldsReadBack(v.fields, v.sdu, v.large, v.cut)
    BY DEF Sample
  <2> DEFINE v == sample'.value
  <2>1. v \in Samples["fields"]
    BY <1>1, SampleTaken
  <2>2. /\ v.fields \in Seq(WireFields) \ {<<>>} /\ v.large \in BOOLEAN
        /\ v.sdu \in Sdus(v.large) /\ v.cut \in Nat
    BY <2>1
  <2> HIDE DEF v
  <2>3. FieldsReadBack(v.fields, v.sdu, v.large, v.cut)
    BY <2>2, FieldsAlwaysReadBack
  <2> QED BY <2>3 DEF v
<1> QED BY <1>1, SampleKindsAlways, PTL DEF Spec, FieldsRoundTrip

(***************************************************************************)
(* Whatever numbers, timestamps, intervals, binary floating-point numbers, *)
(* ROWIDs and vectors are encoded, they are decoded again as the same      *)
(* values: for all the values that the Rust types hold (timestamps in the  *)
(* ranges their fields are documented with, sparse vectors with an index   *)
(* for each value that VectorData::len counts), and all number texts but   *)
(* the fractions that NumberRoundTrip shows to lose a zero.                *)
(***************************************************************************)
THEOREM CodecsAlwaysRoundTrip ==
  ASSUME \A v \in Samples["number"] : v \in Decimals /\ ~IsSmallFraction(v),
         \A v \in Samples["timestamp"] : v.ts \in Timestamps /\ v.zoned \in BOOLEAN,
         Samples["interval"] \subseteq IntervalsYM \cup IntervalsDS,
         \A v \in Samples["binary"] :
           \E n \in Nat \ {0} : v.a \in [1..n -> Byte] /\ v.b \in [1..n -> Byte],
         \A v \in Samples["rowid"] : v.id \in RowIds /\ v.typed \in BOOLEAN,
         Samples["vector"] \subseteq DenseVectors \cup SparseVectors
  PROVE  Spec => CodecsRoundTrip
<1> DEFINE Exact ==
             /\ Sample("number", LAMBDA v : NumberReadBack(v))
             /\ Sample("timestamp", LAMBDA v : TimestampReadBack(v.ts, v.zoned))
             /\ Sample("interval", LAMBDA v : IntervalReadBack(v))
             /\ Sample("binary", LAMBDA v : BinaryReadBack(v.a, v.b))
             /\ Sample("rowid", LAMBDA v : RowIdReadBack(v.id, v.typed))
             /\ Sample("vector", LAMBDA v : VectorReadBack(v))
<1>1. ASSUME SampleKinds, [Next]_vars PROVE [Exact]_sample
  <2> SUFFICES ASSUME sample' # sample PROVE Exact
    OBVIOUS
  <2> DEFINE v == sample'.value
  <2>0. v \in Samples[sample'.kind]
    BY <1>1, SampleTaken
  <2>1. ASSUME sample'.kind = "timestamp" PROVE TimestampReadBack(v.ts, v.zoned)
    <3>1. v.ts \in Timestamps /\ v.zoned \in BOOLEAN
      BY <2>0, <2>1
    <3> HIDE DEF v
    <3> QED BY <3>1, TimestampsReadBack
  <2>2. ASSUME sample'.kind = "interval" PROVE IntervalReadBack(v)
    <3>1. v \in IntervalsYM \cup IntervalsDS
      BY <2>0, <2>2
    <3> HIDE DEF v
    <3> QED BY <3>1, IntervalsReadBack
  <2>3. ASSUME sample'.kind = "binary" PROVE BinaryReadBack(v.a, v.b)
    <3>1. PICK n \in Nat \ {0} : v.a \in [1..n -> Byte] /\ v.b \in [1..n -> Byte]
      BY <2>0, <2>3
    <3> HIDE DEF v
    <3> QED BY <3>1, BinariesReadBack
  <2>4. ASSUME sample'.kind = "rowid" PROVE RowIdReadBack(v.id, v.typed)
    <3>1. v.id \in RowIds /\ v.typed \in BOOLEAN
      BY <2>0, <2>4
    <3> HIDE DEF v
    <3> QED BY <3>1, RowIdsReadBack
  <2>5. ASSUME sample'.kind = "vector" PROVE VectorReadBack(v)
    <3>1. v \in DenseVectors \cup SparseVectors
      BY <2>0, <2>5
    <3> HIDE DEF v
    <3> QED BY <3>1, VectorsReadBack
  <2>6. ASSUME sample'.kind = "number" PROVE NumberReadBack(v)
    <3>1. v \in Decimals /\ ~IsSmallFraction(v)
      BY <2>0, <2>6
    <3> HIDE DEF v
    <3> QED BY <3>1, NumbersReadBack
  <2> QED BY <2>1, <2>2, <2>3, <2>4, <2>5, <2>6 DEF Sample
<1> QED BY <1>1, SampleKindsAlways, PTL DEF Spec, CodecsRoundTrip

----------------------------------------------------------------------------
\* Requests: what the header announces

Statements ==
  [type : {"Query", "Dml", "PlSql", "Ddl"}, sql : BOOLEAN, cursor_id : Nat, executed : BOOLEAN,
   binds : Nat, requires_define : BOOLEAN, columns : Nat, no_prefetch : BOOLEAN]
Options ==
  [execute : BOOLEAN, fetch : BOOLEAN, commit : BOOLEAN, no_implicit_release : BOOLEAN,
   describe_only : BOOLEAN, batch_errors : BOOLEAN, dml_row_counts : BOOLEAN, scrollable : BOOLEAN,
   scroll_operation : BOOLEAN, prefetch_rows : Nat, num_execs : Nat]

\* The rows of a request with n values each.
RowsOf(n, V) == Seq([1..n -> V])

\* What the body of a request consists of.
RequestParts == {"sql", "al8i4", "define", "meta", "row", "value"}

OneRow(n) == <<"row">> \o Times(n, "value")

\* Parts of which there are n, and rows of n values each, are sequences.
LEMMA TimesTyped ==
  ASSUME NEW n \in Nat, NEW T, NEW x \in T
  PROVE  Times(n, x) \in Seq(T) /\ Len(Times(n, x)) = n /\ (n = 0 => Times(n, x) = <<>>)
BY DEF Times

LEMMA RowPartsTyped ==
  ASSUME NEW n \in Nat, NEW k \in Nat
  PROVE  /\ FlattenSeq(Times(k, OneRow(n))) \in Seq(RequestParts)
         /\ k = 0 => FlattenSeq(Times(k, OneRow(n))) = <<>>
<1>1. OneRow(n) \in Seq(RequestParts)
  <2>1. "row" \in RequestParts /\ "value" \in RequestParts
    BY DEF RequestParts
  <2>2. <<"row">> \in Seq(RequestParts)
    BY <2>1
  <2>3. Times(n, "value") \in Seq(RequestParts)
    BY <2>1, TimesTyped
  <2> QED BY <2>2, <2>3, ConcatProperties DEF OneRow
<1>2. Times(k, OneRow(n)) \in Seq(Seq(RequestParts)) /\ Len(Times(k, OneRow(n))) = k
  BY <1>1, TimesTyped
<1> DEFINE s == Times(k, OneRow(n))
<1> HIDE DEF s
<1>3. s \in Seq(Seq(RequestParts)) /\ Len(s) = k
  BY <1>2 DEF s
<1>4. FlattenSeq(s) = Flat(s)[k] /\ k \in 0..Len(s)
  BY <1>3, FlattenIsFlat
<1>5. Flat(s)[0] = <<>> /\ \A i \in 0..Len(s) : Flat(s)[i] \in Seq(RequestParts)
  BY <1>3, FlatRun
<1> QED BY <1>4, <1>5 DEF s

LEMMA RowPartsAre ==
  ASSUME NEW V, NEW n \in Nat, NEW rows \in RowsOf(n, V)
  PROVE  RowParts(rows) = FlattenSeq(Times(Len(rows), OneRow(n)))
<1>1. rows \in [1..Len(rows) -> [1..n -> V]] /\ Len(rows) \in Nat /\ DOMAIN rows = 1..Len(rows)
  BY DEF RowsOf
<1>2. ASSUME NEW r \in 1..Len(rows)
      PROVE  <<"row">> \o [c \in DOMAIN rows[r] |-> "value"] = OneRow(n)
  <2>1. DOMAIN rows[r] = 1..n
    BY <1>1
  <2> QED BY <2>1 DEF OneRow, Times
<1>3. [r \in DOMAIN rows |-> <<"row">> \o [c \in DOMAIN rows[r] |-> "value"]]
        = Times(Len(rows), OneRow(n))
  BY <1>1, <1>2 DEF Times
<1> QED BY <1>3 DEF RowParts

\* The values of a request: a row for every execution, or none at all.
LEMMA BindRows ==
  ASSUME NEW V, NEW n \in Nat, NEW rows \in RowsOf(n, V)
  PROVE  /\ HasBindValues(rows) => rows # <<>> /\ Len(rows) > 0 /\ Len(rows[1]) = n /\ n > 0
         /\ ~HasBindValues(rows) => rows = <<>> \/ n = 0
         /\ Len(rows) \in Nat
<1>1. rows \in [1..Len(rows) -> [1..n -> V]] /\ Len(rows) \in Nat /\ (rows # <<>> => Len(rows) > 0)
  BY DEF RowsOf
<1>2. ASSUME rows # <<>> PROVE Len(rows[1]) = n /\ (rows[1] = <<>> <=> n = 0)
  <2>1. rows[1] \in [1..n -> V]
    BY <1>1, <1>2
  <2>2. rows[1] \in Seq(V) /\ Len(rows[1]) = n
    BY <2>1
  <2> QED BY <2>2
<1> QED BY <1>1, <1>2 DEF HasBindValues

----------------------------------------------------------------------------

\* Sequences one behind the other; the empty ones between them do not count.
LEMMA JoinedParts ==
  ASSUME NEW T, NEW a, NEW b, NEW d, NEW m, NEW f,
         a \in Seq(T), b \in Seq(T), d \in Seq(T), m \in Seq(T), f \in Seq(T)
  PROVE  /\ d = <<>> => a \o b \o (m \o f) = a \o b \o d \o m \o f
         /\ m = <<>> /\ f = <<>> => a \o b \o d = a \o b \o d \o m \o f
<1>1. a \o b \in Seq(T) /\ a \o b \o d \in Seq(T)
  BY ConcatProperties
<1>2. ASSUME d = <<>> PROVE a \o b \o (m \o f) = a \o b \o d \o m \o f
  <2>1. a \o b \o d = a \o b
    BY <1>1, <1>2, ConcatEmptySeq
  <2> DEFINE x == a \o b
  <2> HIDE DEF x
  <2>2. x \in Seq(T) /\ m \in Seq(T) /\ f \in Seq(T)
    BY <1>1 DEF x
  <2>3. (x \o m) \o f = x \o (m \o f)
    BY <2>2, ConcatAssociative, SMTT(60)
  <2> QED BY <2>1, <2>3 DEF x
<1>3. ASSUME m = <<>>, f = <<>> PROVE a \o b \o d = a \o b \o d \o m \o f
  BY <1>1, <1>3, ConcatEmptySeq
<1> QED BY <1>2, <1>3

\* The number of rows that a header announces.
RowsAnnounced(req) == IF req.num_binds = 0 THEN 0 ELSE IF req.execs = 0 THEN 1 ELSE req.execs

\* The values agree with a header of p binds that announces k rows.
ValuesMatch(rows, p, k) ==
  \/ HasBindValues(rows) /\ p = Len(rows[1]) /\ k = Len(rows)
  \/ ~HasBindValues(rows) /\ p = 0

LEMMA AnnouncedIs ==
  ASSUME NEW req
  PROVE  Announced(req) =
           (IF req.sql THEN <<"sql">> ELSE <<>>)
             \o (IF req.code = "Execute" THEN Times(13, "al8i4") ELSE <<>>)
             \o Times(req.num_defines, "define")
             \o (IF req.code = "Execute" THEN Times(req.num_binds, "meta") ELSE <<>>)
             \o FlattenSeq(Times(RowsAnnounced(req), OneRow(req.num_binds)))
BY DEF Announced, RowsAnnounced, OneRow

LEMMA WordsTyped ==
  /\ "sql" \in RequestParts /\ "al8i4" \in RequestParts /\ "define" \in RequestParts
  /\ "meta" \in RequestParts
BY DEF RequestParts

LEMMA WordsAre ==
  /\ <<"sql">> \in Seq(RequestParts) /\ <<>> \in Seq(RequestParts)
  /\ Times(13, "al8i4") \in Seq(RequestParts)
  /\ Times(0, "define") = <<>>
  /\ \A n \in Nat : /\ Times(n, "define") \in Seq(RequestParts)
                   /\ Times(n, "meta") \in Seq(RequestParts) /\ (n = 0 => Times(n, "meta") = <<>>)
<1>1. <<"sql">> \in Seq(RequestParts) /\ <<>> \in Seq(RequestParts)
  BY WordsTyped
<1>2. 13 \in Nat
  OBVIOUS
<1>3. Times(13, "al8i4") \in Seq(RequestParts)
  BY <1>2, WordsTyped, TimesTyped
<1> QED BY <1>1, <1>3, WordsTyped, TimesTyped

LEMMA DefinesOnly ==
  ASSUME NEW stmt, NEW rows, stmt.requires_define
  PROVE  ParamCount(stmt, rows) = 0
BY DEF ParamCount

\* The body of an Execute message.
LEMMA ExecuteBody ==
  ASSUME NEW V, NEW n \in Nat, NEW rows \in RowsOf(n, V), NEW stmt \in Statements, NEW opts,
         ~stmt.requires_define =>
           ValuesMatch(rows, ParamCount(stmt, rows), RowsAnnounced(ExecuteMessage(stmt, opts, rows)))
  PROVE  ExecuteMessage(stmt, opts, rows).body = Announced(ExecuteMessage(stmt, opts, rows))
<1> DEFINE req == ExecuteMessage(stmt, opts, rows)
           p == ParamCount(stmt, rows)
           k == RowsAnnounced(req)
           d == Times(req.num_defines, "define")
           m == Times(p, "meta")
           f == FlattenSeq(Times(k, OneRow(p)))
           a == IF Parses(stmt) THEN <<"sql">> ELSE <<>>
           b == Times(13, "al8i4")
<1> SUFFICES req.body = Announced(req)
  OBVIOUS
<1>1. /\ req.code = "Execute" /\ req.num_binds = p /\ req.sql = Parses(stmt)
      /\ req.num_defines = IF stmt.requires_define THEN stmt.columns ELSE 0
  BY DEF ExecuteMessage
<1>2. req.body = a \o b \o (CASE stmt.requires_define -> Times(stmt.columns, "define")
                               [] ~stmt.requires_define /\ HasBindValues(rows) ->
                                    Times(Len(rows[1]), "meta") \o RowParts(rows)
                               [] OTHER -> <<>>)
  BY DEF ExecuteMessage
<1>3. Announced(req) = a \o b \o d \o m \o f
  <2> HIDE DEF req
  <2> QED BY <1>1, AnnouncedIs
<1>4. stmt.requires_define \in BOOLEAN /\ stmt.columns \in Nat
  BY DEF Statements
<1>5. ASSUME stmt.requires_define PROVE p = 0
  <2> HIDE DEF req, k, d, m, f, a, b
  <2> QED BY <1>5, DefinesOnly, Zenon
<1>6. CASE stmt.requires_define
  <2>1. k = 0
    BY <1>1, <1>5, <1>6 DEF RowsAnnounced
  <2>2. m = <<>> /\ f = <<>>
    <3>1. p = 0 /\ p \in Nat /\ k \in Nat
      BY <2>1, <1>5, <1>6
    <3> HIDE DEF p, k
    <3>2. f = <<>>
      BY <2>1, <3>1, RowPartsTyped
    <3>3. m = <<>>
      BY <3>1, WordsAre
    <3> QED BY <3>2, <3>3
  <2>3. req.body = a \o b \o d
    BY <1>1, <1>2, <1>6
  <2>4. a \in Seq(RequestParts) /\ b \in Seq(RequestParts) /\ d \in Seq(RequestParts)
    <3>1. req.num_defines \in Nat
      BY <1>1, <1>4, <1>6
    <3> HIDE DEF req
    <3> QED BY <3>1, WordsAre
  <2>5. m \in Seq(RequestParts) /\ f \in Seq(RequestParts)
    BY <2>2, WordsAre
  <2> HIDE DEF a, b, d, m, f, req
  <2>6. a \o b \o d = a \o b \o d \o m \o f
    BY <2>2, <2>4, <2>5, JoinedParts
  <2> QED BY <2>3, <2>6, <1>3
<1>7. CASE ~stmt.requires_define
  <2>1. p \in Nat /\ k \in Nat /\ (HasBindValues(rows) => p = n /\ k = Len(rows) /\ p = Len(rows[1]))
                  /\ (~HasBindValues(rows) => p = 0 /\ k = 0)
    <3>1. ValuesMatch(rows, p, k)
      BY <1>7
    <3>2. p = 0 => k = 0
      BY <1>1 DEF RowsAnnounced
    <3> HIDE DEF p, k
    <3> QED BY <3>1, <3>2, BindRows DEF ValuesMatch
  <2>2. a \in Seq(RequestParts) /\ b \in Seq(RequestParts) /\ d \in Seq(RequestParts) /\ d = <<>>
    <3>1. req.num_defines = 0
      BY <1>1, <1>7
    <3> HIDE DEF req
    <3>2. d = <<>> /\ d \in Seq(RequestParts)
      BY <3>1, WordsAre
    <3> HIDE DEF d
    <3> QED BY <3>2, WordsAre
  <2>3. m \in Seq(RequestParts) /\ (p = 0 => m = <<>>)
    <3> HIDE DEF p
    <3> QED BY <2>1, WordsAre
  <2>4. f \in Seq(RequestParts) /\ (k = 0 => f = <<>>)
    <3> HIDE DEF p, k
    <3> QED BY <2>1, RowPartsTyped
  <2>5. req.body = a \o b \o (IF HasBindValues(rows) THEN m \o f ELSE <<>>)
    <3>1. ASSUME HasBindValues(rows) PROVE RowParts(rows) = f
      <4>1. RowParts(rows) = FlattenSeq(Times(Len(rows), OneRow(n)))
        BY RowPartsAre
      <4> HIDE DEF p, k
      <4>2. p = n /\ k = Len(rows)
        BY <2>1, <3>1
      <4> QED BY <4>1, <4>2
    <3>2. HasBindValues(rows) => Times(Len(rows[1]), "meta") = m
      BY <2>1
    <3> HIDE DEF a, b, f, m, req
    <3> QED BY <1>2, <1>7, <3>1, <3>2
  <2>6. CASE HasBindValues(rows)
    <3> HIDE DEF a, b, d, m, f, req
    <3>1. a \o b \o (m \o f) = a \o b \o d \o m \o f
      BY <2>2, <2>3, <2>4, JoinedParts
    <3> QED BY <2>5, <2>6, <1>3, <3>1
  <2>7. CASE ~HasBindValues(rows)
    <3>1. m = <<>> /\ f = <<>>
      BY <2>1, <2>3, <2>4, <2>7
    <3> HIDE DEF a, b, d, m, f, req
    <3>2. req.body = a \o b \o d
      BY <2>2, <2>5, <2>7
    <3>3. a \o b \o d = a \o b \o d \o m \o f
      BY <2>2, <2>3, <2>4, <3>1, JoinedParts
    <3> QED BY <3>2, <3>3, <1>3
  <2> QED BY <2>6, <2>7
<1> QED BY <1>4, <1>6, <1>7


LEMMA OptionsAre ==
  ASSUME NEW stmt, NEW opts, NEW params
  PROVE  LET options == ExecOptions(stmt, opts, params) IN
         /\ "PARSE" \in options <=> Parses(stmt)
         /\ "BIND" \in options => params > 0
         /\ "DEFINE" \in options => stmt.requires_define
         /\ "EXECUTE" \in options => stmt.sql
BY DEF ExecOptions, If

LEMMA FlagsAre ==
  ASSUME NEW stmt, NEW opts
  PROVE  "DML_ROWCOUNTS" \in ExecFlags(stmt, opts) => opts.dml_row_counts
BY DEF ExecFlags, If

\* build_request_with_sdu counts the rows of a batch as its executions.
OptionsFor(opts, rows) == IF rows = <<>> THEN opts ELSE [opts EXCEPT !.num_execs = Len(rows)]

CodeFor(stmt, opts, rows) == FunctionCode(stmt, OptionsFor(opts, rows))

LEMMA ExecuteConsistent ==
  ASSUME NEW V, NEW n \in Nat, NEW rows \in RowsOf(n, V), NEW stmt \in Statements, NEW opts \in Options,
         CodeFor(stmt, opts, rows) = "Execute",
         ~stmt.requires_define =>
           ValuesMatch(rows, ParamCount(stmt, rows),
                       RowsAnnounced(ExecuteMessage(stmt, OptionsFor(opts, rows), rows))),
         ~stmt.sql => ~Parses(stmt),
         opts.dml_row_counts => rows # <<>>
  PROVE  RequestConsistent([stmt |-> stmt, opts |-> opts, rows |-> rows])
<1> DEFINE r == [stmt |-> stmt, opts |-> opts, rows |-> rows]
           o == OptionsFor(opts, rows)
           req == ExecuteMessage(stmt, o, rows)
           p == ParamCount(stmt, rows)
<1>0. BuildRequest(r.stmt, r.opts, r.rows) = req
  BY DEF BuildRequest, CodeFor, OptionsFor
<1>1. req.body = Announced(req)
  BY ExecuteBody
<1>2. /\ req.options = ExecOptions(stmt, o, p) /\ req.flags = ExecFlags(stmt, o)
      /\ req.sql = Parses(stmt) /\ req.num_binds = p
      /\ req.row_counts = IF o.dml_row_counts THEN o.num_execs ELSE 0
  <2> HIDE DEF o
  <2> QED BY DEF ExecuteMessage
<1>3. o.dml_row_counts => opts.dml_row_counts /\ o.num_execs = Len(rows)
  BY DEF OptionsFor, Options
<1>4. p > 0 => ~stmt.requires_define
  BY DefinesOnly
<1> HIDE DEF req, p, o
<1>5. "PARSE" \in req.options <=> req.sql
  BY <1>2, OptionsAre
<1>6. "BIND" \in req.options => req.num_binds > 0 /\ "DEFINE" \notin req.options
  BY <1>2, <1>4, OptionsAre
<1>7. "DML_ROWCOUNTS" \in req.flags => req.row_counts = Len(rows)
  BY <1>2, <1>3, FlagsAre
<1>8. ~stmt.sql => "EXECUTE" \notin req.options /\ "PARSE" \notin req.options
  BY <1>2, OptionsAre
<1>9. r.stmt = stmt /\ r.rows = rows
  OBVIOUS
<1> HIDE DEF r
<1>10. RequestConsistent(r)
  BY <1>0, <1>1, <1>5, <1>6, <1>7, <1>8, <1>9 DEF RequestConsistent
<1> QED BY <1>10 DEF r

LEMMA ReexecuteConsistent ==
  ASSUME NEW V, NEW n \in Nat, NEW rows \in RowsOf(n, V), NEW stmt \in Statements, NEW opts \in Options,
         CodeFor(stmt, opts, rows) # "Execute", stmt.sql,
         ValuesMatch(rows, stmt.binds,
                     RowsAnnounced(ReexecuteMessage(stmt, OptionsFor(opts, rows), rows,
                                                    CodeFor(stmt, opts, rows))))
  PROVE  RequestConsistent([stmt |-> stmt, opts |-> opts, rows |-> rows])
<1> DEFINE r == [stmt |-> stmt, opts |-> opts, rows |-> rows]
           o == OptionsFor(opts, rows)
           code == CodeFor(stmt, opts, rows)
           req == ReexecuteMessage(stmt, o, rows, code)
           k == RowsAnnounced(req)
           p == stmt.binds
           f == FlattenSeq(Times(k, OneRow(p)))
<1>0. BuildRequest(r.stmt, r.opts, r.rows) = req
  BY DEF BuildRequest, CodeFor, OptionsFor
<1> HIDE DEF o, code
<1>1. /\ req.code # "Execute" /\ req.sql = FALSE /\ req.num_defines = 0 /\ req.num_binds = p
      /\ req.flags = {} /\ "BIND" \notin req.options
      /\ req.body = IF HasBindValues(rows) THEN RowParts(rows) ELSE <<>>
  BY DEF ReexecuteMessage, If, code
<1>2. p \in Nat /\ k \in Nat /\ (HasBindValues(rows) => p = n /\ k = Len(rows))
                  /\ (~HasBindValues(rows) => p = 0 /\ k = 0)
  <2>1. ValuesMatch(rows, p, k)
    BY DEF o, code
  <2>2. p = 0 => k = 0
    BY <1>1 DEF RowsAnnounced
  <2> HIDE DEF p, k
  <2> QED BY <2>1, <2>2, BindRows DEF ValuesMatch
<1> HIDE DEF req
<1>3. Announced(req) = f
  <2>1. Announced(req) = <<>> \o <<>> \o Times(0, "define") \o <<>> \o f
    BY <1>1, AnnouncedIs
  <2> HIDE DEF p, k
  <2>2. f \in Seq(RequestParts)
    BY <1>2, RowPartsTyped
  <2> HIDE DEF f
  <2>3. <<>> \o f = f /\ <<>> \o <<>> = <<>>
    BY <2>2, ConcatEmptySeq
  <2> QED BY <2>1, <2>3, WordsAre
<1>4. req.body = f
  <2> HIDE DEF p, k
  <2>1. CASE HasBindValues(rows)
    <3>1. RowParts(rows) = FlattenSeq(Times(Len(rows), OneRow(n)))
      BY RowPartsAre
    <3>2. p = n /\ k = Len(rows)
      BY <1>2, <2>1
    <3> QED BY <1>1, <2>1, <3>1, <3>2
  <2>2. CASE ~HasBindValues(rows)
    <3>1. f = <<>>
      BY <1>2, <2>2, RowPartsTyped
    <3> QED BY <1>1, <2>2, <3>1
  <2> QED BY <2>1, <2>2
<1>9. r.stmt = stmt /\ r.rows = rows
  OBVIOUS
<1> HIDE DEF r, f
<1>10. RequestConsistent(r)
  BY <1>0, <1>1, <1>3, <1>4, <1>9 DEF RequestConsistent
<1> QED BY <1>10 DEF r

----------------------------------------------------------------------------
\* The requests of the public operations

LEMMA OnlyOne == ASSUME NEW l \in Nat, l > 0, l <= 1 PROVE l = 1
OBVIOUS

LEMMA MoreThanNone == ASSUME NEW l \in Nat, l > 0 PROVE l # 0
OBVIOUS

Width(rows) == IF rows = <<>> THEN 0 ELSE Len(rows[1])

LEMMA WidthIs ==
  ASSUME NEW V, NEW n \in Nat, NEW rows \in RowsOf(n, V)
  PROVE  /\ Width(rows) \in Nat /\ (Width(rows) > 0 <=> HasBindValues(rows))
         /\ Width(rows) > 0 => Width(rows) = Len(rows[1]) /\ Len(rows) > 0 /\ rows # <<>>
         /\ Len(rows) \in Nat /\ (rows # <<>> => Len(rows) > 0)
<1>1. rows \in [1..Len(rows) -> [1..n -> V]] /\ Len(rows) \in Nat /\ (rows # <<>> => Len(rows) > 0)
  BY DEF RowsOf
<1>2. ASSUME rows # <<>> PROVE Len(rows[1]) = n /\ (rows[1] = <<>> <=> n = 0)
  <2>1. rows[1] \in [1..n -> V]
    BY <1>1, <1>2
  <2>2. rows[1] \in Seq(V) /\ Len(rows[1]) = n
    BY <2>1
  <2> QED BY <2>2
<1> QED BY <1>1, <1>2 DEF HasBindValues, Width

LEMMA Matches ==
  ASSUME NEW V, NEW n \in Nat, NEW rows \in RowsOf(n, V), NEW k, Width(rows) > 0 => k = Len(rows)
  PROVE  ValuesMatch(rows, Width(rows), k)
BY WidthIs DEF ValuesMatch

LEMMA ParamsAre ==
  ASSUME NEW V, NEW n \in Nat, NEW rows \in RowsOf(n, V), NEW stmt, ~stmt.requires_define,
         stmt.binds \in {0, Width(rows)}
  PROVE  ParamCount(stmt, rows) = Width(rows)
<1>1. CASE stmt.binds > 0
  BY <1>1, WidthIs DEF ParamCount
<1>2. CASE ~(stmt.binds > 0)
  BY <1>2, WidthIs DEF ParamCount
<1> QED BY <1>1, <1>2

LEMMA OptionsTyped ==
  ASSUME NEW opts \in Options, NEW V, NEW n \in Nat, NEW rows \in RowsOf(n, V)
  PROVE  LET o == OptionsFor(opts, rows) IN
         /\ o.num_execs = (IF rows = <<>> THEN opts.num_execs ELSE Len(rows)) /\ o.num_execs \in Nat
         /\ o.prefetch_rows = opts.prefetch_rows /\ o.prefetch_rows \in Nat
         /\ o.describe_only = opts.describe_only /\ o.batch_errors = opts.batch_errors
         /\ o.scrollable = opts.scrollable
BY DEF Options, OptionsFor, RowsOf

\* A statement that has no cursor yet is parsed and executed, once for each of its rows.
LEMMA FreshConsistent ==
  ASSUME NEW V, NEW n \in Nat, NEW rows \in RowsOf(n, V), NEW stmt \in Statements, NEW opts \in Options,
         stmt.cursor_id = 0, stmt.sql, ~stmt.requires_define, stmt.binds \in {0, Width(rows)},
         stmt.type = "Query" => Len(rows) <= 1,
         opts.dml_row_counts => rows # <<>>
  PROVE  RequestConsistent([stmt |-> stmt, opts |-> opts, rows |-> rows])
<1> DEFINE req == ExecuteMessage(stmt, OptionsFor(opts, rows), rows)
<1>1. CodeFor(stmt, opts, rows) = "Execute"
  BY DEF CodeFor, FunctionCode
<1>2. ParamCount(stmt, rows) = Width(rows)
  BY ParamsAre
<1>3. /\ req.num_binds = ParamCount(stmt, rows)
      /\ req.execs = IF stmt.type = "Query" THEN 0 ELSE OptionsFor(opts, rows).num_execs
  BY DEF ExecuteMessage
<1>4. Width(rows) > 0 => RowsAnnounced(req) = Len(rows)
  <2> HIDE DEF req
  <2>1. SUFFICES ASSUME Width(rows) > 0 PROVE RowsAnnounced(req) = Len(rows)
    OBVIOUS
  <2>2. rows # <<>> /\ Len(rows) \in Nat /\ Len(rows) > 0 /\ Width(rows) # 0
    BY <2>1, WidthIs, MoreThanNone
  <2>3. OptionsFor(opts, rows).num_execs = Len(rows)
    BY <2>2, OptionsTyped
  <2>4. ASSUME stmt.type = "Query" PROVE Len(rows) = 1
    <3>1. Len(rows) <= 1
      BY <2>4
    <3> QED BY <2>2, <3>1, OnlyOne
  <2> QED BY <1>2, <1>3, <2>2, <2>3, <2>4 DEF RowsAnnounced
<1>5. ValuesMatch(rows, ParamCount(stmt, rows), RowsAnnounced(req))
  <2> HIDE DEF req
  <2> QED BY <1>2, <1>4, Matches
<1> QED BY <1>1, <1>5, ExecuteConsistent

\* A statement with a cursor and no defines is executed by its number, once.
LEMMA CachedConsistent ==
  ASSUME NEW V, NEW n \in Nat, NEW rows \in RowsOf(n, V), NEW stmt \in Statements, NEW opts \in Options,
         stmt.cursor_id # 0, stmt.sql, stmt.executed, ~stmt.requires_define, stmt.type # "Ddl",
         stmt.binds = Width(rows), Len(rows) <= 1,
         ~opts.describe_only, ~opts.batch_errors, ~opts.scrollable, opts.num_execs = 1
  PROVE  RequestConsistent([stmt |-> stmt, opts |-> opts, rows |-> rows])
<1> DEFINE o == OptionsFor(opts, rows)
           code == CodeFor(stmt, opts, rows)
           req == ReexecuteMessage(stmt, o, rows, code)
<1>1. code \in {"Reexecute", "ReexecuteAndFetch"}
  <2>1. ~o.describe_only /\ ~o.batch_errors /\ ~o.scrollable
    BY OptionsTyped
  <2> HIDE DEF o
  <2>2. FunctionCode(stmt, o) \in {"Reexecute", "ReexecuteAndFetch"}
    BY <2>1 DEF FunctionCode
  <2> QED BY <2>2 DEF CodeFor, o
<1>2. o.num_execs = 1 \/ Len(rows) = 0
  <2>1. Len(rows) \in Nat /\ (rows # <<>> => Len(rows) > 0)
    BY WidthIs
  <2>2. o.num_execs = (IF rows = <<>> THEN opts.num_execs ELSE Len(rows))
    BY OptionsTyped
  <2> HIDE DEF o
  <2>3. CASE rows = <<>>
    BY <2>2, <2>3
  <2>4. CASE rows # <<>>
    <3>1. Len(rows) > 0 /\ Len(rows) <= 1 /\ Len(rows) \in Nat
      BY <2>1, <2>4
    <3>2. Len(rows) = 1
      BY <3>1, OnlyOne
    <3> QED BY <2>2, <2>4, <3>2
  <2> QED BY <2>3, <2>4
<1>3. /\ req.num_binds = Width(rows)
      /\ req.execs = IF code = "ReexecuteAndFetch" THEN 0 ELSE o.num_execs
  BY DEF ReexecuteMessage
<1>4. Width(rows) > 0 => RowsAnnounced(req) = Len(rows)
  <2> HIDE DEF req, o, code
  <2>1. SUFFICES ASSUME Width(rows) > 0 PROVE RowsAnnounced(req) = Len(rows)
    OBVIOUS
  <2>2. Len(rows) \in Nat /\ Len(rows) > 0 /\ Width(rows) # 0
    BY <2>1, WidthIs, MoreThanNone
  <2>3. Len(rows) = 1
    BY <2>2, OnlyOne
  <2> QED BY <1>2, <1>3, <2>2, <2>3 DEF RowsAnnounced
<1>5. ValuesMatch(rows, stmt.binds, RowsAnnounced(req))
  <2> HIDE DEF req
  <2> QED BY <1>4, Matches
<1>6. code # "Execute"
  BY <1>1
<1> QED BY <1>5, <1>6, ReexecuteConsistent

\* The defines of a query, and a cursor without a text, which carry no values.
LEMMA ValuelessConsistent ==
  ASSUME NEW stmt \in Statements, NEW opts \in Options,
         stmt.cursor_id # 0, stmt.type = "Query", stmt.requires_define \/ (~stmt.sql /\ stmt.binds = 0),
         ~opts.dml_row_counts
  PROVE  RequestConsistent([stmt |-> stmt, opts |-> opts, rows |-> <<>>])
<1> DEFINE req == ExecuteMessage(stmt, OptionsFor(opts, <<>>), <<>>)
<1>0. <<>> \in RowsOf(0, {}) /\ 0 \in Nat
  BY DEF RowsOf
<1>1. CodeFor(stmt, opts, <<>>) = "Execute"
  BY DEF CodeFor, FunctionCode
<1>2. ~Parses(stmt)
  BY DEF Parses
<1>3. ASSUME ~stmt.requires_define
      PROVE  ValuesMatch(<<>>, ParamCount(stmt, <<>>), RowsAnnounced(req))
  <2>1. Width(<<>>) = 0 /\ stmt.binds \in {0, Width(<<>>)}
    BY <1>3 DEF Width
  <2>2. ParamCount(stmt, <<>>) = 0
    BY <1>0, <1>3, <2>1, ParamsAre
  <2> HIDE DEF req
  <2> QED BY <2>2 DEF ValuesMatch, HasBindValues
<1> QED BY <1>0, <1>1, <1>2, <1>3, ExecuteConsistent

Single(rows) == IF rows = <<>> THEN <<>> ELSE <<rows[1]>>

LEMMA SingleIs ==
  ASSUME NEW V, NEW n \in Nat, NEW rows \in RowsOf(n, V)
  PROVE  /\ Single(rows) \in RowsOf(n, V) /\ Width(Single(rows)) = Width(rows)
         /\ Len(Single(rows)) <= 1
<1>1. rows \in [1..Len(rows) -> [1..n -> V]] /\ Len(rows) \in Nat /\ (rows # <<>> => Len(rows) > 0)
  BY DEF RowsOf
<1>2. CASE rows = <<>>
  BY <1>2 DEF Single, RowsOf, Width
<1>3. CASE rows # <<>>
  <2>1. rows[1] \in [1..n -> V]
    BY <1>1, <1>3
  <2> DEFINE row == rows[1]
             one == <<row>>
  <2>2. Single(rows) = one
    BY <1>3 DEF Single
  <2>3. Width(rows) = Len(row)
    BY <1>3 DEF Width
  <2> HIDE DEF row
  <2>4. one \in Seq([1..n -> V]) /\ Len(one) = 1 /\ one[1] = row /\ one # <<>>
    BY <2>1 DEF row
  <2> HIDE DEF one
  <2> QED BY <2>2, <2>3, <2>4 DEF RowsOf, Width
<1> QED BY <1>2, <1>3

LEMMA StatementsAre ==
  ASSUME NEW type \in {"Query", "Dml", "PlSql", "Ddl"}, NEW binds \in Nat, NEW id \in Nat, NEW columns \in Nat
  PROVE  /\ Fresh(type, binds) \in Statements /\ Cached(type, binds, id) \in Statements
         /\ WithDefines(Fresh(type, binds), id, columns) \in Statements
         /\ CursorStatement(id, columns) \in Statements
BY DEF Fresh, Cached, WithDefines, CursorStatement, Statements

LEMMA OptionsOf ==
  ASSUME NEW size \in Nat, NEW flag \in BOOLEAN
  PROVE  /\ ForQuery(size) \in Options /\ ForDml(flag) \in Options /\ ForPlsql \in Options
         /\ ForRefCursor(size) \in Options
         /\ [ForQuery(1) EXCEPT !.scrollable = TRUE] \in Options
         /\ [ForQuery(1) EXCEPT !.scrollable = TRUE, !.scroll_operation = TRUE] \in Options
<1>1. NoOptions \in Options
  BY DEF NoOptions, Options
<1>2. \A k \in Nat : ForQuery(k) \in Options
  <2> SUFFICES ASSUME NEW k \in Nat PROVE ForQuery(k) \in Options
    OBVIOUS
  <2>1. (k > 0) \in BOOLEAN
    OBVIOUS
  <2> QED BY <1>1, <2>1 DEF ForQuery, Options
<1>3. ForDml(flag) \in Options /\ ForPlsql \in Options
  BY <1>1 DEF ForDml, ForPlsql, Options
<1>4. ForRefCursor(size) \in Options
  <2>1. (size > 0) \in BOOLEAN
    OBVIOUS
  <2> QED BY <1>1, <2>1 DEF ForRefCursor, Options
<1>5. ASSUME NEW o \in Options
      PROVE  /\ [o EXCEPT !.scrollable = TRUE] \in Options
             /\ [o EXCEPT !.scrollable = TRUE, !.scroll_operation = TRUE] \in Options
  BY <1>5 DEF Options
<1>6. ForQuery(size) \in Options /\ ForQuery(1) \in Options
  BY <1>2
<1> QED BY <1>3, <1>4, <1>5, <1>6

LEMMA SingleFresh ==
  ASSUME NEW V, NEW n \in Nat, NEW rows \in RowsOf(n, V), NEW type \in {"Query", "Dml", "PlSql", "Ddl"},
         NEW binds \in {0, Width(rows)}, NEW opts \in Options, ~opts.dml_row_counts
  PROVE  RequestConsistent([stmt |-> Fresh(type, binds), opts |-> opts, rows |-> Single(rows)])
<1> DEFINE stmt == Fresh(type, binds)
           one == Single(rows)
<1>1. one \in RowsOf(n, V) /\ Width(one) = Width(rows) /\ Len(one) <= 1
  BY SingleIs
<1>2. binds \in Nat
  BY WidthIs
<1>3. stmt \in Statements
  BY <1>2, StatementsAre
<1>4. stmt.cursor_id = 0 /\ stmt.sql /\ ~stmt.requires_define /\ stmt.binds = binds
  BY DEF Fresh
<1> HIDE DEF stmt, one
<1>5. RequestConsistent([stmt |-> stmt, opts |-> opts, rows |-> one])
  BY <1>1, <1>3, <1>4, FreshConsistent
<1> QED BY <1>5 DEF stmt, one

LEMMA SingleCached ==
  ASSUME NEW V, NEW n \in Nat, NEW rows \in RowsOf(n, V), NEW type \in {"Query", "Dml", "PlSql"},
         NEW id \in Nat \ {0}, NEW opts \in Options,
         ~opts.describe_only, ~opts.batch_errors, ~opts.scrollable, opts.num_execs = 1
  PROVE  RequestConsistent([stmt |-> Cached(type, Width(rows), id), opts |-> opts, rows |-> Single(rows)])
<1> DEFINE stmt == Cached(type, Width(rows), id)
           one == Single(rows)
<1>1. one \in RowsOf(n, V) /\ Width(one) = Width(rows) /\ Len(one) <= 1
  BY SingleIs
<1>2. Width(rows) \in Nat /\ id \in Nat /\ id # 0
  BY WidthIs
<1>3. stmt \in Statements
  BY <1>2, StatementsAre
<1>4. /\ stmt.cursor_id # 0 /\ stmt.sql /\ stmt.executed /\ ~stmt.requires_define
      /\ stmt.binds = Width(rows) /\ stmt.type = type
  BY <1>2 DEF Cached, Fresh
<1>6. stmt.type # "Ddl"
  BY <1>4
<1> HIDE DEF stmt, one
<1>5. RequestConsistent([stmt |-> stmt, opts |-> opts, rows |-> one])
  BY <1>1, <1>3, <1>4, <1>6, CachedConsistent
<1> QED BY <1>5 DEF stmt, one

LEMMA BatchConsistent ==
  ASSUME NEW V, NEW n \in Nat, NEW rows \in RowsOf(n, V) \ {<<>>},
         NEW c \in BOOLEAN, NEW d \in BOOLEAN, NEW e \in BOOLEAN
  PROVE  RequestConsistent([stmt |-> Fresh("Dml", Width(rows)), rows |-> rows,
                            opts |-> [ForDml(c) EXCEPT !.num_execs = Len(rows), !.batch_errors = e,
                                                      !.dml_row_counts = d]])
<1> DEFINE stmt == Fresh("Dml", Width(rows))
           opts == [ForDml(c) EXCEPT !.num_execs = Len(rows), !.batch_errors = e, !.dml_row_counts = d]
<1>1. rows \in RowsOf(n, V) /\ rows # <<>>
  OBVIOUS
<1>2. Width(rows) \in Nat /\ Len(rows) \in Nat
  BY <1>1, WidthIs
<1>3. stmt \in Statements
  BY <1>2, StatementsAre
<1>4. /\ stmt.cursor_id = 0 /\ stmt.sql /\ ~stmt.requires_define /\ stmt.binds = Width(rows)
      /\ stmt.type # "Query"
  BY DEF Fresh
<1>5. opts \in Options
  BY <1>2 DEF ForDml, NoOptions, Options
<1> HIDE DEF stmt, opts
<1>6. RequestConsistent([stmt |-> stmt, opts |-> opts, rows |-> rows])
  BY <1>1, <1>3, <1>4, <1>5, FreshConsistent
<1>7. [stmt |-> stmt, opts |-> opts, rows |-> rows] = [stmt |-> stmt, rows |-> rows, opts |-> opts]
  OBVIOUS
<1> QED BY <1>6, <1>7 DEF stmt, opts

LEMMA QueryOptions ==
  ASSUME NEW size \in Nat
  PROVE  LET o == ForQuery(size) IN
         ~o.describe_only /\ ~o.batch_errors /\ ~o.scrollable /\ ~o.dml_row_counts /\ o.num_execs = 1
BY DEF ForQuery, NoOptions

LEMMA DmlOptions ==
  /\ LET o == ForDml(FALSE) IN
     ~o.describe_only /\ ~o.batch_errors /\ ~o.scrollable /\ ~o.dml_row_counts /\ o.num_execs = 1
  /\ ~ForPlsql.dml_row_counts
BY DEF ForDml, ForPlsql, NoOptions

Scrollable == [ForQuery(1) EXCEPT !.scrollable = TRUE]

Scrolling == [ForQuery(1) EXCEPT !.scrollable = TRUE, !.scroll_operation = TRUE]

LEMMA ScrollOptions ==
  ASSUME NEW size \in Nat
  PROVE  /\ ~ForRefCursor(size).dml_row_counts /\ ~Scrollable.dml_row_counts
         /\ ~Scrolling.dml_row_counts
BY DEF ForRefCursor, ForQuery, NoOptions, Scrollable, Scrolling

\* The statements that go without values.
LEMMA WithoutValues ==
  ASSUME NEW id \in Nat \ {0}, NEW binds \in Nat, NEW columns \in Nat, NEW opts \in Options,
         ~opts.dml_row_counts
  PROVE  /\ RequestConsistent([stmt |-> WithDefines(Fresh("Query", binds), id, columns), opts |-> opts,
                               rows |-> <<>>])
         /\ RequestConsistent([stmt |-> CursorStatement(id, columns), opts |-> opts, rows |-> <<>>])
<1>1. id \in Nat /\ id # 0
  OBVIOUS
<1> DEFINE defining == WithDefines(Fresh("Query", binds), id, columns)
           scrolling == CursorStatement(id, columns)
<1>2. defining \in Statements /\ scrolling \in Statements
  BY StatementsAre
<1>3. /\ defining.cursor_id # 0 /\ defining.type = "Query" /\ defining.requires_define
      /\ scrolling.cursor_id # 0 /\ scrolling.type = "Query" /\ ~scrolling.sql /\ scrolling.binds = 0
  BY <1>1 DEF WithDefines, CursorStatement, Cached, Fresh
<1> HIDE DEF defining, scrolling
<1>4. RequestConsistent([stmt |-> defining, opts |-> opts, rows |-> <<>>])
  BY <1>2, <1>3, ValuelessConsistent
<1>5. RequestConsistent([stmt |-> scrolling, opts |-> opts, rows |-> <<>>])
  BY <1>2, <1>3, ValuelessConsistent
<1> QED BY <1>4, <1>5 DEF defining, scrolling

\* The request of a batch with these options.
BatchRequest(w, batch, c, d, e) ==
  [stmt |-> Fresh("Dml", w), rows |-> batch,
   opts |-> [ForDml(c) EXCEPT !.num_execs = Len(batch), !.batch_errors = e, !.dml_row_counts = d]]

QueryRequests(w, one, id, size) ==
  {[stmt |-> s, opts |-> ForQuery(size), rows |-> one] : s \in {Fresh("Query", w), Cached("Query", w, id)}}

DefineRequest(w, id, size) ==
  [stmt |-> WithDefines(Fresh("Query", w), id, 2), opts |-> ForQuery(size), rows |-> <<>>]

DmlStatements(w, id) ==
  {Fresh("Dml", w), Fresh("PlSql", w), Fresh("Ddl", 0)} \cup {Cached(t, w, id) : t \in {"Dml", "PlSql"}}

DmlRequests(w, one, id) == {[stmt |-> s, opts |-> ForDml(FALSE), rows |-> one] : s \in DmlStatements(w, id)}

BatchRequests(w, rows) ==
  {BatchRequest(w, batch, c, d, e) : batch \in {rows} \ {<<>>}, c, d, e \in BOOLEAN}

CursorRequests(id, size) ==
  {[stmt |-> CursorStatement(id, 1), opts |-> ForRefCursor(size), rows |-> <<>>],
   [stmt |-> CursorStatement(id, 1), rows |-> <<>>, opts |-> Scrolling],
   [stmt |-> Fresh("Query", 0), rows |-> <<>>, opts |-> Scrollable]}

LEMMA RequestsAre ==
  ASSUME NEW rows, NEW cursor_id, NEW prefetch
  PROVE  Requests(rows, cursor_id, prefetch) =
           QueryRequests(Width(rows), Single(rows), cursor_id, prefetch)
             \cup {DefineRequest(Width(rows), cursor_id, prefetch)}
             \cup DmlRequests(Width(rows), Single(rows), cursor_id)
             \cup BatchRequests(Width(rows), rows)
             \cup CursorRequests(cursor_id, prefetch)
BY DEF Requests, Width, Single, BatchRequest, QueryRequests, DefineRequest, DmlStatements, DmlRequests,
       BatchRequests, Scrollable, Scrolling, CursorRequests

\* A call of a PL/SQL block has one row, with a value for each parameter.
LEMMA CallRow ==
  ASSUME NEW P, NEW params \in Seq(P)
  PROVE  LET row == [i \in DOMAIN params |-> PlsqlValue(params[i])]
             V == {PlsqlValue(p) : p \in P}
         IN  /\ Len(params) \in Nat /\ row \in [1..Len(params) -> V] /\ Len(row) = Len(params)
             /\ <<row>> \in RowsOf(Len(params), V) /\ Width(<<row>>) = Len(params)
             /\ Single(<<row>>) = <<row>>
<1> DEFINE n == Len(params)
           row == [i \in DOMAIN params |-> PlsqlValue(params[i])]
           V == {PlsqlValue(p) : p \in P}
<1>1. n \in Nat /\ DOMAIN params = 1..n /\ \A i \in 1..n : params[i] \in P
  BY LenProperties
<1>2. row \in [1..n -> V]
  BY <1>1
<1>3. Len(row) = n
  <2>1. DOMAIN row = 1..n
    BY <1>1
  <2> HIDE DEF row, n
  <2> QED BY <1>1, <2>1
<1> HIDE DEF row, n, V
<1>4. <<row>> \in Seq([1..n -> V])
  BY <1>2
<1>5. <<row>> # <<>> /\ <<row>>[1] = row
  OBVIOUS
<1> QED BY <1>1, <1>2, <1>3, <1>4, <1>5 DEF RowsOf, Width, Single, n, row, V

LEMMA CallConsistent ==
  ASSUME NEW P, NEW params \in Seq(P)
  PROVE  RequestConsistent(PlsqlRequest(params))
<1> DEFINE row == [i \in DOMAIN params |-> PlsqlValue(params[i])]
           V == {PlsqlValue(p) : p \in P}
           n == Len(params)
           stmt == Fresh("PlSql", n)
           plain == [stmt |-> stmt, opts |-> ForPlsql, rows |-> <<row>>]
<1>1. n \in Nat /\ <<row>> \in RowsOf(n, V) /\ Width(<<row>>) = n /\ Single(<<row>>) = <<row>>
  BY CallRow
<1>2. /\ PlsqlRequest(params).stmt = stmt /\ PlsqlRequest(params).opts = ForPlsql
      /\ PlsqlRequest(params).rows = <<row>>
  BY DEF PlsqlRequest
<1> HIDE DEF row, V, n
<1>3. ForPlsql \in Options /\ ~ForPlsql.dml_row_counts
  BY OptionsOf, DmlOptions
<1>4. RequestConsistent(plain)
  BY <1>1, <1>3, SingleFresh
<1>5. plain.stmt = stmt /\ plain.opts = ForPlsql /\ plain.rows = <<row>>
  OBVIOUS
<1> HIDE DEF plain, stmt
<1> QED BY <1>2, <1>4, <1>5 DEF RequestConsistent

(***************************************************************************)
(* Every request of the public operations is consistent, for any rows of   *)
(* as many values each, any cursor and any prefetch size, and any          *)
(* parameters of a PL/SQL call: what follows the header of                 *)
(* write_execute_message and write_reexecute_message is what it announces. *)
(***************************************************************************)
THEOREM RequestsAlwaysConsistent ==
  ASSUME NEW V, NEW n \in Nat, NEW rows \in RowsOf(n, V), NEW cursor_id \in Nat \ {0},
         NEW prefetch \in Nat, NEW P, NEW params \in Seq(P),
         NEW r \in Requests(rows, cursor_id, prefetch) \cup {PlsqlRequest(params)}
  PROVE  RequestConsistent(r)
<1> DEFINE w == Width(rows)
           one == Single(rows)
<1>1. w \in Nat /\ w \in {0, Width(rows)} /\ 0 \in {0, Width(rows)}
  BY WidthIs
<1>2. \A size \in Nat : ForQuery(size) \in Options /\ ForRefCursor(size) \in Options
  BY OptionsOf
<1>3. ForDml(FALSE) \in Options /\ ForPlsql \in Options /\ Scrollable \in Options /\ Scrolling \in Options
  BY OptionsOf DEF Scrollable, Scrolling
<1> HIDE DEF w, one
<1>4. CASE r \in QueryRequests(w, one, cursor_id, prefetch)
  <2>1. ForQuery(prefetch) \in Options
    BY <1>2
  <2>2. RequestConsistent([stmt |-> Fresh("Query", w), opts |-> ForQuery(prefetch), rows |-> one])
    BY <1>1, <2>1, QueryOptions, SingleFresh DEF one
  <2>3. RequestConsistent([stmt |-> Cached("Query", w, cursor_id), opts |-> ForQuery(prefetch), rows |-> one])
    BY <2>1, QueryOptions, SingleCached DEF w, one
  <2> QED BY <1>4, <2>2, <2>3 DEF QueryRequests
<1>5. CASE r = DefineRequest(w, cursor_id, prefetch)
  <2>1. ForQuery(prefetch) \in Options /\ ~ForQuery(prefetch).dml_row_counts
    BY <1>2, QueryOptions
  <2> QED BY <1>1, <1>5, <2>1, WithoutValues DEF DefineRequest
<1>6. CASE r \in DmlRequests(w, one, cursor_id)
  <2>1. \A type \in {"Dml", "PlSql"} :
          RequestConsistent([stmt |-> Fresh(type, w), opts |-> ForDml(FALSE), rows |-> one])
    BY <1>1, <1>3, DmlOptions, SingleFresh DEF one
  <2>2. RequestConsistent([stmt |-> Fresh("Ddl", 0), opts |-> ForDml(FALSE), rows |-> one])
    BY <1>1, <1>3, DmlOptions, SingleFresh DEF one
  <2>3. \A type \in {"Dml", "PlSql"} :
          RequestConsistent([stmt |-> Cached(type, w, cursor_id), opts |-> ForDml(FALSE), rows |-> one])
    BY <1>3, DmlOptions, SingleCached DEF w, one
  <2> QED BY <1>6, <2>1, <2>2, <2>3 DEF DmlRequests, DmlStatements
<1>7. CASE r = PlsqlRequest(params)
  BY <1>7, CallConsistent
<1>8. CASE r \in BatchRequests(w, rows)
  <2>1. PICK batch \in {rows} \ {<<>>}, c \in BOOLEAN, d \in BOOLEAN, e \in BOOLEAN :
          r = BatchRequest(w, batch, c, d, e)
    BY <1>8 DEF BatchRequests
  <2>2. batch = rows /\ rows \in RowsOf(n, V) \ {<<>>}
    OBVIOUS
  <2>3. RequestConsistent(BatchRequest(w, rows, c, d, e))
    BY <2>2, BatchConsistent DEF w, BatchRequest
  <2> QED BY <2>1, <2>2, <2>3
<1>9. CASE r \in CursorRequests(cursor_id, prefetch)
  <2>1. RequestConsistent([stmt |-> CursorStatement(cursor_id, 1), opts |-> ForRefCursor(prefetch),
                           rows |-> <<>>])
    BY <1>2, ScrollOptions, WithoutValues
  <2>2. RequestConsistent([stmt |-> CursorStatement(cursor_id, 1), opts |-> Scrolling, rows |-> <<>>])
    BY <1>3, ScrollOptions, WithoutValues
  <2>3. RequestConsistent([stmt |-> Fresh("Query", 0), opts |-> Scrollable, rows |-> <<>>])
    <3>1. <<>> \in RowsOf(0, {}) /\ 0 \in Nat /\ Width(<<>>) = 0 /\ Single(<<>>) = <<>>
      BY DEF RowsOf, Width, Single
    <3>2. RequestConsistent([stmt |-> Fresh("Query", 0), opts |-> Scrollable, rows |-> Single(<<>>)])
      BY <1>3, <3>1, ScrollOptions, SingleFresh
    <3> QED BY <3>1, <3>2
  <2>4. \A s, o : [stmt |-> s, opts |-> o, rows |-> <<>>] = [stmt |-> s, rows |-> <<>>, opts |-> o]
    OBVIOUS
  <2> QED BY <1>9, <2>1, <2>2, <2>3, <2>4 DEF CursorRequests
<1> QED BY <1>4, <1>5, <1>6, <1>7, <1>8, <1>9, RequestsAre DEF w, one

----------------------------------------------------------------------------
\* Bind values: the fields that a row consists of

\* Numbers of at most so many bytes, without leading zeros.
Numbers(width) == {n \in Seq(Byte) : Len(n) <= width /\ Minimal(n)}

\* Gathering sequences of sequences one behind the other.
LEMMA FlatJoined ==
  ASSUME NEW T, NEW s \in Seq(Seq(T)), NEW t \in Seq(Seq(T))
  PROVE  FlattenSeq(s \o t) = FlattenSeq(s) \o FlattenSeq(t)
<1> DEFINE m == Len(s)
           n == Len(t)
           st == s \o t
<1>1. /\ m \in Nat /\ n \in Nat /\ st \in Seq(Seq(T)) /\ Len(st) = m + n
      /\ \A i \in 1..(m + n) : st[i] = IF i <= m THEN s[i] ELSE t[i - m]
  BY ConcatProperties, LenProperties
<1> HIDE DEF st, m, n
<1>2. /\ Flat(s)[0] = <<>> /\ \A i \in 1..m : Flat(s)[i] = Flat(s)[i - 1] \o s[i]
      /\ FlattenSeq(s) = Flat(s)[m] /\ Flat(s)[m] \in Seq(T)
  <2>1. m \in 0..m
    BY <1>1
  <2> QED BY <2>1, FlatRun, FlattenIsFlat DEF m
<1>3. /\ Flat(t)[0] = <<>> /\ \A i \in 1..n : Flat(t)[i] = Flat(t)[i - 1] \o t[i]
      /\ FlattenSeq(t) = Flat(t)[n] /\ \A i \in 0..n : Flat(t)[i] \in Seq(T)
  BY FlatRun, FlattenIsFlat DEF n
<1>4. /\ Flat(st)[0] = <<>> /\ \A i \in 1..(m + n) : Flat(st)[i] = Flat(st)[i - 1] \o st[i]
      /\ FlattenSeq(st) = Flat(st)[m + n]
  BY <1>1, FlatRun, FlattenIsFlat
<1>5. Flat(st)[m] = Flat(s)[m]
  <2> DEFINE S == {i \in 0..m : Flat(st)[i] = Flat(s)[i]}
  <2>1. 0 \in S
    BY <1>1, <1>2, <1>4
  <2>2. ASSUME NEW i \in 1..m, i - 1 \in S PROVE i \in S
    <3>1. i \in 1..(m + n) /\ i <= m /\ i \in 0..m
      BY <1>1
    <3>2. st[i] = s[i]
      BY <1>1, <3>1
    <3>3. Flat(st)[i] = Flat(st)[i - 1] \o st[i] /\ Flat(s)[i] = Flat(s)[i - 1] \o s[i]
      BY <1>2, <1>4, <3>1
    <3> QED BY <2>2, <3>1, <3>2, <3>3
  <2> HIDE DEF S
  <2>3. \A i \in 0..m : i \in S
    BY <1>1, <2>1, <2>2, UpToInduction
  <2>4. m \in 0..m
    BY <1>1
  <2> QED BY <2>3, <2>4 DEF S
<1> DEFINE a == Flat(s)[m]
<1>6. Flat(st)[m + n] = a \o Flat(t)[n]
  <2> DEFINE S == {i \in 0..n : Flat(st)[m + i] = a \o Flat(t)[i]}
  <2>1. 0 \in S
    <3>1. m + 0 = m /\ 0 \in 0..n
      BY <1>1
    <3>2. a \o <<>> = a
      BY <1>2, ConcatEmptySeq
    <3> QED BY <1>3, <1>5, <3>1, <3>2
  <2>2. ASSUME NEW i \in 1..n, i - 1 \in S PROVE i \in S
    <3>1. /\ m + i \in 1..(m + n) /\ ~(m + i <= m) /\ (m + i) - m = i /\ (m + i) - 1 = m + (i - 1)
          /\ i \in 0..n /\ i - 1 \in 0..n
      BY <1>1
    <3>2. st[m + i] = t[i]
      BY <1>1, <3>1
    <3>3. Flat(st)[m + i] = Flat(st)[m + (i - 1)] \o t[i]
      BY <1>4, <3>1, <3>2
    <3>4. Flat(st)[m + (i - 1)] = a \o Flat(t)[i - 1]
      BY <2>2
    <3>5. Flat(t)[i - 1] \in Seq(T) /\ t[i] \in Seq(T) /\ a \in Seq(T)
      BY <1>2, <1>3, <3>1 DEF n
    <3>6. (a \o Flat(t)[i - 1]) \o t[i] = a \o (Flat(t)[i - 1] \o t[i])
      <4> DEFINE x == a
                 y == Flat(t)[i - 1]
                 z == t[i]
      <4>1. x \in Seq(T) /\ y \in Seq(T) /\ z \in Seq(T)
        BY <3>5
      <4> HIDE DEF x, y, z
      <4>2. (x \o y) \o z = x \o (y \o z)
        BY <4>1, ConcatAssociative, SMTT(30)
      <4> QED BY <4>2 DEF x, y, z
    <3>7. Flat(t)[i] = Flat(t)[i - 1] \o t[i]
      BY <1>3
    <3> QED BY <3>1, <3>3, <3>4, <3>6, <3>7
  <2> HIDE DEF S
  <2>3. \A i \in 0..n : i \in S
    BY <1>1, <2>1, <2>2, UpToInduction
  <2>4. n \in 0..n
    BY <1>1
  <2> QED BY <2>3, <2>4 DEF S
<1> QED BY <1>2, <1>3, <1>4, <1>6 DEF st

LEMMA MessageJoined ==
  ASSUME NEW a \in Seq(WireFields), NEW b \in Seq(WireFields), ChunkSize \in UInt32 \ {0}
  PROVE  Message(a \o b) = Message(a) \o Message(b)
<1> DEFINE m == Len(a)
           n == Len(b)
           W(f) == [i \in DOMAIN f |-> WriteField(f[i])]
           ab == a \o b
<1>1. /\ m \in Nat /\ n \in Nat /\ ab \in Seq(WireFields) /\ Len(ab) = m + n
      /\ \A i \in 1..(m + n) : ab[i] = IF i <= m THEN a[i] ELSE b[i - m]
  BY ConcatProperties, LenProperties
<1>2. ASSUME NEW f \in Seq(WireFields)
      PROVE  /\ W(f) \in Seq(Seq(Byte)) /\ Len(W(f)) = Len(f) /\ Message(f) = FlattenSeq(W(f))
             /\ \A i \in 1..Len(f) : W(f)[i] = WriteField(f[i])
  <2>1. DOMAIN f = 1..Len(f) /\ Len(f) \in Nat /\ \A i \in 1..Len(f) : f[i] \in WireFields
    BY LenProperties
  <2>2. \A i \in 1..Len(f) : WriteField(f[i]) \in Seq(Byte)
    BY <2>1, FieldTyped
  <2>3. Message(f) = FlattenSeq(W(f))
    BY DEF Message
  <2> QED BY <2>1, <2>2, <2>3
<1> HIDE DEF ab, W
<1>3. /\ W(a) \in Seq(Seq(Byte)) /\ Len(W(a)) = m /\ Message(a) = FlattenSeq(W(a))
      /\ \A i \in 1..m : W(a)[i] = WriteField(a[i])
  BY <1>2
<1>4. /\ W(b) \in Seq(Seq(Byte)) /\ Len(W(b)) = n /\ Message(b) = FlattenSeq(W(b))
      /\ \A i \in 1..n : W(b)[i] = WriteField(b[i])
  BY <1>2
<1>5. /\ W(ab) \in Seq(Seq(Byte)) /\ Len(W(ab)) = m + n /\ Message(ab) = FlattenSeq(W(ab))
      /\ \A i \in 1..(m + n) : W(ab)[i] = WriteField(ab[i])
  <2> HIDE DEF m, n
  <2>1. Len(W(ab)) = Len(ab) /\ \A i \in 1..Len(ab) : W(ab)[i] = WriteField(ab[i])
    BY <1>1, <1>2
  <2> QED BY <1>1, <1>2, <2>1
<1> DEFINE wa == W(a)
           wb == W(b)
           wab == W(ab)
<1>6. /\ wa \o wb \in Seq(Seq(Byte)) /\ Len(wa \o wb) = m + n
      /\ \A i \in 1..(m + n) : (wa \o wb)[i] = IF i <= m THEN wa[i] ELSE wb[i - m]
  <2> HIDE DEF wa, wb, m, n
  <2> QED BY <1>3, <1>4, ConcatProperties DEF wa, wb
<1> HIDE DEF m, n
<1>7. ASSUME NEW i \in 1..(m + n) PROVE wab[i] = (wa \o wb)[i]
  <2>1. CASE i <= m
    <3>1. i \in 1..m
      BY <1>1, <2>1
    <3>2. ab[i] = a[i] /\ (wa \o wb)[i] = wa[i]
      BY <1>1, <1>6, <2>1
    <3> QED BY <1>3, <1>5, <3>1, <3>2
  <2>2. CASE ~(i <= m)
    <3>1. i - m \in 1..n
      BY <1>1, <2>2
    <3>2. ab[i] = b[i - m] /\ (wa \o wb)[i] = wb[i - m]
      BY <1>1, <1>6, <2>2
    <3> QED BY <1>4, <1>5, <3>1, <3>2
  <2> QED BY <2>1, <2>2
<1>8. wab = wa \o wb
  BY <1>5, <1>6, <1>7, SeqEqual
<1> HIDE DEF wa, wb, wab
<1>9. FlattenSeq(wa \o wb) = FlattenSeq(wa) \o FlattenSeq(wb)
  BY <1>3, <1>4, FlatJoined DEF wa, wb
<1> QED BY <1>3, <1>4, <1>5, <1>8, <1>9 DEF wa, wb, wab, ab

LEMMA MessageOne ==
  ASSUME NEW f \in WireFields, ChunkSize \in UInt32 \ {0}
  PROVE  <<f>> \in Seq(WireFields) /\ Message(<<f>>) = WriteField(f)
<1> DEFINE s == <<f>>
           w == [i \in DOMAIN s |-> WriteField(s[i])]
<1>1. s \in Seq(WireFields) /\ Len(s) = 1 /\ s[1] = f
  OBVIOUS
<1>2. WriteField(f) \in Seq(Byte)
  BY FieldTyped
<1>3. DOMAIN s = 1..1
  BY <1>1
<1> HIDE DEF s
<1>4. w \in Seq(Seq(Byte)) /\ Len(w) = 1 /\ w[1] = WriteField(f)
  BY <1>1, <1>2, <1>3
<1>5. Message(s) = FlattenSeq(w)
  BY DEF Message
<1> HIDE DEF w
<1>6. Flat(w)[0] = <<>> /\ Flat(w)[1] = Flat(w)[0] \o w[1] /\ FlattenSeq(w) = Flat(w)[1]
  <2>1. 1 \in 1..Len(w) /\ 1 - 1 = 0
    BY <1>4
  <2>2. Flat(w)[0] = <<>> /\ \A i \in 1..Len(w) : Flat(w)[i] = Flat(w)[i - 1] \o w[i]
    BY <1>4, FlatRun
  <2>3. Flat(w)[1] = Flat(w)[1 - 1] \o w[1]
    BY <2>1, <2>2, Zenon
  <2>4. FlattenSeq(w) = Flat(w)[1]
    BY <1>4, FlattenIsFlat
  <2> QED BY <2>1, <2>2, <2>3, <2>4
<1>7. <<>> \o w[1] = w[1]
  BY <1>2, <1>4, ConcatEmptySeq
<1> QED BY <1>1, <1>4, <1>5, <1>6, <1>7 DEF s

\* One more field behind a message.
LEMMA MessageMore ==
  ASSUME NEW fields \in Seq(WireFields), NEW f \in WireFields, ChunkSize \in UInt32 \ {0}
  PROVE  /\ Append(fields, f) \in Seq(WireFields)
         /\ Message(Append(fields, f)) = Message(fields) \o WriteField(f)
<1>1. Append(fields, f) \in Seq(WireFields) /\ Append(fields, f) = fields \o <<f>>
  BY AppendProperties, AppendIsConcat
<1>2. <<f>> \in Seq(WireFields) /\ Message(<<f>>) = WriteField(f)
  BY MessageOne
<1> QED BY <1>1, <1>2, MessageJoined

LEMMA MessageTwo ==
  ASSUME NEW f \in WireFields, NEW g \in WireFields, ChunkSize \in UInt32 \ {0}
  PROVE  /\ <<f, g>> \in Seq(WireFields)
         /\ Message(<<f, g>>) = WriteField(f) \o WriteField(g)
<1>1. <<f, g>> = Append(<<f>>, g)
  OBVIOUS
<1>2. <<f>> \in Seq(WireFields) /\ Message(<<f>>) = WriteField(f)
  BY MessageOne
<1> QED BY <1>1, <1>2, MessageMore

SixWritten(a, b, c, d, e, f) ==
  /\ <<a, b, c, d, e, f>> \in Seq(WireFields)
  /\ Message(<<a, b, c, d, e, f>>)
       = WriteField(a) \o WriteField(b) \o WriteField(c) \o WriteField(d) \o WriteField(e)
           \o WriteField(f)

LEMMA MessageSix ==
  ASSUME NEW a \in WireFields, NEW b \in WireFields, NEW c \in WireFields, NEW d \in WireFields,
         NEW e \in WireFields, NEW f \in WireFields, ChunkSize \in UInt32 \ {0}
  PROVE  SixWritten(a, b, c, d, e, f)
<1>1. /\ <<a, b>> \in Seq(WireFields)
      /\ Message(<<a, b>>) = WriteField(a) \o WriteField(b)
  BY MessageTwo
<1>2. <<a, b, c>> = Append(<<a, b>>, c) /\ <<a, b, c, d>> = Append(<<a, b, c>>, d)
  OBVIOUS
<1>3. /\ <<a, b, c, d, e>> = Append(<<a, b, c, d>>, e)
      /\ <<a, b, c, d, e, f>> = Append(<<a, b, c, d, e>>, f)
  OBVIOUS
<1> DEFINE s2 == <<a, b>>
           s3 == <<a, b, c>>
           s4 == <<a, b, c, d>>
           s5 == <<a, b, c, d, e>>
           s6 == <<a, b, c, d, e, f>>
<1> HIDE DEF s2, s3, s4, s5, s6
<1>4. s3 \in Seq(WireFields) /\ Message(s3) = Message(s2) \o WriteField(c)
  BY <1>1, <1>2, MessageMore DEF s2, s3
<1>5. s4 \in Seq(WireFields) /\ Message(s4) = Message(s3) \o WriteField(d)
  BY <1>2, <1>4, MessageMore DEF s3, s4
<1>6. s5 \in Seq(WireFields) /\ Message(s5) = Message(s4) \o WriteField(e)
  BY <1>3, <1>5, MessageMore DEF s4, s5
<1>7. s6 \in Seq(WireFields) /\ Message(s6) = Message(s5) \o WriteField(f)
  BY <1>3, <1>6, MessageMore DEF s5, s6
<1>8. Message(s2) = WriteField(a) \o WriteField(b)
  BY <1>1 DEF s2
<1> QED BY <1>4, <1>5, <1>6, <1>7, <1>8 DEF s6, SixWritten

\* A message made of messages.
LEMMA MessageOfAll ==
  ASSUME NEW n \in Nat, NEW F \in [1..n -> Seq(WireFields)], ChunkSize \in UInt32 \ {0}
  PROVE  /\ FlattenSeq(F) \in Seq(WireFields)
         /\ Message(FlattenSeq(F)) = FlattenSeq([c \in 1..n |-> Message(F[c])])
<1> DEFINE M == [c \in 1..n |-> Message(F[c])]
<1>1. F \in Seq(Seq(WireFields)) /\ Len(F) = n
  OBVIOUS
<1>2. \A c \in 1..n : F[c] \in Seq(WireFields) /\ Message(F[c]) \in Seq(Byte)
  <2>1. \A c \in 1..n : F[c] \in Seq(WireFields)
    OBVIOUS
  <2> QED BY <2>1, MessageEnds
<1>3. M \in Seq(Seq(Byte)) /\ Len(M) = n /\ \A c \in 1..n : M[c] = Message(F[c])
  BY <1>2
<1> HIDE DEF M
<1>4. /\ Flat(F)[0] = <<>> /\ \A i \in 1..n : Flat(F)[i] = Flat(F)[i - 1] \o F[i]
      /\ \A i \in 0..n : Flat(F)[i] \in Seq(WireFields)
  BY <1>1, FlatRun
<1>5. Flat(M)[0] = <<>> /\ \A i \in 1..n : Flat(M)[i] = Flat(M)[i - 1] \o M[i]
  BY <1>3, FlatRun
<1> DEFINE S == {i \in 0..n : Message(Flat(F)[i]) = Flat(M)[i]}
<1>6. 0 \in S
  <2>1. Message(<<>>) = <<>>
    <3>1. [i \in DOMAIN <<>> |-> WriteField((<<>>)[i])] = <<>>
      OBVIOUS
    <3>2. FlattenSeq(<<>>) = <<>>
      BY FlattenIsFlat, FlatRun DEF FlattenSeq
    <3> QED BY <3>1, <3>2 DEF Message
  <2> QED BY <1>4, <1>5, <2>1
<1>7. ASSUME NEW i \in 1..n, i - 1 \in S PROVE i \in S
  <2>1. i - 1 \in 0..n /\ i \in 0..n
    OBVIOUS
  <2> DEFINE a == Flat(F)[i - 1]
             b == F[i]
  <2>2. a \in Seq(WireFields) /\ b \in Seq(WireFields) /\ Flat(F)[i] = a \o b
    BY <1>2, <1>4, <2>1
  <2> HIDE DEF a, b
  <2>3. Message(a \o b) = Message(a) \o Message(b)
    BY <2>2, MessageJoined
  <2>4. Message(a) = Flat(M)[i - 1] /\ Message(b) = M[i]
    BY <1>3, <1>7 DEF a, b
  <2>5. Flat(M)[i] = Flat(M)[i - 1] \o M[i]
    BY <1>5
  <2> QED BY <2>1, <2>2, <2>3, <2>4, <2>5
<1> HIDE DEF S
<1>8. n \in S
  <2>1. \A i \in 0..n : i \in S
    BY <1>6, <1>7, UpToInduction
  <2>2. n \in 0..n
    OBVIOUS
  <2> QED BY <2>1, <2>2
<1>9. FlattenSeq(F) = Flat(F)[n] /\ FlattenSeq(M) = Flat(M)[n] /\ n \in 0..n
  BY <1>1, <1>3, FlattenIsFlat
<1> QED BY <1>4, <1>8, <1>9 DEF S, M


----------------------------------------------------------------------------
\* Bind values: their framing

\* What the constructors of LobOpMessage make of offsets, sizes and types of up to eight bytes.
LEMMA OneByte ==
  ASSUME NEW b \in 1..255
  PROVE  <<b>> \in Numbers(4) /\ <<b>> \in Numbers(8)
<1>1. b \in Byte /\ b # 0
  BY DEF Byte
<1>2. <<b>> \in Seq(Byte) /\ Len(<<b>>) = 1 /\ <<b>>[1] = b
  BY <1>1
<1> QED BY <1>1, <1>2 DEF Numbers, Minimal

LEMMA TwoBytes ==
  ASSUME NEW b \in 1..255, NEW c \in Byte
  PROVE  <<b, c>> \in Numbers(4)
<1>1. b \in Byte /\ b # 0
  BY DEF Byte
<1>2. <<b, c>> \in Seq(Byte) /\ Len(<<b, c>>) = 2 /\ <<b, c>>[1] = b
  BY <1>1
<1> QED BY <1>1, <1>2 DEF Numbers, Minimal

LEMMA NoNumber == <<>> \in Numbers(4) /\ <<>> \in Numbers(8)
BY DEF Numbers, Minimal

LEMMA FieldsOfLob ==
  ASSUME NEW width \in {4, 8}, NEW n \in Numbers(width)
  PROVE  Ub(width, n) \in WireFields
<1>1. Ub(width, n) \in UbFields
  BY DEF Ub, UbFields, Numbers
<1> QED BY <1>1 DEF WireFields

\* The types of OracleType that bind values have.
OracleTypes ==
  {"VARCHAR", "CHAR", "LONG", "RAW", "LONGRAW", "NUMBER", "BINARY_INTEGER", "BINARY_FLOAT",
   "BINARY_DOUBLE", "DATE", "TIMESTAMP", "TIMESTAMPTZ", "TIMESTAMPLTZ", "ROWID", "UROWID", "BOOLEAN",
   "CURSOR", "OBJECT", "CLOB", "BLOB", "BFILE", "JSON", "VECTOR", "INTERVALYM", "INTERVALDS"}

\* The kinds whose value is its bytes, without Boolean, whose length byte counts two bytes where one
\* follows; and the most bytes: text and bytes above 252 are another form, which is not read back.
PlainKinds == InPlace \ {"Boolean"}

Longest(kind) == IF kind \in {"String", "Bytes"} THEN 252 ELSE FixedMeta[kind][2]

PlainValues == {v \in [kind : PlainKinds, data : Seq(Byte)] : Len(v.data) <= Longest(v.kind)}

NullValues == {Null} \cup {TypedNull(t) : t \in OracleTypes}

LobValues ==
  {v \in [kind : {"Lob"}, type : {"CLOB", "BLOB", "BFILE"}, data : Seq(Byte) \cup {NoBytes}] :
     v.data # NoBytes => v.data # <<>> /\ Len(v.data) \in UInt32}

\* Documents and vectors of up to 252 bytes: the length of longer ones is not that of a field.
DocumentValues ==
  {v \in [kind : {"Json", "Vector"}, size : Nat, data : Seq(Byte) \cup {NoBytes}] :
     IF v.data = NoBytes THEN v.kind = "Json" ELSE Len(v.data) <= 252}

CursorValues == [kind : {"Cursor"}, data : Numbers(4)]

CollectionValues ==
  {v \in [kind : {"Collection"}, oid : Seq(Byte), data : Seq(Byte) \cup {NoBytes}] :
     Len(v.oid) = 16 /\ (v.data # NoBytes => Len(v.data) \in UInt32)}

BindValues ==
  PlainValues \cup NullValues \cup LobValues \cup DocumentValues \cup CursorValues \cup CollectionValues

LEMMA FixedSizes ==
  ASSUME NEW kind \in PlainKinds \ {"String", "Bytes"}
  PROVE  kind \in DOMAIN FixedMeta /\ FixedMeta[kind][2] \in 1..22
BY DEF FixedMeta, PlainKinds, InPlace

LEMMA ShortValue ==
  ASSUME NEW v \in PlainValues
  PROVE  /\ v.kind \in PlainKinds /\ v.data \in Seq(Byte) /\ Len(v.data) \in Nat /\ Len(v.data) <= 252
         /\ Len(v.data) <= Longest(v.kind)
<1>1. /\ v.kind \in PlainKinds /\ v.data \in Seq(Byte) /\ Len(v.data) \in Nat
      /\ Len(v.data) <= Longest(v.kind)
  BY DEF PlainValues
<1> DEFINE l == Len(v.data)
           most == Longest(v.kind)
<1>2. most \in Nat /\ most <= 252
  <2>1. CASE v.kind \in {"String", "Bytes"}
    BY <2>1 DEF Longest
  <2>2. CASE v.kind \notin {"String", "Bytes"}
    <3>1. FixedMeta[v.kind][2] \in 1..22
      BY <1>1, <2>2, FixedSizes
    <3>2. most = FixedMeta[v.kind][2]
      BY <2>2 DEF Longest
    <3> HIDE DEF most
    <3> QED BY <3>1, <3>2
  <2> QED BY <2>1, <2>2
<1>3. l <= 252
  <2>1. l \in Nat /\ l <= most
    BY <1>1
  <2> HIDE DEF l, most
  <2> QED BY <1>2, <2>1
<1> QED BY <1>1, <1>3

LEMMA SmallNumber ==
  ASSUME NEW l \in Nat, l <= 252
  PROVE  l \in UInt32
BY SMT DEF UInt32

\* Fields of data, of text, and the empty text.
LEMMA DataField ==
  ASSUME NEW d \in Seq(Byte), Len(d) <= 252
  PROVE  LET f == [type |-> "bytes", value |-> d]
         IN  f \in WireFields /\ WriteField(f) = <<Len(d)>> \o d
<1> DEFINE f == [type |-> "bytes", value |-> d]
<1>1. Len(d) \in Nat /\ d # NoBytes
  BY LenProperties, NoBytesApart
<1>2. WriteBytesWithLength(d) = <<Len(d)>> \o d
  BY <1>1 DEF WriteBytesWithLength, IsShort, MAX_SHORT
<1>3. f \in DataFields
  BY DEF DataFields
<1>4. WriteField(f) = WriteBytesWithLength(d)
  BY DEF WriteField
<1> HIDE DEF f
<1> QED BY <1>2, <1>3, <1>4 DEF WireFields, f

LEMMA TextField ==
  ASSUME NEW d \in Seq(Byte), d # <<>>, Len(d) \in UInt32
  PROVE  LET f == [type |-> "string", value |-> d]
         IN  f \in WireFields /\ WriteField(f) = WriteUb(BytesOf(Len(d))) \o WriteBytesWithLength(d)
<1> DEFINE f == [type |-> "string", value |-> d]
<1>1. d # NoBytes
  BY NoBytesApart
<1>2. f \in StringFields
  BY <1>1 DEF StringFields
<1>3. WriteField(f) = WriteUb(BytesOf(Len(d))) \o WriteBytesWithLength(d)
  BY <1>1 DEF WriteField
<1> HIDE DEF f
<1> QED BY <1>2, <1>3 DEF WireFields, f

LEMMA NoneField ==
  /\ None \in WireFields /\ WriteField(None) = WriteUb(<<>>)
  /\ WriteUb(<<>>) = <<0>>
<1>1. None \in StringFields
  BY DEF None, StringFields
<1>2. WriteField(None) = WriteUb(<<>>)
  BY DEF WriteField, None
<1>3. WriteUb(<<>>) = <<0>>
  <2>1. Len(<<>>) = 0 /\ UbWidth(0) = 0
    <3>1. UbWidth(0) = CHOOSE w \in {0, 1, 2, 4, 8} : w >= 0 /\ \A x \in {0, 1, 2, 4, 8} : x >= 0 => x >= w
      BY DEF UbWidth
    <3> QED BY <3>1
  <2>2. Zeros(0) = <<>>
    BY DEF Zeros
  <2>3. WriteUb(<<>>) = <<UbWidth(0)>> \o Zeros(UbWidth(0) - 0) \o <<>>
    BY <2>1 DEF WriteUb
  <2>4. WriteUb(<<>>) = <<0>> \o <<>> \o <<>>
    BY <2>1, <2>2, <2>3
  <2> QED BY <2>4
<1> QED BY <1>1, <1>2, <1>3 DEF WireFields

LEMMA UbField ==
  ASSUME NEW n \in Numbers(4)
  PROVE  Ub(4, n) \in WireFields /\ WriteField(Ub(4, n)) = WriteUb(n)
<1>1. WriteField(Ub(4, n)) = WriteUb(n)
  BY DEF WriteField, Ub
<1> QED BY <1>1, FieldsOfLob

HasLen(s, n) == s \in Seq(Byte) /\ Len(s) = n

LEMMA Cat ==
  ASSUME NEW a, NEW b, NEW m \in Nat, NEW n \in Nat, HasLen(a, m), HasLen(b, n), NEW k, k = m + n
  PROVE  HasLen(a \o b, k)
BY ConcatProperties DEF HasLen

LEMMA LocatorIs ==
  ASSUME NEW n \in UInt32
  PROVE  QLocator(n) \in Seq(Byte) /\ Len(QLocator(n)) = 40
<1> DEFINE h == <<0, 38, 0, 4, 97, 8>>
           a == Be2(0)
           b == Be2(1)
           c == Zeros(4)
           d == Be4(n)
           e == Zeros(22)
<1>1. HasLen(h, 6)
  BY DEF Byte, HasLen
<1>2. n \in Int
  BY DEF UInt32
<1>3. HasLen(a, 2) /\ HasLen(b, 2) /\ HasLen(d, 4)
  BY <1>2, Bytes2, Bytes4 DEF HasLen
<1>4. HasLen(c, 4) /\ HasLen(e, 22)
  BY ZerosAre DEF HasLen
<1>5. QLocator(n) = h \o a \o b \o c \o d \o e
  BY DEF QLocator
<1> HIDE DEF h, a, b, c, d, e
<1>6. /\ 6 \in Nat /\ 2 \in Nat /\ 8 \in Nat /\ 10 \in Nat /\ 4 \in Nat /\ 14 \in Nat /\ 18 \in Nat
      /\ 22 \in Nat /\ 8 = 6 + 2 /\ 10 = 8 + 2 /\ 14 = 10 + 4 /\ 18 = 14 + 4 /\ 40 = 18 + 22
  OBVIOUS
<1>7. HasLen(h \o a, 8)
  BY <1>1, <1>3, <1>6, Cat, Zenon
<1>8. HasLen((h \o a) \o b, 10)
  BY <1>3, <1>6, <1>7, Cat, Zenon
<1>9. HasLen(((h \o a) \o b) \o c, 14)
  BY <1>4, <1>6, <1>8, Cat, Zenon
<1>10. HasLen((((h \o a) \o b) \o c) \o d, 18)
  BY <1>3, <1>6, <1>9, Cat, Zenon
<1>11. HasLen(((((h \o a) \o b) \o c) \o d) \o e, 40)
  BY <1>4, <1>6, <1>10, Cat, Zenon
<1> QED BY <1>5, <1>11 DEF HasLen

LEMMA ToidIs ==
  ASSUME NEW oid \in Seq(Byte), Len(oid) = 16
  PROVE  Toid(oid) \in Seq(Byte) /\ Len(Toid(oid)) = 36
<1> DEFINE h == <<0, 34, 2, 8>>
           z == Zeros(13)
           e == <<1, 0, 1>>
<1>1. HasLen(h, 4) /\ HasLen(e, 3)
  BY DEF Byte, HasLen
<1>2. HasLen(z, 13)
  BY ZerosAre DEF HasLen
<1>3. Toid(oid) = h \o oid \o z \o e
  BY DEF Toid
<1>4. HasLen(oid, 16)
  BY DEF HasLen
<1> HIDE DEF h, z, e
<1>5. /\ 4 \in Nat /\ 16 \in Nat /\ 20 \in Nat /\ 13 \in Nat /\ 33 \in Nat /\ 3 \in Nat
      /\ 20 = 4 + 16 /\ 33 = 20 + 13 /\ 36 = 33 + 3
  OBVIOUS
<1>6. HasLen(h \o oid, 20)
  BY <1>1, <1>4, <1>5, Cat, Zenon
<1>7. HasLen((h \o oid) \o z, 33)
  BY <1>2, <1>5, <1>6, Cat, Zenon
<1>8. HasLen(((h \o oid) \o z) \o e, 36)
  BY <1>1, <1>5, <1>7, Cat, Zenon
<1> QED BY <1>3, <1>8 DEF HasLen

LEMMA NotEmpty ==
  ASSUME NEW s, Len(s) # 0
  PROVE  s # <<>>
<1>1. Len(<<>>) = 0
  OBVIOUS
<1> QED BY <1>1, Zenon

\* A value is written as the fields as which it is read.
AsWritten(v) == BindFields(v) \in Seq(WireFields) /\ Message(BindFields(v)) = WriteBindValue(v)

LEMMA PlainWritten ==
  ASSUME NEW v \in PlainValues \cup NullValues, ChunkSize \in UInt32 \ {0}
  PROVE  AsWritten(v)
<1>1. CASE v \in NullValues
  <2> DEFINE f == [type |-> "bytes", value |-> <<>>]
  <2>1. v.kind \in {"Null", "TypedNull"}
    BY <1>1 DEF NullValues, Null, TypedNull
  <2>2. BindFields(v) = <<f>> /\ WriteBindValue(v) = <<0>>
    BY <2>1 DEF BindFields, WriteBindValue
  <2>3. f \in WireFields /\ WriteField(f) = <<Len(<<>>)>> \o <<>>
    <3> DEFINE none == <<>>
    <3>1. none \in Seq(Byte) /\ Len(none) <= 252 /\ f = [type |-> "bytes", value |-> none]
      OBVIOUS
    <3> HIDE DEF none, f
    <3>2. f \in WireFields /\ WriteField(f) = <<Len(none)>> \o none
      BY <3>1, DataField
    <3> QED BY <3>2 DEF none
  <2>4. <<Len(<<>>)>> \o <<>> = <<0>>
    OBVIOUS
  <2> HIDE DEF f
  <2> QED BY <2>2, <2>3, <2>4, MessageOne DEF AsWritten
<1>2. CASE v \in PlainValues
  <2> DEFINE d == v.data
             f == [type |-> "bytes", value |-> d]
  <2>1. v.kind \in PlainKinds /\ d \in Seq(Byte) /\ Len(d) \in Nat /\ Len(d) <= 252
    BY <1>2, ShortValue
  <2>2. v.kind \notin {"Null", "TypedNull", "Lob", "Json", "Vector", "Collection", "Cursor", "Boolean"}
    BY <2>1 DEF PlainKinds, InPlace
  <2>3. BindFields(v) = <<f>>
    BY <2>2 DEF BindFields
  <2>4. WriteBindValue(v) = <<Len(d)>> \o d
    <3>1. CASE v.kind \in {"String", "Bytes"}
      <4>1. WriteBindValue(v) = WriteText(d)
        BY <3>1 DEF WriteBindValue
      <4> QED BY <2>1, <4>1 DEF WriteText
    <3>2. CASE v.kind \notin {"String", "Bytes"}
      BY <2>2, <3>2 DEF WriteBindValue
    <3> QED BY <3>1, <3>2
  <2>5. f \in WireFields /\ WriteField(f) = <<Len(d)>> \o d
    BY <2>1, DataField
  <2> HIDE DEF f, d
  <2> QED BY <2>3, <2>4, <2>5, MessageOne DEF AsWritten
<1> QED BY <1>1, <1>2

LEMMA LobWritten ==
  ASSUME NEW v \in LobValues, ChunkSize \in UInt32 \ {0}
  PROVE  AsWritten(v)
<1> DEFINE d == v.data
           f == [type |-> "string", value |-> d]
<1>1. v.kind = "Lob" /\ d \in Seq(Byte) \cup {NoBytes} /\ (d # NoBytes => d # <<>> /\ Len(d) \in UInt32)
  BY DEF LobValues
<1>2. BindFields(v) = <<f>>
  BY <1>1 DEF BindFields, LobFields
<1>3. f \in WireFields /\ WriteField(f) = WriteBindValue(v)
  <2>1. CASE d = NoBytes
    <3>1. WriteBindValue(v) = <<0>>
      BY <1>1, <2>1 DEF WriteBindValue
    <3>2. f = None
      BY <2>1 DEF None
    <3> HIDE DEF f
    <3> QED BY <3>1, <3>2, NoneField
  <2>2. CASE d # NoBytes
    <3>1. d \in Seq(Byte) /\ d # <<>> /\ Len(d) \in UInt32
      BY <1>1, <2>2
    <3>2. f \in WireFields /\ WriteField(f) = WriteUb(BytesOf(Len(d))) \o WriteBytesWithLength(d)
      BY <3>1, TextField
    <3>3. WriteBindValue(v) = WriteUb(BytesOf(Len(d))) \o WriteBytesWithLength(d)
      BY <1>1, <2>2 DEF WriteBindValue
    <3> HIDE DEF f, d
    <3> QED BY <3>2, <3>3
  <2> QED BY <2>1, <2>2
<1> HIDE DEF f
<1> QED BY <1>2, <1>3, MessageOne DEF AsWritten

LEMMA DocumentWritten ==
  ASSUME NEW v \in DocumentValues, ChunkSize \in UInt32 \ {0}
  PROVE  AsWritten(v)
<1> DEFINE d == v.data
<1>1. /\ v.kind \in {"Json", "Vector"} /\ d \in Seq(Byte) \cup {NoBytes}
      /\ (IF d = NoBytes THEN v.kind = "Json" ELSE Len(d) <= 252)
  BY DEF DocumentValues
<1>2. BindFields(v) = DocumentFields(v)
  BY <1>1 DEF BindFields
<1>3. CASE d = NoBytes
  <2>1. v.kind = "Json" /\ WriteBindValue(v) = <<0>>
    BY <1>1, <1>3 DEF WriteBindValue
  <2>2. BindFields(v) = <<None>>
    BY <1>2, <1>3 DEF DocumentFields
  <2> QED BY <2>1, <2>2, NoneField, MessageOne DEF AsWritten
<1>4. CASE d # NoBytes
  <2> DEFINE n == Len(d)
             q == QLocator(n)
             f == [type |-> "string", value |-> q]
             g == [type |-> "bytes", value |-> d]
  <2>1. d \in Seq(Byte) /\ n \in Nat /\ n <= 252
    BY <1>1, <1>4, LenProperties
  <2>2. n \in UInt32
    <3> HIDE DEF n
    <3> QED BY <2>1, SmallNumber
  <2>3. q \in Seq(Byte) /\ Len(q) = 40
    BY <2>2, LocatorIs
  <2>4. BindFields(v) = <<f, g>>
    BY <1>2, <1>4 DEF DocumentFields
  <2>5. WriteBindValue(v) = (WriteUb(BytesOf(40)) \o (<<40>> \o q)) \o (WriteDataLength(n) \o d)
    BY <1>1, <1>4 DEF WriteBindValue
  <2>6. WriteDataLength(n) = <<n>>
    BY <2>1 DEF WriteDataLength
  <2>7. g \in WireFields /\ WriteField(g) = <<n>> \o d
    BY <2>1, DataField
  <2> HIDE DEF n, d, g
  <2>8. f \in WireFields /\ WriteField(f) = WriteUb(BytesOf(40)) \o (<<40>> \o q)
    <3> HIDE DEF q
    <3>1. 40 \in UInt32 /\ q # <<>>
      <4>1. 40 \in UInt32
        BY SMT DEF UInt32
      <4>2. Len(q) # 0
        BY <2>3
      <4> QED BY <4>1, <4>2, NotEmpty
    <3>2. f \in WireFields /\ WriteField(f) = WriteUb(BytesOf(Len(q))) \o WriteBytesWithLength(q)
      BY <2>3, <3>1, TextField
    <3>3. q # NoBytes
      BY <2>3, NoBytesApart
    <3>4. WriteBytesWithLength(q) = <<40>> \o q
      BY <2>3, <3>3 DEF WriteBytesWithLength, IsShort, MAX_SHORT
    <3> QED BY <2>3, <3>2, <3>4
  <2> HIDE DEF f, q
  <2> QED BY <2>4, <2>5, <2>6, <2>7, <2>8, MessageTwo DEF AsWritten
<1> QED BY <1>3, <1>4

LEMMA OneIs == <<1>> \in Numbers(4)
<1>1. 1 \in 1..255
  OBVIOUS
<1> QED BY <1>1, OneByte, Zenon

LEMMA TwoJoined == \A a, b : <<a>> \o <<b>> = <<a, b>>
<1> SUFFICES ASSUME NEW a, NEW b PROVE <<a>> \o <<b>> = <<a, b>>
  OBVIOUS
<1> DEFINE s == <<a>>
<1>1. <<a, b>> = Append(s, b)
  OBVIOUS
<1>2. s \in Seq({a, b}) /\ b \in {a, b}
  OBVIOUS
<1> HIDE DEF s
<1>3. Append(s, b) = s \o <<b>>
  BY <1>2, AppendIsConcat
<1>4. s \o <<b>> = <<a, b>>
  BY <1>1, <1>3
<1> QED BY <1>4, Zenon DEF s

LEMMA CursorWritten ==
  ASSUME NEW v \in CursorValues, ChunkSize \in UInt32 \ {0}
  PROVE  AsWritten(v)
<1> DEFINE d == v.data
<1>1. v.kind = "Cursor" /\ d \in Numbers(4)
  BY DEF CursorValues
<1>2. BindFields(v) = CursorFields(v)
  BY <1>1 DEF BindFields
<1>3. CASE d = <<>>
  <2> DEFINE f == [type |-> "bytes", value |-> <<0>>]
  <2>1. BindFields(v) = <<f>>
    BY <1>2, <1>3 DEF CursorFields
  <2>2. WriteBindValue(v) = <<1, 0>>
    BY <1>1, <1>3 DEF WriteBindValue
  <2>3. f \in WireFields /\ WriteField(f) = <<1>> \o <<0>>
    <3> DEFINE none == <<0>>
    <3>1. none \in Seq(Byte) /\ Len(none) = 1 /\ Len(none) <= 252 /\ f = [type |-> "bytes", value |-> none]
      BY DEF Byte
    <3> HIDE DEF none, f
    <3>2. f \in WireFields /\ WriteField(f) = <<Len(none)>> \o none
      BY <3>1, DataField
    <3>3. WriteField(f) = <<1>> \o none
      BY <3>1, <3>2
    <3> QED BY <3>2, <3>3 DEF none
  <2>4. <<1>> \o <<0>> = <<1, 0>>
    BY TwoJoined
  <2> HIDE DEF f
  <2> QED BY <2>1, <2>2, <2>3, <2>4, MessageOne DEF AsWritten
<1>4. CASE d # <<>>
  <2>1. BindFields(v) = <<Ub(4, <<1>>), Ub(4, d)>>
    BY <1>2, <1>4 DEF CursorFields
  <2>2. WriteBindValue(v) = WriteUb(<<1>>) \o WriteUb(d)
    BY <1>1, <1>4 DEF WriteBindValue
  <2> DEFINE f == Ub(4, <<1>>)
             g == Ub(4, d)
  <2>3. f \in WireFields /\ WriteField(f) = WriteUb(<<1>>) /\ g \in WireFields /\ WriteField(g) = WriteUb(d)
    BY <1>1, OneIs, UbField
  <2> HIDE DEF f, g
  <2>4. BindFields(v) = <<f, g>>
    BY <2>1 DEF f, g
  <2> QED BY <2>2, <2>3, <2>4, MessageTwo DEF AsWritten
<1> QED BY <1>3, <1>4

LEMMA CollectionWritten ==
  ASSUME NEW v \in CollectionValues, ChunkSize \in UInt32 \ {0}
  PROVE  AsWritten(v)
<1> DEFINE d == v.data
<1>1. /\ v.kind = "Collection" /\ v.oid \in Seq(Byte) /\ Len(v.oid) = 16
      /\ d \in Seq(Byte) \cup {NoBytes} /\ (d # NoBytes => Len(d) \in UInt32)
  BY DEF CollectionValues
<1>2. BindFields(v) = CollectionFields(v) /\ WriteBindValue(v) = WriteCollection(v)
  BY <1>1 DEF BindFields, WriteBindValue
<1> DEFINE zero == Ub(4, <<>>)
           one == Ub(4, <<1>>)
<1>3. /\ zero \in WireFields /\ WriteField(zero) = WriteUb(<<>>)
      /\ one \in WireFields /\ WriteField(one) = WriteUb(<<1>>)
      /\ None \in WireFields /\ WriteField(None) = WriteUb(<<>>)
  BY OneIs, NoNumber, UbField, NoneField
<1>4. CASE d = NoBytes
  <2>1. BindFields(v) = <<None, None, None, zero, zero, one>>
    BY <1>2, <1>4 DEF CollectionFields
  <2>2. WriteBindValue(v) = WriteUb(<<>>) \o WriteUb(<<>>) \o WriteUb(<<>>) \o WriteUb(<<>>)
                              \o WriteUb(<<>>) \o WriteUb(<<1>>)
    BY <1>2, <1>4 DEF WriteCollection
  <2> HIDE DEF zero, one
  <2>3. SixWritten(None, None, None, zero, zero, one)
    BY <1>3, MessageSix
  <2> QED BY <1>3, <2>1, <2>2, <2>3 DEF AsWritten, SixWritten
<1>5. CASE d # NoBytes
  <2> DEFINE t == Toid(v.oid)
             f == [type |-> "string", value |-> t]
             b == BytesOf(Len(d))
             size == Ub(4, b)
             g == [type |-> "bytes", value |-> d]
             six == <<f, None, None, zero, size, one>>
  <2>1. d \in Seq(Byte) /\ Len(d) \in UInt32
    BY <1>1, <1>5
  <2>2. t \in Seq(Byte) /\ Len(t) = 36
    BY <1>1, ToidIs
  <2>3. f \in WireFields /\ WriteField(f) = WriteUb(BytesOf(Len(t))) \o WriteBytesWithLength(t)
    <3> HIDE DEF t
    <3>1. 36 \in UInt32
      BY SMT DEF UInt32
    <3>2. t # <<>>
      <4>1. Len(t) # 0
        BY <2>2
      <4> QED BY <4>1, NotEmpty
    <3>3. Len(t) \in UInt32
      BY <2>2, <3>1
    <3> QED BY <2>2, <3>2, <3>3, TextField
  <2>4. b \in Numbers(4)
    BY <2>1, LengthBytes DEF Numbers
  <2>5. size \in WireFields /\ WriteField(size) = WriteUb(b)
    BY <2>4, UbField
  <2>6. g \in WireFields /\ WriteField(g) = WriteBytesWithLength(d)
    <3>1. g \in DataFields
      BY <2>1 DEF DataFields
    <3>2. WriteField(g) = WriteBytesWithLength(d)
      BY DEF WriteField
    <3> HIDE DEF g
    <3> QED BY <3>1, <3>2 DEF WireFields
  <2>7. BindFields(v) = <<f, None, None, zero, size, one, g>>
    BY <1>2, <1>5 DEF CollectionFields
  <2>8. WriteBindValue(v) = WriteUb(BytesOf(Len(t))) \o WriteBytesWithLength(t)
                              \o WriteUb(<<>>) \o WriteUb(<<>>) \o WriteUb(<<>>)
                              \o WriteUb(b) \o WriteUb(<<1>>) \o WriteBytesWithLength(d)
    BY <1>2, <1>5 DEF WriteCollection
  <2> HIDE DEF t, f, b, size, g, d, zero, one
  <2>9. /\ six \in Seq(WireFields)
        /\ Message(six) = WriteField(f) \o WriteField(None) \o WriteField(None) \o WriteField(zero)
                            \o WriteField(size) \o WriteField(one)
    <3>1. SixWritten(f, None, None, zero, size, one)
      BY <1>3, <2>3, <2>5, MessageSix
    <3> QED BY <3>1 DEF SixWritten
  <2>10. BindFields(v) = Append(six, g)
    BY <2>7
  <2> HIDE DEF six
  <2>11. Append(six, g) \in Seq(WireFields) /\ Message(Append(six, g)) = Message(six) \o WriteField(g)
    BY <2>6, <2>9, MessageMore
  <2> QED BY <1>3, <2>3, <2>5, <2>6, <2>8, <2>9, <2>10, <2>11 DEF AsWritten
<1> QED BY <1>4, <1>5

LEMMA BindWritten ==
  ASSUME NEW v \in BindValues, ChunkSize \in UInt32 \ {0}
  PROVE  BindFields(v) \in Seq(WireFields) /\ Message(BindFields(v)) = WriteBindValue(v)
<1>1. AsWritten(v)
  BY PlainWritten, LobWritten, DocumentWritten, CursorWritten, CollectionWritten DEF BindValues
<1> QED BY <1>1 DEF AsWritten

LEMMA RowBack ==
  ASSUME NEW n \in Nat, NEW row \in [1..n -> BindValues], ChunkSize \in UInt32 \ {0}
  PROVE  RowFramed(row)
<1> DEFINE F == [c \in 1..n |-> BindFields(row[c])]
           fields == FlattenSeq(F)
           buf == RowBytes(row)
<1>1. DOMAIN row = 1..n /\ \A c \in 1..n : row[c] \in BindValues
  OBVIOUS
<1>2. \A c \in 1..n : BindFields(row[c]) \in Seq(WireFields) /\ Message(BindFields(row[c])) = WriteBindValue(row[c])
  BY <1>1, BindWritten
<1>3. F \in [1..n -> Seq(WireFields)] /\ \A c \in 1..n : F[c] = BindFields(row[c])
  BY <1>2
<1>4. FlattenSeq([c \in DOMAIN row |-> BindFields(row[c])]) = fields
  BY <1>1
<1> HIDE DEF F
<1>5. fields \in Seq(WireFields) /\ Message(fields) = FlattenSeq([c \in 1..n |-> Message(F[c])])
  BY <1>3, MessageOfAll
<1>6. [c \in 1..n |-> Message(F[c])] = [c \in DOMAIN row |-> WriteBindValue(row[c])]
  BY <1>1, <1>2, <1>3
<1>7. Message(fields) = buf
  BY <1>5, <1>6 DEF RowBytes
<1> HIDE DEF fields, buf
<1>8. ReadFields(fields, buf) = [ok |-> TRUE, value |-> Values(fields), pos |-> Len(buf)]
  BY <1>5, <1>7, WholeRead
<1> QED BY <1>4, <1>8 DEF RowFramed, buf

----------------------------------------------------------------------------
\* Bind values: their metadata

\* A maximum of finitely many numbers.
LEMMA Largest ==
  ASSUME NEW k \in Nat \ {0}, NEW f \in [1..k -> Nat]
  PROVE  \E m \in 1..k : \A j \in 1..k : f[j] <= f[m]
<1> DEFINE S == {i \in 0..k : i = 0 \/ \E m \in 1..i : \A j \in 1..i : f[j] <= f[m]}
<1>1. 0 \in S
  OBVIOUS
<1>2. ASSUME NEW i \in 1..k, i - 1 \in S PROVE i \in S
  <2>0. i \in 0..k
    OBVIOUS
  <2>1. CASE i - 1 = 0
    <3>1. i = 1
      BY <2>1
    <3>2. \A j \in 1..i : f[j] <= f[1]
      BY <3>1
    <3> QED BY <2>0, <3>1, <3>2
  <2>2. CASE i - 1 # 0
    <3>1. PICK m \in 1..(i - 1) : \A j \in 1..(i - 1) : f[j] <= f[m]
      BY <1>2, <2>2
    <3>2. m \in 1..i /\ m \in 1..k /\ \A j \in 1..i : j = i \/ j \in 1..(i - 1)
      OBVIOUS
    <3>3. \A j \in 1..i : f[j] \in Nat
      BY <2>0
    <3>4. f[i] \in Nat /\ f[m] \in Nat
      BY <3>2
    <3>5. CASE f[i] <= f[m]
      <4>1. \A j \in 1..i : f[j] <= f[m]
        BY <3>1, <3>2, <3>5
      <4> QED BY <2>0, <3>2, <4>1
    <3>6. CASE f[m] <= f[i]
      <4>1. \A j \in 1..(i - 1) : f[j] \in Nat /\ f[j] <= f[m]
        BY <3>1, <3>3
      <4>2. \A j \in 1..i : f[j] <= f[i]
        <5>1. ASSUME NEW j \in 1..(i - 1) PROVE f[j] <= f[i]
          <6>1. f[j] \in Nat /\ f[j] <= f[m]
            BY <4>1
          <6> DEFINE x == f[j]
                     y == f[m]
                     z == f[i]
          <6> HIDE DEF x, y, z
          <6>2. x \in Nat /\ y \in Nat /\ z \in Nat /\ x <= y /\ y <= z
            BY <3>4, <3>6, <6>1 DEF x, y, z
          <6>3. x <= z
            BY <6>2
          <6> QED BY <6>3 DEF x, z
        <5>2. f[i] <= f[i]
          BY <3>4
        <5> QED BY <3>2, <5>1, <5>2
      <4>3. i \in 1..i
        OBVIOUS
      <4> QED BY <2>0, <4>2, <4>3
    <3>7. f[i] <= f[m] \/ f[m] <= f[i]
      BY <3>4
    <3> QED BY <3>5, <3>6, <3>7
  <2> QED BY <2>1, <2>2
<1> HIDE DEF S
<1>3. \A i \in 0..k : i \in S
  BY <1>1, <1>2, UpToInduction
<1>4. k \in S /\ k # 0
  BY <1>3
<1> QED BY <1>4 DEF S


\* The types and sizes that are inferred, kind by kind.
SizedKinds == {"String", "Bytes", "Json", "Vector"}

FixedKinds ==
  {"Null", "Integer", "Number", "Float", "Boolean", "Timestamp", "Date", "IntervalYM", "IntervalDS",
   "RowId", "Cursor", "Collection"}

LEMMA MetaKinds == DOMAIN SizedMeta = SizedKinds /\ DOMAIN FixedMeta = FixedKinds
<1>1. DOMAIN SizedMeta = SizedKinds
  BY DEF SizedMeta, SizedKinds
<1>2. DOMAIN FixedMeta = FixedKinds
  BY DEF FixedMeta, FixedKinds
<1> QED BY <1>1, <1>2

LEMMA Inferred ==
  ASSUME NEW v, NEW m
  PROVE  /\ v.kind = "TypedNull" =>
              InferBindMetadata(v, m)
                = [type |-> v.type, size |-> AtLeast(AtLeast(DefaultBindBufferSize(v.type), m), 1)]
         /\ v.kind = "Lob" => InferBindMetadata(v, m) = [type |-> v.type, size |-> 112]
         /\ v.kind \in SizedKinds =>
              InferBindMetadata(v, m)
                = [type |-> SizedMeta[v.kind][1], size |-> AtLeast(m, SizedMeta[v.kind][2])]
         /\ v.kind \in FixedKinds =>
              InferBindMetadata(v, m) = [type |-> FixedMeta[v.kind][1], size |-> FixedMeta[v.kind][2]]
<1>1. CASE v.kind = "TypedNull"
  <2>1. v.kind \notin SizedKinds /\ v.kind \notin FixedKinds
    BY <1>1 DEF SizedKinds, FixedKinds
  <2>2. v.kind \notin DOMAIN SizedMeta /\ v.kind \notin DOMAIN FixedMeta
    BY <2>1, MetaKinds
  <2> QED BY <1>1, <2>1, <2>2 DEF InferBindMetadata
<1>2. CASE v.kind = "Lob"
  <2>1. v.kind \notin SizedKinds /\ v.kind \notin FixedKinds
    BY <1>2 DEF SizedKinds, FixedKinds
  <2>2. v.kind \notin DOMAIN SizedMeta /\ v.kind \notin DOMAIN FixedMeta
    BY <2>1, MetaKinds
  <2> QED BY <1>2, <2>1, <2>2 DEF InferBindMetadata
<1>3. CASE v.kind \in SizedKinds
  <2>1. v.kind \notin {"TypedNull", "Lob"} /\ v.kind \notin FixedKinds /\ v.kind \in DOMAIN SizedMeta
    BY <1>3, MetaKinds DEF SizedKinds, FixedKinds
  <2>2. v.kind # "TypedNull" /\ v.kind # "Lob" /\ v.kind \notin DOMAIN FixedMeta
    BY <2>1, MetaKinds
  <2>3. InferBindMetadata(v, m)
          = [type |-> SizedMeta[v.kind][1], size |-> AtLeast(m, SizedMeta[v.kind][2])]
    BY <2>1, <2>2 DEF InferBindMetadata
  <2> QED BY <2>1, <2>2, <2>3
<1>4. CASE v.kind \in FixedKinds
  <2>1. v.kind \notin {"TypedNull", "Lob"} /\ v.kind \notin SizedKinds /\ v.kind \in DOMAIN FixedMeta
    BY <1>4, MetaKinds DEF SizedKinds, FixedKinds
  <2>2. v.kind # "TypedNull" /\ v.kind # "Lob" /\ v.kind \notin DOMAIN SizedMeta
    BY <2>1, MetaKinds
  <2>3. InferBindMetadata(v, m) = [type |-> FixedMeta[v.kind][1], size |-> FixedMeta[v.kind][2]]
    BY <2>1, <2>2 DEF InferBindMetadata
  <2> QED BY <2>1, <2>2, <2>3
<1>5. CASE v.kind \notin {"TypedNull", "Lob"} /\ v.kind \notin SizedKinds /\ v.kind \notin FixedKinds
  BY <1>5
<1> QED BY <1>1, <1>2, <1>3, <1>4, <1>5

\* What a kind says of a value.
LEMMA KindSays ==
  ASSUME NEW v \in BindValues
  PROVE  /\ v.kind \in InPlace => v \in PlainValues
         /\ v.kind = "TypedNull" => v.type \in OracleTypes
         /\ v.kind = "Null" => v = Null
         /\ v.kind \in {"Json", "Vector"} => v.size \in Nat
         /\ v.kind \in {"Null", "TypedNull", "Lob", "Boolean"} \cup SizedKinds \cup FixedKinds
         /\ v.kind # "Boolean" /\ v.kind # "None"
<1>1. CASE v \in PlainValues
  <2>1. v.kind \in PlainKinds
    BY <1>1, ShortValue
  <2> QED BY <1>1, <2>1 DEF PlainKinds, InPlace, SizedKinds, FixedKinds
<1>2. CASE v \in NullValues
  BY <1>2 DEF NullValues, Null, TypedNull, InPlace
<1>3. CASE v \in LobValues
  BY <1>3 DEF LobValues, InPlace
<1>4. CASE v \in DocumentValues
  BY <1>4 DEF DocumentValues, InPlace, SizedKinds
<1>5. CASE v \in CursorValues
  BY <1>5 DEF CursorValues, InPlace, FixedKinds
<1>6. CASE v \in CollectionValues
  BY <1>6 DEF CollectionValues, InPlace, FixedKinds
<1> QED BY <1>1, <1>2, <1>3, <1>4, <1>5, <1>6 DEF BindValues

\* The values of a column have one schema: the kind of the first row (for LOBs, its type), or the
\* type of a typed null in the first row, or are NULL.
SameSchema(first, v) ==
  \/ v.kind \in {"Null", "TypedNull"}
  \/ v.kind = first.kind /\ (v.kind = "Lob" => v.type = first.type)
  \/ first.kind = "TypedNull" /\ first.type = InferBindMetadata(v, 0).type

OneSchema(rows) == \A r \in DOMAIN rows, c \in DOMAIN rows[1] : SameSchema(rows[1][c], rows[r][c])

LEMMA SizeTyped ==
  ASSUME NEW v \in BindValues
  PROVE  SizeOf(v) \in Nat
<1>1. CASE v.kind \in {"String", "Bytes"}
  <2>1. v \in PlainValues
    BY <1>1, KindSays DEF InPlace
  <2> QED BY <1>1, <2>1, ShortValue DEF SizeOf
<1>2. CASE v.kind \in {"Json", "Vector"}
  BY <1>2, KindSays DEF SizeOf
<1>3. CASE v.kind \notin {"String", "Bytes", "Json", "Vector"}
  BY <1>3 DEF SizeOf
<1> QED BY <1>1, <1>2, <1>3

LEMMA MaxSizeIs ==
  ASSUME NEW n \in Nat, NEW rows \in RowsOf(n, BindValues), NEW r \in DOMAIN rows, NEW c \in 1..n
  PROVE  MaxSize(rows, c) \in Nat /\ SizeOf(rows[r][c]) <= MaxSize(rows, c)
<1> DEFINE k == Len(rows)
           f == [i \in 1..k |-> SizeOf(rows[i][c])]
           sizes == {SizeOf(rows[i][c]) : i \in DOMAIN rows}
<1>1. /\ rows \in [1..k -> [1..n -> BindValues]] /\ DOMAIN rows = 1..k /\ k \in Nat /\ r \in 1..k
  BY DEF RowsOf
<1>2. k \in Nat \ {0}
  BY <1>1
<1>3. ASSUME NEW i \in 1..k PROVE SizeOf(rows[i][c]) \in Nat
  <2>1. rows[i][c] \in BindValues
    BY <1>1
  <2> QED BY <2>1, SizeTyped
<1>4. f \in [1..k -> Nat]
  BY <1>3
<1> HIDE DEF k
<1>5. PICK m \in 1..k : \A j \in 1..k : f[j] <= f[m]
  <2> HIDE DEF f
  <2> QED BY <1>2, <1>4, Largest
<1>6. \E a \in sizes : \A b \in sizes : b <= a
  <2>1. \A j \in 1..k : SizeOf(rows[j][c]) <= SizeOf(rows[m][c])
    BY <1>5
  <2> QED BY <1>1, <2>1
<1>7. MaxSize(rows, c) \in sizes /\ \A b \in sizes : b <= MaxSize(rows, c)
  <2>1. MaxSize(rows, c) = CHOOSE a \in sizes : \A b \in sizes : b <= a
    BY DEF MaxSize
  <2> HIDE DEF sizes
  <2> QED BY <1>6, <2>1
<1>8. SizeOf(rows[r][c]) \in sizes /\ sizes \subseteq Nat
  BY <1>1, <1>3
<1> QED BY <1>7, <1>8

LEMMA AtLeastBoth ==
  ASSUME NEW a \in Nat, NEW m \in Nat
  PROVE  /\ a <= AtLeast(AtLeast(a, m), 1) /\ m <= AtLeast(AtLeast(a, m), 1)
         /\ m <= AtLeast(m, 1)
BY DEF AtLeast

\* A typed null is declared with a size that covers the values of its type.
LEMMA NullCovers ==
  /\ \A type \in OracleTypes : DefaultBindBufferSize(type) \in Nat
  /\ \A kind \in PlainKinds \ {"String", "Bytes"} :
       FixedMeta[kind][2] <= DefaultBindBufferSize(FixedMeta[kind][1])
<1>1. \A type \in OracleTypes : DefaultBindBufferSize(type) \in Nat
  BY DEF OracleTypes, DefaultBindBufferSize
<1>2. ASSUME NEW kind \in PlainKinds \ {"String", "Bytes"}
      PROVE  FixedMeta[kind][2] <= DefaultBindBufferSize(FixedMeta[kind][1])
  <2>1. kind \in {"Integer", "Number", "Float", "Timestamp", "Date", "IntervalYM", "IntervalDS", "RowId"}
    BY DEF PlainKinds, InPlace
  <2>2. CASE kind \in {"Integer", "Number"}
    BY <2>2 DEF FixedMeta, DefaultBindBufferSize
  <2>3. CASE kind = "Float"
    BY <2>3 DEF FixedMeta, DefaultBindBufferSize
  <2>4. CASE kind = "Timestamp"
    BY <2>4 DEF FixedMeta, DefaultBindBufferSize
  <2>5. CASE kind = "Date"
    BY <2>5 DEF FixedMeta, DefaultBindBufferSize
  <2>6. CASE kind = "IntervalYM"
    BY <2>6 DEF FixedMeta, DefaultBindBufferSize
  <2>7. CASE kind = "IntervalDS"
    BY <2>7 DEF FixedMeta, DefaultBindBufferSize
  <2>8. CASE kind = "RowId"
    BY <2>8 DEF FixedMeta, DefaultBindBufferSize
  <2> QED BY <2>1, <2>2, <2>3, <2>4, <2>5, <2>6, <2>7, <2>8
<1> QED BY <1>1, <1>2

LEMMA AtMostBoth ==
  ASSUME NEW a \in Nat, NEW b \in Nat, NEW c \in Nat, a <= b, b <= c
  PROVE  a <= c
OBVIOUS

\* The metadata of the first row, with the largest size of all, fit each value.
LEMMA FirstFits ==
  ASSUME NEW first \in BindValues, NEW v \in BindValues, SameSchema(first, v),
         NEW m \in Nat, SizeOf(v) <= m
  PROVE  Fits(v, InferBindMetadata(first, m))
<1> SUFFICES ASSUME v.kind \notin {"Null", "TypedNull"}
             PROVE  /\ InferBindMetadata(v, 0).type = InferBindMetadata(first, m).type
                    /\ v.kind \in InPlace => Len(v.data) <= InferBindMetadata(first, m).size
  BY DEF Fits
<1> DEFINE l == Len(v.data)
<1>0. v.kind \in InPlace =>
        /\ v.kind \in PlainKinds /\ l \in Nat /\ l <= Longest(v.kind)
        /\ v.kind \in {"String", "Bytes"} => SizeOf(v) = l
        /\ v.kind \notin {"String", "Bytes"} => Longest(v.kind) = FixedMeta[v.kind][2]
  <2>1. v.kind \in InPlace => v \in PlainValues
    BY KindSays
  <2> QED BY <2>1, ShortValue DEF SizeOf, Longest
<1> HIDE DEF l
<1>1. CASE v.kind = first.kind /\ (v.kind = "Lob" => v.type = first.type)
  <2>1. CASE v.kind = "Lob"
    <3>1. InferBindMetadata(v, 0) = [type |-> v.type, size |-> 112]
      BY <2>1, Inferred
    <3>2. InferBindMetadata(first, m) = [type |-> first.type, size |-> 112]
      BY <1>1, <2>1, Inferred
    <3>3. v.kind \notin InPlace
      BY <2>1 DEF InPlace
    <3> QED BY <1>1, <2>1, <3>1, <3>2, <3>3
  <2>2. CASE v.kind \in SizedKinds
    <3>1. InferBindMetadata(v, 0)
            = [type |-> SizedMeta[v.kind][1], size |-> AtLeast(0, SizedMeta[v.kind][2])]
      BY <2>2, Inferred
    <3>2. InferBindMetadata(first, m)
            = [type |-> SizedMeta[v.kind][1], size |-> AtLeast(m, SizedMeta[v.kind][2])]
      BY <1>1, <2>2, Inferred
    <3>3. ASSUME v.kind \in InPlace PROVE l <= AtLeast(m, SizedMeta[v.kind][2])
      <4>1. v.kind \in {"String", "Bytes"}
        BY <2>2, <3>3 DEF SizedKinds, InPlace
      <4>2. SizedMeta[v.kind][2] = 1
        BY <4>1 DEF SizedMeta
      <4>3. l \in Nat /\ l <= m
        BY <1>0, <3>3, <4>1
      <4>4. m <= AtLeast(m, 1) /\ AtLeast(m, 1) \in Nat
        BY AtLeastBoth DEF AtLeast
      <4> QED BY <4>2, <4>3, <4>4, AtMostBoth
    <3> QED BY <3>1, <3>2, <3>3 DEF l
  <2>3. CASE v.kind \in FixedKinds
    <3>1. InferBindMetadata(v, 0) = [type |-> FixedMeta[v.kind][1], size |-> FixedMeta[v.kind][2]]
      BY <2>3, Inferred
    <3>2. InferBindMetadata(first, m) = [type |-> FixedMeta[v.kind][1], size |-> FixedMeta[v.kind][2]]
      BY <1>1, <2>3, Inferred
    <3>3. v.kind \notin {"String", "Bytes"}
      BY <2>3 DEF FixedKinds
    <3> QED BY <1>0, <3>1, <3>2, <3>3 DEF l
  <2> QED BY <2>1, <2>2, <2>3, KindSays
<1>2. CASE first.kind = "TypedNull" /\ first.type = InferBindMetadata(v, 0).type
  <2> DEFINE a == DefaultBindBufferSize(first.type)
             size == AtLeast(AtLeast(a, m), 1)
  <2>1. InferBindMetadata(first, m) = [type |-> first.type, size |-> size]
    BY <1>2, Inferred
  <2>2. first.type \in OracleTypes
    BY <1>2, KindSays
  <2>3. a \in Nat
    BY <2>2, NullCovers
  <2>4. ASSUME v.kind \in InPlace PROVE l <= size
    <3> HIDE DEF size
    <3>1. a <= size /\ m <= size /\ size \in Nat
      <4> HIDE DEF a
      <4> QED BY <2>3, AtLeastBoth DEF AtLeast, size
    <3>2. CASE v.kind \in {"String", "Bytes"}
      <4>1. l \in Nat /\ l <= m
        BY <1>0, <2>4, <3>2
      <4> QED BY <3>1, <4>1, AtMostBoth
    <3>3. CASE v.kind \notin {"String", "Bytes"}
      <4>1. l \in Nat /\ l <= FixedMeta[v.kind][2]
        BY <1>0, <2>4, <3>3
      <4>2. v.kind \in PlainKinds \ {"String", "Bytes"} /\ v.kind \in FixedKinds
        BY <1>0, <2>4, <3>3 DEF PlainKinds, InPlace, FixedKinds
      <4>3. first.type = FixedMeta[v.kind][1]
        BY <1>2, <4>2, Inferred
      <4>4. FixedMeta[v.kind][2] <= a
        BY <4>2, <4>3, NullCovers
      <4>5. FixedMeta[v.kind][2] \in Nat
        BY <4>2, FixedSizes
      <4>6. l <= a
        <5> HIDE DEF a
        <5> QED BY <2>3, <4>1, <4>4, <4>5, AtMostBoth
      <4> HIDE DEF a
      <4> QED BY <2>3, <3>1, <4>1, <4>6, AtMostBoth
    <3> QED BY <3>2, <3>3
  <2> HIDE DEF size
  <2> QED BY <1>2, <2>1, <2>4 DEF l
<1> QED BY <1>1, <1>2 DEF SameSchema

----------------------------------------------------------------------------
\* The parameters of PL/SQL calls

\* The values that a parameter is declared and written alike for: not row ids and other LOBs.
CallValues == {v \in BindValues : v.kind # "RowId" /\ (v.kind = "Lob" => v.type = "CLOB")}

\* IN OUT parameters of no size of their own, or one that covers the value.
InOutParams ==
  {p \in {InputOutput(v, size) : v \in CallValues, size \in Nat} :
     p.buffer_size = 0 \/ (p.value.kind \in InPlace => Len(p.value.data) <= p.buffer_size)}

\* OUT parameters of all types but BOOLEAN.
OutParams ==
  {Output(type, size) : type \in OracleTypes \ {"BOOLEAN"}, size \in Nat}
    \cup {OutputObject(v) : v \in CursorValues \cup CollectionValues}

PlsqlParams == {Input(v) : v \in CallValues} \cup InOutParams \cup OutParams

LEMMA PlainIs ==
  ASSUME NEW k \in PlainKinds, NEW d \in Seq(Byte), Len(d) <= Longest(k)
  PROVE  [kind |-> k, data |-> d] \in PlainValues
BY DEF PlainValues

\* The placeholder of an OUT parameter is a value like others.
LEMMA Placeholder ==
  ASSUME NEW p \in OutParams
  PROVE  p.direction = "Output" /\ PlsqlValue(p) \in BindValues
<1>1. p.direction = "Output"
  <2>1. \A type, size : Output(type, size).direction = "Output"
    BY DEF Output
  <2>2. \A v : OutputObject(v).direction = "Output"
    BY DEF OutputObject, Input
  <2> QED BY <2>1, <2>2 DEF OutParams
<1>2. PlsqlValue(p) = PlaceholderValue(p)
  BY <1>1 DEF PlsqlValue
<1>3. CASE \E v \in CursorValues \cup CollectionValues : p = OutputObject(v)
  <2>1. PICK v \in CursorValues \cup CollectionValues : p = OutputObject(v)
    BY <1>3
  <2>2. v \in BindValues
    BY DEF BindValues
  <2>3. p.value = v
    BY <2>1 DEF OutputObject, Input
  <2>4. v # NoValue
    BY <2>2, KindSays DEF NoValue
  <2>5. PlaceholderValue(p) = v
    BY <2>3, <2>4 DEF PlaceholderValue
  <2> QED BY <1>1, <1>2, <2>2, <2>5
<1>4. CASE \E type \in OracleTypes \ {"BOOLEAN"}, size \in Nat : p = Output(type, size)
  <2>1. PICK type \in OracleTypes \ {"BOOLEAN"}, size \in Nat : p = Output(type, size)
    BY <1>4
  <2>2. p.value = NoValue /\ p.type = type
    BY <2>1 DEF Output
  <2> DEFINE empty == <<>>
             zero == <<128>>
             float == <<128>> \o Zeros(7)
  <2>3. /\ empty \in Seq(Byte) /\ Len(empty) = 0 /\ zero \in Seq(Byte) /\ Len(zero) = 1
    BY DEF Byte
  <2>4. float \in Seq(Byte) /\ Len(float) = 8
    <3>1. HasLen(zero, 1) /\ HasLen(Zeros(7), 7)
      BY <2>3, ZerosAre DEF HasLen
    <3>2. 1 \in Nat /\ 7 \in Nat /\ 8 = 1 + 7
      OBVIOUS
    <3> HIDE DEF zero
    <3>3. HasLen(zero \o Zeros(7), 8)
      BY <3>1, <3>2, Cat, Zenon
    <3> QED BY <3>3 DEF HasLen, zero
  <2> HIDE DEF zero, float, empty
  <2>5. /\ [kind |-> "String", data |-> empty] \in PlainValues
        /\ [kind |-> "Bytes", data |-> empty] \in PlainValues
    BY <2>3 DEF PlainValues, PlainKinds, InPlace, Longest
  <2>6. [kind |-> "Integer", data |-> zero] \in PlainValues
    <3>1. Len(zero) <= Longest("Integer")
      BY <2>3 DEF Longest, FixedMeta
    <3>2. "Integer" \in PlainKinds
      BY DEF PlainKinds, InPlace
    <3> QED BY <2>3, <3>1, <3>2, PlainIs
  <2>7. [kind |-> "Float", data |-> float] \in PlainValues
    <3>1. Longest("Float") = 8
      BY DEF Longest, FixedMeta
    <3>2. "Float" \in PlainKinds
      BY DEF PlainKinds, InPlace
    <3>3. Len(float) <= Longest("Float")
      BY <2>4, <3>1
    <3> QED BY <2>4, <3>2, <3>3, PlainIs
  <2>8. [kind |-> "Cursor", data |-> empty] \in CursorValues
    BY NoNumber DEF CursorValues, empty
  <2>9. TypedNull(type) \in NullValues
    BY DEF NullValues
  <2>10. PlaceholderValue(p) \in
           {[kind |-> "String", data |-> empty], [kind |-> "Bytes", data |-> empty],
            [kind |-> "Integer", data |-> zero], [kind |-> "Float", data |-> float],
            [kind |-> "Cursor", data |-> empty], TypedNull(type)}
    BY <2>2 DEF PlaceholderValue, empty, zero, float
  <2> QED BY <1>1, <1>2, <2>5, <2>6, <2>7, <2>8, <2>9, <2>10 DEF BindValues
<1> QED BY <1>3, <1>4 DEF OutParams

\* The size derived for a value covers it.
LEMMA DerivedCovers ==
  ASSUME NEW v \in BindValues
  PROVE  v.kind \in InPlace => Len(v.data) <= DerivedSize(v)
<1> SUFFICES ASSUME v.kind \in InPlace PROVE Len(v.data) <= DerivedSize(v)
  OBVIOUS
<1> DEFINE l == Len(v.data)
<1>1. v.kind \in PlainKinds /\ l \in Nat /\ l <= Longest(v.kind)
  BY KindSays, ShortValue
<1>2. CASE v.kind \in {"String", "Bytes"}
  <2>1. DerivedSize(v) = AtLeast(l, 1)
    BY <1>2 DEF DerivedSize
  <2> HIDE DEF l
  <2>2. l <= AtLeast(l, 1)
    BY <1>1, AtLeastBoth
  <2> QED BY <2>1, <2>2 DEF l
<1>3. CASE v.kind \in {"Integer", "Number", "Float", "Timestamp", "Date", "RowId"}
  <2>1. DerivedSize(v) = FixedMeta[v.kind][2]
    BY <1>3 DEF DerivedSize
  <2>2. Longest(v.kind) = FixedMeta[v.kind][2]
    BY <1>3 DEF Longest
  <2> QED BY <1>1, <2>1, <2>2
<1>4. CASE v.kind \in {"IntervalYM", "IntervalDS"}
  <2>1. DerivedSize(v) = 100
    BY <1>4 DEF DerivedSize
  <2>2. Longest(v.kind) \in {5, 11}
    BY <1>4 DEF Longest, FixedMeta
  <2> HIDE DEF l
  <2>3. l <= 100
    BY <1>1, <2>2
  <2> QED BY <2>1, <2>3 DEF l
<1> QED BY <1>1, <1>2, <1>3, <1>4 DEF PlainKinds, InPlace

\* A parameter that carries a value is declared with its type and a size that covers it.
LEMMA ParamFits ==
  ASSUME NEW p \in PlsqlParams
  PROVE  /\ PlsqlValue(p) \in BindValues
         /\ p.direction # "Output" => Fits(PlsqlValue(p), PlsqlMetadata(p))
<1>1. CASE p \in OutParams
  BY <1>1, Placeholder
<1>2. ASSUME NEW v \in CallValues, NEW size \in Nat, p.value = v, p.type = InferOracleType(v),
             p.buffer_size = size, p.direction \in {"Input", "InputOutput"},
             size = 0 \/ (v.kind \in InPlace => Len(v.data) <= size)
      PROVE  PlsqlValue(p) \in BindValues /\ Fits(PlsqlValue(p), PlsqlMetadata(p))
  <2>1. v \in BindValues /\ v.kind # "RowId" /\ (v.kind = "Lob" => v.type = "CLOB")
    BY DEF CallValues
  <2>2. v # NoValue
    BY <2>1, KindSays DEF NoValue
  <2>3. PlsqlValue(p) = v
    BY <1>2, <2>2 DEF PlsqlValue
  <2>4. InferOracleType(v) = InferBindMetadata(v, 0).type
    <3>1. CASE v.kind = "Lob"
      <4>1. InferOracleType(v) = "CLOB"
        BY <3>1 DEF InferOracleType
      <4>2. InferBindMetadata(v, 0) = [type |-> v.type, size |-> 112]
        BY <3>1, Inferred
      <4> QED BY <2>1, <3>1, <4>1, <4>2
    <3>2. CASE v.kind # "Lob"
      BY <2>1, <3>2 DEF InferOracleType
    <3> QED BY <3>1, <3>2
  <2> DEFINE declared == IF size > 0 THEN size ELSE DerivedSize(v)
  <2>5. PlsqlMetadata(p) = [type |-> InferOracleType(v), size |-> declared]
    BY <1>2, <2>3 DEF PlsqlMetadata
  <2>6. v.kind \in InPlace => Len(v.data) <= declared
    <3>1. CASE size = 0
      <4>1. declared = DerivedSize(v)
        BY <3>1
      <4> QED BY <2>1, <4>1, DerivedCovers
    <3>2. CASE size # 0
      <4>1. declared = size
        BY <3>2
      <4> QED BY <1>2, <3>2, <4>1
    <3> QED BY <3>1, <3>2
  <2> HIDE DEF declared
  <2> QED BY <2>1, <2>3, <2>4, <2>5, <2>6 DEF Fits
<1>3. CASE \E v \in CallValues : p = Input(v)
  <2>1. PICK v \in CallValues : p = Input(v)
    BY <1>3
  <2>2. /\ p.value = v /\ p.type = InferOracleType(v) /\ p.buffer_size = 0 /\ p.direction = "Input"
    BY <2>1 DEF Input
  <2>3. 0 \in Nat
    OBVIOUS
  <2> QED BY <1>2, <2>2, <2>3
<1>4. CASE p \in InOutParams
  <2>1. PICK v \in CallValues, size \in Nat : p = InputOutput(v, size)
    BY <1>4 DEF InOutParams
  <2>2. /\ p.value = v /\ p.type = InferOracleType(v) /\ p.buffer_size = size
        /\ p.direction = "InputOutput"
    BY <2>1 DEF InputOutput, Input
  <2>3. p.buffer_size = 0 \/ (p.value.kind \in InPlace => Len(p.value.data) <= p.buffer_size)
    BY <1>4 DEF InOutParams
  <2> QED BY <1>2, <2>2, <2>3
<1> QED BY <1>1, <1>3, <1>4 DEF PlsqlParams

----------------------------------------------------------------------------
\* The rows that the requests of one call carry

LEMMA RowsOfRequests ==
  ASSUME NEW rows, NEW cursor_id, NEW prefetch, NEW r \in Requests(rows, cursor_id, prefetch)
  PROVE  r.rows \in {<<>>, Single(rows), rows} /\ "params" \notin DOMAIN r
<1> DEFINE w == Width(rows)
           one == Single(rows)
<1>0. \A s, o, x : /\ "params" \notin DOMAIN [stmt |-> s, opts |-> o, rows |-> x]
                   /\ "params" \notin DOMAIN [stmt |-> s, rows |-> x, opts |-> o]
  OBVIOUS
<1> HIDE DEF w, one
<1>1. CASE r \in QueryRequests(w, one, cursor_id, prefetch)
  <2>1. PICK s \in {Fresh("Query", w), Cached("Query", w, cursor_id)} :
          r = [stmt |-> s, opts |-> ForQuery(prefetch), rows |-> one]
    BY <1>1 DEF QueryRequests
  <2> QED BY <1>0, <2>1 DEF one
<1>2. CASE r = DefineRequest(w, cursor_id, prefetch)
  BY <1>0, <1>2 DEF DefineRequest
<1>3. CASE r \in DmlRequests(w, one, cursor_id)
  <2>1. PICK s \in DmlStatements(w, cursor_id) : r = [stmt |-> s, opts |-> ForDml(FALSE), rows |-> one]
    BY <1>3 DEF DmlRequests
  <2> QED BY <1>0, <2>1 DEF one
<1>5. CASE r \in BatchRequests(w, rows)
  <2>1. PICK batch \in {rows} \ {<<>>}, c \in BOOLEAN, d \in BOOLEAN, e \in BOOLEAN :
          r = BatchRequest(w, batch, c, d, e)
    BY <1>5 DEF BatchRequests
  <2>2. r.rows = batch /\ "params" \notin DOMAIN r
    BY <1>0, <2>1 DEF BatchRequest
  <2> QED BY <2>1, <2>2
<1>6. CASE r \in CursorRequests(cursor_id, prefetch)
  BY <1>0, <1>6 DEF CursorRequests
<1> QED BY <1>1, <1>2, <1>3, <1>5, <1>6, RequestsAre DEF w, one

LEMMA OneSchemaKept ==
  ASSUME NEW n \in Nat, NEW rows \in RowsOf(n, BindValues), OneSchema(rows),
         NEW some \in {<<>>, Single(rows), rows}
  PROVE  some \in RowsOf(n, BindValues) /\ OneSchema(some)
<1>1. CASE some = <<>>
  BY <1>1 DEF RowsOf, OneSchema
<1>2. CASE some = Single(rows) /\ rows # <<>>
  <2>1. some \in RowsOf(n, BindValues)
    BY <1>2, SingleIs
  <2>2. some = <<rows[1]>>
    BY <1>2 DEF Single
  <2>3. DOMAIN some = {1} /\ some[1] = rows[1]
    BY <2>2
  <2> QED BY <2>1, <2>3 DEF OneSchema, SameSchema
<1>3. CASE some = Single(rows) /\ rows = <<>>
  BY <1>1, <1>3 DEF Single
<1> QED BY <1>1, <1>2, <1>3

LEMMA RowsFramed ==
  ASSUME NEW n \in Nat, NEW r, r.rows \in RowsOf(n, BindValues), ChunkSize \in UInt32 \ {0}
  PROVE  ValuesFramed(r)
<1> DEFINE rows == r.rows
<1>1. rows \in [1..Len(rows) -> [1..n -> BindValues]] /\ DOMAIN rows = 1..Len(rows)
  BY DEF RowsOf
<1>2. ASSUME NEW i \in DOMAIN rows PROVE RowFramed(rows[i])
  <2>1. rows[i] \in [1..n -> BindValues]
    BY <1>1
  <2> QED BY <2>1, RowBack
<1> QED BY <1>2 DEF ValuesFramed

(***************************************************************************)
(* What write_bind_params and execute_plsql declare for a bind fits the    *)
(* value of every row, and the values of every row are read back as        *)
(* write_bind_value wrote them: for any rows of one schema, of any kind of *)
(* value but Boolean, with text, bytes, documents and vectors up to 252    *)
(* bytes, and for any parameters of a PL/SQL call with such values (row    *)
(* ids, and LOBs other than CLOBs, are declared with another type than     *)
(* they are written; an OUT BOOLEAN has the placeholder of a Boolean).     *)
(***************************************************************************)
THEOREM BindsAlwaysFit ==
  ASSUME NEW n \in Nat, NEW rows \in RowsOf(n, BindValues), OneSchema(rows),
         NEW cursor_id, NEW prefetch, NEW params \in Seq(PlsqlParams),
         NEW r \in Requests(rows, cursor_id, prefetch) \cup {PlsqlRequest(params)},
         ChunkSize \in UInt32 \ {0}
  PROVE  MetadataFits(r) /\ ValuesFramed(r)
<1>1. CASE r \in Requests(rows, cursor_id, prefetch)
  <2> DEFINE own == r.rows
  <2>1. own \in RowsOf(n, BindValues) /\ OneSchema(own) /\ "params" \notin DOMAIN r
    BY <1>1, RowsOfRequests, OneSchemaKept
  <2>2. Explicit(r) = <<>> /\ DOMAIN Explicit(r) = {}
    BY <2>1 DEF Explicit
  <2>3. /\ own \in [1..Len(own) -> [1..n -> BindValues]] /\ DOMAIN own = 1..Len(own)
        /\ Len(own) \in Nat
    BY <2>1 DEF RowsOf
  <2> HIDE DEF own
  <2>4. ASSUME HasBindValues(own), NEW i \in DOMAIN own, NEW c \in DOMAIN own[1]
        PROVE  Fits(own[i][c], Metadata(own, Explicit(r))[c])
    <3> DEFINE v == own[i][c]
               first == own[1][c]
               m == MaxSize(own, c)
    <3>1. 1 \in 1..Len(own) /\ i \in 1..Len(own)
      BY <2>3
    <3>2. own[1] \in [1..n -> BindValues] /\ own[i] \in [1..n -> BindValues]
      BY <2>3, <3>1
    <3>3. c \in 1..n /\ v \in BindValues /\ first \in BindValues
      BY <3>2
    <3>4. SameSchema(first, v)
      BY <2>1 DEF OneSchema
    <3>5. m \in Nat /\ SizeOf(v) <= m
      BY <2>1, <3>3, MaxSizeIs
    <3>6. Metadata(own, Explicit(r))[c] = InferBindMetadata(first, m)
      BY <2>2 DEF Metadata
    <3> HIDE DEF v, first, m
    <3>7. Fits(v, InferBindMetadata(first, m))
      BY <3>3, <3>4, <3>5, FirstFits
    <3> QED BY <3>6, <3>7 DEF v
  <2>5. MetadataFits(r)
    BY <2>4 DEF MetadataFits, own
  <2>6. ValuesFramed(r)
    BY <2>1, RowsFramed DEF own
  <2> QED BY <2>5, <2>6
<1>2. CASE r = PlsqlRequest(params)
  <2> DEFINE row == [i \in DOMAIN params |-> PlsqlValue(params[i])]
             V == {PlsqlValue(p) : p \in PlsqlParams}
             k == Len(params)
  <2>1. k \in Nat /\ DOMAIN params = 1..k /\ \A i \in 1..k : params[i] \in PlsqlParams
    BY LenProperties
  <2>2. \A i \in 1..k : PlsqlValue(params[i]) \in BindValues
    BY <2>1, ParamFits
  <2>3. row \in [1..k -> BindValues] /\ DOMAIN row = 1..k /\ \A c \in 1..k : row[c] = PlsqlValue(params[c])
    BY <2>1, <2>2
  <2>4. r.rows = <<row>> /\ r.params = params /\ "params" \in DOMAIN r
    BY <1>2 DEF PlsqlRequest
  <2> HIDE DEF row, V
  <2>5. <<row>> \in RowsOf(k, BindValues) /\ DOMAIN <<row>> = {1} /\ <<row>>[1] = row
    BY <2>3 DEF RowsOf
  <2>6. ValuesFramed(r)
    BY <2>1, <2>4, <2>5, RowsFramed
  <2>7. Explicit(r) = [i \in DOMAIN params |-> PlsqlMetadata(params[i])]
    BY <2>4 DEF Explicit
  <2>8. ASSUME NEW c \in 1..k, Taken(r, c)
        PROVE  Fits(row[c], Metadata(<<row>>, Explicit(r))[c])
    <3>1. c \in DOMAIN Explicit(r) /\ Explicit(r)[c] = PlsqlMetadata(params[c])
      BY <2>1, <2>7
    <3>2. Metadata(<<row>>, Explicit(r))[c] = PlsqlMetadata(params[c])
      BY <2>3, <2>5, <3>1 DEF Metadata
    <3>3. params[c].direction # "Output"
      BY <2>4, <2>8 DEF Taken
    <3>4. Fits(PlsqlValue(params[c]), PlsqlMetadata(params[c]))
      BY <2>1, <3>3, ParamFits
    <3> QED BY <2>3, <3>2, <3>4
  <2>9. MetadataFits(r)
    BY <2>3, <2>4, <2>5, <2>8 DEF MetadataFits
  <2> QED BY <2>6, <2>9
<1> QED BY <1>1, <1>2

----------------------------------------------------------------------------
\* Requests of LOB operations

\* Fields that are read alike: the shape of a field says as what it is read, not its value.
ReadsLike(s, f) == \A buf, pos : ReadField(s, buf, pos) = ReadField(f, buf, pos)
Alike(shape, fields) ==
  Len(shape) = Len(fields) /\ \A i \in 1..Len(fields) : ReadsLike(shape[i], fields[i])

LEMMA AlikeRead ==
  ASSUME NEW fields, NEW shape, NEW buf, Len(fields) \in Nat, Alike(shape, fields)
  PROVE  ReadFields(shape, buf) = ReadFields(fields, buf)
<1> DEFINE n == Len(fields)
           st0 == [ok |-> TRUE, value |-> <<>>, pos |-> 0]
           F(f) == [i \in 0..n |-> IF i = 0 THEN st0 ELSE ReadNext(f[i - 1], fields[i], buf)]
           G(f) == [i \in 0..n |-> IF i = 0 THEN st0 ELSE ReadNext(f[i - 1], shape[i], buf)]
<1>1. ASSUME NEW i \in 1..n, NEW st PROVE ReadNext(st, shape[i], buf) = ReadNext(st, fields[i], buf)
  <2>1. ReadField(shape[i], buf, st.pos) = ReadField(fields[i], buf, st.pos)
    BY DEF Alike, ReadsLike
  <2> QED BY <2>1 DEF ReadNext
<1>2. \A f : F(f) = G(f)
  <2>1. \A i \in 0..n : i # 0 => i \in 1..n
    OBVIOUS
  <2> QED BY <1>1, <2>1
<1>3. ReadFields(fields, buf) = (CHOOSE f : f = F(f))[n]
  BY DEF ReadFields
<1>4. ReadFields(shape, buf) = (CHOOSE f : f = G(f))[n]
  BY DEF ReadFields, Alike
<1> HIDE DEF F, G
<1> QED BY <1>2, <1>3, <1>4

LEMMA AlikeFixed ==
  ASSUME NEW bytes, NEW n, Len(bytes) = n
  PROVE  ReadsLike(Raw(n), Fixed(bytes))
BY DEF ReadsLike, ReadField, Raw, Fixed

LEMMA AlikeUb ==
  ASSUME NEW width, NEW n
  PROVE  ReadsLike(Number(width), Ub(width, n))
BY DEF ReadsLike, ReadField, Number, Ub

LEMMA AlikeBytes ==
  ASSUME NEW data
  PROVE  ReadsLike([type |-> "bytes"], [type |-> "bytes", value |-> data])
BY DEF ReadsLike, ReadField

LEMMA AlikeJoined ==
  ASSUME NEW S, NEW T, NEW a \in Seq(S), NEW b \in Seq(S), NEW c \in Seq(T), NEW d \in Seq(T),
         Alike(a, c), Alike(b, d)
  PROVE  Alike(a \o b, c \o d)
<1> DEFINE m == Len(c)
           n == Len(d)
<1>1. /\ m \in Nat /\ n \in Nat /\ Len(a) = m /\ Len(b) = n /\ Len(a \o b) = m + n /\ Len(c \o d) = m + n
      /\ \A i \in 1..(m + n) : (a \o b)[i] = IF i <= m THEN a[i] ELSE b[i - m]
      /\ \A i \in 1..(m + n) : (c \o d)[i] = IF i <= m THEN c[i] ELSE d[i - m]
  <2>1. m \in Nat /\ n \in Nat /\ Len(a) = m /\ Len(b) = n
    BY LenProperties DEF Alike
  <2>2. /\ Len(a \o b) = Len(a) + Len(b)
        /\ \A i \in 1..(Len(a) + Len(b)) : (a \o b)[i] = IF i <= Len(a) THEN a[i] ELSE b[i - Len(a)]
    BY ConcatProperties
  <2>3. /\ Len(c \o d) = Len(c) + Len(d)
        /\ \A i \in 1..(Len(c) + Len(d)) : (c \o d)[i] = IF i <= Len(c) THEN c[i] ELSE d[i - Len(c)]
    BY ConcatProperties
  <2>4. /\ Len(c \o d) = m + n
        /\ \A i \in 1..(m + n) : (c \o d)[i] = IF i <= m THEN c[i] ELSE d[i - m]
    BY <2>3
  <2> HIDE DEF m, n
  <2> QED BY <2>1, <2>2, <2>4
<1> HIDE DEF m, n
<1>2. ASSUME NEW i \in 1..(m + n) PROVE ReadsLike((a \o b)[i], (c \o d)[i])
  <2>1. CASE i <= m
    <3>1. i \in 1..m
      BY <1>1, <2>1
    <3>2. ReadsLike(a[i], c[i])
      BY <3>1 DEF Alike, m
    <3> QED BY <1>1, <2>1, <3>2
  <2>2. CASE ~(i <= m)
    <3>1. i - m \in 1..n
      BY <1>1, <2>2
    <3>2. ReadsLike(b[i - m], d[i - m])
      BY <3>1 DEF Alike, n
    <3> QED BY <1>1, <2>2, <3>2
  <2> QED BY <2>1, <2>2
<1> QED BY <1>1, <1>2 DEF Alike

\* The values of fields put one behind the other.
LEMMA ValuesJoined ==
  ASSUME NEW a \in Seq(WireFields), NEW b \in Seq(WireFields)
  PROVE  /\ Values(a \o b) = Values(a) \o Values(b)
         /\ Len(Values(a \o b)) = Len(a) + Len(b)
         /\ SubSeq(Values(a \o b), Len(a) + 1, Len(a) + Len(b)) = Values(b)
<1> DEFINE m == Len(a)
           n == Len(b)
           V == {f.value : f \in WireFields}
           va == Values(a)
           vb == Values(b)
           ab == a \o b
           v == Values(ab)
<1>1. /\ m \in Nat /\ n \in Nat /\ ab \in Seq(WireFields) /\ Len(ab) = m + n
      /\ \A i \in 1..(m + n) : ab[i] = IF i <= m THEN a[i] ELSE b[i - m]
  BY ConcatProperties, LenProperties
<1> HIDE DEF ab
<1>2. va \in Seq(V) /\ Len(va) = m /\ \A i \in 1..m : va[i] = a[i].value
  BY DEF Values
<1>3. vb \in Seq(V) /\ Len(vb) = n /\ \A i \in 1..n : vb[i] = b[i].value
  BY DEF Values
<1>4. v \in Seq(V) /\ Len(v) = m + n /\ \A i \in 1..(m + n) : v[i] = ab[i].value
  <2>1. DOMAIN ab = 1..(m + n) /\ m + n \in Nat /\ \A i \in 1..(m + n) : ab[i] \in WireFields
    BY <1>1
  <2> HIDE DEF m, n
  <2> QED BY <2>1 DEF Values
<1> HIDE DEF va, vb, v, V, m, n
<1>5. /\ va \o vb \in Seq(V) /\ Len(va \o vb) = m + n
      /\ \A i \in 1..(m + n) : (va \o vb)[i] = IF i <= m THEN va[i] ELSE vb[i - m]
  BY <1>2, <1>3, ConcatProperties
<1>6. ASSUME NEW i \in 1..(m + n) PROVE v[i] = (va \o vb)[i]
  <2>1. CASE i <= m
    <3>1. i \in 1..m
      BY <1>1, <2>1
    <3>2. ab[i] = a[i] /\ (va \o vb)[i] = va[i]
      BY <1>1, <1>5, <2>1
    <3> QED BY <1>2, <1>4, <3>1, <3>2
  <2>2. CASE ~(i <= m)
    <3>1. i - m \in 1..n
      BY <1>1, <2>2
    <3>2. ab[i] = b[i - m] /\ (va \o vb)[i] = vb[i - m]
      BY <1>1, <1>5, <2>2
    <3> QED BY <1>3, <1>4, <3>1, <3>2
  <2> QED BY <2>1, <2>2
<1>7. v = va \o vb
  BY <1>4, <1>5, <1>6, SeqEqual
<1> DEFINE s == SubSeq(v, m + 1, m + n)
<1>8. s = vb
  <2>0. m + 1 \in Nat /\ m + n \in Nat /\ 1 <= m + 1 /\ m + 1 <= (m + n) + 1 /\ m + n <= Len(v)
        /\ (m + n) - (m + 1) + 1 = n
    BY <1>1, <1>4
  <2>1. \A i \in (m + 1)..(m + n) : v[i] \in V
    BY <1>1, <1>4
  <2>2. /\ s \in Seq(V) /\ Len(s) = n
        /\ \A i \in 1..n : s[i] = v[(m + 1) + i - 1]
    <3>1. /\ s \in Seq(V) /\ Len(s) = IF m + 1 <= m + n THEN (m + n) - (m + 1) + 1 ELSE 0
          /\ \A i \in 1..((m + n) - (m + 1) + 1) : s[i] = v[(m + 1) + i - 1]
      BY <1>4, <2>0, <2>1, SubSeqProperties
    <3>2. ~(m + 1 <= m + n) => n = 0
      BY <1>1
    <3> HIDE DEF s
    <3> QED BY <2>0, <3>1, <3>2
  <2>3. \A i \in 1..n : (m + 1) + i - 1 = m + i /\ m + i \in 1..(m + n) /\ ~(m + i <= m) /\ (m + i) - m = i
    BY <1>1
  <2> HIDE DEF s
  <2>4. \A i \in 1..n : s[i] = vb[i]
    BY <1>5, <1>7, <2>2, <2>3
  <2> QED BY <1>3, <2>2, <2>4, SeqEqual
<1> QED BY <1>4, <1>7, <1>8 DEF s, v, va, vb, ab, m, n

LobRequests ==
  {op \in [code : Numbers(4), source : Numbers(8), dest : Numbers(8), amount : Numbers(8),
           dest_length : Numbers(4), send_amount : BOOLEAN, data : Seq(Byte) \cup {NoBytes}] :
     op.data # NoBytes <=> op.code = <<64>>}

LEMMA FixedIsField ==
  ASSUME NEW bytes \in Seq(Byte), bytes # <<>>
  PROVE  Fixed(bytes) \in WireFields
<1>1. Len(bytes) \in Nat
  BY LenProperties
<1>2. Fixed(bytes) \in FixedFields
  BY <1>1 DEF Fixed, FixedFields
<1> QED BY <1>2 DEF WireFields

LEMMA BytesAre ==
  /\ \A b \in BOOLEAN :
            /\ Bit(b) \in Seq(Byte) /\ Len(Bit(b)) = 1 /\ Bit(b) # <<>> /\ (Bit(b) = <<1>> <=> b)
            /\ (Bit(b)[1] = 1 <=> b)
  /\ <<0>> \in Seq(Byte) /\ <<0>> # <<>> /\ Len(<<0>>) = 1
  /\ <<0, 0>> \in Seq(Byte) /\ <<0, 0>> # <<>> /\ Len(<<0, 0>>) = 2
  /\ <<3, 96, 7>> \in Seq(Byte) /\ <<3, 96, 7>> # <<>> /\ Len(<<3, 96, 7>>) = 3
  /\ Zeros(6) \in Seq(Byte) /\ Zeros(6) # <<>> /\ Len(Zeros(6)) = 6
  /\ LOB_DATA \in Seq(Byte) /\ LOB_DATA # <<>> /\ Len(LOB_DATA) = 1
<1>0. /\ 0 \in Byte /\ 1 \in Byte /\ 3 \in Byte /\ 96 \in Byte /\ 7 \in Byte /\ 14 \in Byte
  BY DEF Byte
<1>1. ASSUME NEW b \in BOOLEAN
      PROVE  Bit(b) \in Seq(Byte) /\ Len(Bit(b)) = 1 /\ Bit(b) # <<>> /\ (Bit(b) = <<1>> <=> b)
             /\ (Bit(b)[1] = 1 <=> b)
  <2>1. /\ <<1>> \in Seq(Byte) /\ Len(<<1>>) = 1 /\ <<1>> # <<>> /\ <<1>>[1] = 1
        /\ <<0>> \in Seq(Byte) /\ Len(<<0>>) = 1 /\ <<0>> # <<>> /\ <<0>>[1] # 1 /\ <<0>> # <<1>>
    BY <1>0
  <2>2. CASE b
    <3>1. Bit(b) = <<1>>
      BY <2>2 DEF Bit
    <3> QED BY <2>1, <2>2, <3>1, Zenon
  <2>3. CASE ~b
    <3>1. Bit(b) = <<0>>
      BY <2>3 DEF Bit
    <3> QED BY <2>1, <2>3, <3>1, Zenon
  <2> QED BY <2>2, <2>3
<1>2. Zeros(6) \in Seq(Byte) /\ Len(Zeros(6)) = 6 /\ Zeros(6) # <<>>
  <2>1. Zeros(6) \in Seq(Byte) /\ Len(Zeros(6)) = 6
    BY <1>0 DEF Zeros
  <2> QED BY <2>1
<1>3. /\ <<0>> \in Seq(Byte) /\ <<0>> # <<>> /\ Len(<<0>>) = 1
      /\ <<0, 0>> \in Seq(Byte) /\ <<0, 0>> # <<>> /\ Len(<<0, 0>>) = 2
      /\ <<3, 96, 7>> \in Seq(Byte) /\ <<3, 96, 7>> # <<>> /\ Len(<<3, 96, 7>>) = 3
  BY <1>0
<1>4. LOB_DATA \in Seq(Byte) /\ LOB_DATA # <<>> /\ Len(LOB_DATA) = 1
  BY <1>0 DEF LOB_DATA
<1> QED BY <1>1, <1>2, <1>3, <1>4

LEMMA FlagBytes ==
  ASSUME NEW b \in BOOLEAN, NEW c \in BOOLEAN
  PROVE  LET s == Bit(b) \o <<0>> \o Bit(c) IN
         s \in Seq(Byte) /\ Len(s) = 3 /\ s # <<>> /\ (s[1] = 1 <=> b)
<1> DEFINE x == Bit(b)
           y == Bit(c)
           s == x \o <<0>> \o y
<1>1. /\ x \in Seq(Byte) /\ Len(x) = 1 /\ (x[1] = 1 <=> b) /\ y \in Seq(Byte) /\ Len(y) = 1
      /\ <<0>> \in Seq(Byte) /\ Len(<<0>>) = 1
  BY BytesAre
<1> HIDE DEF x, y
<1>2. Made3(x, <<0>>, y, s)
  BY <1>1, Joined3
<1> HIDE DEF s
<1>3. s \in Seq(Byte) /\ Len(s) = 3 /\ s[1] = x[1]
  BY <1>1, <1>2 DEF Made3
<1>4. s # <<>>
  BY <1>3
<1> QED BY <1>1, <1>3, <1>4 DEF s, x, y

\* What the shape of a field says.
Shapes == [type : {"fixed"}, width : Nat] \cup [type : {"ub"}, width : Nat] \cup [type : {"bytes"}]

LEMMA ShapesAre == \A n \in Nat : Raw(n) \in Shapes /\ Number(n) \in Shapes
BY DEF Shapes, Raw, Number

LEMMA Thirteen ==
  ASSUME NEW S, NEW a1 \in S, NEW a2 \in S, NEW a3 \in S, NEW a4 \in S, NEW a5 \in S, NEW a6 \in S,
         NEW a7 \in S, NEW a8 \in S, NEW a9 \in S, NEW a10 \in S, NEW a11 \in S, NEW a12 \in S, NEW a13 \in S
  PROVE  LET s == <<a1, a2, a3, a4, a5, a6, a7, a8, a9, a10, a11, a12, a13>> IN
         /\ s \in Seq(S) /\ Len(s) = 13
         /\ s[1] = a1 /\ s[2] = a2 /\ s[3] = a3 /\ s[4] = a4 /\ s[5] = a5 /\ s[6] = a6 /\ s[7] = a7
         /\ s[8] = a8 /\ s[9] = a9 /\ s[10] = a10 /\ s[11] = a11 /\ s[12] = a12 /\ s[13] = a13
OBVIOUS

\* The values of the pointers announce what a request needs.
Announce(v, op, locator) ==
  /\ v[1] = <<1>> <=> locator # <<>>
  /\ v[2] = BytesOf(Len(locator))
  /\ v[7][1] = 1 <=> IsCreateTemp(op)
  /\ v[8] = op.code /\ v[10] = op.source /\ v[11] = op.dest
  /\ v[12] = <<1>> <=> op.send_amount

LEMMA PointersRead ==
  ASSUME NEW op \in LobRequests, NEW locator \in Seq(Byte), Len(locator) \in UInt32
  PROVE  /\ Pointers(op, locator) \in Seq(WireFields) /\ Len(Pointers(op, locator)) = 13
         /\ PointersShape \in Seq(Shapes) /\ Alike(PointersShape, Pointers(op, locator))
         /\ Announce(Values(Pointers(op, locator)), op, locator)
<1> DEFINE p == Pointers(op, locator)
           nullLob == IsCreateTemp(op) \/ op.code \in {<<8, 0>>, <<4, 0>>}
           flags == Bit(IsCreateTemp(op)) \o <<0>> \o Bit(nullLob)
           here == Bit(locator # <<>>)
           size == BytesOf(Len(locator))
           sends == Bit(op.send_amount)
           c1 == Fixed(here)
           c2 == Ub(4, size)
           c3 == Fixed(<<0>>)
           c4 == Ub(4, op.dest_length)
           c5 == Ub(4, <<>>)
           c7 == Fixed(flags)
           c8 == Ub(4, op.code)
           c9 == Fixed(<<0, 0>>)
           c10 == Ub(8, op.source)
           c11 == Ub(8, op.dest)
           c12 == Fixed(sends)
           c13 == Fixed(Zeros(6))
<1>1. p = <<c1, c2, c3, c4, c5, c5, c7, c8, c9, c10, c11, c12, c13>>
  BY DEF Pointers
<1>2. /\ IsCreateTemp(op) \in BOOLEAN /\ nullLob \in BOOLEAN /\ (locator # <<>>) \in BOOLEAN
      /\ op.send_amount \in BOOLEAN
  BY DEF IsCreateTemp, LobRequests
<1> HIDE DEF nullLob
<1>3. /\ flags \in Seq(Byte) /\ Len(flags) = 3 /\ flags # <<>> /\ (flags[1] = 1 <=> IsCreateTemp(op))
  BY <1>2, FlagBytes
<1>4. /\ here \in Seq(Byte) /\ Len(here) = 1 /\ here # <<>> /\ (here = <<1>> <=> locator # <<>>)
      /\ sends \in Seq(Byte) /\ Len(sends) = 1 /\ sends # <<>> /\ (sends = <<1>> <=> op.send_amount)
  BY <1>2, BytesAre
<1>5. size \in Numbers(4)
  <2>1. size \in Seq(Byte) /\ Len(size) <= 4 /\ Minimal(size)
    BY LengthBytes
  <2> QED BY <2>1 DEF Numbers
<1>6. /\ op.code \in Numbers(4) /\ op.source \in Numbers(8) /\ op.dest \in Numbers(8)
      /\ op.dest_length \in Numbers(4)
  BY DEF LobRequests
<1> HIDE DEF flags, here, size, sends
<1>7. /\ c1 \in WireFields /\ c3 \in WireFields /\ c7 \in WireFields /\ c9 \in WireFields
      /\ c12 \in WireFields /\ c13 \in WireFields
  BY <1>3, <1>4, BytesAre, FixedIsField
<1>8. /\ c2 \in WireFields /\ c4 \in WireFields /\ c5 \in WireFields /\ c8 \in WireFields
      /\ c10 \in WireFields /\ c11 \in WireFields
  BY <1>5, <1>6, NoNumber, FieldsOfLob
<1>9. /\ c1.value = here /\ c2.value = size /\ c7.value = flags /\ c8.value = op.code
      /\ c10.value = op.source /\ c11.value = op.dest /\ c12.value = sends
  BY DEF Fixed, Ub
<1>10. /\ ReadsLike(Raw(1), c1) /\ ReadsLike(Raw(1), c3) /\ ReadsLike(Raw(3), c7)
       /\ ReadsLike(Raw(2), c9) /\ ReadsLike(Raw(1), c12) /\ ReadsLike(Raw(6), c13)
  BY <1>3, <1>4, BytesAre, AlikeFixed
<1>11. /\ ReadsLike(Number(4), c2) /\ ReadsLike(Number(4), c4) /\ ReadsLike(Number(4), c5)
       /\ ReadsLike(Number(4), c8) /\ ReadsLike(Number(8), c10) /\ ReadsLike(Number(8), c11)
  BY AlikeUb
<1> DEFINE sh == PointersShape
<1>12. /\ sh \in Seq(Shapes) /\ Len(sh) = 13
       /\ sh[1] = Raw(1) /\ sh[2] = Number(4) /\ sh[3] = Raw(1) /\ sh[4] = Number(4) /\ sh[5] = Number(4)
       /\ sh[6] = Number(4) /\ sh[7] = Raw(3) /\ sh[8] = Number(4) /\ sh[9] = Raw(2)
       /\ sh[10] = Number(8) /\ sh[11] = Number(8) /\ sh[12] = Raw(1) /\ sh[13] = Raw(6)
  <2>1. /\ Raw(1) \in Shapes /\ Raw(2) \in Shapes /\ Raw(3) \in Shapes /\ Raw(6) \in Shapes
        /\ Number(4) \in Shapes /\ Number(8) \in Shapes
    BY ShapesAre
  <2> QED BY <2>1, Thirteen DEF PointersShape
<1> HIDE DEF c1, c2, c3, c4, c5, c7, c8, c9, c10, c11, c12, c13, p, sh
<1>13. /\ p \in Seq(WireFields) /\ Len(p) = 13
       /\ p[1] = c1 /\ p[2] = c2 /\ p[3] = c3 /\ p[4] = c4 /\ p[5] = c5 /\ p[6] = c5 /\ p[7] = c7
       /\ p[8] = c8 /\ p[9] = c9 /\ p[10] = c10 /\ p[11] = c11 /\ p[12] = c12 /\ p[13] = c13
  BY <1>1, <1>7, <1>8, Thirteen
<1>14. ASSUME NEW i \in 1..13 PROVE ReadsLike(sh[i], p[i])
  <2>1. i \in {1, 2, 3, 4, 5, 6, 7, 8, 9, 10, 11, 12, 13}
    OBVIOUS
  <2> QED BY <1>10, <1>11, <1>12, <1>13, <2>1
<1>15. Alike(sh, p)
  BY <1>12, <1>13, <1>14 DEF Alike
<1>16. \A i \in 1..13 : Values(p)[i] = p[i].value
  BY <1>13 DEF Values
<1>17. /\ Values(p)[1] = here /\ Values(p)[2] = size /\ Values(p)[7] = flags /\ Values(p)[8] = op.code
       /\ Values(p)[10] = op.source /\ Values(p)[11] = op.dest /\ Values(p)[12] = sends
  BY <1>9, <1>13, <1>16
<1> HIDE DEF p
<1>18. Announce(Values(p), op, locator)
  BY <1>3, <1>4, <1>17 DEF Announce, size
<1> QED BY <1>12, <1>13, <1>15, <1>18 DEF p, sh

\* Fields, their shapes and their values.
Carries(s, f, x) == s \in Seq(Shapes) /\ f \in Seq(WireFields) /\ Alike(s, f) /\ Values(f) = x

LEMMA CarriesJoined ==
  ASSUME NEW s, NEW f, NEW x, NEW t, NEW g, NEW y, Carries(s, f, x), Carries(t, g, y)
  PROVE  Carries(s \o t, f \o g, x \o y)
<1>1. s \o t \in Seq(Shapes) /\ f \o g \in Seq(WireFields)
  BY ConcatProperties DEF Carries
<1>2. Alike(s \o t, f \o g)
  BY AlikeJoined DEF Carries
<1>3. Values(f \o g) = x \o y
  BY ValuesJoined DEF Carries
<1> QED BY <1>1, <1>2, <1>3 DEF Carries

LEMMA CarriesNone == Carries(<<>>, <<>>, <<>>)
BY DEF Carries, Alike, Values

LEMMA CarriesOne ==
  ASSUME NEW s \in Shapes, NEW f \in WireFields, ReadsLike(s, f)
  PROVE  Carries(<<s>>, <<f>>, <<f.value>>)
<1>1. <<s>> \in Seq(Shapes) /\ <<f>> \in Seq(WireFields) /\ Len(<<s>>) = 1 /\ Len(<<f>>) = 1
  OBVIOUS
<1>2. <<s>>[1] = s /\ <<f>>[1] = f
  OBVIOUS
<1>3. \A i \in 1..1 : ReadsLike(<<s>>[i], <<f>>[i])
  BY <1>2
<1>4. Values(<<f>>) = <<f.value>>
  BY DEF Values
<1> QED BY <1>1, <1>3, <1>4 DEF Carries, Alike

LEMMA CarriesTwo ==
  ASSUME NEW s \in Shapes, NEW f \in WireFields, ReadsLike(s, f),
         NEW t \in Shapes, NEW g \in WireFields, ReadsLike(t, g)
  PROVE  Carries(<<s, t>>, <<f, g>>, <<f.value, g.value>>)
<1> DEFINE ss == <<s, t>>
           ff == <<f, g>>
<1>1. ss \in Seq(Shapes) /\ ff \in Seq(WireFields) /\ Len(ss) = 2 /\ Len(ff) = 2
  OBVIOUS
<1>2. ss[1] = s /\ ff[1] = f /\ ss[2] = t /\ ff[2] = g
  OBVIOUS
<1>4. Values(ff) = <<f.value, g.value>>
  BY DEF Values
<1> HIDE DEF ss, ff
<1>3. \A i \in 1..2 : ReadsLike(ss[i], ff[i])
  <2>1. \A i \in 1..2 : i = 1 \/ i = 2
    OBVIOUS
  <2> QED BY <1>2, <2>1
<1>5. Carries(ss, ff, <<f.value, g.value>>)
  BY <1>1, <1>3, <1>4 DEF Carries, Alike
<1> QED BY <1>5 DEF ss, ff

LEMMA OpeningRead ==
  ASSUME NEW token \in BOOLEAN
  PROVE  \E x : Carries(OpeningShape(token), Opening(7, token), x)
<1> DEFINE h == Fixed(<<3, 96, 7>>)
           u == Ub(8, <<>>)
           s == IF token THEN <<Number(8)>> ELSE <<>>
           f == IF token THEN <<u>> ELSE <<>>
<1>1. h \in WireFields /\ u \in WireFields /\ Raw(3) \in Shapes /\ Number(8) \in Shapes
  BY BytesAre, FixedIsField, NoNumber, FieldsOfLob, ShapesAre
<1>2. ReadsLike(Raw(3), h) /\ ReadsLike(Number(8), u)
  BY BytesAre, AlikeFixed, AlikeUb
<1>3. OpeningShape(token) = <<Raw(3)>> \o s /\ Opening(7, token) = <<h>> \o f
  BY DEF OpeningShape, Opening
<1> HIDE DEF h, u
<1>4. Carries(<<Raw(3)>>, <<h>>, <<h.value>>)
  BY <1>1, <1>2, CarriesOne
<1>5. \E y : Carries(s, f, y)
  <2>1. CASE token
    <3>1. Carries(<<Number(8)>>, <<u>>, <<u.value>>)
      BY <1>1, <1>2, CarriesOne
    <3> QED BY <2>1, <3>1
  <2>2. CASE ~token
    BY <2>2, CarriesNone
  <2> QED BY <2>1, <2>2
<1> HIDE DEF s, f
<1>6. PICK y : Carries(s, f, y)
  BY <1>5
<1>7. Carries(<<Raw(3)>> \o s, <<h>> \o f, <<h.value>> \o y)
  BY <1>4, <1>6, CarriesJoined
<1> QED BY <1>3, <1>7

LEMMA TailRead ==
  ASSUME NEW op \in LobRequests, NEW locator \in Seq(Byte), Len(locator) \in UInt32, NEW v,
         Announce(v, op, locator)
  PROVE  Carries(TailShape(v), TailFields(op, locator),
                 (IF locator = <<>> THEN <<>> ELSE <<locator>>)
                   \o (IF IsCreateTemp(op) THEN <<UTF8>> ELSE <<>>)
                   \o (IF op.data # NoBytes THEN <<LOB_DATA, op.data>> ELSE <<>>)
                   \o (IF op.send_amount THEN <<op.amount>> ELSE <<>>))
<1> DEFINE s1 == IF v[1] = <<1>> THEN <<Raw(FromBe(v[2]))>> ELSE <<>>
           s2 == IF v[7][1] = 1 THEN <<Number(4)>> ELSE <<>>
           s3 == IF v[8] = <<64>> THEN <<Raw(1), [type |-> "bytes"]>> ELSE <<>>
           s4 == IF v[12] = <<1>> THEN <<Number(8)>> ELSE <<>>
           dataField == [type |-> "bytes", value |-> op.data]
           f1 == IF locator # <<>> THEN <<Fixed(locator)>> ELSE <<>>
           f2 == IF IsCreateTemp(op) THEN <<Ub(4, UTF8)>> ELSE <<>>
           f3 == IF op.data # NoBytes THEN <<Fixed(LOB_DATA), dataField>> ELSE <<>>
           f4 == IF AmountFollows(op) THEN <<Ub(8, op.amount)>> ELSE <<>>
           x1 == IF locator = <<>> THEN <<>> ELSE <<locator>>
           x2 == IF IsCreateTemp(op) THEN <<UTF8>> ELSE <<>>
           x3 == IF op.data # NoBytes THEN <<LOB_DATA, op.data>> ELSE <<>>
           x4 == IF op.send_amount THEN <<op.amount>> ELSE <<>>
<1>0. /\ v[1] = <<1>> <=> locator # <<>>
      /\ v[2] = BytesOf(Len(locator))
      /\ v[7][1] = 1 <=> IsCreateTemp(op)
      /\ v[8] = op.code
      /\ v[12] = <<1>> <=> op.send_amount
  BY DEF Announce
<1>1. TailShape(v) = s1 \o s2 \o s3 \o s4 /\ TailFields(op, locator) = f1 \o f2 \o f3 \o f4
  BY DEF TailShape, TailFields
<1>2. /\ op.amount \in Numbers(8) /\ op.data \in Seq(Byte) \cup {NoBytes}
      /\ (op.data # NoBytes <=> op.code = <<64>>)
  BY DEF LobRequests
<1>3. Carries(s1, f1, x1)
  <2>1. CASE locator = <<>>
    BY <1>0, <2>1, CarriesNone
  <2>2. CASE locator # <<>>
    <3>1. FromBe(v[2]) = Len(locator) /\ Len(locator) \in Nat
      BY <1>0, LengthBytes, LenProperties
    <3>2. Raw(Len(locator)) \in Shapes /\ Fixed(locator) \in WireFields
      BY <2>2, <3>1, ShapesAre, FixedIsField
    <3>3. ReadsLike(Raw(Len(locator)), Fixed(locator))
      BY AlikeFixed
    <3>4. Fixed(locator).value = locator
      BY DEF Fixed
    <3>5. Carries(<<Raw(Len(locator))>>, <<Fixed(locator)>>, <<locator>>)
      BY <3>2, <3>3, <3>4, CarriesOne
    <3> QED BY <1>0, <2>2, <3>1, <3>5
  <2> QED BY <2>1, <2>2
<1>4. Carries(s2, f2, x2)
  <2>1. CASE ~IsCreateTemp(op)
    BY <1>0, <2>1, CarriesNone
  <2>2. CASE IsCreateTemp(op)
    <3>1. UTF8 \in Numbers(4)
      <4>1. 3 \in 1..255 /\ 105 \in Byte
        BY DEF Byte
      <4> QED BY <4>1, TwoBytes DEF UTF8
    <3>2. Number(4) \in Shapes /\ Ub(4, UTF8) \in WireFields
      BY <3>1, ShapesAre, FieldsOfLob
    <3>3. ReadsLike(Number(4), Ub(4, UTF8)) /\ Ub(4, UTF8).value = UTF8
      BY AlikeUb DEF Ub
    <3>4. Carries(<<Number(4)>>, <<Ub(4, UTF8)>>, <<UTF8>>)
      BY <3>2, <3>3, CarriesOne
    <3> QED BY <1>0, <2>2, <3>4
  <2> QED BY <2>1, <2>2
<1>5. Carries(s3, f3, x3)
  <2>1. CASE op.data = NoBytes
    BY <1>0, <1>2, <2>1, CarriesNone
  <2>2. CASE op.data # NoBytes
    <3>1. Fixed(LOB_DATA) \in WireFields /\ Raw(1) \in Shapes /\ [type |-> "bytes"] \in Shapes
      <4>1. [type |-> "bytes"] \in Shapes
        BY DEF Shapes
      <4> QED BY <4>1, BytesAre, FixedIsField, ShapesAre
    <3>2. dataField \in WireFields
      <4>1. dataField \in DataFields
        BY <1>2 DEF DataFields
      <4> HIDE DEF dataField
      <4> QED BY <4>1 DEF WireFields
    <3>3. ReadsLike(Raw(1), Fixed(LOB_DATA)) /\ ReadsLike([type |-> "bytes"], dataField)
      BY BytesAre, AlikeFixed, AlikeBytes
    <3>4. Fixed(LOB_DATA).value = LOB_DATA /\ dataField.value = op.data
      BY DEF Fixed
    <3> HIDE DEF dataField
    <3>5. Carries(<<Raw(1), [type |-> "bytes"]>>, <<Fixed(LOB_DATA), dataField>>, <<LOB_DATA, op.data>>)
      BY <3>1, <3>2, <3>3, <3>4, CarriesTwo
    <3> QED BY <1>0, <1>2, <2>2, <3>5
  <2> QED BY <2>1, <2>2
<1>6. Carries(s4, f4, x4)
  <2>1. CASE ~op.send_amount
    BY <1>0, <2>1, CarriesNone DEF AmountFollows
  <2>2. CASE op.send_amount
    <3>2. Number(8) \in Shapes /\ Ub(8, op.amount) \in WireFields
      BY <1>2, ShapesAre, FieldsOfLob
    <3>3. ReadsLike(Number(8), Ub(8, op.amount)) /\ Ub(8, op.amount).value = op.amount
      BY AlikeUb DEF Ub
    <3>4. Carries(<<Number(8)>>, <<Ub(8, op.amount)>>, <<op.amount>>)
      BY <3>2, <3>3, CarriesOne
    <3> QED BY <1>0, <2>2, <3>4 DEF AmountFollows
  <2> QED BY <2>1, <2>2
<1> HIDE DEF s1, s2, s3, s4, f1, f2, f3, f4, x1, x2, x3, x4
<1>7. Carries(s1 \o s2, f1 \o f2, x1 \o x2)
  BY <1>3, <1>4, CarriesJoined
<1>8. Carries(s1 \o s2 \o s3, f1 \o f2 \o f3, x1 \o x2 \o x3)
  BY <1>5, <1>7, CarriesJoined
<1>9. Carries(s1 \o s2 \o s3 \o s4, f1 \o f2 \o f3 \o f4, x1 \o x2 \o x3 \o x4)
  BY <1>6, <1>8, CarriesJoined
<1> QED BY <1>1, <1>9 DEF x1, x2, x3, x4

\* The fields a message begins with are read as they are, whatever stands behind it.
LEMMA HeadRead ==
  ASSUME NEW fields \in Seq(WireFields), NEW rest \in Seq(Byte), ChunkSize \in UInt32 \ {0}
  PROVE  LET msg == Message(fields)
             buf == msg \o rest
         IN  /\ msg \in Seq(Byte) /\ Len(msg) \in Nat
             /\ Len(buf) = Len(msg) + Len(rest)
             /\ ReadFields(fields, buf) = [ok |-> TRUE, value |-> Values(fields), pos |-> Len(msg)]
             /\ SubSeq(buf, Len(msg) + 1, Len(buf)) = rest
<1> DEFINE msg == Message(fields)
           buf == msg \o rest
           n == Len(fields)
           m == Len(msg)
           k == Len(rest)
<1>1. msg \in Seq(Byte) /\ Ends(fields, n) = m /\ m \in Nat /\ k \in Nat
  BY MessageEnds, LenProperties
<1> HIDE DEF msg
<1>2. /\ buf \in Seq(Byte) /\ Len(buf) = m + k
      /\ \A i \in 1..(m + k) : buf[i] = IF i <= m THEN msg[i] ELSE rest[i - m]
  BY <1>1, ConcatProperties
<1> HIDE DEF buf, m, k
<1>3. StandsAt(buf, 0, msg)
  <2>1. m = Len(msg)
    BY DEF m
  <2>2. \A i \in 1..m : i \in 1..(m + k) /\ i <= m /\ 0 + i = i
    BY <1>1
  <2>3. \A i \in 1..m : buf[0 + i] = msg[i]
    BY <1>2, <2>2
  <2>4. 0 <= Len(buf)
    BY <1>1, <1>2
  <2> QED BY <2>1, <2>3, <2>4 DEF StandsAt
<1>4. ReadUpTo(ReadFields(fields, buf), fields, buf, n)
  BY <1>2, <1>3, FieldsRead DEF msg
<1>5. Firsts(fields, n) = Values(fields)
  <2>1. DOMAIN fields = 1..n
    BY LenProperties
  <2> QED BY <2>1 DEF Firsts, Values
<1>6. Ends(fields, n) <= Len(buf)
  BY <1>1, <1>2
<1> HIDE DEF n
<1>7. ReadFields(fields, buf) = [ok |-> TRUE, value |-> Firsts(fields, n), pos |-> Ends(fields, n)]
  BY <1>4, <1>6 DEF ReadUpTo
<1>8. SubSeq(buf, m + 1, m + k) = rest
  <2>1. m + k <= Len(buf) /\ Len(rest) = k
    BY <1>1, <1>2 DEF k
  <2>2. \A j \in 1..k : buf[m + j] = rest[j]
    <3>1. \A j \in 1..k : m + j \in 1..(m + k) /\ ~(m + j <= m) /\ (m + j) - m = j
      BY <1>1
    <3>2. ASSUME NEW j \in 1..k PROVE buf[m + j] = rest[j]
      <4> DEFINE i == m + j
      <4>1. i \in 1..(m + k) /\ ~(i <= m) /\ i - m = j
        BY <3>1
      <4> HIDE DEF i
      <4>2. buf[i] = rest[j]
        BY <1>2, <4>1
      <4> QED BY <4>2 DEF i
    <3> QED BY <3>2
  <2> QED BY <1>1, <1>2, <2>1, <2>2, PieceIn
<1>9. ReadFields(fields, buf) = [ok |-> TRUE, value |-> Values(fields), pos |-> m]
  BY <1>1, <1>5, <1>7
<1> QED BY <1>1, <1>2, <1>8, <1>9 DEF msg, buf, m, k

(***************************************************************************)
(* The request of a LOB operation is read as it was made: the pointers     *)
(* announce the locator, the character set, the data and the amount that   *)
(* follow, and nothing is left over (LobOpMessage::write_message).         *)
(***************************************************************************)
THEOREM LobRequestsAlwaysExact ==
  ASSUME NEW op \in LobRequests, NEW locator \in Seq(Byte), Len(locator) \in UInt32,
         NEW token \in BOOLEAN, ChunkSize \in UInt32 \ {0}
  PROVE  LobRequestExact(op, locator, token)
<1> DEFINE o == Opening(7, token)
           p == Pointers(op, locator)
           t == TailFields(op, locator)
           os == OpeningShape(token)
           head == o \o p
           a == Message(head)
           b == Message(t)
           buf == a \o b
           vp == Values(p)
           vh == Values(head)
           ts == TailShape(vp)
           parts == (IF locator = <<>> THEN <<>> ELSE <<locator>>)
                      \o (IF IsCreateTemp(op) THEN <<UTF8>> ELSE <<>>)
                      \o (IF op.data # NoBytes THEN <<LOB_DATA, op.data>> ELSE <<>>)
                      \o (IF op.send_amount THEN <<op.amount>> ELSE <<>>)
           read == ReadLobMessage(buf, token)
<1>1. os \in Seq(Shapes) /\ o \in Seq(WireFields) /\ Alike(os, o)
  BY OpeningRead DEF Carries
<1>2. /\ p \in Seq(WireFields) /\ Len(p) = 13 /\ PointersShape \in Seq(Shapes) /\ Alike(PointersShape, p)
      /\ Announce(vp, op, locator)
  BY PointersRead
<1> HIDE DEF vp
<1>3. Carries(ts, t, parts)
  BY <1>2, TailRead
<1> HIDE DEF parts, ts, t, o, os, p
<1>4. head \in Seq(WireFields) /\ Alike(os \o PointersShape, head)
  BY <1>1, <1>2, AlikeJoined, ConcatProperties
<1>5. /\ Len(vh) = Len(o) + Len(p) /\ SubSeq(vh, Len(o) + 1, Len(o) + Len(p)) = vp
      /\ Len(os) = Len(o)
  BY <1>1, <1>2, ValuesJoined DEF Alike, vp
<1> HIDE DEF head
<1>6. t \in Seq(WireFields) /\ Alike(ts, t) /\ Values(t) = parts
  BY <1>3 DEF Carries
<1>7. b \in Seq(Byte) /\ Len(b) \in Nat
  BY <1>6, MessageEnds, LenProperties
<1>8. ReadFields(ts, b) = [ok |-> TRUE, value |-> parts, pos |-> Len(b)]
  <2>1. ReadFields(ts, b) = ReadFields(t, b)
    BY <1>6, LenProperties, AlikeRead
  <2>2. ReadFields(t, b) = [ok |-> TRUE, value |-> Values(t), pos |-> Len(b)]
    BY <1>6, WholeRead
  <2> QED BY <1>6, <2>1, <2>2
<1> HIDE DEF b
<1>9. /\ Len(a) \in Nat /\ Len(buf) = Len(a) + Len(b)
      /\ ReadFields(head, buf) = [ok |-> TRUE, value |-> vh, pos |-> Len(a)]
      /\ SubSeq(buf, Len(a) + 1, Len(buf)) = b
  BY <1>4, <1>7, HeadRead
<1> HIDE DEF vh, a, buf
<1>10. ReadFields(os \o PointersShape, buf) = [ok |-> TRUE, value |-> vh, pos |-> Len(a)]
  <2>1. ReadFields(os \o PointersShape, buf) = ReadFields(head, buf)
    BY <1>4, LenProperties, AlikeRead
  <2> QED BY <1>9, <2>1
<1>11. WriteLobMessage(op, locator, 7, token) = buf
  BY DEF WriteLobMessage, buf, a, b, head, o, p, t
<1>12. read = [ok |-> TRUE, code |-> vp[8], source |-> vp[10], dest |-> vp[11], parts |-> parts]
  <2> DEFINE h == ReadFields(OpeningShape(token) \o PointersShape, buf)
             v == SubSeq(h.value, Len(OpeningShape(token)) + 1, Len(h.value))
             tail == ReadFields(TailShape(v), SubSeq(buf, h.pos + 1, Len(buf)))
  <2>1. h = [ok |-> TRUE, value |-> vh, pos |-> Len(a)]
    BY <1>10 DEF os
  <2>2. h.ok /\ h.value = vh /\ h.pos = Len(a)
    BY <2>1
  <2>3. read = [ok |-> h.ok /\ tail.ok /\ h.pos + tail.pos = Len(buf), code |-> v[8],
                source |-> v[10], dest |-> v[11], parts |-> tail.value]
    BY DEF ReadLobMessage
  <2> HIDE DEF h
  <2>4. v = vp
    BY <1>5, <2>2 DEF os
  <2>5. SubSeq(buf, h.pos + 1, Len(buf)) = b
    BY <1>9, <2>2
  <2>6. tail = [ok |-> TRUE, value |-> parts, pos |-> Len(b)]
    BY <1>8, <2>4, <2>5 DEF ts
  <2>7. tail.ok /\ tail.value = parts /\ tail.pos = Len(b)
    BY <2>6
  <2> HIDE DEF v, tail
  <2>8. (h.ok /\ tail.ok /\ h.pos + tail.pos = Len(buf)) = TRUE
    BY <1>9, <2>2, <2>7
  <2> QED BY <2>3, <2>4, <2>7, <2>8
<1>13. read.ok /\ read.code = op.code /\ read.source = op.source /\ read.dest = op.dest
       /\ read.parts = parts
  BY <1>2, <1>12 DEF Announce
<1> QED BY <1>11, <1>13 DEF LobRequestExact, parts, read

\* An operation by its fields, and one with another value of a field.
Op(a, b, c, d, e, f, g) ==
  [code |-> a, source |-> b, dest |-> c, amount |-> d, dest_length |-> e, send_amount |-> f, data |-> g]

WithCode(op, x) == [op EXCEPT !.code = x]
WithSource(op, x) == [op EXCEPT !.source = x]
WithDest(op, x) == [op EXCEPT !.dest = x]
WithAmount(op, x) == [op EXCEPT !.amount = x]
WithDestLength(op, x) == [op EXCEPT !.dest_length = x]
WithSendAmount(op, x) == [op EXCEPT !.send_amount = x]
WithData(op, x) == [op EXCEPT !.data = x]

LEMMA FieldSet ==
  ASSUME NEW a, NEW b, NEW c, NEW d, NEW e, NEW f, NEW g, NEW x
  PROVE  /\ WithCode(Op(a, b, c, d, e, f, g), x) = Op(x, b, c, d, e, f, g)
         /\ WithSource(Op(a, b, c, d, e, f, g), x) = Op(a, x, c, d, e, f, g)
         /\ WithDest(Op(a, b, c, d, e, f, g), x) = Op(a, b, x, d, e, f, g)
         /\ WithAmount(Op(a, b, c, d, e, f, g), x) = Op(a, b, c, x, e, f, g)
         /\ WithDestLength(Op(a, b, c, d, e, f, g), x) = Op(a, b, c, d, x, f, g)
         /\ WithSendAmount(Op(a, b, c, d, e, f, g), x) = Op(a, b, c, d, e, x, g)
         /\ WithData(Op(a, b, c, d, e, f, g), x) = Op(a, b, c, d, e, f, x)
<1>1. WithCode(Op(a, b, c, d, e, f, g), x) = Op(x, b, c, d, e, f, g)
  BY DEF Op, WithCode
<1>2. WithSource(Op(a, b, c, d, e, f, g), x) = Op(a, x, c, d, e, f, g)
  BY DEF Op, WithSource
<1>3. WithDest(Op(a, b, c, d, e, f, g), x) = Op(a, b, x, d, e, f, g)
  BY DEF Op, WithDest
<1>4. WithAmount(Op(a, b, c, d, e, f, g), x) = Op(a, b, c, x, e, f, g)
  BY DEF Op, WithAmount
<1>5. WithDestLength(Op(a, b, c, d, e, f, g), x) = Op(a, b, c, d, x, f, g)
  BY DEF Op, WithDestLength
<1>6. WithSendAmount(Op(a, b, c, d, e, f, g), x) = Op(a, b, c, d, e, x, g)
  BY DEF Op, WithSendAmount
<1>7. WithData(Op(a, b, c, d, e, f, g), x) = Op(a, b, c, d, e, f, x)
  BY DEF Op, WithData
<1> QED BY <1>1, <1>2, <1>3, <1>4, <1>5, <1>6, <1>7

\* The requests that the constructors of LobOpMessage build are such operations.
IsWrite(code) == code = <<64>>

LEMMA LobRequestsBuilt ==
  ASSUME NEW start \in Numbers(8), NEW amount \in Numbers(8), NEW data \in Seq(Byte)
  PROVE  {LobRead(start, amount), LobWrite(start, data), LobTrimTo(amount), LobGetLength,
          LobGetChunkSize, FileExists, FileOpen, FileClose, FileIsOpen, CreateTemp(start, amount)}
           \subseteq LobRequests
<1> DEFINE Fields == [code : Numbers(4), source : Numbers(8), dest : Numbers(8), amount : Numbers(8),
                      dest_length : Numbers(4), send_amount : BOOLEAN, data : Seq(Byte) \cup {NoBytes}]
<1>0. /\ 1 \in 1..255 /\ 2 \in 1..255 /\ 4 \in 1..255 /\ 8 \in 1..255 /\ 10 \in 1..255 /\ 11 \in 1..255
      /\ 32 \in 1..255 /\ 64 \in 1..255 /\ 0 \in Byte /\ 16 \in Byte
  BY DEF Byte
<1>1. /\ <<1>> \in Numbers(4) /\ <<2>> \in Numbers(4) /\ <<32>> \in Numbers(4) /\ <<64>> \in Numbers(4)
      /\ SESSION \in Numbers(4) /\ SESSION \in Numbers(8) /\ <<11>> \in Numbers(8)
  <2>1. \A b \in 1..255 : <<b>> \in Numbers(4) /\ <<b>> \in Numbers(8)
    BY OneByte
  <2>2. SESSION = <<10>>
    BY DEF SESSION
  <2> QED BY <1>0, <2>1, <2>2, Zenon
<1>2. /\ <<64, 0>> \in Numbers(4) /\ <<8, 0>> \in Numbers(4) /\ <<1, 0>> \in Numbers(4)
      /\ <<2, 0>> \in Numbers(4) /\ <<4, 0>> \in Numbers(4) /\ <<1, 16>> \in Numbers(4)
  <2>1. \A b \in 1..255, c \in Byte : <<b, c>> \in Numbers(4)
    BY TwoBytes
  <2> QED BY <1>0, <2>1, Zenon
<1>3. <<>> \in Numbers(4) /\ <<>> \in Numbers(8) /\ data # NoBytes
  BY NoNumber, NoBytesApart
<1>4. /\ <<1>> # <<64>> /\ <<2>> # <<64>> /\ <<32>> # <<64>> /\ <<64, 0>> # <<64>> /\ <<8, 0>> # <<64>>
      /\ <<1, 0>> # <<64>> /\ <<2, 0>> # <<64>> /\ <<4, 0>> # <<64>> /\ <<1, 16>> # <<64>>
  OBVIOUS
<1>5. /\ LobRead(start, amount) = Op(<<2>>, start, <<>>, amount, <<>>, TRUE, NoBytes)
      /\ LobWrite(start, data) = Op(<<64>>, start, <<>>, <<>>, <<>>, FALSE, data)
      /\ LobTrimTo(amount) = Op(<<32>>, <<>>, <<>>, amount, <<>>, TRUE, NoBytes)
      /\ LobGetLength = Op(<<1>>, <<>>, <<>>, <<>>, <<>>, TRUE, NoBytes)
      /\ LobGetChunkSize = Op(<<64, 0>>, <<>>, <<>>, <<>>, <<>>, TRUE, NoBytes)
      /\ FileExists = Op(<<8, 0>>, <<>>, <<>>, <<>>, <<>>, FALSE, NoBytes)
      /\ FileOpen = Op(<<1, 0>>, <<>>, <<>>, <<11>>, <<>>, TRUE, NoBytes)
      /\ FileClose = Op(<<2, 0>>, <<>>, <<>>, <<>>, <<>>, FALSE, NoBytes)
      /\ FileIsOpen = Op(<<4, 0>>, <<>>, <<>>, <<>>, <<>>, FALSE, NoBytes)
      /\ CreateTemp(start, amount) = Op(<<1, 16>>, start, amount, SESSION, SESSION, TRUE, NoBytes)
  <2> DEFINE yes == TRUE
             no == FALSE
             none == <<>>
  <2> HIDE DEF yes, no, none
  <2>0. NoLobOp = Op(none, none, none, none, none, no, NoBytes)
    BY DEF NoLobOp, Op, none, no
  <2>1. LobRead(start, amount) = Op(<<2>>, start, none, amount, none, yes, NoBytes)
    <3>1. LobRead(start, amount)
            = WithSendAmount(WithAmount(WithSource(WithCode(NoLobOp, <<2>>), start), amount), yes)
      BY DEF LobRead, WithCode, WithSource, WithAmount, WithSendAmount, yes
    <3> QED BY <2>0, <3>1, FieldSet
  <2>2. LobWrite(start, data) = Op(<<64>>, start, none, none, none, no, data)
    <3>1. LobWrite(start, data)
            = WithData(WithSource(WithCode(NoLobOp, <<64>>), start), data)
      BY DEF LobWrite, WithCode, WithSource, WithData
    <3> QED BY <2>0, <3>1, FieldSet
  <2>3. LobTrimTo(amount) = Op(<<32>>, none, none, amount, none, yes, NoBytes)
    <3>1. LobTrimTo(amount)
            = WithSendAmount(WithAmount(WithCode(NoLobOp, <<32>>), amount), yes)
      BY DEF LobTrimTo, WithCode, WithAmount, WithSendAmount, yes
    <3> QED BY <2>0, <3>1, FieldSet
  <2>4. LobGetLength = Op(<<1>>, none, none, none, none, yes, NoBytes)
    <3>1. LobGetLength
            = WithSendAmount(WithCode(NoLobOp, <<1>>), yes)
      BY DEF LobGetLength, WithCode, WithSendAmount, yes
    <3> QED BY <2>0, <3>1, FieldSet
  <2>5. LobGetChunkSize = Op(<<64, 0>>, none, none, none, none, yes, NoBytes)
    <3>1. LobGetChunkSize
            = WithSendAmount(WithCode(NoLobOp, <<64, 0>>), yes)
      BY DEF LobGetChunkSize, WithCode, WithSendAmount, yes
    <3> QED BY <2>0, <3>1, FieldSet
  <2>6. FileExists = Op(<<8, 0>>, none, none, none, none, no, NoBytes)
    <3>1. FileExists
            = WithCode(NoLobOp, <<8, 0>>)
      BY DEF FileExists, WithCode
    <3> QED BY <2>0, <3>1, FieldSet
  <2>7. FileOpen = Op(<<1, 0>>, none, none, <<11>>, none, yes, NoBytes)
    <3>1. FileOpen
            = WithSendAmount(WithAmount(WithCode(NoLobOp, <<1, 0>>), <<11>>), yes)
      BY DEF FileOpen, WithCode, WithAmount, WithSendAmount, yes
    <3> QED BY <2>0, <3>1, FieldSet
  <2>8. FileClose = Op(<<2, 0>>, none, none, none, none, no, NoBytes)
    <3>1. FileClose
            = WithCode(NoLobOp, <<2, 0>>)
      BY DEF FileClose, WithCode
    <3> QED BY <2>0, <3>1, FieldSet
  <2>9. FileIsOpen = Op(<<4, 0>>, none, none, none, none, no, NoBytes)
    <3>1. FileIsOpen
            = WithCode(NoLobOp, <<4, 0>>)
      BY DEF FileIsOpen, WithCode
    <3> QED BY <2>0, <3>1, FieldSet
  <2>10. CreateTemp(start, amount) = Op(<<1, 16>>, start, amount, SESSION, SESSION, yes, NoBytes)
    <3>1. CreateTemp(start, amount)
            = WithSendAmount(WithDestLength(WithAmount(WithDest(WithSource(WithCode(NoLobOp,
                <<1, 16>>), start), amount), SESSION), SESSION), yes)
      BY DEF CreateTemp, WithCode, WithSource, WithDest, WithAmount, WithDestLength, WithSendAmount, yes
    <3> QED BY <2>0, <3>1, FieldSet
  <2> QED BY <2>1, <2>2, <2>3, <2>4, <2>5, <2>6, <2>7, <2>8, <2>9, <2>10 DEF yes, no, none
<1>6. ASSUME NEW code \in Numbers(4), NEW source \in Numbers(8), NEW dest \in Numbers(8),
             NEW number \in Numbers(8), NEW length \in Numbers(4), NEW sends \in BOOLEAN,
             NEW bytes \in Seq(Byte) \cup {NoBytes}, bytes # NoBytes <=> IsWrite(code)
      PROVE  Op(code, source, dest, number, length, sends, bytes) \in LobRequests
  BY <1>6 DEF LobRequests, Op, IsWrite
<1>7. /\ Op(<<2>>, start, <<>>, amount, <<>>, TRUE, NoBytes) \in LobRequests
      /\ Op(<<64>>, start, <<>>, <<>>, <<>>, FALSE, data) \in LobRequests
      /\ Op(<<32>>, <<>>, <<>>, amount, <<>>, TRUE, NoBytes) \in LobRequests
  BY <1>1, <1>3, <1>4, <1>6 DEF IsWrite
<1>8. /\ Op(<<1>>, <<>>, <<>>, <<>>, <<>>, TRUE, NoBytes) \in LobRequests
      /\ Op(<<64, 0>>, <<>>, <<>>, <<>>, <<>>, TRUE, NoBytes) \in LobRequests
      /\ Op(<<8, 0>>, <<>>, <<>>, <<>>, <<>>, FALSE, NoBytes) \in LobRequests
  BY <1>1, <1>2, <1>3, <1>4, <1>6 DEF IsWrite
<1>9. /\ Op(<<1, 0>>, <<>>, <<>>, <<11>>, <<>>, TRUE, NoBytes) \in LobRequests
      /\ Op(<<2, 0>>, <<>>, <<>>, <<>>, <<>>, FALSE, NoBytes) \in LobRequests
  BY <1>1, <1>2, <1>3, <1>4, <1>6 DEF IsWrite
<1>10. /\ Op(<<4, 0>>, <<>>, <<>>, <<>>, <<>>, FALSE, NoBytes) \in LobRequests
       /\ Op(<<1, 16>>, start, amount, SESSION, SESSION, TRUE, NoBytes) \in LobRequests
  BY <1>1, <1>2, <1>3, <1>4, <1>6 DEF IsWrite
<1>11. /\ LobRead(start, amount) \in LobRequests /\ LobWrite(start, data) \in LobRequests
       /\ LobTrimTo(amount) \in LobRequests /\ LobGetLength \in LobRequests
       /\ LobGetChunkSize \in LobRequests /\ FileExists \in LobRequests /\ FileOpen \in LobRequests
       /\ FileClose \in LobRequests /\ FileIsOpen \in LobRequests
       /\ CreateTemp(start, amount) \in LobRequests
  BY <1>5, <1>7, <1>8, <1>9, <1>10, Zenon
<1> QED BY <1>11, Zenon

----------------------------------------------------------------------------
(***************************************************************************)
(* Whatever calls are made, their requests announce what they contain, the *)
(* metadata fit the values, and the values are framed: for rows of any     *)
(* number and width with one schema and any parameters of PL/SQL calls, of *)
(* the values of BindsAlwaysFit (the others are declared or written in     *)
(* forms that are not read back); and for LOB operations with offsets and  *)
(* sizes of up to eight bytes, any data, and locators of any length that a *)
(* ub4 holds.                                                              *)
(***************************************************************************)
THEOREM RequestsAlwaysExact ==
  ASSUME ChunkSize \in UInt32 \ {0},
         \A v \in Samples["request"] :
           \E n \in Nat, cursor_id \in Nat \ {0}, prefetch \in Nat :
             \E rows \in RowsOf(n, BindValues), params \in Seq(PlsqlParams) :
               /\ OneSchema(rows)
               /\ v \in Requests(rows, cursor_id, prefetch) \cup {PlsqlRequest(params)},
         \A v \in Samples["lobRequest"] :
           v.op \in LobRequests /\ v.locator \in Seq(Byte) /\ Len(v.locator) \in UInt32 /\ v.token \in BOOLEAN
  PROVE  Spec => RequestsConsistent
<1> DEFINE Exact ==
             /\ Sample("request",
                       LAMBDA v : RequestConsistent(v) /\ MetadataFits(v) /\ ValuesFramed(v))
             /\ Sample("lobRequest", LAMBDA v : LobRequestExact(v.op, v.locator, v.token))
<1>1. ASSUME SampleKinds, [Next]_vars PROVE [Exact]_sample
  <2> SUFFICES ASSUME sample' # sample PROVE Exact
    OBVIOUS
  <2> DEFINE v == sample'.value
  <2>0. v \in Samples[sample'.kind]
    BY <1>1, SampleTaken
  <2>1. ASSUME sample'.kind = "request"
        PROVE  RequestConsistent(v) /\ MetadataFits(v) /\ ValuesFramed(v)
    <3>1. v \in Samples["request"]
      BY <2>0, <2>1
    <3> HIDE DEF v
    <3>2. PICK n \in Nat, cursor_id \in Nat \ {0}, prefetch \in Nat :
            \E rows \in RowsOf(n, BindValues), params \in Seq(PlsqlParams) :
              /\ OneSchema(rows)
              /\ v \in Requests(rows, cursor_id, prefetch) \cup {PlsqlRequest(params)}
      BY <3>1
    <3>3. PICK rows \in RowsOf(n, BindValues), params \in Seq(PlsqlParams) :
            /\ OneSchema(rows)
            /\ v \in Requests(rows, cursor_id, prefetch) \cup {PlsqlRequest(params)}
      BY <3>2
    <3>4. RequestConsistent(v)
      BY <3>3, RequestsAlwaysConsistent
    <3>5. MetadataFits(v) /\ ValuesFramed(v)
      BY <3>3, BindsAlwaysFit
    <3> QED BY <3>4, <3>5
  <2>2. ASSUME sample'.kind = "lobRequest" PROVE LobRequestExact(v.op, v.locator, v.token)
    <3>1. v.op \in LobRequests /\ v.locator \in Seq(Byte) /\ Len(v.locator) \in UInt32 /\ v.token \in BOOLEAN
      BY <2>0, <2>2
    <3> HIDE DEF v
    <3> QED BY <3>1, LobRequestsAlwaysExact
  <2> QED BY <2>1, <2>2 DEF Sample
<1> QED BY <1>1, SampleKindsAlways, PTL DEF Spec, RequestsConsistent
=============================================================================
