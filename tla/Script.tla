------------------------------- MODULE Script -------------------------------
(***************************************************************************)
(* run_script of sqlrs: lines are commands, or are gathered in a buffer    *)
(* until a statement is complete; SQL ends with a line that ends in a      *)
(* semicolon, a PL/SQL block with a line that holds only a slash.          *)
(*                                                                         *)
(* The script (external) is written as the splitter expects it: a block    *)
(* has no comment line in front of it, and a slash ends only blocks.       *)
(***************************************************************************)
EXTENDS Integers, Sequences

CONSTANTS
  MaxUnits,    \* bound: statements in the script
  MaxLines,    \* bound: lines of a statement
  MaxCommands, \* bound: commands that change the session
  MaxOutput    \* bound: DBMS_OUTPUT lines of one statement

ASSUME ScriptConstants == {MaxUnits, MaxLines, MaxCommands, MaxOutput} \subseteq Nat

VARIABLES
  text,    \* the script: [mode, unit, lines, commands]: what was written so far
  sqlrs,   \* SqlRs and the locals of run_script
  output,  \* server: is DBMS_OUTPUT enabled, its lines not yet read; history: are they owed
  ran      \* history: statements executed, and the lines of the last one

scriptVars == <<text, sqlrs, output, ran>>

Commands == {"SERVEROUTPUT_ON", "SERVEROUTPUT_OFF", "WHENEVER_CONTINUE",
             "WHENEVER_EXIT", "VAR", "PRINT", "ASSIGN", "EXEC", "COMMIT"}

ScriptInit ==
  /\ text = [mode |-> "top", unit |-> 0, lines |-> 0, commands |-> 0]
  /\ sqlrs = [buffer |-> <<>>, block_mode |-> FALSE, step |-> "read", serveroutput |-> FALSE,
              continue_on_error |-> FALSE, var |-> "undeclared"]
  /\ output = [enabled |-> FALSE, lines |-> 0, owed |-> FALSE]
  /\ ran = [count |-> 0, lines |-> <<>>]

----------------------------------------------------------------------------
\* The script (external): the lines that may come next

\* [what the line is, the mode of the text behind it]
Lines ==
  CASE text.mode = "top" -> {<<"blank", "top">>, <<"end_sql", "top">>, <<"sql", "sql">>,
                             <<"block", "block">>}
    [] text.mode = "sql" -> {<<"blank", "sql">>, <<"sql", "sql">>, <<"command", "sql">>,
                             <<"block", "sql">>, <<"end_sql", "top">>}
    [] text.mode = "block" -> {<<"blank", "block">>, <<"end_sql", "block">>,
                               <<"command", "block">>, <<"slash", "top">>}
    [] OTHER -> {}

StartsUnit(x) == text.mode = "top" /\ x # "blank"

Written(x, mode) ==
  /\ StartsUnit(x) => text.unit < MaxUnits
  /\ text.mode # "top" /\ mode # "top" => text.lines < MaxLines
  /\ text' = [text EXCEPT !.mode = mode,
                          !.unit = IF StartsUnit(x) THEN @ + 1 ELSE @,
                          !.lines = IF StartsUnit(x) THEN 1
                                    ELSE IF text.mode = "top" \/ x = "slash" THEN @ ELSE @ + 1]

----------------------------------------------------------------------------
\* Statements

(***************************************************************************)
(* Any statement may write lines, a failing one and SQL through the        *)
(* triggers and functions it calls too (external).  They are owed to the   *)
(* reader of the output when it is PL/SQL that succeeds with SERVEROUTPUT  *)
(* ON.                                                                     *)
(***************************************************************************)
Writes(owed) ==
  \E n \in 0..MaxOutput :
    /\ n > 0 => output.enabled
    /\ output' = [output EXCEPT !.lines = @ + n, !.owed = owed]

\* The arms of execute_statement: only Execution::Plsql goes on to drain_dbms_output.
Succeeds(rs, plsql) ==
  /\ Writes(plsql /\ rs.serveroutput)
  /\ sqlrs' = [rs EXCEPT !.step = IF plsql /\ rs.serveroutput THEN "drain" ELSE "read"]

\* handle_statement_error
StatementFails(rs) ==
  /\ Writes(FALSE)
  /\ sqlrs' = [rs EXCEPT !.step = IF rs.continue_on_error THEN "read" ELSE "stopped"]

\* execute_statement of the buffer with the line x, which is empty for a slash.
ExecuteStatement(lines, plsql) ==
  /\ ran' = [count |-> ran.count + 1, lines |-> lines]
  /\ LET rs == [sqlrs EXCEPT !.buffer = <<>>, !.block_mode = FALSE]
     IN  StatementFails(rs) \/ Succeeds(rs, plsql)

\* A block is anonymous, or a CREATE, which without binds is DML to execute_statement.
ExecuteBuffer ==
  \E plsql \in {sqlrs.block_mode, FALSE} : ExecuteStatement(sqlrs.buffer, plsql)

\* Mutant: a line that looks like a command is one inside a statement too.
TakenForCommandAnywhere(x) == x = "command"

\* handle_command is tried only when no statement is under way.
TakenForCommand(x) == x = "command" /\ sqlrs.buffer = <<>>

\* The line numbered next of the unit under way, as the buffer keeps it.
Line(x) == [unit |-> IF StartsUnit(x) THEN text.unit + 1 ELSE text.unit,
            k |-> IF StartsUnit(x) THEN 1 ELSE text.lines + 1]

\* One turn of the loop of run_script for a line that is no command.
ReadLine(x, mode) ==
  /\ sqlrs.step = "read"
  /\ Written(x, mode)
  /\ LET block == sqlrs.block_mode \/ (sqlrs.buffer = <<>> /\ x = "block")
         lines == Append(sqlrs.buffer, Line(x))
     IN  CASE sqlrs.buffer = <<>> /\ x = "blank" -> UNCHANGED <<sqlrs, output, ran>>
           [] TakenForCommand(x) -> UNCHANGED <<sqlrs, output, ran>>
           [] x = "slash" /\ sqlrs.block_mode -> ExecuteBuffer
           [] ~block /\ x = "end_sql" -> ExecuteStatement(lines, FALSE)
           [] OTHER -> /\ sqlrs' = [sqlrs EXCEPT !.buffer = lines, !.block_mode = block]
                       /\ UNCHANGED <<output, ran>>

\* Lines of the last statement without its end are executed as they are.
EndOfScript ==
  /\ sqlrs.step = "read"
  /\ text' = [text EXCEPT !.mode = "end"]
  /\ IF sqlrs.buffer = <<>>
     THEN sqlrs' = [sqlrs EXCEPT !.step = "stopped"] /\ UNCHANGED <<output, ran>>
     ELSE ExecuteBuffer

----------------------------------------------------------------------------
\* Commands

\* The status of DBMS_OUTPUT.GET_LINE says that there was no line.
StatusEnds(n) == n = 0

(***************************************************************************)
(* One turn of drain_dbms_output; an error of the call ends the script     *)
(* whatever WHENEVER says.                                                 *)
(***************************************************************************)
DrainDbmsOutput ==
  /\ sqlrs.step = "drain"
  /\ \/ /\ sqlrs' = IF StatusEnds(output.lines)
                    THEN [sqlrs EXCEPT !.step = "read"] ELSE sqlrs
        /\ output' = [output EXCEPT !.lines = IF @ = 0 THEN 0 ELSE @ - 1]
     \/ /\ sqlrs' = [sqlrs EXCEPT !.step = "stopped"]
        /\ UNCHANGED output
  /\ UNCHANGED <<text, ran>>

\* SET SERVEROUTPUT; enabling may fail, which is ignored.
HandleSet(on) ==
  /\ sqlrs' = [sqlrs EXCEPT !.serveroutput = on]
  /\ \/ on /\ output' = [output EXCEPT !.enabled = TRUE]
     \/ UNCHANGED output

\* WHENEVER SQLERROR
HandleWhenever(continue) ==
  /\ sqlrs' = [sqlrs EXCEPT !.continue_on_error = continue]
  /\ UNCHANGED output

\* A command that cannot be read ends the script whatever WHENEVER says, as does PRINT of
\* a variable that is not declared.
Malformed ==
  /\ sqlrs' = [sqlrs EXCEPT !.step = "stopped"]
  /\ UNCHANGED output

\* VAR gives the variable no value.
Variable(c) ==
  /\ \/ c = "VAR" /\ sqlrs' = [sqlrs EXCEPT !.var = "none"]
     \/ c = "ASSIGN" /\ sqlrs' = [sqlrs EXCEPT !.var = "assigned"]
     \/ c = "PRINT" /\ sqlrs.var # "undeclared" /\ UNCHANGED sqlrs
  /\ UNCHANGED output

\* Mutant: EXEC does not drain.
ExecutePlsqlCallUndrained ==
  \/ StatementFails(sqlrs)
  \/ Writes(sqlrs.serveroutput) /\ sqlrs' = [sqlrs EXCEPT !.var = "out"]

\* EXEC of a procedure with the variable as its argument: IN OUT, or OUT without a value.
ExecutePlsqlCall == StatementFails(sqlrs) \/ Succeeds([sqlrs EXCEPT !.var = "out"], TRUE)

HandleCommand(c) ==
  /\ sqlrs.step = "read" /\ sqlrs.buffer = <<>> /\ text.mode = "top"
  /\ text.commands < MaxCommands
  /\ text' = [text EXCEPT !.commands = @ + 1]
  /\ \/ c = "SERVEROUTPUT_ON" /\ HandleSet(TRUE)
     \/ c = "SERVEROUTPUT_OFF" /\ HandleSet(FALSE)
     \/ c = "WHENEVER_CONTINUE" /\ HandleWhenever(TRUE)
     \/ c = "WHENEVER_EXIT" /\ HandleWhenever(FALSE)
     \/ c \in {"VAR", "ASSIGN", "PRINT"} /\ Variable(c)
     \/ c = "EXEC" /\ ExecutePlsqlCall
     \/ c \in {"VAR", "ASSIGN", "EXEC"} /\ Malformed
     \/ c = "PRINT" /\ sqlrs.var = "undeclared" /\ Malformed
     \/ c = "COMMIT" /\ (StatementFails(sqlrs) \/ Succeeds(sqlrs, FALSE))
  /\ UNCHANGED ran

ScriptNext ==
  \/ \E l \in Lines : ReadLine(l[1], l[2])
  \/ \E c \in Commands : HandleCommand(c)
  \/ DrainDbmsOutput \/ EndOfScript

ScriptSpec == ScriptInit /\ [][ScriptNext]_scriptVars

----------------------------------------------------------------------------
\* Properties

\* The session and the script have their types.
ScriptTypeOK ==
  /\ sqlrs.step \in {"read", "drain", "stopped"}
  /\ sqlrs.block_mode \in BOOLEAN /\ sqlrs.var \in {"undeclared", "none", "assigned", "out"}
  /\ output.lines \in Nat
  /\ text.mode \in {"top", "sql", "block", "end"}

(***************************************************************************)
(* Every statement of the script is executed, once, as soon as it is       *)
(* complete and with all of its lines and no others: blank lines, lines    *)
(* that look like commands and lines that end in a semicolon belong to the *)
(* block they stand in.                                                    *)
(***************************************************************************)
StatementsWhole ==
  sqlrs.step = "read" /\ text.mode = "top" =>
    /\ ran.count = text.unit
    /\ ran.lines = [i \in DOMAIN ran.lines |-> [unit |-> text.unit, k |-> i]]
    /\ text.unit > 0 => Len(ran.lines) = text.lines

(***************************************************************************)
(* When sqlrs reads the next line of the script behind PL/SQL, a block or  *)
(* an EXEC, that succeeded with SERVEROUTPUT ON, it has shown every line   *)
(* of the server's DBMS_OUTPUT buffer: those of the block, and those that  *)
(* statements before it left there, which failed, were no PL/SQL or ran    *)
(* with SERVEROUTPUT OFF.                                                  *)
(***************************************************************************)
OutputDrained == sqlrs.step = "read" /\ output.owed => output.lines = 0
=============================================================================
