------------------------ MODULE MCStatementExecution ------------------------
(***************************************************************************)
(* StatementExecution for TLC: queries whose results end inside a batch,   *)
(* on its boundary and after it, an update and a DDL statement.            *)
(***************************************************************************)
EXTENDS StatementExecution, TLC

Texts == {"short", "full", "longer", "update", "create"}
Kinds == [s \in Texts |-> CASE s = "update" -> "dml" [] s = "create" -> "ddl"
                            [] OTHER -> "query"]
Rows == [s \in Texts |-> CASE s = "short" -> 1 [] s = "full" -> 2 [] s = "longer" -> 5
                           [] OTHER -> 0]

TaskSymmetry == Permutations(Tasks)
=============================================================================
