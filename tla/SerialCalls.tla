---------------------------- MODULE SerialCalls ----------------------------
(***************************************************************************)
(* What a shared connection promises to its callers: calls are served one  *)
(* at a time, a call gets the answer to itself or none at all, and once    *)
(* the connection is dead no call is answered any more.                    *)
(***************************************************************************)
EXTENDS Naturals

CONSTANTS Tasks, NoTask, Calls

VARIABLES
  alive,    \* the connection can still answer
  serving,  \* the task being served, or NoTask
  call,     \* call[t]: the current call of t
  answer    \* answer[t]: the call whose answer t has in its hands, or 0

vars == <<alive, serving, call, answer>>

Init ==
  /\ alive = TRUE
  /\ serving = NoTask
  /\ call = [t \in Tasks |-> 0]
  /\ answer = [t \in Tasks |-> 0]

\* t makes another call; if it was being served it may let others go first.
Make(t, c) ==
  /\ call' = [call EXCEPT ![t] = c]
  /\ answer' = [answer EXCEPT ![t] = 0]
  /\ serving' \in IF serving = t THEN {t, NoTask} ELSE {serving}
  /\ UNCHANGED alive

Serve(t) ==
  /\ serving = NoTask
  /\ serving' = t
  /\ UNCHANGED <<alive, call, answer>>

Answer(t) ==
  /\ alive /\ serving = t /\ answer[t] = 0
  /\ answer' = [answer EXCEPT ![t] = call[t]]
  /\ UNCHANGED <<alive, serving, call>>

\* t is done with the connection, answered or not; a failure may be its end.
Leave(t) ==
  /\ serving \in {t, NoTask}
  /\ serving' = NoTask
  /\ alive' \in {alive, FALSE}
  /\ UNCHANGED <<call, answer>>

\* The caller consumes its answer.
Consume(t) ==
  /\ serving # t
  /\ answer' = [answer EXCEPT ![t] = 0]
  /\ UNCHANGED <<alive, serving, call>>

Next ==
  \E t \in Tasks :
    \/ \E c \in Calls : Make(t, c)
    \/ Serve(t) \/ Answer(t) \/ Leave(t) \/ Consume(t)

Spec == Init /\ [][Next]_vars
=============================================================================
