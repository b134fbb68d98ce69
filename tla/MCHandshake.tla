---------------------------- MODULE MCHandshake ----------------------------
(***************************************************************************)
(* Handshake for TLC: servers of every generation that the code tells      *)
(* apart, genuine or not.                                                  *)
(***************************************************************************)
EXTENDS Handshake

Generations ==
  [version : {314, 315, 318, 319}, na_required : BOOLEAN, attention : BOOLEAN,
   fast_auth : BOOLEAN, end_of_response : BOOLEAN, field : {7, 17, 24},
   verifier : {"V12C", "V11G", "unsupported", "missing"}, genuine : BOOLEAN,
   password_ok : BOOLEAN]

\* One reason to fail at a time: the rest of such a server is never looked at.
Servers ==
  {g \in Generations :
     /\ g.version = 314 \/ g.na_required =>
          g.fast_auth /\ g.attention /\ g.end_of_response /\ g.field = 24
     /\ g.verifier \notin {"V12C", "V11G"} => ~g.na_required /\ g.version = 319
     /\ ~g.genuine => g.password_ok}
=============================================================================
