---------------------------- MODULE MCFfiSession ----------------------------
(***************************************************************************)
(* FfiSession for TLC: an empty result, and one of three rows, the last of *)
(* them NULL, which a buffer of two slots holds only by wrapping.          *)
(***************************************************************************)
EXTENDS FfiSession

MCResults == {<<>>, <<[lob |-> "a", txt |-> 3], [lob |-> "b", txt |-> 1],
                      [lob |-> NULL, txt |-> NULL]>>}

=============================================================================
