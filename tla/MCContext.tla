----------------------------- MODULE MCContext -----------------------------
(* Instances of Context for TLC: the sets of calls.  There is no symmetry   *)
(* set, since the run checks liveness.                                      *)
EXTENDS Context

AllOps == {"body", "own", "resp"}
RespOps == {"resp"}
=============================================================================
