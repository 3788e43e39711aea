------------------------------ MODULE MCEngine ------------------------------
(* Instances of Engine for TLC: one control, whose handlers are registered  *)
(* with limits or without.  Users and connections are alike, but the run    *)
(* checks liveness and uses no symmetry.                                    *)
EXTENDS Engine

CONSTANT k1

OnlyControl == {k1}
AllOfOne == [h \in Handlers |-> k1]
AllAskOne == [c \in Clients |-> k1]
=============================================================================
