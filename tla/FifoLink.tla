------------------------------ MODULE FifoLink ------------------------------
(***************************************************************************)
(* What a pair of Messagers promises its users: each direction hands the   *)
(* messages it accepted to the other side one by one, in the order it      *)
(* accepted them, none skipped and none twice.  It may stop anywhere (a    *)
(* side was stopped, the connection broke); then nothing later gets        *)
(* through either.  A direction is named by the side that sends.           *)
(***************************************************************************)
EXTENDS Naturals, Sequences

CONSTANTS Sides, Msgs

VARIABLES
  accepted,  \* messages the Messager of a side took, in order
  passed     \* those of them that came out at the other end

vars == <<accepted, passed>>

Init ==
  /\ accepted = [p \in Sides |-> <<>>]
  /\ passed = [p \in Sides |-> <<>>]

Take(p) == \E m \in Msgs : accepted' = [accepted EXCEPT ![p] = Append(@, m)]

Accept(p) == Take(p) /\ UNCHANGED passed

\* The receiver may answer what it gets in the same step (a heart).
Pass(p) ==
  /\ Len(passed[p]) < Len(accepted[p])
  /\ passed' = [passed EXCEPT ![p] = Append(@, accepted[p][Len(@) + 1])]
  /\ UNCHANGED accepted \/ \E q \in Sides \ {p} : Take(q)

Next == \E p \in Sides : Accept(p) \/ Pass(p)

Spec == Init /\ [][Next]_vars
=============================================================================
