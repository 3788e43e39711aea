--------------------------- MODULE ContextPromise ---------------------------
(***************************************************************************)
(* What the Context of one request promises to the code that uses it,      *)
(* whoever calls it and however the calls interleave.  The body is settled *)
(* once: its value is then either missing or BodyLen bytes and stays what  *)
(* it is, so the reference get_bodys returns stays good.  The stream is    *)
(* handed over at most once, and only after the body was settled.  The     *)
(* mark that a response was begun is never withdrawn.                      *)
(***************************************************************************)
EXTENDS Naturals, Sequences

CONSTANT BodyLen

VARIABLES settled, value, stream, answered

vars == <<settled, value, stream, answered>>

Missing == <<>>

Init ==
  /\ settled = FALSE /\ value = Missing
  /\ stream = "open" /\ answered = FALSE

Settle ==
  /\ ~settled /\ stream = "open"
  /\ settled' = TRUE
  /\ value' \in Seq(Nat) /\ Len(value') \in {0, BodyLen}
  /\ UNCHANGED <<stream, answered>>

HandOver ==
  /\ settled /\ stream = "open"
  /\ stream' = "owned"
  /\ UNCHANGED <<settled, value, answered>>

Answer ==
  /\ ~answered
  /\ answered' = TRUE
  /\ UNCHANGED <<settled, value, stream>>

Next == Settle \/ HandOver \/ Answer

Spec == Init /\ [][Next]_vars
=============================================================================
