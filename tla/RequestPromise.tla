--------------------------- MODULE RequestPromise ---------------------------
(***************************************************************************)
(* What a Request promises to its user, however often dors, donrs and res  *)
(* are called and wherever the calls fail.  It is executed at most once,   *)
(* after it was sent; the execution gives at most one answer; at most one  *)
(* Response is returned, with the body length of that answer as the header *)
(* can express it; and the body of the Response is settled at most once.   *)
(***************************************************************************)
EXTENDS Naturals

CONSTANTS
  Places,  \* where a Request may be executed
  Sizes,   \* sizes of the body of an answer
  Width    \* sizes from Width on are truncated

VARIABLES
  asked,     \* it was sent
  executed,  \* where it was executed: one place at most
  answered,  \* the answer of an execution: <<place, size>>
  reply,     \* the Response: <<place, size>>
  body       \* its body: "unread", or settled

vars == <<asked, executed, answered, reply, body>>

Init ==
  /\ asked = FALSE /\ executed = {} /\ answered = {} /\ reply = {}
  /\ body = "unread"

Ask ==
  /\ ~asked /\ asked' = TRUE
  /\ UNCHANGED <<executed, answered, reply, body>>

Execute ==
  /\ asked /\ executed = {}
  /\ \E p \in Places : executed' = {p}
  /\ UNCHANGED <<asked, answered, reply, body>>

Answer ==
  /\ answered = {}
  /\ \E p \in executed, n \in Sizes : answered' = {<<p, n>>}
  /\ UNCHANGED <<asked, executed, reply, body>>

Deliver ==
  /\ reply = {}
  /\ \E a \in answered : reply' = {<<a[1], a[2] % Width>>}
  /\ UNCHANGED <<asked, executed, answered, body>>

Settle ==
  /\ reply # {} /\ body = "unread" /\ body' \in {"none", "has"}
  /\ UNCHANGED <<asked, executed, answered, reply>>

Next == Ask \/ Execute \/ Answer \/ Deliver \/ Settle

Spec == Init /\ [][Next]_vars
=============================================================================
