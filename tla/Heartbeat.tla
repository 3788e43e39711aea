------------------------------ MODULE Heartbeat ------------------------------
(***************************************************************************)
(* The heartbeat of two Messagers (socks/tcp/msger.rs), in discrete time.  *)
(* The loop of run() calls run_check, which stops the Messager when it     *)
(* heard nothing for Timeout, and at the client sends a heart every        *)
(* Period; on_msg resets the timer and at the server answers.  The loop is *)
(* not punctual: run_check waits for room in the channel (at most          *)
(* SendWait), for on_check of the user (at most CheckWait), and the loop   *)
(* sleeps Pause between two checks.                                        *)
(*                                                                         *)
(* What lies between the channel of one end and on_msg of the other, the   *)
(* tasks and the connection of module Messager, is here a delay of at most *)
(* Delay (external), or a loss.                                            *)
(***************************************************************************)
EXTENDS Integers

CONSTANTS
  Period,     \* of ctms: 20 s
  Timeout,    \* of ctmout: 30 s
  SendWait,   \* 3 s
  CheckWait,  \* 5 s
  Pause,      \* 100 ms, and what the scheduler adds
  Delay       \* from the channel of an end to on_msg of the other

ASSUME HeartbeatAssumption ==
  /\ Period \in Nat \ {0} /\ Timeout \in Nat \ {0}
  /\ SendWait \in Nat /\ CheckWait \in Nat /\ Pause \in Nat /\ Delay \in Nat

Ends == {"cli", "srv"}

VARIABLES
  place,    \* where run() of an end is
  spent,    \* the time it has been there
  since,    \* the time on its ctmout
  tick,     \* the time on ctms of the client
  hearts,   \* hearts on their way to the server, by age
  replies,  \* hearts on their way back, by age
  lost      \* history: a channel was full or a message was lost

vars == <<place, spent, since, tick, hearts, replies, lost>>

\* The timer of the client runs since Messager::new, run() was called later;
\* the server runs for at most Delay when the client starts.
Init ==
  /\ place = [p \in Ends |-> "check"] /\ spent = [p \in Ends |-> 0]
  /\ since \in [Ends -> 0..Delay] /\ since["cli"] = 0
  /\ tick \in 0..Period
  /\ hearts = {} /\ replies = {} /\ lost = FALSE

\* The longest run() can be at a place; a check is instantaneous.
LongestAt ==
  [check |-> 0, send |-> SendWait, on_check |-> CheckWait, sleep |-> Pause]

Older(ages) == {a + 1 : a \in ages}

\* Time passes, unless something is due.
Tick ==
  /\ \A p \in Ends : place[p] # "stopped" => spent[p] < LongestAt[place[p]]
  /\ \A a \in hearts \union replies : a < Delay
  /\ spent' = [p \in Ends |-> IF place[p] = "stopped" THEN 0 ELSE spent[p] + 1]
  /\ since' = [p \in Ends |-> IF place[p] = "stopped" THEN 0 ELSE since[p] + 1]
  /\ tick' = IF place["cli"] = "stopped" THEN 0 ELSE tick + 1
  /\ hearts' = Older(hearts) /\ replies' = Older(replies)
  /\ UNCHANGED <<place, lost>>

GoTo(p, l) ==
  place' = [place EXCEPT ![p] = l] /\ spent' = [spent EXCEPT ![p] = 0]

\* Mutant: the timeout is looked at by the client only.
TimedOutClient(p) == p = "cli" /\ since[p] >= Timeout

TimedOut(p) == since[p] >= Timeout

\* run_check: nothing was heard for too long.
CheckTimeout(p) ==
  /\ place[p] = "check" /\ TimedOut(p)
  /\ GoTo(p, "stopped")
  /\ UNCHANGED <<since, tick, hearts, replies, lost>>

\* run_check of a client: ctms.tick() resets the timer when it is over.
CheckTick ==
  /\ place["cli"] = "check" /\ ~TimedOut("cli") /\ tick >= Period
  /\ tick' = 0
  /\ GoTo("cli", "send")
  /\ UNCHANGED <<since, hearts, replies, lost>>

\* Mutant: a server sends hearts as well.
CheckOnlyServ(p) ==
  /\ place[p] = "check" /\ ~TimedOut(p)
  /\ p = "cli" => tick < Period
  /\ GoTo(p, IF p = "srv" THEN "send" ELSE "on_check")
  /\ UNCHANGED <<since, tick, hearts, replies, lost>>

\* run_check without a heart to send.
CheckOnly(p) ==
  /\ place[p] = "check" /\ ~TimedOut(p)
  /\ p = "cli" => tick < Period
  /\ GoTo(p, "on_check")
  /\ UNCHANGED <<since, tick, hearts, replies, lost>>

\* The channel has room for the heart ...
HeartSend ==
  /\ place["cli"] = "send"
  /\ hearts' = hearts \union {0}
  /\ GoTo("cli", "on_check")
  /\ UNCHANGED <<since, tick, replies, lost>>

\* ... or has none in time, and the heart is dropped.
HeartDrop ==
  /\ place["cli"] = "send" /\ spent["cli"] = SendWait
  /\ GoTo("cli", "on_check")
  /\ lost' = TRUE
  /\ UNCHANGED <<since, tick, hearts, replies>>

\* on_check returns, or runs into its timeout.
OnCheckEnd(p) ==
  /\ place[p] = "on_check"
  /\ GoTo(p, "sleep")
  /\ UNCHANGED <<since, tick, hearts, replies, lost>>

SleepEnd(p) ==
  /\ place[p] = "sleep"
  /\ GoTo(p, "check")
  /\ UNCHANGED <<since, tick, hearts, replies, lost>>

\* Mutant: the server answers, but does not count the heart as heard.
OnHeartNoReset(a) ==
  /\ a \in hearts /\ hearts' = hearts \ {a}
  /\ replies' = replies \union {0}
  /\ UNCHANGED <<place, spent, since, tick, lost>>

\* on_msg of the server: try_send drops the answer when the channel is full.
\* An end that was stopped takes no message.
OnHeart(a) ==
  /\ a \in hearts /\ hearts' = hearts \ {a}
  /\ IF place["srv"] = "stopped"
       THEN UNCHANGED <<since, replies, lost>>
       ELSE /\ since' = [since EXCEPT !["srv"] = 0]
            /\ \/ replies' = replies \union {0} /\ UNCHANGED lost
               \/ lost' = TRUE /\ UNCHANGED replies
  /\ UNCHANGED <<place, spent, tick>>

\* on_msg of the client.
OnReply(a) ==
  /\ a \in replies /\ replies' = replies \ {a}
  /\ since' = IF place["cli"] = "stopped" THEN since
              ELSE [since EXCEPT !["cli"] = 0]
  /\ UNCHANGED <<place, spent, tick, hearts, lost>>

\* External: a message is lost, the other end or the way to it is gone.
Lose(a) ==
  /\ a \in hearts \union replies
  /\ hearts' = hearts \ {a} /\ replies' = replies \ {a} /\ lost' = TRUE
  /\ UNCHANGED <<place, spent, since, tick>>

Next ==
  \/ Tick \/ CheckTick \/ HeartSend \/ HeartDrop
  \/ \E p \in Ends : CheckTimeout(p) \/ CheckOnly(p) \/ OnCheckEnd(p) \/ SleepEnd(p)
  \/ \E a \in hearts : OnHeart(a)
  \/ \E a \in replies : OnReply(a)
  \/ \E a \in hearts \union replies : Lose(a)

Spec == Init /\ [][Next]_vars
----------------------------------------------------------------------------
(* Properties *)

Places == {"check", "send", "on_check", "sleep", "stopped"}

\* The state is well typed, and run() is nowhere longer than it can be.
TypeOK ==
  /\ place \in [Ends -> Places]
  /\ spent \in [Ends -> Nat] /\ since \in [Ends -> Nat]
  /\ tick \in Nat /\ lost \in BOOLEAN
  /\ hearts \subseteq Nat /\ replies \subseteq Nat
  /\ place["srv"] # "send"
  /\ \A a \in hearts \union replies : a <= Delay
  /\ \A p \in Ends : place[p] # "stopped" => spent[p] <= LongestAt[place[p]]

\* The margin between the two timers covers all that can delay a heart and
\* its answer, and an answer is back before the next heart is sent.
Margin ==
  /\ Period + CheckWait + Pause + SendWait + 2 * Delay < Timeout
  /\ SendWait + 2 * Delay < Period

\* An idle connection that works is kept: as long as no heart and no answer
\* is lost, no end takes the other for dead.
HealthyStays == Margin /\ ~lost => \A p \in Ends : place[p] # "stopped"

\* An end that hears nothing, whatever the reason, stops within Timeout and
\* one round of its loop.
SilenceDetected ==
  \A p \in Ends :
    place[p] # "stopped" =>
      since[p] <= Timeout + SendWait + CheckWait + Pause
=============================================================================
