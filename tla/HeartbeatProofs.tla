-------------------------- MODULE HeartbeatProofs --------------------------
(***************************************************************************)
(* Proofs about Heartbeat, for any durations of its timers.                *)
(*                                                                         *)
(* That an end detects silence follows from where run() is: each place     *)
(* adds at most its longest stay to the time since the last check          *)
(* (SilenceInv).  That a working connection is kept is an invariant about  *)
(* the one heart on its way: what is on the clock of an end is bounded by  *)
(* the age of the heart, or of the answer, or by the client's own timer    *)
(* when neither is on its way (FlightInv).                                 *)
(***************************************************************************)
EXTENDS Heartbeat, TLAPS

----------------------------------------------------------------------------
(* Types *)

\* The initial states are well typed.
LEMMA TypeInit == Init => TypeOK
<1> SUFFICES ASSUME Init PROVE TypeOK
  OBVIOUS
<1> USE HeartbeatAssumption DEF Init, Ends
<1>1. /\ place \in [Ends -> Places] /\ spent \in [Ends -> Nat]
      /\ since \in [Ends -> Nat] /\ tick \in Nat /\ place["srv"] # "send"
  BY DEF Places
<1>2. \A p \in Ends : spent[p] <= LongestAt[place[p]]
  BY DEF LongestAt
<1> QED
  BY <1>1, <1>2 DEF TypeOK

\* What passing time does to the ages of messages that are not due.
LEMMA OlderTyped ==
  ASSUME NEW S, S \subseteq Nat, \A a \in S : a < Delay
  PROVE  Older(S) \subseteq Nat /\ \A a \in Older(S) : a <= Delay
  BY HeartbeatAssumption DEF Older

\* Time passes: nobody stays at a place for longer than allowed.
LEMMA TypeTick == TypeOK /\ Tick => TypeOK'
<1> SUFFICES ASSUME TypeOK, Tick PROVE TypeOK'
  OBVIOUS
<1>1. /\ hearts' \subseteq Nat /\ replies' \subseteq Nat
      /\ \A a \in (hearts \union replies)' : a <= Delay
  BY OlderTyped DEF TypeOK, Tick
<1>2. /\ spent' \in [Ends -> Nat] /\ since' \in [Ends -> Nat] /\ tick' \in Nat
  BY DEF TypeOK, Tick
<1>3. ASSUME NEW p \in Ends, place'[p] # "stopped"
      PROVE  spent'[p] <= LongestAt[place'[p]]
  <2>1. place'[p] = place[p] /\ place[p] \in {"check", "send", "on_check", "sleep"}
    BY <1>3 DEF TypeOK, Tick, Places
  <2>2. spent'[p] = spent[p] + 1 /\ spent[p] < LongestAt[place[p]]
    BY <1>3, <2>1 DEF Tick
  <2>3. LongestAt[place[p]] \in Nat /\ spent[p] \in Nat
    BY <2>1, HeartbeatAssumption DEF LongestAt, TypeOK
  <2> QED
    BY <2>1, <2>2, <2>3
<1> QED
  BY <1>1, <1>2, <1>3 DEF TypeOK, Tick

\* A change of place resets the time spent there.
LEMMA TypeGoTo ==
  ASSUME TypeOK, NEW p \in Ends, NEW l \in Places, l = "send" => p = "cli",
         GoTo(p, l)
  PROVE  /\ place' \in [Ends -> Places] /\ spent' \in [Ends -> Nat]
         /\ place'["srv"] # "send"
         /\ \A q \in Ends : place'[q] # "stopped" => spent'[q] <= LongestAt[place'[q]]
<1>1. place' \in [Ends -> Places] /\ spent' \in [Ends -> Nat]
  BY DEF TypeOK, GoTo
<1>2. place'["srv"] # "send"
  BY DEF TypeOK, GoTo, Ends
<1>3. ASSUME NEW q \in Ends, place'[q] # "stopped"
      PROVE  spent'[q] <= LongestAt[place'[q]]
  <2>1. CASE q = p
    <3>1. spent'[q] = 0 /\ place'[q] = l /\ l # "stopped"
      BY <1>3, <2>1 DEF TypeOK, GoTo
    <3> QED
      BY <3>1, HeartbeatAssumption DEF LongestAt, Places
  <2>2. CASE q # p
    BY <1>3, <2>2 DEF TypeOK, GoTo
  <2> QED
    BY <2>1, <2>2
<1> QED
  BY <1>1, <1>2, <1>3

\* Every step keeps the types.
LEMMA TypeStep == TypeOK /\ [Next]_vars => TypeOK'
<1> SUFFICES ASSUME TypeOK, [Next]_vars PROVE TypeOK'
  OBVIOUS
<1>1. CASE Tick
  BY <1>1, TypeTick
<1>2. CASE CheckTick
  BY <1>2, TypeGoTo DEF CheckTick, TypeOK, Ends, Places
<1>3. CASE HeartSend
  <2>1. hearts' \subseteq Nat /\ \A a \in (hearts \union replies)' : a <= Delay
    BY <1>3, HeartbeatAssumption DEF HeartSend, TypeOK
  <2> QED
    BY <1>3, <2>1, TypeGoTo DEF HeartSend, TypeOK, Ends, Places
<1>4. CASE HeartDrop
  BY <1>4, TypeGoTo DEF HeartDrop, TypeOK, Ends, Places
<1>5. ASSUME NEW p \in Ends,
             CheckTimeout(p) \/ CheckOnly(p) \/ OnCheckEnd(p) \/ SleepEnd(p)
      PROVE  TypeOK'
  BY <1>5, TypeGoTo
     DEF CheckTimeout, CheckOnly, OnCheckEnd, SleepEnd, TypeOK, Places
<1>6. ASSUME NEW a \in hearts, OnHeart(a) PROVE TypeOK'
  <2>0. hearts' \subseteq hearts /\ replies' \subseteq replies \union {0}
    BY <1>6 DEF OnHeart
  <2>1. /\ hearts' \subseteq Nat /\ replies' \subseteq Nat
        /\ \A b \in (hearts \union replies)' : b <= Delay
    BY <2>0, HeartbeatAssumption DEF TypeOK
  <2>2. since' \in [Ends -> Nat]
    BY <1>6 DEF OnHeart, TypeOK
  <2> QED
    BY <1>6, <2>1, <2>2 DEF OnHeart, TypeOK
<1>7. ASSUME NEW a \in replies, OnReply(a) PROVE TypeOK'
  BY <1>7, HeartbeatAssumption DEF OnReply, TypeOK, Ends
<1>8. ASSUME NEW a \in hearts \union replies, Lose(a) PROVE TypeOK'
  BY <1>8 DEF Lose, TypeOK
<1>9. CASE UNCHANGED vars
  BY <1>9 DEF vars, TypeOK
<1> QED
  BY <1>1, <1>2, <1>3, <1>4, <1>5, <1>6, <1>7, <1>8, <1>9 DEF Next

\* The state stays well typed, and run() is nowhere longer than allowed.
THEOREM TypeCorrect == Spec => []TypeOK
  BY TypeInit, TypeStep, PTL DEF Spec

----------------------------------------------------------------------------
(* Silence is detected *)

\* What the last check of an end leaves on its clock, place by place.
SilenceInv ==
  \A p \in Ends :
    /\ place[p] = "send" => since[p] <= Timeout + spent[p]
    /\ place[p] = "on_check" => since[p] <= Timeout + SendWait + spent[p]
    /\ place[p] = "sleep" => since[p] <= Timeout + SendWait + CheckWait + spent[p]
    /\ place[p] = "check" => since[p] <= Timeout + SendWait + CheckWait + Pause

\* It holds initially: the server is at most Delay late, or silent already.
LEMMA SilenceInit == Delay <= Timeout /\ Init => SilenceInv
  BY HeartbeatAssumption DEF Init, SilenceInv, Ends

\* Every step keeps it.
LEMMA SilenceStep == TypeOK /\ SilenceInv /\ [Next]_vars => SilenceInv'
<1> SUFFICES ASSUME TypeOK, SilenceInv, [Next]_vars, NEW q \in Ends
             PROVE  SilenceInv!(q)'
  BY DEF SilenceInv
<1> USE HeartbeatAssumption DEF Ends
<1>0. /\ place[q] \in Places /\ spent[q] \in Nat /\ since[q] \in Nat
      /\ place[q] # "stopped" => spent[q] <= LongestAt[place[q]]
  BY DEF TypeOK
<1>1. CASE Tick
  <2>1. place'[q] = place[q]
    BY <1>1 DEF Tick
  <2>2. place[q] # "stopped" => spent'[q] = spent[q] + 1 /\ since'[q] = since[q] + 1
    BY <1>1 DEF Tick
  <2>3. place[q] = "check" => FALSE
    BY <1>1, <1>0 DEF Tick, LongestAt
  <2> QED
    BY <2>1, <2>2, <2>3, <1>0 DEF SilenceInv
<1>2. CASE CheckTick
  BY <1>2, <1>0 DEF CheckTick, TimedOut, GoTo, TypeOK, SilenceInv
<1>3. CASE HeartSend
  BY <1>3, <1>0 DEF HeartSend, GoTo, TypeOK, SilenceInv, LongestAt
<1>4. CASE HeartDrop
  BY <1>4, <1>0 DEF HeartDrop, GoTo, TypeOK, SilenceInv, LongestAt
<1>5. ASSUME NEW p \in Ends, CheckTimeout(p) PROVE SilenceInv!(q)'
  BY <1>5, <1>0 DEF CheckTimeout, GoTo, TypeOK, SilenceInv
<1>6. ASSUME NEW p \in Ends, CheckOnly(p) PROVE SilenceInv!(q)'
  BY <1>6, <1>0 DEF CheckOnly, TimedOut, GoTo, TypeOK, SilenceInv
<1>7. ASSUME NEW p \in Ends, OnCheckEnd(p) PROVE SilenceInv!(q)'
  BY <1>7, <1>0 DEF OnCheckEnd, GoTo, TypeOK, SilenceInv, LongestAt
<1>8. ASSUME NEW p \in Ends, SleepEnd(p) PROVE SilenceInv!(q)'
  BY <1>8, <1>0 DEF SleepEnd, GoTo, TypeOK, SilenceInv, LongestAt
<1>9. ASSUME NEW a \in hearts, OnHeart(a) PROVE SilenceInv!(q)'
  BY <1>9, <1>0 DEF OnHeart, TypeOK, SilenceInv
<1>10. ASSUME NEW a \in replies, OnReply(a) PROVE SilenceInv!(q)'
  BY <1>10, <1>0 DEF OnReply, TypeOK, SilenceInv
<1>11. ASSUME NEW a \in hearts \union replies, Lose(a) PROVE SilenceInv!(q)'
  BY <1>11 DEF Lose, SilenceInv
<1>12. CASE UNCHANGED vars
  BY <1>12 DEF vars, SilenceInv
<1> QED
  BY <1>1, <1>2, <1>3, <1>4, <1>5, <1>6, <1>7, <1>8, <1>9, <1>10, <1>11, <1>12
  DEF Next

\* An end that hears nothing stops within Timeout and one round of its loop,
\* whatever is lost, provided the server did not start long before.
THEOREM SilenceIsDetected ==
  ASSUME Delay <= Timeout PROVE Spec => []SilenceDetected
<1>1. Init => SilenceInv
  BY SilenceInit
<1>2. TypeOK /\ SilenceInv => SilenceDetected
  BY HeartbeatAssumption DEF SilenceInv, SilenceDetected, TypeOK, Places, LongestAt
<1> QED
  BY <1>1, <1>2, TypeCorrect, SilenceStep, PTL DEF Spec

----------------------------------------------------------------------------
(* A working connection is kept *)

\* The longest time between two hearts' turns in the loop.
Round == Period + CheckWait + Pause

\* The client's timer is looked at in time.
ClockInv ==
  /\ place["cli"] = "send" => tick = spent["cli"]
  /\ place["cli"] = "on_check" => tick <= Period + spent["cli"]
  /\ place["cli"] = "sleep" => tick <= Period + CheckWait + spent["cli"]
  /\ place["cli"] = "check" => tick <= Round

\* While a heart waits for the channel nothing is on its way.
WaitInv ==
  place["cli"] = "send" =>
    /\ hearts = {} /\ replies = {}
    /\ since["srv"] <= Round + Delay + spent["cli"]
    /\ since["cli"] <= Round + spent["cli"]

\* A heart or an answer on its way is as old as the client's timer says, and
\* the clocks of the two ends are bounded by its age ...
HeartInv ==
  place["cli"] # "send" =>
    \A a \in hearts :
      /\ a <= tick /\ tick <= a + SendWait
      /\ since["srv"] <= Round + Delay + SendWait + a
      /\ since["cli"] <= Round + SendWait + a

ReplyInv ==
  place["cli"] # "send" =>
    \A a \in replies :
      /\ a <= tick /\ tick <= a + Delay + SendWait
      /\ since["cli"] <= Round + SendWait + Delay + a

\* ... and by the client's timer when there is none.
IdleInv ==
  place["cli"] # "send" =>
    /\ hearts = {} => since["srv"] <= tick + Delay
    /\ hearts = {} /\ replies = {} => since["cli"] <= tick

FlightInv ==
  /\ \A p \in Ends : place[p] # "stopped"
  /\ ClockInv /\ WaitInv /\ HeartInv /\ ReplyInv /\ IdleInv

\* It holds initially.
LEMMA FlightInit == Init => FlightInv
  BY HeartbeatAssumption DEF Init, FlightInv, ClockInv, WaitInv, HeartInv,
     ReplyInv, IdleInv, Round, Ends

\* No clock ever reaches Timeout.
LEMMA InTime ==
  ASSUME Margin, TypeOK, FlightInv
  PROVE  since["cli"] < Timeout /\ since["srv"] < Timeout
<1> USE HeartbeatAssumption
<1>1. /\ place["cli"] \in {"check", "send", "on_check", "sleep"}
      /\ spent["cli"] \in Nat /\ spent["cli"] <= LongestAt[place["cli"]]
      /\ since["cli"] \in Nat /\ since["srv"] \in Nat /\ tick \in Nat
      /\ \A a \in hearts \union replies : a \in Nat /\ a <= Delay
  BY DEF TypeOK, FlightInv, Ends, Places
<1>2. CASE place["cli"] = "send"
  <2>1. spent["cli"] <= SendWait
    BY <1>1, <1>2 DEF LongestAt
  <2> QED
    BY <1>1, <1>2, <2>1 DEF FlightInv, WaitInv, Margin, Round
<1>3. CASE place["cli"] # "send"
  <2>1. tick <= Round
    BY <1>1, <1>3 DEF FlightInv, ClockInv, LongestAt, Round
  <2>2. since["srv"] < Timeout
    BY <1>1, <1>3, <2>1 DEF FlightInv, HeartInv, IdleInv, Margin, Round
  <2>3. since["cli"] < Timeout
    <3>1. CASE hearts # {}
      BY <1>1, <1>3, <3>1 DEF FlightInv, HeartInv, Margin, Round
    <3>2. CASE replies # {}
      BY <1>1, <1>3, <3>2 DEF FlightInv, ReplyInv, Margin, Round
    <3>3. CASE hearts = {} /\ replies = {}
      BY <1>1, <1>3, <2>1, <3>3 DEF FlightInv, IdleInv, Margin, Round
    <3> QED
      BY <3>1, <3>2, <3>3
  <2> QED
    BY <2>2, <2>3
<1> QED
  BY <1>2, <1>3

\* Time passes: every clock, timer and age grows by one.
LEMMA FlightTick ==
  ASSUME Margin, TypeOK, FlightInv, Tick
  PROVE  FlightInv'
<1> USE HeartbeatAssumption
<1>1. /\ spent'["cli"] = spent["cli"] + 1 /\ tick' = tick + 1
      /\ since'["cli"] = since["cli"] + 1 /\ since'["srv"] = since["srv"] + 1
      /\ place' = place
  BY DEF Tick, FlightInv, Ends
<1>2. /\ spent["cli"] \in Nat /\ since["cli"] \in Nat /\ since["srv"] \in Nat
      /\ tick \in Nat /\ hearts \subseteq Nat /\ replies \subseteq Nat
  BY DEF TypeOK, Ends
<1>3. /\ \A a \in hearts' : \E b \in hearts : a = b + 1
      /\ \A a \in replies' : \E b \in replies : a = b + 1
      /\ hearts' = {} <=> hearts = {}
      /\ replies' = {} <=> replies = {}
  BY DEF Tick, Older
<1>4. place["cli"] = "check" => FALSE
  BY DEF Tick, FlightInv, LongestAt, TypeOK, Ends
<1>5. ClockInv'
  BY <1>1, <1>2, <1>4 DEF FlightInv, ClockInv
<1>6. WaitInv'
  BY <1>1, <1>2, <1>3 DEF FlightInv, WaitInv, Round
<1>7. HeartInv'
  BY <1>1, <1>2, <1>3 DEF FlightInv, HeartInv, Round
<1>8. ReplyInv'
  BY <1>1, <1>2, <1>3 DEF FlightInv, ReplyInv, Round
<1>9. IdleInv'
  BY <1>1, <1>2, <1>3 DEF FlightInv, IdleInv
<1> QED
  BY <1>1, <1>5, <1>6, <1>7, <1>8, <1>9 DEF FlightInv

\* The client's timer is over only when heart and answer have arrived.
LEMMA FlightCheckTick ==
  ASSUME Margin, TypeOK, FlightInv, CheckTick
  PROVE  FlightInv'
<1> USE HeartbeatAssumption
<1>1. /\ since["cli"] \in Nat /\ since["srv"] \in Nat /\ tick \in Nat
      /\ \A a \in hearts \union replies : a \in Nat /\ a <= Delay
  BY DEF TypeOK, Ends
<1>2. /\ place["cli"] = "check" /\ tick >= Period /\ tick <= Round
      /\ place' = [place EXCEPT !["cli"] = "send"]
      /\ spent' = [spent EXCEPT !["cli"] = 0] /\ tick' = 0
      /\ UNCHANGED <<since, hearts, replies>>
  BY DEF CheckTick, GoTo, FlightInv, ClockInv
<1>3. hearts = {} /\ replies = {}
  BY <1>1, <1>2 DEF FlightInv, HeartInv, ReplyInv, Margin
<1>4. since["srv"] <= Round + Delay /\ since["cli"] <= Round
  BY <1>1, <1>2, <1>3 DEF FlightInv, IdleInv, Round
<1>5. place'["cli"] = "send" /\ spent'["cli"] = 0
  BY <1>2 DEF TypeOK, Ends
<1>6. \A p \in Ends : place'[p] # "stopped"
  BY <1>2 DEF FlightInv, TypeOK, Ends
<1> QED
  BY <1>1, <1>2, <1>3, <1>4, <1>5, <1>6
  DEF FlightInv, ClockInv, WaitInv, HeartInv, ReplyInv, IdleInv, Round

\* A heart starts with what the wait for the channel left.
LEMMA FlightSend ==
  ASSUME Margin, TypeOK, FlightInv, HeartSend
  PROVE  FlightInv'
<1> USE HeartbeatAssumption
<1>1. /\ since["cli"] \in Nat /\ since["srv"] \in Nat /\ tick \in Nat
      /\ spent["cli"] \in Nat /\ place["cli"] = "send"
      /\ spent["cli"] <= SendWait
  BY DEF HeartSend, TypeOK, Ends, LongestAt
<1>2. /\ hearts = {} /\ replies = {} /\ tick = spent["cli"]
      /\ since["srv"] <= Round + Delay + SendWait
      /\ since["cli"] <= Round + SendWait
  BY <1>1 DEF FlightInv, ClockInv, WaitInv, Round
<1>3. /\ place'["cli"] = "on_check" /\ spent'["cli"] = 0
      /\ hearts' = {0} /\ replies' = {} /\ tick' = tick /\ since' = since
  BY <1>2 DEF HeartSend, GoTo, TypeOK, Ends
<1>4. \A p \in Ends : place'[p] # "stopped"
  BY DEF HeartSend, GoTo, FlightInv, TypeOK, Ends
<1>5. ClockInv'
  BY <1>1, <1>2, <1>3 DEF ClockInv, Margin
<1>6. HeartInv'
  BY <1>1, <1>2, <1>3 DEF HeartInv, Round
<1> QED
  BY <1>3, <1>4, <1>5, <1>6 DEF FlightInv, WaitInv, ReplyInv, IdleInv

\* run() of an end moves on and nothing else happens.
LEMMA FlightMove ==
  ASSUME Margin, TypeOK, FlightInv, NEW p \in Ends,
         CheckOnly(p) \/ OnCheckEnd(p) \/ SleepEnd(p)
  PROVE  FlightInv'
<1> USE HeartbeatAssumption
<1>1. /\ UNCHANGED <<since, tick, hearts, replies>>
      /\ place["cli"] # "send" <=> place'["cli"] # "send"
      /\ place'["cli"] = "send" => spent'["cli"] = spent["cli"]
      /\ \A q \in Ends : place'[q] # "stopped"
  BY DEF CheckOnly, OnCheckEnd, SleepEnd, GoTo, TypeOK, FlightInv, Ends
<1>2. ClockInv'
  <2>1. CASE p = "srv"
    <3>1. place'["cli"] = place["cli"] /\ spent'["cli"] = spent["cli"] /\ tick' = tick
      BY <2>1 DEF CheckOnly, OnCheckEnd, SleepEnd, GoTo, TypeOK, Ends
    <3> QED
      BY <3>1 DEF FlightInv, ClockInv
  <2>2. CASE p = "cli"
    <3>1. /\ spent["cli"] \in Nat /\ tick \in Nat /\ tick' = tick /\ spent'["cli"] = 0
          /\ place["cli"] = "on_check" => spent["cli"] <= CheckWait
          /\ place["cli"] = "sleep" => spent["cli"] <= Pause
      BY <2>2, <1>1 DEF CheckOnly, OnCheckEnd, SleepEnd, GoTo, TypeOK, Ends, LongestAt
    <3>2. CASE CheckOnly(p)
      BY <2>2, <3>1, <3>2 DEF CheckOnly, GoTo, ClockInv, TypeOK, Ends
    <3>3. CASE OnCheckEnd(p)
      BY <2>2, <3>1, <3>3 DEF OnCheckEnd, GoTo, FlightInv, ClockInv, TypeOK, Ends
    <3>4. CASE SleepEnd(p)
      BY <2>2, <3>1, <3>4 DEF SleepEnd, GoTo, FlightInv, ClockInv, TypeOK, Ends, Round
    <3> QED
      BY <3>2, <3>3, <3>4
  <2> QED
    BY <2>1, <2>2 DEF Ends
<1>3. WaitInv' /\ HeartInv' /\ ReplyInv' /\ IdleInv'
  BY <1>1 DEF FlightInv, WaitInv, HeartInv, ReplyInv, IdleInv
<1> QED
  BY <1>1, <1>2, <1>3 DEF FlightInv

\* The server hears the heart; its answer is as old as nothing.
LEMMA FlightHeart ==
  ASSUME Margin, TypeOK, FlightInv, NEW h \in hearts, OnHeart(h), ~lost'
  PROVE  FlightInv'
<1> USE HeartbeatAssumption
<1>1. /\ since["cli"] \in Nat /\ since["srv"] \in Nat /\ tick \in Nat
      /\ \A a \in hearts \union replies : a \in Nat /\ a <= Delay
  BY DEF TypeOK, Ends
<1>2. /\ place["cli"] # "send" /\ place["srv"] # "stopped"
  BY DEF FlightInv, WaitInv, Ends
<1>3. /\ UNCHANGED <<place, spent, tick>>
      /\ hearts' = hearts \ {h} /\ replies' = replies \union {0}
      /\ since'["srv"] = 0 /\ since'["cli"] = since["cli"]
  BY <1>2 DEF OnHeart, Margin, TypeOK, Ends
<1>4. /\ h <= tick /\ tick <= h + SendWait /\ h \in Nat /\ h <= Delay
      /\ since["cli"] <= Round + SendWait + h
  BY <1>1, <1>2 DEF FlightInv, HeartInv
<1>5. HeartInv'
  BY <1>1, <1>2, <1>3 DEF FlightInv, HeartInv, Round
<1>6. ReplyInv'
  BY <1>1, <1>2, <1>3, <1>4 DEF FlightInv, ReplyInv, Round
<1>7. IdleInv'
  BY <1>1, <1>3 DEF IdleInv
<1> QED
  BY <1>2, <1>3, <1>5, <1>6, <1>7 DEF FlightInv, ClockInv, WaitInv

\* The client hears the answer.
LEMMA FlightReply ==
  ASSUME Margin, TypeOK, FlightInv, NEW r \in replies, OnReply(r)
  PROVE  FlightInv'
<1> USE HeartbeatAssumption
<1>1. /\ since["cli"] \in Nat /\ since["srv"] \in Nat /\ tick \in Nat
      /\ \A a \in hearts \union replies : a \in Nat /\ a <= Delay
  BY DEF TypeOK, Ends
<1>2. /\ place["cli"] # "send" /\ place["cli"] # "stopped"
  BY DEF FlightInv, WaitInv, Ends
<1>3. /\ UNCHANGED <<place, spent, tick, hearts>>
      /\ replies' = replies \ {r}
      /\ since'["cli"] = 0 /\ since'["srv"] = since["srv"]
  BY <1>2 DEF OnReply, TypeOK, Ends
<1>4. HeartInv'
  BY <1>1, <1>2, <1>3 DEF FlightInv, HeartInv, Round
<1>5. ReplyInv'
  BY <1>1, <1>2, <1>3 DEF FlightInv, ReplyInv, Round
<1>6. IdleInv'
  BY <1>1, <1>2, <1>3 DEF FlightInv, IdleInv
<1> QED
  BY <1>2, <1>3, <1>4, <1>5, <1>6 DEF FlightInv, ClockInv, WaitInv

\* Until something is lost, every step keeps the invariant.
KeepInv == ~lost => FlightInv

LEMMA FlightStep == Margin /\ TypeOK /\ KeepInv /\ [Next]_vars => KeepInv'
<1> SUFFICES ASSUME Margin, TypeOK, KeepInv, [Next]_vars, ~lost'
             PROVE  FlightInv'
  BY DEF KeepInv
<1>0. FlightInv
  BY DEF KeepInv, TypeOK, Next, vars, Tick, CheckTick, HeartSend, HeartDrop,
     CheckTimeout, CheckOnly, OnCheckEnd, SleepEnd, OnHeart, OnReply, Lose
<1>1. \A p \in Ends : ~CheckTimeout(p)
  BY <1>0, InTime, HeartbeatAssumption DEF CheckTimeout, TimedOut, Ends, TypeOK
<1>2. ~HeartDrop /\ \A a \in hearts \union replies : ~Lose(a)
  BY DEF HeartDrop, Lose
<1>3. CASE UNCHANGED vars
  BY <1>0, <1>3 DEF vars, FlightInv, ClockInv, WaitInv, HeartInv, ReplyInv, IdleInv
<1> QED
  BY <1>0, <1>1, <1>2, <1>3, FlightTick, FlightCheckTick, FlightSend, FlightMove,
     FlightHeart, FlightReply
  DEF Next

\* A connection that works and idles is kept for ever, for all timers whose
\* margin covers the delays (Margin).
THEOREM HealthyIsKept == Spec => []HealthyStays
<1>1. CASE ~Margin
  BY <1>1, PTL DEF HealthyStays
<1>2. CASE Margin
  <2>1. KeepInv => HealthyStays
    BY DEF KeepInv, FlightInv, HealthyStays
  <2>2. TypeOK /\ KeepInv /\ [Next]_vars => KeepInv'
    BY <1>2, FlightStep
  <2>3. Init => KeepInv
    BY FlightInit DEF KeepInv
  <2> QED
    BY <2>1, <2>2, <2>3, TypeCorrect, PTL DEF Spec
<1> QED
  BY <1>1, <1>2
=============================================================================
