--------------------------- MODULE MessagerProofs ---------------------------
(***************************************************************************)
(* Proofs about Messager, for any messages and buffers.                    *)
(*                                                                         *)
(* After a stop: a parser that handed a message to on_msg while the        *)
(* context was done has ended with that message (LateInv).  Types: the     *)
(* queues, pipes and buffers stay within their capacities, and every task  *)
(* holds a frame, or a unit, exactly while it works on it (TypeInv).       *)
(***************************************************************************)
EXTENDS Messager, TLAPS

\* Where the parsers are, and what they did while done.
LateInv ==
  /\ late \in Counts
  /\ parser \in [Sides -> {"read", "end"}]
  /\ done \in Flags
  /\ \A p \in Sides : late[p] = 0 \/ (late[p] = 1 /\ parser[p] = "end")

\* No message was read initially.
LEMMA LateInit == Init => LateInv
  BY DEF Init, LateInv, Zero, Counts, Flags

\* A context that is stopped stays a context.
LEMMA StopTyped ==
  ASSUME NEW p \in Sides, done \in Flags, Stop(p) PROVE done' \in Flags
  BY DEF Stop, Flags

\* A parser that ends is at its end.
LEMMA ParseEndLate ==
  ASSUME LateInv, NEW p \in Sides, ParseEnd(p), UNCHANGED late PROVE LateInv'
<1>1. done' \in Flags
  BY StopTyped DEF LateInv, ParseEnd
<1>2. parser' = [parser EXCEPT ![p] = "end"]
  BY DEF ParseEnd
<1> QED
  BY <1>1, <1>2 DEF LateInv

\* The step that counts: a message is handed over while done at most once.
LEMMA ParseMsgLate ==
  ASSUME LateInv, NEW p \in Sides, ParseMsg(p) PROVE LateInv'
<1>1. /\ parser[p] = "read" /\ UNCHANGED done
      /\ parser' = [parser EXCEPT ![p] = IF done[p] THEN "end" ELSE "read"]
      /\ late' = IF done[p] THEN [late EXCEPT ![p] = @ + 1] ELSE late
  BY DEF ParseMsg, AfterMsg, Again
<1>2. late[p] = 0
  BY <1>1 DEF LateInv
<1>3. CASE done[p]
  BY <1>1, <1>2, <1>3 DEF LateInv, Counts
<1>4. CASE ~done[p]
  BY <1>1, <1>2, <1>4 DEF LateInv, Counts
<1> QED
  BY <1>3, <1>4

\* Every step keeps the invariant.
LEMMA LateStep == LateInv /\ [Next]_vars => LateInv'
<1> SUFFICES ASSUME LateInv, [Next]_vars PROVE LateInv'
  OBVIOUS
<1>1. ASSUME UNCHANGED <<late, parser>>, done' \in Flags PROVE LateInv'
  BY <1>1 DEF LateInv
<1>2. ASSUME UNCHANGED recvVars,
             UNCHANGED done \/ \E p \in Sides : Stop(p)
      PROVE  LateInv'
  BY <1>1, <1>2, StopTyped DEF recvVars, LateInv
<1>3. ASSUME NEW p \in Sides, NEW m \in Sends[p], Send(p, m) PROVE LateInv'
  BY <1>2, <1>3 DEF Send
<1>4. ASSUME NEW p \in Sides, SendStep(p) PROVE LateInv'
  BY <1>2, <1>4 DEF SendStep, SendTake, SendIdle, SendUnit, SendFail
<1>5. ASSUME NEW p \in Sides, ReadStep(p) PROVE LateInv'
  BY <1>2, <1>5 DEF ReadStep, ReadFill, ReadPush, ReadFail
<1>6. ASSUME NEW p \in Sides, ParseUnit(p) PROVE LateInv'
  <2>1. ParseEnd(p) \/ UNCHANGED <<done, parser>>
    BY <1>6 DEF ParseUnit
  <2>2. UNCHANGED late
    BY <1>6 DEF ParseUnit
  <2> QED
    BY <1>1, <2>1, <2>2, ParseEndLate DEF LateInv
<1>7. ASSUME NEW p \in Sides, ParseReject(p) \/ ParseFail(p) PROVE LateInv'
  BY <1>7, ParseEndLate DEF ParseReject, ParseFail
<1>8. ASSUME NEW p \in Sides, NEW i \in handling[p], HandlerEnd(p, i)
      PROVE  LateInv'
  <2>1. UNCHANGED done \/ Stop(p)
    BY <1>8 DEF HandlerEnd
  <2> QED
    BY <1>1, <1>8, <2>1, StopTyped DEF HandlerEnd, LateInv
<1>9. ASSUME NEW p \in Sides,
             LoopStep(p) \/ HeartTimeout(p) \/ HeartTick(p) \/ UserStop(p)
      PROVE  LateInv'
  BY <1>2, <1>9
  DEF LoopStep, HeartSend, RunEnd, HeartTimeout, HeartTick, UserStop
<1>10. CASE Break
  BY <1>2, <1>10 DEF Break
<1>11. CASE UNCHANGED vars
  BY <1>2, <1>11 DEF vars
<1> QED
  BY <1>3, <1>4, <1>5, <1>6, <1>7, <1>8, <1>9, <1>10, <1>11, ParseMsgLate
  DEF Next, ParseStep

\* After a stop an end hands at most one more message to its handlers,
\* whatever the other end sends and however it receives.
THEOREM OneLate == Spec => []OneLateMessage
<1>1. LateInv => OneLateMessage
  <2>1. ASSUME LateInv, NEW p \in Sides PROVE late[p] <= 1
    <3>1. late[p] \in {0, 1}
      BY <2>1 DEF LateInv
    <3> QED
      BY <3>1
  <2> QED
    BY <2>1 DEF OneLateMessage
<1> QED
  BY <1>1, LateInit, LateStep, PTL DEF Spec

----------------------------------------------------------------------------
(* Types: no buffer overflows, and every task holds what it works on *)

\* The parts of the type invariant, with what the steps need besides: a unit
\* is read one at a time, and what was handed over is a sequence.
FlagTypes ==
  /\ done \in Flags /\ shuted \in Flags /\ cut \in BOOLEAN
  /\ loop \in [Sides -> {"check", "heart", "end"}]
  /\ ticks \in Counts
  /\ \A p \in Sides :
       /\ loop[p] = "end" => shuted[p]
       /\ shuted[p] => done[p]
QueueTypes ==
  /\ queue \in [Sides -> Seq(Msgs)] /\ taken \in [Sides -> Seq(Msgs)]
  /\ sent \subseteq Data
  /\ \A p \in Sides : Len(queue[p]) <= QueueCap
SenderTypes ==
  /\ sender \in [Sides -> {"recv", "write", "end"}]
  /\ out \in Streams
  /\ \A p \in Sides : sender[p] = "write" <=> out[p] # <<>>
StreamTypes ==
  /\ reader \in [Sides -> {"read", "push", "end"}]
  /\ pipe \in Streams /\ held \in Streams /\ buf \in Streams
  /\ \A p \in Sides :
       /\ Len(pipe[p]) <= PipeCap /\ Len(buf[p]) <= BufCap
       /\ Len(held[p]) \in {0, 1}
       /\ reader[p] = "push" <=> held[p] # <<>>
ParserTypes ==
  /\ parser \in [Sides -> {"read", "end"}]
  /\ acc \in Streams
  /\ need \in Counts /\ late \in Counts /\ replies \in Counts
  /\ got \in [Sides -> Seq(Seq(Units))]
  /\ handling \in [Sides -> SUBSET Nat]
  /\ \A p \in Sides : handling[p] \subseteq 1..Len(got[p])
TypeInv == FlagTypes /\ QueueTypes /\ SenderTypes /\ StreamTypes /\ ParserTypes

\* The two ends are each other's other end.
LEMMA OtherSide ==
  ASSUME NEW p \in Sides PROVE Other(p) \in Sides
BY MessagerAssumption DEF Other

\* A frame is a sequence of units, and not empty.
LEMMA FrameTyped ==
  ASSUME NEW m \in Msgs
  PROVE  /\ Frame(m) \in Seq(Units) /\ Frame(m) # <<>>
         /\ FrameLen(m) \in Nat /\ Declared(m) \in Nat
<1>1. /\ CmdLen[m] \in Nat /\ HeadLen[m] \in Nat /\ BodyLen[m] \in Nat
      /\ CmdLen[m] % LenMod \in Nat
  BY MessagerAssumption
<1>2. FrameLen(m) \in Nat \ {0} /\ Declared(m) \in Nat
  BY <1>1 DEF FrameLen, Declared
<1>3. \A i \in 1..FrameLen(m) : [msg |-> m, at |-> i] \in Units
  BY <1>2 DEF Units
<1>4. /\ Frame(m) \in [1..FrameLen(m) -> Units]
      /\ DOMAIN Frame(m) = 1..FrameLen(m)
  BY <1>3 DEF Frame
<1>5. 1 \in DOMAIN Frame(m)
  BY <1>2, <1>4
<1>6. Frame(m) # <<>>
  BY <1>5
<1> QED
  BY <1>2, <1>4, <1>6

\* What a queue or a stream is after one more element ...
LEMMA OneMore ==
  ASSUME NEW S, NEW s \in Seq(S), NEW e \in S
  PROVE  Append(s, e) \in Seq(S) /\ Len(Append(s, e)) = Len(s) + 1
OBVIOUS

\* ... and after one less.
LEMMA OneLess ==
  ASSUME NEW S, NEW s \in Seq(S), s # <<>>
  PROVE  /\ Head(s) \in S /\ Tail(s) \in Seq(S)
         /\ Len(Tail(s)) = Len(s) - 1 /\ Len(s) \in Nat \ {0}
OBVIOUS

\* A stream with room for one has room for what was read of another.
LEMMA JoinedFits ==
  ASSUME NEW S, NEW s \in Seq(S), NEW t \in Seq(S), NEW n \in Nat,
         Len(s) < n, Len(t) \in {0, 1}
  PROVE  s \o t \in Seq(S) /\ Len(s \o t) <= n
<1>1. /\ s \o t \in Seq(S) /\ Len(s \o t) = Len(s) + Len(t)
      /\ Len(s) \in Nat /\ Len(t) \in Nat
  OBVIOUS
<1>2. \A a, b \in Nat : a < n /\ b \in {0, 1} => a + b <= n
  OBVIOUS
<1>3. Len(s) + Len(t) <= n
  BY <1>1, <1>2
<1> QED
  BY <1>1, <1>3

\* Initially all is empty.
LEMMA TypeInit == Init => TypeInv
<1> SUFFICES ASSUME Init PROVE TypeInv
  OBVIOUS
<1> USE MessagerAssumption DEF Init, Empty, Zero
<1>1. /\ <<>> \in Seq(Msgs) /\ <<>> \in Seq(Units) /\ <<>> \in Seq(Seq(Units))
      /\ Len(<<>>) = 0
  OBVIOUS
<1>2. FlagTypes
  BY DEF FlagTypes, Flags, Counts
<1>3. QueueTypes /\ SenderTypes
  BY <1>1 DEF QueueTypes, SenderTypes, Streams
<1>4. StreamTypes
  BY <1>1 DEF StreamTypes, Streams
<1>5. ParserTypes
  BY <1>1 DEF ParserTypes, Streams, Counts
<1> QED
  BY <1>2, <1>3, <1>4, <1>5 DEF TypeInv

\* Stopping a context, by whoever stops it, keeps the flags in order.
LEMMA StopFlags ==
  ASSUME FlagTypes, UNCHANGED done \/ \E p \in Sides : Stop(p),
         UNCHANGED <<shuted, cut, loopVars>>
  PROVE  FlagTypes'
BY DEF FlagTypes, Flags, Stop, loopVars

\* Every step keeps the flags in order.
LEMMA FlagStep ==
  ASSUME TypeInv, [Next]_vars
  PROVE  FlagTypes'
<1> USE DEF TypeInv
<1>1. ASSUME NEW p \in Sides, NEW m \in Sends[p], Send(p, m) PROVE FlagTypes'
  BY <1>1, StopFlags DEF Send
<1>2. ASSUME NEW p \in Sides, SendStep(p) PROVE FlagTypes'
  BY <1>2, StopFlags DEF SendStep, SendTake, SendIdle, SendUnit, SendFail
<1>3. ASSUME NEW p \in Sides, ReadStep(p) PROVE FlagTypes'
  BY <1>3, StopFlags DEF ReadStep, ReadFill, ReadPush, ReadFail
<1>4. ASSUME NEW p \in Sides, ParseStep(p) PROVE FlagTypes'
  <2>1. UNCHANGED done \/ Stop(p)
    BY <1>4 DEF ParseStep, ParseUnit, ParseMsg, ParseReject, ParseFail, ParseEnd
  <2>2. UNCHANGED <<shuted, cut, loopVars>>
    BY <1>4 DEF ParseStep, ParseUnit, ParseMsg, ParseReject, ParseFail
  <2> QED
    BY <2>1, <2>2, StopFlags
<1>5. ASSUME NEW p \in Sides, NEW i \in handling[p], HandlerEnd(p, i)
      PROVE  FlagTypes'
  BY <1>5, StopFlags DEF HandlerEnd
<1>6. ASSUME NEW p \in Sides, HeartTimeout(p) PROVE FlagTypes'
  BY <1>6, StopFlags DEF HeartTimeout
<1>7. ASSUME NEW p \in Sides, HeartTick(p) \/ HeartSend(p) PROVE FlagTypes'
  BY <1>7 DEF HeartTick, HeartSend, FlagTypes, Flags, Counts
<1>8. ASSUME NEW p \in Sides, RunEnd(p) \/ UserStop(p) PROVE FlagTypes'
  BY <1>8 DEF RunEnd, UserStop, Stop, loopVars, FlagTypes, Flags
<1>9. CASE Break
  BY <1>9 DEF Break, loopVars, FlagTypes
<1>10. CASE UNCHANGED vars
  BY <1>10, StopFlags DEF vars
<1> QED
  BY <1>1, <1>2, <1>3, <1>4, <1>5, <1>6, <1>7, <1>8, <1>9, <1>10
  DEF Next, LoopStep

\* A message is put into the channel only where there is room.
LEMMA EnqueueTyped ==
  ASSUME QueueTypes, NEW p \in Sides, NEW m \in Msgs, Room(p), Enqueue(p, m)
  PROVE  /\ queue' \in [Sides -> Seq(Msgs)]
         /\ \A q \in Sides : Len(queue'[q]) <= QueueCap
<1>1. /\ Append(queue[p], m) \in Seq(Msgs)
      /\ Len(Append(queue[p], m)) = Len(queue[p]) + 1
      /\ queue' = [queue EXCEPT ![p] = Append(queue[p], m)]
      /\ Len(queue[p]) \in Nat /\ Len(queue[p]) < QueueCap
  BY OneMore DEF QueueTypes, Enqueue, Room
<1>2. Len(Append(queue[p], m)) <= QueueCap
  BY <1>1, MessagerAssumption
<1> QED
  BY <1>1, <1>2 DEF QueueTypes

\* Every step keeps the channel within its capacity.
LEMMA QueueStep ==
  ASSUME TypeInv, [Next]_vars
  PROVE  QueueTypes'
<1> USE DEF TypeInv
<1>1. ASSUME UNCHANGED <<queue, sent, taken>> PROVE QueueTypes'
  BY <1>1 DEF QueueTypes
<1>2. ASSUME NEW p \in Sides, Room(p), Enqueue(p, Heart), UNCHANGED <<sent, taken>>
      PROVE  QueueTypes'
  BY <1>2, EnqueueTyped DEF QueueTypes, Msgs
<1>3. ASSUME NEW p \in Sides, NEW m \in Sends[p], Send(p, m) PROVE QueueTypes'
  <2>1. m \in Msgs /\ m \in Data
    BY MessagerAssumption DEF Msgs
  <2> QED
    BY <1>3, <2>1, EnqueueTyped DEF Send, QueueTypes
<1>4. ASSUME NEW p \in Sides, SendTake(p) PROVE QueueTypes'
  <2>1. /\ queue[p] \in Seq(Msgs) /\ queue[p] # <<>> /\ taken[p] \in Seq(Msgs)
        /\ queue' = [queue EXCEPT ![p] = Tail(queue[p])]
        /\ taken' = [taken EXCEPT ![p] = Append(taken[p], Head(queue[p]))]
        /\ UNCHANGED sent
    BY <1>4 DEF SendTake, QueueTypes
  <2>2. /\ Head(queue[p]) \in Msgs /\ Tail(queue[p]) \in Seq(Msgs)
        /\ Len(queue[p]) \in Nat /\ Len(Tail(queue[p])) = Len(queue[p]) - 1
        /\ Append(taken[p], Head(queue[p])) \in Seq(Msgs)
    BY <2>1, OneLess, OneMore
  <2>3. Len(Tail(queue[p])) <= QueueCap
    <3>1. Len(queue[p]) <= QueueCap
      BY DEF QueueTypes
    <3> QED
      BY <2>2, <3>1, MessagerAssumption
  <2> QED
    BY <2>1, <2>2, <2>3 DEF QueueTypes
<1>5. ASSUME NEW p \in Sides, SendIdle(p) \/ SendUnit(p) \/ SendFail(p) \/ ReadStep(p)
      PROVE  QueueTypes'
  BY <1>1, <1>5
  DEF SendIdle, SendUnit, SendFail, ReadStep, ReadFill, ReadPush, ReadFail, sendVars
<1>6. ASSUME NEW p \in Sides, ParseUnit(p) \/ ParseReject(p) \/ ParseFail(p)
      PROVE  QueueTypes'
  BY <1>1, <1>6 DEF ParseUnit, ParseReject, ParseFail, sendVars
<1>7. ASSUME NEW p \in Sides, ParseMsg(p) PROVE QueueTypes'
  <2>1. UNCHANGED <<sent, taken>>
    BY <1>7 DEF ParseMsg, sendVars
  <2>2. UNCHANGED queue \/ (Room(p) /\ Enqueue(p, Heart))
    BY <1>7 DEF ParseMsg, OnMsg
  <2> QED
    BY <1>1, <1>2, <2>1, <2>2
<1>8. ASSUME NEW p \in Sides, NEW i \in handling[p], HandlerEnd(p, i)
      PROVE  QueueTypes'
  BY <1>1, <1>8 DEF HandlerEnd, sendVars
<1>9. ASSUME NEW p \in Sides, HeartSend(p) PROVE QueueTypes'
  BY <1>1, <1>2, <1>9 DEF HeartSend, sendVars
<1>10. ASSUME NEW p \in Sides,
              RunEnd(p) \/ HeartTimeout(p) \/ HeartTick(p) \/ UserStop(p)
       PROVE  QueueTypes'
  BY <1>1, <1>10 DEF RunEnd, HeartTimeout, HeartTick, UserStop, sendVars
<1>11. CASE Break \/ UNCHANGED vars
  BY <1>1, <1>11 DEF Break, vars, sendVars
<1> QED
  BY <1>3, <1>4, <1>5, <1>6, <1>7, <1>8, <1>9, <1>10, <1>11
  DEF Next, SendStep, ParseStep, LoopStep

\* run_send has units of a frame to write exactly while it writes.
LEMMA SenderStep ==
  ASSUME TypeInv, [Next]_vars
  PROVE  SenderTypes'
<1> USE DEF TypeInv
<1>1. ASSUME UNCHANGED <<sender, out>> PROVE SenderTypes'
  BY <1>1 DEF SenderTypes
<1>2. ASSUME NEW p \in Sides, NEW s \in {"recv", "write", "end"}, NEW o \in Seq(Units),
             s = "write" <=> o # <<>>,
             sender' = [sender EXCEPT ![p] = s], out' = [out EXCEPT ![p] = o]
      PROVE  SenderTypes'
  BY <1>2 DEF SenderTypes, Streams
<1>3. <<>> \in Seq(Units)
  OBVIOUS
<1>4. ASSUME NEW p \in Sides, SendTake(p) PROVE SenderTypes'
  <2>1. Head(queue[p]) \in Msgs
    BY <1>4, OneLess DEF SendTake, QueueTypes
  <2> QED
    BY <1>2, <1>3, <1>4, <2>1, FrameTyped DEF SendTake, Again
<1>5. ASSUME NEW p \in Sides, SendUnit(p) PROVE SenderTypes'
  <2>1. Tail(out[p]) \in Seq(Units)
    BY <1>5, OneLess DEF SendUnit, SenderTypes, Streams
  <2> QED
    BY <1>2, <1>3, <1>5, <2>1 DEF SendUnit, Again
<1>6. ASSUME NEW p \in Sides, SendFail(p) PROVE SenderTypes'
  BY <1>2, <1>3, <1>6 DEF SendFail, Again
<1>7. ASSUME NEW p \in Sides, SendIdle(p) PROVE SenderTypes'
  BY <1>7 DEF SendIdle, SenderTypes
<1>8. ASSUME NEW p \in Sides, NEW m \in Sends[p], Send(p, m) PROVE SenderTypes'
  BY <1>1, <1>8 DEF Send
<1>9. ASSUME NEW p \in Sides, ReadStep(p) \/ ParseStep(p) PROVE SenderTypes'
  BY <1>1, <1>9
  DEF ReadStep, ReadFill, ReadPush, ReadFail, ParseStep, ParseUnit, ParseMsg,
      ParseReject, ParseFail, sendVars
<1>10. ASSUME NEW p \in Sides, NEW i \in handling[p], HandlerEnd(p, i)
       PROVE  SenderTypes'
  BY <1>1, <1>10 DEF HandlerEnd, sendVars
<1>11. ASSUME NEW p \in Sides,
              LoopStep(p) \/ HeartTimeout(p) \/ HeartTick(p) \/ UserStop(p)
       PROVE  SenderTypes'
  BY <1>1, <1>11
  DEF LoopStep, HeartSend, RunEnd, HeartTimeout, HeartTick, UserStop, sendVars
<1>12. CASE Break \/ UNCHANGED vars
  BY <1>1, <1>12 DEF Break, vars, sendVars
<1> QED
  BY <1>4, <1>5, <1>6, <1>7, <1>8, <1>9, <1>10, <1>11, <1>12 DEF Next, SendStep

\* Taking a unit off a stream leaves a stream.
LEMMA StreamLess ==
  ASSUME NEW f \in Streams, NEW p \in Sides, f[p] # <<>>, NEW n \in Nat,
         \A q \in Sides : Len(f[q]) <= n
  PROVE  /\ Head(f[p]) \in Units
         /\ [f EXCEPT ![p] = Tail(@)] \in Streams
         /\ \A q \in Sides : Len([f EXCEPT ![p] = Tail(@)][q]) <= n
<1>1. f[p] \in Seq(Units)
  BY DEF Streams
<1>2. /\ Head(f[p]) \in Units /\ Tail(f[p]) \in Seq(Units)
      /\ Len(Tail(f[p])) = Len(f[p]) - 1 /\ Len(f[p]) \in Nat \ {0}
  BY <1>1, OneLess
<1>3. Len(Tail(f[p])) <= n
  BY <1>2
<1> QED
  BY <1>2, <1>3 DEF Streams

\* What the parser consumes is a unit, and leaves the streams as they must be.
LEMMA ConsumeTyped ==
  ASSUME StreamTypes, NEW p \in Sides, Source(p) # <<>>, Consume(p),
         UNCHANGED <<reader, held>>
  PROVE  Head(Source(p)) \in Units /\ StreamTypes'
<1>1. Other(p) \in Sides
  BY OtherSide
<1>2. BufCap \in Nat /\ PipeCap \in Nat
  BY MessagerAssumption
<1>3. CASE p \in Streamed
  <2>1. buf' = [buf EXCEPT ![p] = Tail(@)] /\ UNCHANGED pipe /\ buf[p] # <<>>
    BY <1>3 DEF Consume, Source
  <2>2. /\ Head(buf[p]) \in Units /\ buf' \in Streams
        /\ \A q \in Sides : Len(buf'[q]) <= BufCap
    BY <1>2, <2>1, StreamLess DEF StreamTypes
  <2> QED
    BY <1>3, <2>1, <2>2 DEF StreamTypes, Source
<1>4. CASE p \notin Streamed
  <2>1. /\ pipe' = [pipe EXCEPT ![Other(p)] = Tail(@)] /\ UNCHANGED buf
        /\ pipe[Other(p)] # <<>>
    BY <1>4 DEF Consume, Source
  <2>2. /\ Head(pipe[Other(p)]) \in Units /\ pipe' \in Streams
        /\ \A q \in Sides : Len(pipe'[q]) <= PipeCap
    BY <1>1, <1>2, <2>1, StreamLess DEF StreamTypes
  <2> QED
    BY <1>4, <2>1, <2>2 DEF StreamTypes, Source
<1> QED
  BY <1>3, <1>4

\* Every step keeps the pipes and buffers within their capacities.
LEMMA StreamStep ==
  ASSUME TypeInv, [Next]_vars
  PROVE  StreamTypes'
<1> USE DEF TypeInv
<1>1. ASSUME UNCHANGED <<pipe, readVars>> PROVE StreamTypes'
  BY <1>1 DEF StreamTypes, readVars
<1>2. ASSUME NEW p \in Sides, SendUnit(p) PROVE StreamTypes'
  <2>1. Head(out[p]) \in Units
    BY <1>2, OneLess DEF SendUnit, SenderTypes, Streams
  <2>2. /\ pipe[p] \in Seq(Units) /\ Len(pipe[p]) < PipeCap
        /\ pipe' = [pipe EXCEPT ![p] = Append(pipe[p], Head(out[p]))]
        /\ UNCHANGED <<reader, held, buf>>
    BY <1>2 DEF SendUnit, StreamTypes, Streams, readVars
  <2>3. /\ Append(pipe[p], Head(out[p])) \in Seq(Units)
        /\ Len(Append(pipe[p], Head(out[p]))) = Len(pipe[p]) + 1
        /\ Len(pipe[p]) \in Nat
    BY <2>1, <2>2, OneMore
  <2>4. Len(Append(pipe[p], Head(out[p]))) <= PipeCap
    BY <2>2, <2>3, MessagerAssumption
  <2> QED
    BY <2>2, <2>3, <2>4 DEF StreamTypes, Streams
<1>3. ASSUME NEW p \in Sides, ReadFill(p) PROVE StreamTypes'
  <2>1. Other(p) \in Sides /\ PipeCap \in Nat
    BY OtherSide, MessagerAssumption
  <2>2. /\ pipe[Other(p)] # <<>> /\ pipe' = [pipe EXCEPT ![Other(p)] = Tail(@)]
        /\ held' = [held EXCEPT ![p] = <<Head(pipe[Other(p)])>>]
        /\ reader' = [reader EXCEPT ![p] = "push"] /\ UNCHANGED buf
    BY <1>3 DEF ReadFill
  <2>3. /\ Head(pipe[Other(p)]) \in Units /\ pipe' \in Streams
        /\ \A q \in Sides : Len(pipe'[q]) <= PipeCap
    BY <2>1, <2>2, StreamLess DEF StreamTypes
  <2>4. /\ <<Head(pipe[Other(p)])>> \in Seq(Units)
        /\ Len(<<Head(pipe[Other(p)])>>) = 1 /\ <<Head(pipe[Other(p)])>> # <<>>
    BY <2>3
  <2> QED
    BY <2>2, <2>3, <2>4 DEF StreamTypes, Streams
<1>4. ASSUME NEW p \in Sides, ReadPush(p) PROVE StreamTypes'
  <2>1. /\ buf[p] \in Seq(Units) /\ held[p] \in Seq(Units) /\ Len(held[p]) \in {0, 1}
        /\ Len(buf[p]) < BufCap /\ UNCHANGED pipe
        /\ buf' = [buf EXCEPT ![p] = buf[p] \o held[p]]
        /\ held' = [held EXCEPT ![p] = <<>>]
        /\ \E s \in {"read", "end"} : reader' = [reader EXCEPT ![p] = s]
    BY <1>4 DEF ReadPush, StreamTypes, Streams, Again
  <2>2. /\ buf[p] \o held[p] \in Seq(Units)
        /\ Len(buf[p] \o held[p]) <= BufCap
    BY <2>1, JoinedFits, MessagerAssumption
  <2>3. <<>> \in Seq(Units) /\ Len(<<>>) = 0
    OBVIOUS
  <2> QED
    BY <2>1, <2>2, <2>3 DEF StreamTypes, Streams
<1>5. ASSUME NEW p \in Sides, ReadFail(p) PROVE StreamTypes'
  <2>1. <<>> \in Seq(Units) /\ Len(<<>>) = 0
    OBVIOUS
  <2> QED
    BY <1>5, <2>1 DEF ReadFail, StreamTypes, Streams
<1>6. ASSUME NEW p \in Sides, ParseUnit(p) \/ ParseMsg(p) \/ ParseReject(p)
      PROVE  StreamTypes'
  BY <1>6, ConsumeTyped DEF ParseUnit, ParseMsg, ParseReject
<1>7. ASSUME NEW p \in Sides, ParseFail(p) PROVE StreamTypes'
  BY <1>1, <1>7 DEF ParseFail
<1>8. ASSUME NEW p \in Sides, NEW m \in Sends[p], Send(p, m) PROVE StreamTypes'
  BY <1>1, <1>8 DEF Send
<1>9. ASSUME NEW p \in Sides, SendTake(p) \/ SendIdle(p) \/ SendFail(p)
      PROVE  StreamTypes'
  BY <1>1, <1>9 DEF SendTake, SendIdle, SendFail
<1>10. ASSUME NEW p \in Sides, NEW i \in handling[p], HandlerEnd(p, i)
       PROVE  StreamTypes'
  BY <1>1, <1>10 DEF HandlerEnd
<1>11. ASSUME NEW p \in Sides,
              LoopStep(p) \/ HeartTimeout(p) \/ HeartTick(p) \/ UserStop(p)
       PROVE  StreamTypes'
  BY <1>1, <1>11
  DEF LoopStep, HeartSend, RunEnd, HeartTimeout, HeartTick, UserStop
<1>12. CASE Break \/ UNCHANGED vars
  BY <1>1, <1>12 DEF Break, vars
<1> QED
  BY <1>2, <1>3, <1>4, <1>5, <1>6, <1>7, <1>8, <1>9, <1>10, <1>11, <1>12
  DEF Next, SendStep, ReadStep, ParseStep

\* A parser that ends drops the frame it has begun.
LEMMA ParseEndTyped ==
  ASSUME ParserTypes, NEW p \in Sides, ParseEnd(p),
         UNCHANGED <<got, handling, late, replies>>
  PROVE  ParserTypes'
<1>1. <<>> \in Seq(Units)
  OBVIOUS
<1> QED
  BY <1>1 DEF ParserTypes, ParseEnd, Streams, Counts

\* Every step keeps what the parsers hold and have handed over.
LEMMA ParserStep ==
  ASSUME TypeInv, [Next]_vars
  PROVE  ParserTypes'
<1> USE DEF TypeInv
<1>1. ASSUME UNCHANGED recvVars PROVE ParserTypes'
  BY <1>1 DEF ParserTypes, recvVars
<1>2. ASSUME NEW p \in Sides, ParseUnit(p) PROVE ParserTypes'
  <2> DEFINE u == Head(Source(p))
  <2>1. u \in Units
    BY <1>2, ConsumeTyped DEF ParseUnit
  <2>2. Append(acc[p], u) \in Seq(Units)
    BY <2>1, OneMore DEF ParserTypes, Streams
  <2>3. u.msg \in Msgs /\ Lengths(u) \subseteq Nat
    BY <2>1, FrameTyped DEF Units, Lengths
  <2>4. UNCHANGED <<got, handling, late, replies>>
    BY <1>2 DEF ParseUnit
  <2>5. CASE ParseEnd(p)
    BY <2>4, <2>5, ParseEndTyped
  <2>6. CASE ~ParseEnd(p)
    <3>1. /\ acc' = [acc EXCEPT ![p] = Append(@, u)] /\ UNCHANGED parser
          /\ \E n \in Nat : need' = [need EXCEPT ![p] = n]
      BY <1>2, <2>3, <2>6 DEF ParseUnit, ParserTypes, Counts
    <3> QED
      BY <2>2, <2>4, <3>1 DEF ParserTypes, Streams, Counts
  <2> QED
    BY <2>5, <2>6
<1>3. ASSUME NEW p \in Sides, ParseMsg(p) PROVE ParserTypes'
  <2> DEFINE f == Append(acc[p], Head(Source(p)))
  <2>1. Head(Source(p)) \in Units
    BY <1>3, ConsumeTyped DEF ParseMsg
  <2>2. f \in Seq(Units) /\ <<>> \in Seq(Units)
    BY <2>1, OneMore DEF ParserTypes, Streams
  <2>3. /\ got' = [got EXCEPT ![p] = Append(got[p], f)] /\ OnMsg(p, f)
        /\ acc' = [acc EXCEPT ![p] = <<>>] /\ need' = [need EXCEPT ![p] = 0]
        /\ \E s \in {"read", "end"} : parser' = [parser EXCEPT ![p] = s]
        /\ late' = IF done[p] THEN [late EXCEPT ![p] = @ + 1] ELSE late
    BY <1>3 DEF ParseMsg, AfterMsg, Again
  <2>4. /\ Append(got[p], f) \in Seq(Seq(Units)) /\ Len(got[p]) \in Nat
        /\ Len(Append(got[p], f)) = Len(got[p]) + 1
    BY <2>2, OneMore DEF ParserTypes
  <2>5. /\ replies' \in Counts
        /\ \/ UNCHANGED handling
           \/ handling' = [handling EXCEPT ![p] = @ \union {Len(got[p]) + 1}]
    BY <2>3, SMTT(30) DEF OnMsg, ParserTypes, Counts
  <2> HIDE DEF f
  <2>6. got' \in [Sides -> Seq(Seq(Units))] /\ late' \in Counts
    BY <2>3, <2>4 DEF ParserTypes, Counts
  <2>7. /\ handling' \in [Sides -> SUBSET Nat]
        /\ \A q \in Sides : handling'[q] \subseteq 1..Len(got'[q])
    <3>1. \A q \in Sides \ {p} : got'[q] = got[q] /\ handling'[q] = handling[q]
      BY <2>3, <2>5 DEF ParserTypes
    <3>2. got'[p] = Append(got[p], f)
      BY <2>3 DEF ParserTypes
    <3>3. handling'[p] \subseteq handling[p] \union {Len(got[p]) + 1}
      BY <2>5 DEF ParserTypes
    <3>4. handling[p] \subseteq 1..Len(got[p])
      BY DEF ParserTypes
    <3>5. handling'[p] \subseteq 1..Len(got'[p])
      BY <2>4, <3>2, <3>3, <3>4
    <3>6. handling' \in [Sides -> SUBSET Nat]
      <4>1. handling \in [Sides -> SUBSET Nat] /\ Len(got[p]) + 1 \in Nat
        BY <2>4 DEF ParserTypes
      <4>2. handling[p] \union {Len(got[p]) + 1} \in SUBSET Nat
        BY <4>1
      <4> QED
        BY <2>5, <4>1, <4>2
    <3>7. \A q \in Sides \ {p} : handling'[q] \subseteq 1..Len(got'[q])
      BY <3>1 DEF ParserTypes
    <3> QED
      BY <3>5, <3>6, <3>7
  <2> QED
    BY <2>2, <2>3, <2>5, <2>6, <2>7 DEF ParserTypes, Streams, Counts
<1>4. ASSUME NEW p \in Sides, ParseReject(p) \/ ParseFail(p) PROVE ParserTypes'
  BY <1>4, ParseEndTyped DEF ParseReject, ParseFail
<1>5. ASSUME NEW p \in Sides, NEW i \in handling[p], HandlerEnd(p, i)
      PROVE  ParserTypes'
  BY <1>5 DEF HandlerEnd, ParserTypes
<1>6. ASSUME NEW p \in Sides, NEW m \in Sends[p], Send(p, m) PROVE ParserTypes'
  BY <1>1, <1>6 DEF Send
<1>7. ASSUME NEW p \in Sides, SendStep(p) \/ ReadStep(p) PROVE ParserTypes'
  BY <1>1, <1>7
  DEF SendStep, SendTake, SendIdle, SendUnit, SendFail, ReadStep, ReadFill,
      ReadPush, ReadFail
<1>8. ASSUME NEW p \in Sides,
             LoopStep(p) \/ HeartTimeout(p) \/ HeartTick(p) \/ UserStop(p)
      PROVE  ParserTypes'
  BY <1>1, <1>8
  DEF LoopStep, HeartSend, RunEnd, HeartTimeout, HeartTick, UserStop
<1>9. CASE Break \/ UNCHANGED vars
  BY <1>1, <1>9 DEF Break, vars
<1> QED
  BY <1>2, <1>3, <1>4, <1>5, <1>6, <1>7, <1>8, <1>9 DEF Next, ParseStep

\* For any capacities no channel, pipe or buffer ever holds more than it can,
\* and a Messager whose connection is shut down has a context that is done.
THEOREM TypeCorrect == Spec => []TypeOK
<1>1. TypeInv /\ [Next]_vars => TypeInv'
  BY FlagStep, QueueStep, SenderStep, StreamStep, ParserStep DEF TypeInv
<1>2. TypeInv => TypeOK
  <2> SUFFICES ASSUME TypeInv PROVE TypeOK
    OBVIOUS
  <2>1. /\ done \in Flags /\ shuted \in Flags /\ cut \in BOOLEAN
        /\ loop \in [Sides -> {"check", "heart", "end"}] /\ ticks \in Counts
        /\ \A p \in Sides : (loop[p] = "end" => shuted[p]) /\ (shuted[p] => done[p])
    BY DEF TypeInv, FlagTypes
  <2> QED
    BY <2>1 DEF TypeInv, QueueTypes, SenderTypes, StreamTypes, ParserTypes, TypeOK
<1> QED
  BY <1>1, <1>2, TypeInit, PTL DEF Spec
=============================================================================
