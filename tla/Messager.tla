------------------------------ MODULE Messager ------------------------------
(***************************************************************************)
(* Two Messagers (socks/tcp/msger.rs), the ends of one connection.  Each   *)
(* runs a task that sends (run_send), one or two tasks that receive        *)
(* (run_recv; or run_read and run_parse with a buffer between them) and    *)
(* the loop of run(), which watches the context and stops the whole.       *)
(* Everything they share is reached through ArcMut::muts(), unlocked.      *)
(*                                                                         *)
(* A message travels as a frame (msg/tcps.rs): two start bytes, MsgInfo    *)
(* with the lengths of the three parts, the parts, two end bytes.  The     *)
(* parser believes the lengths, the sender writes its buffers.  A frame is *)
(* a sequence of units: start, info, one per unit of data, end.            *)
(*                                                                         *)
(* A step is the code between two awaits.  The context is checked when a   *)
(* read or a write of a unit begins, never while it waits.  Time is left   *)
(* to Heartbeat: the timers of run_check fire at any time, or never.       *)
(***************************************************************************)
EXTENDS Naturals, Sequences

CONSTANTS
  Sides,        \* the two ends
  Servs,        \* the ends that run with servs = TRUE
  Streamed,     \* the ends that run with is_stream_buf = TRUE
  Heart,        \* the message with control 0
  Data,         \* messages of users, with another control
  Sends,        \* the messages the users of an end send, each once
  CmdLen,       \* the lengths of the parts of a message, in units
  HeadLen,
  BodyLen,
  LenMod,       \* 2^16: len_cmd is a u16
  MaxHeads,     \* MAX_HEADS
  MaxBodys,     \* MAX_BODYS
  QueueCap,     \* capacity of the channel of messages to send
  PipeCap,      \* what a direction of the connection can hold
  BufCap,       \* capacity of the ByteSteamBuf
  MaxTicks,     \* bound: ticks of a client's timer
  MayStop,      \* whether users stop their end, handlers return
                \* Interrupted and the heart times out
  MayBreak      \* whether the connection may break

Msgs == Data \union {Heart}

ASSUME MessagerAssumption ==
  /\ \E p, q \in Sides : p # q /\ Sides \subseteq {p, q}
  /\ Servs \subseteq Sides /\ Streamed \subseteq Sides
  /\ Heart \notin Data
  /\ Sends \in [Sides -> SUBSET Data]
  /\ \A p, q \in Sides : p # q => Sends[p] \intersect Sends[q] = {}
  /\ CmdLen \in [Msgs -> Nat] /\ HeadLen \in [Msgs -> Nat]
  /\ BodyLen \in [Msgs -> Nat]
  /\ LenMod \in Nat \ {0} /\ MaxHeads \in Nat /\ MaxBodys \in Nat
  /\ QueueCap \in Nat \ {0} /\ PipeCap \in Nat \ {0} /\ BufCap \in Nat \ {0}
  /\ MaxTicks \in Nat /\ MayStop \in BOOLEAN /\ MayBreak \in BOOLEAN

VARIABLES
  done,      \* Inner.ctx is done
  shuted,    \* Inner.shuted: the buffer is closed, the connection shut down
  cut,       \* the connection broke
  queue,     \* the channel msgs_sx, msgs_rx
  sent,      \* messages for which send() returned
  taken,     \* history: messages run_send took from the channel, in order
  sender,    \* where run_send is
  out,       \* units of the frame it has yet to write
  pipe,      \* units on their way from an end to the other
  reader,    \* where run_read is
  held,      \* the unit it read last
  buf,       \* Inner.buf
  parser,    \* where run_recv or run_parse is
  acc,       \* units of the frame it has read
  need,      \* length of that frame, once MsgInfo was read
  got,       \* history: frames handed to on_msg, in order
  handling,  \* indices in got of the messages whose handler runs
  late,      \* history: messages handed to on_msg while done
  loop,      \* where run() is
  ticks,     \* hearts the timer of a client made it send
  replies    \* hearts on_msg answered

sendVars == <<sent, taken, sender, out>>
recvVars == <<parser, acc, need, got, handling, late, replies>>
readVars == <<reader, held, buf>>
loopVars == <<loop, ticks>>
vars == <<done, shuted, cut, queue, pipe, sendVars, recvVars, readVars, loopVars>>

Other(p) == CHOOSE q \in Sides : q # p

\* A frame as it is written.
FrameLen(m) == 2 + CmdLen[m] + HeadLen[m] + BodyLen[m] + 1
Frame(m) == [i \in 1..FrameLen(m) |-> [msg |-> m, at |-> i]]

\* Mutant: the length of the command is not stored.
DeclaredNoCmd(m) == 2 + HeadLen[m] + BodyLen[m] + 1

\* Its length according to MsgInfo: `v.len() as u16` for the command.
Declared(m) == 2 + (CmdLen[m] % LenMod) + HeadLen[m] + BodyLen[m] + 1
Fits(m) == CmdLen[m] < LenMod

Empty == [p \in Sides |-> <<>>]
Zero == [p \in Sides |-> 0]

\* run() was called at both ends; the timers were reset.
Init ==
  /\ done = [p \in Sides |-> FALSE] /\ shuted = [p \in Sides |-> FALSE]
  /\ cut = FALSE
  /\ queue = Empty /\ sent = {} /\ taken = Empty
  /\ sender = [p \in Sides |-> "recv"] /\ out = Empty /\ pipe = Empty
  /\ reader = [p \in Sides |-> IF p \in Streamed THEN "read" ELSE "end"]
  /\ held = Empty /\ buf = Empty
  /\ parser = [p \in Sides |-> "read"] /\ acc = Empty /\ need = Zero
  /\ got = Empty /\ handling = [p \in Sides |-> {}] /\ late = Zero
  /\ loop = [p \in Sides |-> "check"] /\ ticks = Zero /\ replies = Zero

Stop(p) == done' = [done EXCEPT ![p] = TRUE]
Room(p) == Len(queue[p]) < QueueCap

\* Mutant: the channel is a stack.
EnqueueFront(p, m) == queue' = [queue EXCEPT ![p] = <<m>> \o @]

Enqueue(p, m) == queue' = [queue EXCEPT ![p] = Append(@, m)]

----------------------------------------------------------------------------
(* Sending *)

\* send() of a user waits for room in the channel.  The channel outlives the
\* tasks: after a stop messages are still accepted, until it is full.
Send(p, m) ==
  /\ m \in Sends[p] \ sent /\ Room(p)
  /\ Enqueue(p, m) /\ sent' = sent \union {m}
  /\ UNCHANGED <<done, shuted, cut, pipe, taken, sender, out, recvVars,
                 readVars, loopVars>>

\* The end of an iteration of `while !ctx.done()`.
Again(p, place) == IF done[p] THEN "end" ELSE place

\* A message was received within the second; write_all_async of the start
\* bytes checks the context first.
SendTake(p) ==
  /\ sender[p] = "recv" /\ queue[p] # <<>>
  /\ queue' = [queue EXCEPT ![p] = Tail(@)]
  /\ taken' = [taken EXCEPT ![p] = Append(@, Head(queue[p]))]
  /\ sender' = [sender EXCEPT ![p] = Again(p, "write")]
  /\ out' = [out EXCEPT ![p] = IF done[p] THEN <<>> ELSE Frame(Head(queue[p]))]
  /\ UNCHANGED <<done, shuted, cut, sent, pipe, recvVars, readVars, loopVars>>

\* No message came within the second.
SendIdle(p) ==
  /\ sender[p] = "recv" /\ queue[p] = <<>> /\ done[p]
  /\ sender' = [sender EXCEPT ![p] = "end"]
  /\ UNCHANGED <<done, shuted, cut, queue, sent, taken, out, pipe, recvVars,
                 readVars, loopVars>>

\* Mutant: a write that fills the pipe is not continued.
SendUnitShort(p) ==
  /\ sender[p] = "write" /\ ~shuted[p] /\ ~cut
  /\ Len(pipe[p]) < PipeCap
  /\ pipe' = [pipe EXCEPT ![p] = Append(@, Head(out[p]))]
  /\ LET rest == IF Len(pipe[p]) + 1 = PipeCap THEN <<>> ELSE Tail(out[p])
     IN  /\ out' = [out EXCEPT ![p] = IF done[p] THEN <<>> ELSE rest]
         /\ sender' = [sender EXCEPT ![p] =
                         Again(p, IF rest = <<>> THEN "recv" ELSE "write")]
  /\ UNCHANGED <<done, shuted, cut, queue, sent, taken, recvVars, readVars,
                 loopVars>>

\* A pending write of a unit completes.  The next one begins with a check of
\* the context, and so does the next iteration of the loop.
SendUnit(p) ==
  /\ sender[p] = "write" /\ ~shuted[p] /\ ~cut
  /\ Len(pipe[p]) < PipeCap
  /\ pipe' = [pipe EXCEPT ![p] = Append(@, Head(out[p]))]
  /\ LET rest == Tail(out[p])
     IN  /\ out' = [out EXCEPT ![p] = IF done[p] THEN <<>> ELSE rest]
         /\ sender' = [sender EXCEPT ![p] =
                         Again(p, IF rest = <<>> THEN "recv" ELSE "write")]
  /\ UNCHANGED <<done, shuted, cut, queue, sent, taken, recvVars, readVars,
                 loopVars>>

\* It fails: the error is printed and the loop goes on.
SendFail(p) ==
  /\ sender[p] = "write" /\ (shuted[p] \/ cut)
  /\ out' = [out EXCEPT ![p] = <<>>]
  /\ sender' = [sender EXCEPT ![p] = Again(p, "recv")]
  /\ UNCHANGED <<done, shuted, cut, queue, sent, taken, pipe, recvVars,
                 readVars, loopVars>>

----------------------------------------------------------------------------
(* Receiving *)

\* The other end shut down its direction and everything was read, or worse.
EndOfFile(p) == cut \/ (pipe[Other(p)] = <<>> /\ shuted[Other(p)])

\* run_read, without a look at the context while it waits.
ReadFill(p) ==
  /\ reader[p] = "read" /\ pipe[Other(p)] # <<>>
  /\ held' = [held EXCEPT ![p] = <<Head(pipe[Other(p)])>>]
  /\ pipe' = [pipe EXCEPT ![Other(p)] = Tail(@)]
  /\ reader' = [reader EXCEPT ![p] = "push"]
  /\ UNCHANGED <<done, shuted, cut, queue, buf, sendVars, recvVars, loopVars>>

ReadPush(p) ==
  /\ reader[p] = "push" /\ ~shuted[p] /\ Len(buf[p]) < BufCap
  /\ buf' = [buf EXCEPT ![p] = @ \o held[p]]
  /\ held' = [held EXCEPT ![p] = <<>>]
  /\ reader' = [reader EXCEPT ![p] = Again(p, "read")]
  /\ UNCHANGED <<done, shuted, cut, queue, pipe, sendVars, recvVars, loopVars>>

\* The read fails, or the buffer is closed.
ReadFail(p) ==
  /\ \/ reader[p] = "read" /\ EndOfFile(p)
     \/ reader[p] = "push" /\ shuted[p]
  /\ reader' = [reader EXCEPT ![p] = "end"]
  /\ held' = [held EXCEPT ![p] = <<>>]
  /\ Stop(p)
  /\ UNCHANGED <<shuted, cut, queue, pipe, buf, sendVars, recvVars, loopVars>>

\* The next unit for the parser, and its removal.
Source(p) == IF p \in Streamed THEN buf[p] ELSE pipe[Other(p)]
Consume(p) ==
  IF p \in Streamed
    THEN buf' = [buf EXCEPT ![p] = Tail(@)] /\ UNCHANGED pipe
    ELSE pipe' = [pipe EXCEPT ![Other(p)] = Tail(@)] /\ UNCHANGED buf

\* Whether the k-th unit of a frame of length n is what it must be, and
\* whether it can be taken for it: data may look like anything, and anything
\* may be read as MsgInfo or as data.
IsData(u) == u.at \in 3..(FrameLen(u.msg) - 1)
Right(k, n, u) ==
  CASE k = 1 -> u.at = 1
    [] k = 2 -> u.at = 2
    [] k = n -> u.at = FrameLen(u.msg)
    [] OTHER -> TRUE
Passable(k, n, u) == Right(k, n, u) \/ IsData(u) \/ k = 2

\* What MsgInfo says of the length; bytes that are no MsgInfo say anything
\* (bound: one of two lengths).
Lengths(u) == IF u.at = 2 THEN {Declared(u.msg)} ELSE 3..4
OutOfLimit(u) == HeadLen[u.msg] > MaxHeads \/ BodyLen[u.msg] > MaxBodys

\* The parser gives up on a unit: wrong bytes, lengths above the limits, a
\* command that is no UTF-8 (one cut short may not be).
Rejects(p, k, u) ==
  \/ ~Right(k, need[p], u)
  \/ k = 2 /\ OutOfLimit(u)
  \/ k > 2 /\ ~Fits(acc[p][2].msg)

\* Mutant: every end answers a heart.
OnMsgEcho(p, frame) ==
  IF frame[2].msg = Heart
    THEN /\ IF Room(p)
              THEN /\ Enqueue(p, Heart)
                   /\ replies' = [replies EXCEPT ![p] = @ + 1]
              ELSE UNCHANGED <<queue, replies>>
         /\ UNCHANGED handling
    ELSE /\ handling' = [handling EXCEPT ![p] = @ \union {Len(got[p]) + 1}]
         /\ UNCHANGED <<queue, replies>>

\* on_msg never waits: the answer to a heart is dropped when the channel is
\* full, a handler gets a task of its own.
OnMsg(p, frame) ==
  IF frame[2].msg = Heart
    THEN /\ IF p \in Servs /\ Room(p)
              THEN /\ Enqueue(p, Heart)
                   /\ replies' = [replies EXCEPT ![p] = @ + 1]
              ELSE UNCHANGED <<queue, replies>>
         /\ UNCHANGED handling
    ELSE /\ handling' = [handling EXCEPT ![p] = @ \union {Len(got[p]) + 1}]
         /\ UNCHANGED <<queue, replies>>

ParseEnd(p) ==
  /\ Stop(p)
  /\ parser' = [parser EXCEPT ![p] = "end"]
  /\ acc' = [acc EXCEPT ![p] = <<>>] /\ need' = [need EXCEPT ![p] = 0]

\* Mutant: the loop does not look at the context.
AfterMsgOn(p) == "read"

\* After a message: the condition of the loop.
AfterMsg(p) == Again(p, "read")

\* A unit within a frame.  read_all_async checks the context before the next
\* one and fails; pull_size, called without a context, does not.
ParseUnit(p) ==
  /\ parser[p] = "read" /\ Source(p) # <<>>
  /\ LET u == Head(Source(p))
         k == Len(acc[p]) + 1
     IN  /\ Passable(k, need[p], u)
         /\ k # need[p] /\ ~(k = 2 /\ OutOfLimit(u))
         /\ IF done[p] /\ p \notin Streamed
              THEN ParseEnd(p)
              ELSE /\ acc' = [acc EXCEPT ![p] = Append(@, u)]
                   /\ \E n \in IF k = 2 THEN Lengths(u) ELSE {need[p]} :
                        need' = [need EXCEPT ![p] = n]
                   /\ UNCHANGED <<done, parser>>
  /\ Consume(p)
  /\ UNCHANGED <<shuted, cut, queue, sendVars, reader, held, got, handling,
                 late, replies, loopVars>>

\* The end bytes: the message goes to on_msg.
ParseMsg(p) ==
  /\ parser[p] = "read" /\ Source(p) # <<>>
  /\ LET u == Head(Source(p))
         k == Len(acc[p]) + 1
     IN  /\ k = need[p] /\ Passable(k, k, u)
         /\ got' = [got EXCEPT ![p] = Append(@, Append(acc[p], u))]
         /\ OnMsg(p, Append(acc[p], u))
  /\ acc' = [acc EXCEPT ![p] = <<>>] /\ need' = [need EXCEPT ![p] = 0]
  /\ parser' = [parser EXCEPT ![p] = AfterMsg(p)]
  /\ late' = IF done[p] THEN [late EXCEPT ![p] = @ + 1] ELSE late
  /\ Consume(p)
  /\ UNCHANGED <<done, shuted, cut, sendVars, reader, held, loopVars>>

\* A unit that is not accepted.
ParseReject(p) ==
  /\ parser[p] = "read" /\ Source(p) # <<>>
  /\ Rejects(p, Len(acc[p]) + 1, Head(Source(p)))
  /\ ParseEnd(p) /\ Consume(p)
  /\ UNCHANGED <<shuted, cut, queue, sendVars, reader, held, got, handling,
                 late, replies, loopVars>>

\* The read fails: end of file, a broken connection, a closed buffer.
ParseFail(p) ==
  /\ parser[p] = "read"
  /\ IF p \in Streamed THEN shuted[p] ELSE EndOfFile(p)
  /\ ParseEnd(p)
  /\ UNCHANGED <<shuted, cut, queue, pipe, sendVars, readVars, got, handling,
                 late, replies, loopVars>>

\* A handler returns; Interrupted stops the Messager.
HandlerEnd(p, i) ==
  /\ i \in handling[p]
  /\ handling' = [handling EXCEPT ![p] = @ \ {i}]
  /\ UNCHANGED done \/ (MayStop /\ Stop(p))
  /\ UNCHANGED <<shuted, cut, queue, pipe, sendVars, readVars, parser, acc,
                 need, got, late, replies, loopVars>>

----------------------------------------------------------------------------
(* run() and stop() *)

StillUp(p) == loop[p] = "check" /\ ~done[p]

\* run_check: the other end was silent for too long.
HeartTimeout(p) ==
  /\ MayStop /\ StillUp(p)
  /\ Stop(p)
  /\ UNCHANGED <<shuted, cut, queue, pipe, sendVars, readVars, recvVars, loopVars>>

\* run_check: the timer of a client makes it send a heart ...
HeartTick(p) ==
  /\ StillUp(p) /\ p \notin Servs /\ ticks[p] < MaxTicks
  /\ ticks' = [ticks EXCEPT ![p] = @ + 1]
  /\ loop' = [loop EXCEPT ![p] = "heart"]
  /\ UNCHANGED <<done, shuted, cut, queue, pipe, sendVars, readVars, recvVars>>

\* ... which it does, or gives up after three seconds without room.
HeartSend(p) ==
  /\ loop[p] = "heart"
  /\ IF Room(p) THEN Enqueue(p, Heart) ELSE UNCHANGED queue
  /\ loop' = [loop EXCEPT ![p] = "check"]
  /\ UNCHANGED <<done, shuted, cut, pipe, sendVars, readVars, recvVars, ticks>>

\* Mutant: the connection is left open.
RunEndOpen(p) ==
  /\ loop[p] = "check" /\ done[p]
  /\ loop' = [loop EXCEPT ![p] = "end"]
  /\ UNCHANGED <<done, shuted, cut, queue, pipe, sendVars, readVars, recvVars, ticks>>

\* The loop sees that the context is done and calls stop(), which does
\* nothing when it was called before.
RunEnd(p) ==
  /\ loop[p] = "check" /\ done[p]
  /\ loop' = [loop EXCEPT ![p] = "end"]
  /\ shuted' = [shuted EXCEPT ![p] = TRUE]
  /\ UNCHANGED <<done, cut, queue, pipe, sendVars, readVars, recvVars, ticks>>

\* stop() of a user.
UserStop(p) ==
  /\ MayStop /\ ~shuted[p]
  /\ shuted' = [shuted EXCEPT ![p] = TRUE] /\ Stop(p)
  /\ UNCHANGED <<cut, queue, pipe, sendVars, readVars, recvVars, loopVars>>

\* External: the connection is reset.
Break ==
  /\ MayBreak /\ ~cut /\ cut' = TRUE
  /\ UNCHANGED <<done, shuted, queue, pipe, sendVars, readVars, recvVars, loopVars>>

----------------------------------------------------------------------------
SendStep(p) == SendTake(p) \/ SendIdle(p) \/ SendUnit(p) \/ SendFail(p)
ReadStep(p) == ReadFill(p) \/ ReadPush(p) \/ ReadFail(p)
ParseStep(p) == ParseUnit(p) \/ ParseMsg(p) \/ ParseReject(p) \/ ParseFail(p)
LoopStep(p) == HeartSend(p) \/ RunEnd(p)

Next ==
  \/ \E p \in Sides :
       \/ \E m \in Sends[p] : Send(p, m)
       \/ SendStep(p) \/ ReadStep(p) \/ ParseStep(p)
       \/ \E i \in handling[p] : HandlerEnd(p, i)
       \/ LoopStep(p) \/ HeartTimeout(p) \/ HeartTick(p) \/ UserStop(p)
  \/ Break

Spec == Init /\ [][Next]_vars

\* Every task that can take a step is scheduled.  Nothing is assumed of the
\* users, the handlers, the timers and the connection.
Fairness ==
  \A p \in Sides : /\ WF_vars(SendStep(p)) /\ WF_vars(ReadStep(p))
                   /\ WF_vars(ParseStep(p)) /\ WF_vars(LoopStep(p))

FairSpec == Spec /\ Fairness
----------------------------------------------------------------------------
(* Properties *)

Units == [msg : Msgs, at : Nat]
Streams == [Sides -> Seq(Units)]
Flags == [Sides -> BOOLEAN]
Counts == [Sides -> Nat]

\* The state is well typed, no buffer holds more than it can, and a task has
\* a frame in its hands exactly while it works on one.
TypeOK ==
  /\ done \in Flags /\ shuted \in Flags /\ cut \in BOOLEAN
  /\ queue \in [Sides -> Seq(Msgs)] /\ taken \in [Sides -> Seq(Msgs)]
  /\ sent \subseteq Data
  /\ sender \in [Sides -> {"recv", "write", "end"}]
  /\ reader \in [Sides -> {"read", "push", "end"}]
  /\ parser \in [Sides -> {"read", "end"}]
  /\ loop \in [Sides -> {"check", "heart", "end"}]
  /\ out \in Streams /\ pipe \in Streams /\ held \in Streams
  /\ buf \in Streams /\ acc \in Streams
  /\ need \in Counts /\ late \in Counts /\ ticks \in Counts /\ replies \in Counts
  /\ \A p \in Sides :
       /\ Len(queue[p]) <= QueueCap /\ Len(pipe[p]) <= PipeCap
       /\ Len(buf[p]) <= BufCap
       /\ sender[p] = "write" <=> out[p] # <<>>
       /\ reader[p] = "push" <=> held[p] # <<>>
       /\ handling[p] \subseteq 1..Len(got[p])
       /\ loop[p] = "end" => shuted[p]
       /\ shuted[p] => done[p]

\* The frames an end got before the first message that does not fit.
Sound(p) ==
  {k \in DOMAIN got[p] :
     \A i \in 1..k : i \in DOMAIN taken[Other(p)] => Fits(taken[Other(p)][i])}

\* As long as every command fits its length field, what an end hands to its
\* on_msg is, frame by frame, what the other end took from its channel:
\* whatever fails in between, no frame is skipped, mixed or repeated.
ExactFrames ==
  \A p \in Sides : \A k \in Sound(p) :
    LET from == taken[Other(p)]
    IN  k \in DOMAIN from /\ got[p][k] = Frame(from[k])

\* A Messager whose context is done hands at most one more message to on_msg
\* (the one whose last read was pending).
OneLateMessage == \A p \in Sides : late[p] <= 1

\* Hearts do not multiply: the ends answer no more often than timers ticked.
NoHeartEcho ==
  \A p \in Sides : replies[p] <= ticks[Other(p)]

\* The pair implements FifoLink, up to the first message whose command does
\* not fit.
Link == INSTANCE FifoLink WITH
  accepted <- [p \in Sides |-> taken[p] \o queue[p]],
  passed <- [p \in Sides |->
               [k \in Sound(Other(p)) |-> got[Other(p)][k][2].msg]]
LinkKept == Link!Spec

\* Once one end is done, run() returns and every task ends, at both ends.
AllEnd == \A p \in Sides : /\ loop[p] = "end" /\ sender[p] = "end"
                           /\ reader[p] = "end" /\ parser[p] = "end"
WindsDown == (\E p \in Sides : done[p]) ~> AllEnd

\* A message send() accepted arrives at the other end, unless an end stops or
\* the connection breaks: the two directions never block each other.
Up == ~cut /\ \A p \in Sides : ~done[p]
Arrived(p, m) == \E k \in DOMAIN got[Other(p)] : got[Other(p)][k] = Frame(m)
Arrives ==
  \A p \in Sides : \A m \in Sends[p] : m \in sent ~> (Arrived(p, m) \/ ~Up)

\* The tasks of an end that can go on: one has a message, or room for a unit,
\* or sees that the end is stopped.
CanSend(p) ==
  \/ sender[p] = "recv" /\ (queue[p] # <<>> \/ done[p])
  \/ sender[p] = "write" /\ (shuted[p] \/ cut \/ Len(pipe[p]) < PipeCap)
CanRead(p) ==
  \/ reader[p] = "read" /\ (pipe[Other(p)] # <<>> \/ EndOfFile(p))
  \/ reader[p] = "push" /\ (shuted[p] \/ Len(buf[p]) < BufCap)
CanParse(p) ==
  /\ parser[p] = "read"
  /\ \/ Source(p) # <<>>
     \/ IF p \in Streamed THEN shuted[p] ELSE EndOfFile(p)
CanLoop(p) == loop[p] = "heart" \/ (loop[p] = "check" /\ done[p])
Standstill ==
  \A p \in Sides : ~CanSend(p) /\ ~CanRead(p) /\ ~CanParse(p) /\ ~CanLoop(p)

\* Every command that was sent fits its length field.
AllFit == \A p \in Sides : \A i \in DOMAIN taken[p] : Fits(taken[p][i])

\* The two directions never block each other: when both ends are up and no
\* task can go on, nothing is left in a channel, a pipe or a buffer; every
\* message an end accepted was handed over at the other.
NothingLeft ==
  Up /\ AllFit /\ Standstill =>
    \A p \in Sides : /\ queue[p] = <<>>
                     /\ Len(got[Other(p)]) = Len(taken[p])

\* A stop of one end reaches all tasks of both: when one end is done and no
\* task can go on, all have ended. No task waits for an end of the connection
\* that nobody will close.
StopSpreads == (\E p \in Sides : done[p]) /\ Standstill => AllEnd

\* Where no task of the pair can go on, nothing is left to do: everything sent
\* has arrived, or the stop of an end has reached every task of both.
RestsRight == NothingLeft /\ StopSpreads
=============================================================================
