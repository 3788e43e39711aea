--------------------------- MODULE UdpServerProofs ---------------------------
(***************************************************************************)
(* Proofs about UdpServer, for any messages, tokens, limits and programs.  *)
(*                                                                         *)
(* The lengths: a datagram no longer than PackMax arrived whole and fits   *)
(* the fields (WholeCut), and DataInv says that only such ones are parsed. *)
(* The socket: where run() stands, what stop() has done and whether the    *)
(* socket is open go together (StopInv).                                   *)
(***************************************************************************)
EXTENDS UdpServer, TLAPS

\* A number that fits its field is stored as it is.
LEMMA FitsField ==
  ASSUME NEW n \in Nat, NEW w \in Nat \ {0}, n < w PROVE n % w = n
  OBVIOUS

USE UdpAssumption DEF UdpAssumption

----------------------------------------------------------------------------
(* Type correctness *)

\* The initial values are of their types.
LEMMA TypeInit == Init => TypeOK
  BY DEF Init, TypeOK, Counts, Flags, RunPlaces

\* Steps of the senders and of the network.
LEMMA NetTyped ==
  ASSUME TypeOK, NEW m \in Msgs,
         Send(m) \/ Inject(m) \/ Duplicate(m) \/ Lose(m) \/ Parse(m)
  PROVE  TypeOK'
<1>1. CASE Send(m)
  BY <1>1 DEF Send, TypeOK, Add, Counts, sockVars, stopVars, taskVars
<1>2. CASE Inject(m)
  BY <1>2 DEF Inject, TypeOK, Add, Counts, sockVars, stopVars, taskVars
<1>3. CASE Duplicate(m)
  BY <1>3 DEF Duplicate, TypeOK, Add, Counts, sockVars, stopVars, taskVars
<1>4. CASE Lose(m)
  <2>1. net' \in Counts
    BY <1>4 DEF Lose, Take, TypeOK, Counts
  <2>2. icmp' \in Flags /\ \A e \in Ends : icmp'[e] => icmp[e] \/ conn[e]
    BY <1>4 DEF Lose, TypeOK, Flags
  <2> QED
    BY <1>4, <2>1, <2>2 DEF Lose, TypeOK, stopVars, taskVars
<1>5. CASE Parse(m)
  BY <1>5 DEF Parse, TypeOK, Take, Add, Counts, sockVars, stopVars
<1> QED
  BY <1>1, <1>2, <1>3, <1>4, <1>5

\* Steps of run() before it stops.
LEMMA RunTyped ==
  ASSUME TypeOK, NEW e \in Ends,
         \/ Bind(e) \/ Publish(e) \/ LoopCheck(e) \/ LoopLook(e) \/ RecvFail(e)
         \/ PacketErrEnd(e) \/ \E m \in Msgs : Recv(e, m)
  PROVE  TypeOK'
<1> USE DEF TypeOK, RunAt, RunPlaces, sockVars, stopVars, taskVars
<1>1. CASE Bind(e) \/ LoopCheck(e) \/ LoopLook(e) \/ PacketErrEnd(e)
  BY <1>1 DEF Bind, LoopCheck, LoopLook, PacketErrEnd
<1>2. CASE Publish(e)
  BY <1>2 DEF Publish, Flags
<1>3. CASE RecvFail(e)
  BY <1>3 DEF RecvFail, Flags
<1>4. ASSUME NEW m \in Msgs, Recv(e, m) PROVE TypeOK'
  <2>1. net' \in Counts /\ taken' \in Counts
    BY <1>4 DEF Recv, TakeFromSocket, Take, Add, Counts
  <2>2. parsing' \in Counts /\ refused' \subseteq Msgs
    <3>1. SpawnParse(e, m) \/ CallPacketErr(e, m)
      BY <1>4 DEF Recv
    <3>2. CASE SpawnParse(e, m)
      BY <3>2 DEF SpawnParse, Add, Counts
    <3>3. CASE CallPacketErr(e, m)
      BY <3>3 DEF CallPacketErr
    <3> QED
      BY <3>1, <3>2, <3>3
  <2>3. run' = [run EXCEPT ![e] = "check"] \/ run' = [run EXCEPT ![e] = "err"]
    BY <1>4 DEF Recv, SpawnParse, CallPacketErr
  <2>4. UNCHANGED <<conn, sockVars, stopVars, early, sent, handed>>
    BY <1>4 DEF Recv, TakeFromSocket
  <2> QED
    BY <2>1, <2>2, <2>3, <2>4
<1> QED
  BY <1>1, <1>2, <1>3, <1>4

\* Steps of stop(), of connect() and of a failing send.
LEMMA StopTyped ==
  ASSUME TypeOK, NEW e \in Ends,
         \/ RunStopTest(e) \/ RunStop(e) \/ RunDrop(e)
         \/ UserStopTest(e) \/ UserStop(e) \/ UserDrop(e) \/ ParentStop(e)
         \/ SendFail(e) \/ \E d \in Ends : Connect(e, d)
  PROVE  TypeOK'
<1> USE DEF TypeOK, RunAt, StopperAt, RunPlaces, Flags, sockVars, stopVars, taskVars
<1>1. CASE RunStopTest(e)
  BY <1>1 DEF RunStopTest
<1>2. CASE RunStop(e)
  BY <1>2 DEF RunStop, ShutFlags
<1>3. CASE RunDrop(e)
  BY <1>3 DEF RunDrop, DropConn
<1>4. CASE UserStopTest(e)
  BY <1>4 DEF UserStopTest
<1>5. CASE UserStop(e)
  BY <1>5 DEF UserStop, ShutFlags
<1>6. CASE UserDrop(e)
  BY <1>6 DEF UserDrop, DropConn
<1>7. CASE ParentStop(e)
  BY <1>7 DEF ParentStop
<1>8. CASE SendFail(e)
  BY <1>8 DEF SendFail
<1>9. ASSUME NEW d \in Ends, Connect(e, d) PROVE TypeOK'
  BY <1>9 DEF Connect
<1> QED
  BY <1>1, <1>2, <1>3, <1>4, <1>5, <1>6, <1>7, <1>8, <1>9

\* Every step keeps the types.
LEMMA TypeStep == TypeOK /\ [Next]_vars => TypeOK'
<1>1. TypeOK /\ UNCHANGED vars => TypeOK'
  BY DEF TypeOK, vars
<1> QED
  BY <1>1, NetTyped, RunTyped, StopTyped DEF Next, RunStep

\* The fields stay of their types.
THEOREM Typed == Spec => []TypeOK
  BY TypeInit, TypeStep, PTL DEF Spec
----------------------------------------------------------------------------
(* What is handed on *)

\* A package that is not longer than run_recv's limit arrived whole, its
\* lengths fit their fields, and what is cut out of it is what was written.
LEMMA WholeCut ==
  ASSUME NEW m \in Msgs, Received(m) <= PackMax
  PROVE  Cut(m) = Written(m)
<1> DEFINE p == Parts[m]
<1>1. /\ TokenLen[m] \in Nat /\ p.cmd \in Nat /\ p.head \in Nat /\ p.body \in Nat
  OBVIOUS
<1>2. PackLen(m) = Received(m)
  BY DEF Received
<1>3. TokenLen[m] < U16 /\ p.body < U32
  BY <1>1, <1>2 DEF PackLen, DataLen, Sum, PackHead, MsgHead
<1>4. U16 \in Nat \ {0} /\ U32 \in Nat \ {0}
  OBVIOUS
<1>5. TokenField(m) = TokenLen[m]
  BY <1>1, <1>3, <1>4, FitsField DEF TokenField
<1>6. CASE Ctrl[m] = 12
  <2>1. p.cmd < U16 /\ p.head < U32
    BY <1>1, <1>2, <1>6 DEF PackLen, DataLen, Sum, PackHead, MsgHead
  <2>2. Fields(m) = [cmd |-> p.cmd, head |-> p.head, body |-> p.body]
    BY <1>1, <1>3, <1>4, <2>1, FitsField DEF Fields
  <2> QED
    BY <1>5, <1>6, <2>2 DEF Cut, Written, MsgFrom, DataFrom
<1>7. CASE Ctrl[m] # 12
  <2>1. Received(m) - DataFrom(m) = p.body
    BY <1>1, <1>2, <1>5, <1>7 DEF PackLen, DataLen, DataFrom, PackHead
  <2> QED
    BY <1>5, <1>7, <2>1 DEF Cut, Written, DataFrom
<1> QED
  BY <1>6, <1>7

\* Copies come from messages that were sent, within the limit of the sender;
\* only what is not longer than PackMax is parsed, the rest is refused.
DataInv ==
  /\ \A m \in Msgs :
       /\ handed[m] + parsing[m] <= taken[m]
       /\ net[m] > 0 \/ taken[m] > 0 => m \in sent
       /\ parsing[m] > 0 => Received(m) <= PackMax
       /\ handed[m] > 0 => m \in Accepted /\ Received(m) <= PackMax
       /\ m \in sent /\ From[m] \in Ends => DataLen(m) <= DataMax
  /\ \A m \in refused : m \in sent /\ Received(m) > PackMax

\* The lengths are numbers.
LEMMA LengthTyped ==
  ASSUME NEW m \in Msgs
  PROVE  /\ DataLen(m) \in Nat /\ PackLen(m) \in Nat /\ Received(m) \in Nat
         /\ PackLen(m) = PackHead + TokenLen[m] + DataLen(m)
         /\ TokenLen[m] \in Nat
<1>1. Parts[m].cmd \in Nat /\ Parts[m].head \in Nat /\ Parts[m].body \in Nat
  OBVIOUS
<1>2. DataLen(m) \in Nat
  BY <1>1 DEF DataLen, Sum, MsgHead
<1>3. PackLen(m) \in Nat
  BY <1>2 DEF PackLen, PackHead
<1> QED
  BY <1>2, <1>3 DEF PackLen, Received

\* Nothing was sent.
LEMMA DataInit == Init => DataInv
  BY DEF Init, DataInv

\* A message is sent within the limit, by an end or by another program.
LEMMA SendData ==
  ASSUME TypeOK, DataInv, NEW k \in Msgs, Send(k) \/ Inject(k) PROVE DataInv'
<1>1. From[k] \in Ends => DataLen(k) <= DataMax
  BY DEF Send, FitsPackage, Inject
<1>2. sent' = sent \union {k} /\ UNCHANGED taskVars
  BY DEF Send, Inject
<1>3. \A m \in Msgs : net'[m] > 0 => net[m] > 0 \/ m = k
  BY DEF Send, Inject, Add, TypeOK, Counts
<1> QED
  BY <1>1, <1>2, <1>3 DEF DataInv, taskVars

\* run_recv takes a copy, and has it parsed or refuses it.
LEMMA RecvData ==
  ASSUME TypeOK, DataInv, NEW e \in Ends, NEW k \in Msgs, Recv(e, k)
  PROVE  DataInv'
<1>1. net[k] > 0 /\ UNCHANGED <<sent, handed>>
  BY DEF Recv, TakeFromSocket, Take
<1>2. k \in sent
  BY <1>1 DEF DataInv
<1>3. \A m \in Msgs : /\ net'[m] > 0 => net[m] > 0
                     /\ taken'[m] = IF m = k THEN taken[m] + 1 ELSE taken[m]
  BY DEF Recv, TakeFromSocket, Take, Add, TypeOK, Counts
<1>4. CASE Received(k) <= PackMax
  <2>1. /\ UNCHANGED refused
        /\ \A m \in Msgs : parsing'[m] = IF m = k THEN parsing[m] + 1 ELSE parsing[m]
    BY <1>4 DEF Recv, SpawnParse, Add, TypeOK, Counts
  <2> QED
    BY <1>1, <1>2, <1>3, <1>4, <2>1 DEF DataInv, TypeOK, Counts
<1>5. CASE ~(Received(k) <= PackMax)
  <2>1. refused' = refused \union {k} /\ UNCHANGED parsing
    BY <1>5 DEF Recv, CallPacketErr
  <2>2. Received(k) > PackMax
    BY <1>5, LengthTyped
  <2> QED
    BY <1>1, <1>2, <1>3, <2>1, <2>2, SMTT(30) DEF DataInv, TypeOK, Counts
<1> QED
  BY <1>4, <1>5

\* run_parse hands on what it parsed, or drops it.
LEMMA ParseData ==
  ASSUME TypeOK, DataInv, NEW k \in Msgs, Parse(k) PROVE DataInv'
<1>1. /\ parsing[k] > 0
      /\ \A m \in Msgs : parsing'[m] = IF m = k THEN parsing[m] - 1 ELSE parsing[m]
  BY DEF Parse, Take, TypeOK, Counts
<1>2. \A m \in Msgs :
        handed'[m] = handed[m] \/ (m = k /\ k \in Accepted /\ handed'[m] = handed[m] + 1)
  BY DEF Parse, Add, TypeOK, Counts
<1>3. UNCHANGED <<sent, net, taken, refused>>
  BY DEF Parse
<1>4. ASSUME NEW m \in Msgs PROVE handed'[m] + parsing'[m] <= taken'[m]
  <2>1. handed[m] \in Nat /\ parsing[m] \in Nat /\ taken[m] \in Nat
    BY DEF TypeOK, Counts
  <2>2. handed[m] + parsing[m] <= taken[m] /\ taken'[m] = taken[m]
    BY <1>3 DEF DataInv
  <2> QED
    BY <1>1, <1>2, <2>1, <2>2
<1>5. \A m \in Msgs :
        handed'[m] > 0 => m \in Accepted /\ Received(m) <= PackMax
  BY <1>1, <1>2 DEF DataInv, TypeOK, Counts
<1>6. \A m \in Msgs : parsing'[m] > 0 => Received(m) <= PackMax
  BY <1>1 DEF DataInv
<1> QED
  BY <1>3, <1>4, <1>5, <1>6 DEF DataInv

\* Every step keeps the invariant.
LEMMA DataStep == TypeOK /\ DataInv /\ [Next]_vars => DataInv'
<1> SUFFICES ASSUME TypeOK, DataInv, [Next]_vars PROVE DataInv'
  OBVIOUS
<1>1. ASSUME UNCHANGED <<sent, taskVars>>,
             \A m \in Msgs : net'[m] > 0 => net[m] > 0
      PROVE  DataInv'
  BY <1>1 DEF DataInv, taskVars
<1>2. ASSUME NEW m \in Msgs, Duplicate(m) \/ Lose(m) PROVE DataInv'
  BY <1>1, <1>2 DEF Duplicate, Lose, Take, Add, TypeOK, Counts
<1>3. ASSUME NEW e \in Ends,
             \/ Bind(e) \/ Publish(e) \/ LoopCheck(e) \/ LoopLook(e)
             \/ RecvFail(e) \/ PacketErrEnd(e) \/ RunStopTest(e) \/ RunStop(e)
             \/ RunDrop(e) \/ UserStopTest(e) \/ UserStop(e) \/ UserDrop(e)
             \/ ParentStop(e) \/ SendFail(e) \/ \E d \in Ends : Connect(e, d)
      PROVE  DataInv'
  BY <1>1, <1>3
  DEF Bind, Publish, LoopCheck, LoopLook, RecvFail, PacketErrEnd, RunStopTest,
      RunStop, RunDrop, UserStopTest, UserStop, UserDrop, ParentStop, SendFail,
      Connect
<1>4. CASE UNCHANGED vars
  BY <1>1, <1>4 DEF vars, taskVars
<1> QED
  BY <1>2, <1>3, <1>4, SendData, RecvData, ParseData DEF Next, RunStep

\* What is handed on is what was written, was sent, and is accepted.
THEOREM FaithfulHolds == Spec => []Faithful
<1>1. TypeOK /\ DataInv => Faithful
  BY WholeCut DEF TypeOK, DataInv, Faithful
<1> QED
  BY <1>1, TypeInit, TypeStep, DataInit, DataStep, PTL DEF Spec

\* An end's own package is refused by another for a long token only.
THEOREM RefusedForTokenHolds == Spec => []RefusedForToken
<1>1. TypeOK /\ DataInv => RefusedForToken
  <2> SUFFICES ASSUME TypeOK, DataInv, NEW m \in refused, From[m] \in Ends
               PROVE  PackHead + TokenLen[m] > PackMax - DataMax
    BY DEF RefusedForToken
  <2>1. m \in Msgs /\ DataLen(m) <= DataMax /\ Received(m) > PackMax
    BY DEF TypeOK, DataInv
  <2>2. PackLen(m) > PackMax
    BY <2>1, LengthTyped DEF Received
  <2> QED
    BY <2>1, <2>2, LengthTyped DEF PackHead
<1> QED
  BY <1>1, TypeInit, TypeStep, DataInit, DataStep, PTL DEF Spec
----------------------------------------------------------------------------
(* The socket *)

\* There is a socket only once run() has stored it.  From then on it is missing
\* only when the context is done; and where stop() has set its flag, either a
\* stop() is about to drop the socket or it was over before it was stored.
StopInv ==
  \A e \in Ends :
    /\ conn[e] => run[e] \notin {"idle", "bound"}
    /\ run[e] \notin {"idle", "bound", "end"} /\ ~conn[e] => done[e]
    /\ conn[e] /\ shuted[e] /\ ~early[e] => stopper[e] = "drop" \/ run[e] = "drop"
    /\ conn[e] /\ run[e] = "end" => shuted[e]
    /\ run[e] \in {"stop", "seen", "drop"} => done[e]

\* There is no socket.
LEMMA StopInit == Init => StopInv
  BY DEF Init, StopInv

\* Steps of run().
LEMMA RunStops ==
  ASSUME TypeOK, StopInv, NEW e \in Ends,
         \/ Bind(e) \/ Publish(e) \/ LoopCheck(e) \/ LoopLook(e) \/ RecvFail(e)
         \/ PacketErrEnd(e) \/ \E m \in Msgs : Recv(e, m)
         \/ RunStopTest(e) \/ RunStop(e) \/ RunDrop(e)
  PROVE  StopInv'
<1> USE DEF StopInv, TypeOK, RunAt, RunPlaces, Flags, stopVars
<1>1. CASE Bind(e)
  BY <1>1 DEF Bind
<1>2. CASE Publish(e)
  BY <1>2 DEF Publish
<1>3. CASE LoopCheck(e)
  BY <1>3 DEF LoopCheck
<1>4. CASE LoopLook(e)
  BY <1>4 DEF LoopLook
<1>5. CASE RecvFail(e)
  BY <1>5 DEF RecvFail
<1>6. CASE PacketErrEnd(e)
  BY <1>6 DEF PacketErrEnd
<1>7. ASSUME NEW m \in Msgs, Recv(e, m) PROVE StopInv'
  <2>1. /\ run[e] = "recv"
        /\ run' = [run EXCEPT ![e] = "check"] \/ run' = [run EXCEPT ![e] = "err"]
    BY <1>7 DEF Recv, SpawnParse, CallPacketErr
  <2>2. UNCHANGED <<conn, done, shuted, stopper, early>>
    BY <1>7 DEF Recv, TakeFromSocket
  <2> QED
    BY <2>1, <2>2
<1>8. CASE RunStopTest(e)
  BY <1>8 DEF RunStopTest
<1>9. CASE RunStop(e)
  BY <1>9 DEF RunStop, ShutFlags
<1>10. CASE RunDrop(e)
  BY <1>10 DEF RunDrop, DropConn
<1> QED
  BY <1>1, <1>2, <1>3, <1>4, <1>5, <1>6, <1>7, <1>8, <1>9, <1>10

\* Steps of a user.
LEMMA UserStops ==
  ASSUME TypeOK, StopInv, NEW e \in Ends,
         UserStopTest(e) \/ UserStop(e) \/ UserDrop(e) \/ ParentStop(e)
  PROVE  StopInv'
<1> USE DEF StopInv, TypeOK, StopperAt, RunPlaces, Flags
<1>1. CASE UserStopTest(e)
  BY <1>1 DEF UserStopTest
<1>2. CASE UserStop(e)
  BY <1>2 DEF UserStop, ShutFlags
<1>3. CASE UserDrop(e)
  BY <1>3 DEF UserDrop, DropConn
<1>4. CASE ParentStop(e)
  BY <1>4 DEF ParentStop
<1> QED
  BY <1>1, <1>2, <1>3, <1>4

\* Every step keeps the invariant.
LEMMA StopStep == TypeOK /\ StopInv /\ [Next]_vars => StopInv'
<1> SUFFICES ASSUME TypeOK, StopInv, [Next]_vars PROVE StopInv'
  OBVIOUS
<1>1. ASSUME UNCHANGED <<conn, stopVars, run, early>> PROVE StopInv'
  BY <1>1 DEF StopInv, stopVars
<1>2. ASSUME NEW m \in Msgs,
             Send(m) \/ Inject(m) \/ Duplicate(m) \/ Lose(m) \/ Parse(m)
      PROVE  StopInv'
  BY <1>1, <1>2 DEF Send, Inject, Duplicate, Lose, Parse
<1>3. ASSUME NEW e \in Ends, SendFail(e) \/ \E d \in Ends : Connect(e, d)
      PROVE  StopInv'
  BY <1>1, <1>3 DEF SendFail, Connect
<1>4. CASE UNCHANGED vars
  BY <1>1, <1>4 DEF vars, stopVars
<1> QED
  BY <1>2, <1>3, <1>4, RunStops, UserStops DEF Next, RunStep

\* The loop finds no socket only when the context is done, and until then an
\* open socket has the loop that reads it.
THEOREM LoopHasSocketHolds == Spec => []LoopHasSocket
<1>1. TypeOK /\ StopInv => LoopHasSocket
  BY DEF TypeOK, RunPlaces, StopInv, LoopHasSocket
<1> QED
  BY <1>1, TypeInit, TypeStep, StopInit, StopStep, PTL DEF Spec

\* A run() that has returned leaves no socket behind, unless a stop() was over
\* before it stored one.
THEOREM ClosedAfterRunHolds == Spec => []ClosedAfterRun
<1>1. TypeOK /\ StopInv => ClosedAfterRun
  BY DEF TypeOK, StopInv, ClosedAfterRun
<1> QED
  BY <1>1, TypeInit, TypeStep, StopInit, StopStep, PTL DEF Spec
=============================================================================
