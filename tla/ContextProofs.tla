--------------------------- MODULE ContextProofs ---------------------------
(***************************************************************************)
(* Theorems about Context, for any number of handlers, spawned tasks and   *)
(* calls and for any length of the body.                                   *)
(***************************************************************************)
EXTENDS Context, SequenceTheorems, FiniteSetTheorems, TLAPS

\* A Context that parse_conn just made is well typed.
LEMMA TypeInit == Init => TypeOK
<1> SUFFICES ASSUME Init PROVE TypeOK
  OBVIOUS
<1> USE ContextAssumption DEF Init, Procs
<1>1. FlagsTyped
  BY DEF FlagsTyped
<1>2. StreamTyped
  BY DEF StreamTyped
<1>3. AnswerTyped
  BY DEF AnswerTyped, Codes
<1>4. PlaceTyped
  BY DEF PlaceTyped, Stages, Points
<1> QED
  BY <1>1, <1>2, <1>3, <1>4 DEF TypeOK

\* The flags are only ever assigned Booleans.
LEMMA FlagsStep ==
  ASSUME TypeOK, Next
  PROVE  FlagsTyped'
<1> USE DEF TypeOK, FlagsTyped, bodyVars, respVars, cliVars, peerVars
<1>1. CASE RunCli
  <2> USE DEF CliIdle, Goto, BeginAnswer
  <2>1. CASE StartHandler
    BY <2>1 DEF StartHandler
  <2>2. CASE HandlerReturn
    BY <2>2 DEF HandlerReturn
  <2>3. CASE LeaveLoop
    BY <2>3 DEF LeaveLoop
  <2>4. CASE FinalAnswer
    BY <2>4 DEF FinalAnswer
  <2> QED
    BY <1>1, <2>1, <2>2, <2>3, <2>4 DEF RunCli
<1>2. ASSUME NEW p \in Procs, BodyCall(p) PROVE FlagsTyped'
  BY <1>2 DEF BodyCall, MayCall
<1>3. ASSUME NEW p \in Procs, BodyCancel(p) PROVE FlagsTyped'
  BY <1>3 DEF BodyCancel
<1>4. ASSUME NEW p \in Procs, RespCall(p) PROVE FlagsTyped'
  BY <1>4 DEF RespCall
<1>5. ASSUME NEW p \in Procs, InBody(p) PROVE FlagsTyped'
  BY <1>5 DEF InBody, BodyLock, BodyRead, BodyError, OwnTake
<1>6. ASSUME NEW p \in Procs, InResponse(p) PROVE FlagsTyped'
  BY <1>6 DEF InResponse, RespCheck, RespMark, RespWrite, RespFail
<1>7. ASSUME NEW t \in Spawned, Spawn(t) \/ TaskEnd(t) PROVE FlagsTyped'
  BY <1>7 DEF Spawn, TaskEnd
<1>8. CASE PeerSend \/ PeerClose
  BY <1>8 DEF PeerSend, PeerClose
<1> QED
  BY <1>1, <1>2, <1>3, <1>4, <1>5, <1>6, <1>7, <1>8 DEF Next

\* The stream, the body and what readers gathered keep their types.
LEMMA StreamStep ==
  ASSUME TypeOK, Next
  PROVE  StreamTyped'
<1> USE DEF TypeOK, StreamTyped, bodyVars, respVars, cliVars, peerVars
<1>1. CASE RunCli
  BY <1>1 DEF RunCli, StartHandler, HandlerReturn, LeaveLoop, FinalAnswer
<1>2. ASSUME NEW p \in Procs, BodyCall(p) PROVE StreamTyped'
  BY <1>2 DEF BodyCall
<1>3. ASSUME NEW p \in Procs, BodyCancel(p) PROVE StreamTyped'
  <2>1. <<>> \in Seq(Nat)
    OBVIOUS
  <2> QED
    BY <1>3, <2>1 DEF BodyCancel
<1>4. ASSUME NEW p \in Procs, RespCall(p) PROVE StreamTyped'
  BY <1>4 DEF RespCall
<1>5. ASSUME NEW p \in Procs, InBody(p) PROVE StreamTyped'
  <2>1. CASE BodyLock(p)
    BY <2>1 DEF BodyLock
  <2>2. CASE BodyRead(p)
    <3>1. Append(got[p], rd + 1) \in Seq(Nat) /\ <<>> \in Seq(Nat)
      BY AppendProperties
    <3>2. got' \in [Procs -> Seq(Nat)]
      BY <2>2, <3>1 DEF BodyRead
    <3>3. bodys' \in Seq(Nat) /\ lock' \in Procs \union {Nobody}
      BY <2>2, <3>1 DEF BodyRead
    <3> QED
      BY <2>2, <3>2, <3>3 DEF BodyRead
  <2>3. CASE BodyError(p)
    <3>1. <<>> \in Seq(Nat)
      OBVIOUS
    <3> QED
      BY <2>3, <3>1 DEF BodyError
  <2>4. CASE OwnTake(p)
    BY <2>4 DEF OwnTake
  <2> QED
    BY <1>5, <2>1, <2>2, <2>3, <2>4 DEF InBody
<1>6. ASSUME NEW p \in Procs, InResponse(p) PROVE StreamTyped'
  BY <1>6 DEF InResponse, RespCheck, RespMark, RespWrite, RespFail
<1>7. ASSUME NEW t \in Spawned, Spawn(t) \/ TaskEnd(t) PROVE StreamTyped'
  BY <1>7 DEF Spawn, TaskEnd
<1>8. CASE PeerSend \/ PeerClose
  BY <1>8 DEF PeerSend, PeerClose
<1> QED
  BY <1>1, <1>2, <1>3, <1>4, <1>5, <1>6, <1>7, <1>8 DEF Next

\* Whatever parts a response has, there is a chunk to write.
LEMMA FramesTyped ==
  ASSUME NEW f \in Frames
  PROVE  f \in Seq(Parts) /\ f # <<>>
<1> USE DEF Parts
<1>1. CASE f = <<"info">>
  BY <1>1
<1>2. CASE f = <<"info", "head">>
  BY <1>2
<1>3. CASE f = <<"info", "body">>
  BY <1>3
<1>4. CASE f = <<"info", "head", "body">>
  BY <1>4
<1> QED
  BY <1>1, <1>2, <1>3, <1>4 DEF Frames

\* What response() has to write and has written keeps its type.
LEMMA AnswerStep ==
  ASSUME TypeOK, Next
  PROVE  AnswerTyped'
<1> USE DEF TypeOK, AnswerTyped, PlaceTyped, Goto, bodyVars, respVars,
        cliVars, peerVars
<1>1. CASE RunCli
  <2> StringFrame \in Seq(Parts) /\ StringFrame # <<>>
    BY DEF StringFrame, Parts
  <2> Cli \in Procs
    BY DEF Procs
  <2>1. CASE StartHandler
    BY <2>1 DEF StartHandler
  <2>2. CASE HandlerReturn
    BY <2>2, ZenonT(40) DEF HandlerReturn, BeginAnswer, Codes
  <2>3. CASE LeaveLoop
    BY <2>3 DEF LeaveLoop
  <2>4. CASE FinalAnswer
    BY <2>4 DEF FinalAnswer, BeginAnswer, Codes
  <2> QED
    BY <1>1, <2>1, <2>2, <2>3, <2>4 DEF RunCli
<1>2. ASSUME NEW p \in Procs, BodyCall(p) PROVE AnswerTyped'
  BY <1>2 DEF BodyCall
<1>3. ASSUME NEW p \in Procs, BodyCancel(p) PROVE AnswerTyped'
  BY <1>3 DEF BodyCancel
<1>4. ASSUME NEW p \in Procs, RespCall(p) PROVE AnswerTyped'
  BY <1>4, FramesTyped DEF RespCall, BeginAnswer, Codes
<1>5. ASSUME NEW p \in Procs, InBody(p) PROVE AnswerTyped'
  <2>1. CASE BodyLock(p)
    BY <2>1 DEF BodyLock, AfterBody
  <2>2. CASE BodyRead(p)
    BY <2>2 DEF BodyRead, AfterBody
  <2>3. CASE BodyError(p)
    BY <2>3 DEF BodyError, AfterBody
  <2>4. CASE OwnTake(p)
    BY <2>4 DEF OwnTake
  <2> QED
    BY <1>5, <2>1, <2>2, <2>3, <2>4 DEF InBody
<1>6. ASSUME NEW p \in Procs, InResponse(p) PROVE AnswerTyped'
  <2>0. ASSUME EndAnswer(p), out' \in Seq(Chunks)
        PROVE  AnswerTyped'
    <3>1. <<>> \in Seq(Parts)
      OBVIOUS
    <3> QED
      BY <2>0, <3>1 DEF EndAnswer, Codes
  <2>1. CASE RespCheck(p)
    BY <2>0, <2>1 DEF RespCheck
  <2>2. CASE RespMark(p)
    BY <2>0, <2>2 DEF RespMark
  <2>3. CASE RespWrite(p)
    <3>1. /\ Head(todo[p]) \in Parts
          /\ Tail(todo[p]) \in Seq(Parts)
      BY <2>3, HeadTailProperties DEF RespWrite
    <3>2. [by |-> p, code |-> code[p], part |-> Head(todo[p])] \in Chunks
      BY <3>1 DEF Chunks
    <3>3. out' \in Seq(Chunks)
      BY <2>3, <3>2, AppendProperties DEF RespWrite
    <3>4. CASE Tail(todo[p]) = <<>>
      BY <2>0, <2>3, <3>3, <3>4 DEF RespWrite
    <3>5. CASE Tail(todo[p]) # <<>>
      BY <2>3, <3>1, <3>3, <3>5 DEF RespWrite
    <3> QED
      BY <3>4, <3>5
  <2>4. CASE RespFail(p)
    BY <2>0, <2>4 DEF RespFail
  <2> QED
    BY <1>6, <2>1, <2>2, <2>3, <2>4 DEF InResponse
<1>7. ASSUME NEW t \in Spawned, Spawn(t) \/ TaskEnd(t) PROVE AnswerTyped'
  BY <1>7 DEF Spawn, TaskEnd
<1>8. CASE PeerSend \/ PeerClose
  BY <1>8 DEF PeerSend, PeerClose
<1> QED
  BY <1>1, <1>2, <1>3, <1>4, <1>5, <1>6, <1>7, <1>8 DEF Next

\* Tasks only move between the await points of the code.
LEMMA PlaceStep ==
  ASSUME TypeOK, Next
  PROVE  PlaceTyped'
<1> USE ContextAssumption DEF TypeOK, PlaceTyped, Goto, Points, Stages,
        bodyVars, respVars, cliVars, peerVars
<1>1. CASE RunCli
  <2>1. CASE StartHandler
    BY <2>1 DEF StartHandler
  <2>2. CASE HandlerReturn
    BY <2>2 DEF HandlerReturn, BeginAnswer
  <2>3. CASE LeaveLoop
    BY <2>3 DEF LeaveLoop
  <2>4. CASE FinalAnswer
    BY <2>4 DEF FinalAnswer, BeginAnswer
  <2> QED
    BY <1>1, <2>1, <2>2, <2>3, <2>4 DEF RunCli
<1>2. ASSUME NEW p \in Procs, BodyCall(p) PROVE PlaceTyped'
  BY <1>2 DEF BodyCall, MayCall
<1>3. ASSUME NEW p \in Procs, BodyCancel(p) PROVE PlaceTyped'
  BY <1>3 DEF BodyCancel
<1>4. ASSUME NEW p \in Procs, RespCall(p) PROVE PlaceTyped'
  BY <1>4 DEF RespCall, BeginAnswer, MayCall
<1>5. ASSUME NEW p \in Procs, InBody(p) PROVE PlaceTyped'
  <2>1. CASE BodyLock(p)
    BY <2>1 DEF BodyLock, AfterBody
  <2>2. CASE BodyRead(p)
    BY <2>2 DEF BodyRead, AfterBody
  <2>3. CASE BodyError(p)
    BY <2>3 DEF BodyError, AfterBody
  <2>4. CASE OwnTake(p)
    BY <2>4 DEF OwnTake
  <2> QED
    BY <1>5, <2>1, <2>2, <2>3, <2>4 DEF InBody
<1>6. ASSUME NEW p \in Procs, InResponse(p) PROVE PlaceTyped'
  BY <1>6 DEF InResponse, RespCheck, RespMark, RespWrite, RespFail, EndAnswer
<1>7. ASSUME NEW t \in Spawned, Spawn(t) \/ TaskEnd(t) PROVE PlaceTyped'
  BY <1>7 DEF Spawn, TaskEnd
<1>8. CASE PeerSend \/ PeerClose
  BY <1>8 DEF PeerSend, PeerClose
<1> QED
  BY <1>1, <1>2, <1>3, <1>4, <1>5, <1>6, <1>7, <1>8 DEF Next

\* A step of somebody else leaves the types alone.
LEMMA TypeStutter ==
  ASSUME TypeOK, UNCHANGED vars
  PROVE  TypeOK'
BY DEF TypeOK, FlagsTyped, StreamTyped, AnswerTyped, PlaceTyped, vars

\* Every reachable state is well typed: run_cli never starts more handlers
\* than it found, and response() always has a chunk to write when it writes.
THEOREM TypeCorrect == Spec => []TypeOK
<1>1. TypeOK /\ [Next]_vars => TypeOK'
  BY FlagsStep, StreamStep, AnswerStep, PlaceStep, TypeStutter DEF TypeOK
<1> QED
  BY <1>1, TypeInit, PTL DEF Spec

----------------------------------------------------------------------------
(* The Mutex protects the borrow of the stream *)

\* Why the read of the body is exclusive: the task that reads is the one that
\* holds the Mutex, nobody can hold it once bodyok is set, and own_conn gets
\* to the stream only after bodyok was set.  Whoever does not read has an
\* empty buffer.
LockInv ==
  /\ \A p \in Procs : pc[p] = "read" <=> lock = p
  /\ lock # Nobody => ~bodyok /\ conn = "open"
  /\ \A p \in Procs : pc[p] = "take" => bodyok
  /\ conn = "owned" => bodyok
  /\ ~bodyok => bodys = <<>>
  /\ \A p \in Procs : pc[p] # "read" => got[p] = <<>>

\* The n bytes behind the first s.
BytesRead(s, n) == [i \in 1..n |-> s + i]

\* The cursor of the stream is always behind the bytes that were lost and
\* those the reader, or the stored body, has.
ExactInv ==
  /\ lock = Nobody /\ ~bodyok => rd = lost
  /\ \A p \in Procs :
       pc[p] = "read" => /\ got[p] = BytesRead(lost, Len(got[p])) /\ Len(got[p]) < BodyLen
                         /\ rd = lost + Len(got[p])
  /\ bodyok => rd = lost + (IF broken THEN 0 ELSE BodyLen)
  /\ ~bodyok => ~broken
  /\ bodys # <<>> => bodys = BytesRead(lost, BodyLen)

\* Initially nobody reads the body.
LEMMA LockInit == Init => LockInv
BY ContextAssumption DEF Init, LockInv, Procs

\* Every step of every task keeps LockInv.
LEMMA LockStep ==
  ASSUME TypeOK, LockInv, Next
  PROVE  LockInv'
<1> USE ContextAssumption DEF TypeOK, StreamTyped, PlaceTyped, LockInv, CliIdle,
        Goto, BeginAnswer, EndAnswer, AfterBody, bodyVars, respVars, cliVars,
        peerVars
<1>1. CASE RunCli
  <2> Cli \in Procs
    BY DEF Procs
  <2>1. CASE StartHandler
    BY <2>1 DEF StartHandler
  <2>2. CASE HandlerReturn
    BY <2>2 DEF HandlerReturn
  <2>3. CASE LeaveLoop
    BY <2>3 DEF LeaveLoop
  <2>4. CASE FinalAnswer
    BY <2>4 DEF FinalAnswer
  <2> QED
    BY <1>1, <2>1, <2>2, <2>3, <2>4 DEF RunCli
<1>2. ASSUME NEW p \in Procs, BodyCall(p) PROVE LockInv'
  BY <1>2 DEF BodyCall, MayCall
<1>3. ASSUME NEW p \in Procs, BodyCancel(p) PROVE LockInv'
  BY <1>3 DEF BodyCancel
<1>4. ASSUME NEW p \in Procs, RespCall(p) PROVE LockInv'
  BY <1>4 DEF RespCall, MayCall
<1>5. ASSUME NEW p \in Procs, InBody(p) PROVE LockInv'
  <2>1. CASE BodyLock(p)
    BY <2>1 DEF BodyLock
  <2>2. CASE BodyRead(p)
    BY <2>2 DEF BodyRead
  <2>3. CASE BodyError(p)
    BY <2>3 DEF BodyError
  <2>4. CASE OwnTake(p)
    BY <2>4 DEF OwnTake
  <2> QED
    BY <1>5, <2>1, <2>2, <2>3, <2>4 DEF InBody
<1>6. ASSUME NEW p \in Procs, InResponse(p) PROVE LockInv'
  <2>1. CASE RespCheck(p)
    BY <2>1 DEF RespCheck
  <2>2. CASE RespMark(p)
    BY <2>2 DEF RespMark
  <2>3. CASE RespWrite(p)
    BY <2>3 DEF RespWrite
  <2>4. CASE RespFail(p)
    BY <2>4 DEF RespFail
  <2> QED
    BY <1>6, <2>1, <2>2, <2>3, <2>4 DEF InResponse
<1>7. ASSUME NEW t \in Spawned, Spawn(t) \/ TaskEnd(t) PROVE LockInv'
  <2> t \in Procs
    BY DEF Procs
  <2> QED
    BY <1>7 DEF Spawn, TaskEnd
<1>8. CASE PeerSend \/ PeerClose
  BY <1>8 DEF PeerSend, PeerClose
<1> QED
  BY <1>1, <1>2, <1>3, <1>4, <1>5, <1>6, <1>7, <1>8 DEF Next

\* The Mutex of get_bodys guards the stream in every reachable state.
THEOREM LockCorrect == Spec => []LockInv
<1>1. TypeOK /\ LockInv /\ [Next]_vars => LockInv'
  <2>1. CASE UNCHANGED vars
    BY <2>1 DEF LockInv, vars
  <2> QED
    BY <2>1, LockStep
<1> QED
  BY <1>1, LockInit, TypeCorrect, PTL DEF Spec

\* Two tasks never hold the unsafe borrow of the stream at once, and own_conn
\* never moves the stream away under a reader.
THEOREM ReadExclusive == Spec => []ExclusiveRead
<1>1. TypeOK /\ LockInv => ExclusiveRead
  BY ContextAssumption DEF TypeOK, StreamTyped, LockInv, ExclusiveRead
<1> QED
  BY <1>1, TypeCorrect, LockCorrect, PTL
----------------------------------------------------------------------------
(* The body is read exactly *)

\* What a loop that appends the next byte has at the end of a round.
LEMMA CountAppend ==
  ASSUME NEW n \in Nat, NEW s \in Nat
  PROVE  Append([i \in 1..n |-> s + i], s + n + 1) = [i \in 1..(n + 1) |-> s + i]
OBVIOUS

\* Initially nothing of the body was read.
LEMMA ExactInit == Init => ExactInv
BY ContextAssumption DEF Init, ExactInv, Procs

\* A step that leaves the body alone, and starts or ends no read, keeps it.
LEMMA ExactAlone ==
  ASSUME ExactInv, UNCHANGED <<bodys, bodyok, rd, got, lost, broken, lock>>,
         \A p \in Procs : pc'[p] = "read" => pc[p] = "read"
  PROVE  ExactInv'
BY DEF ExactInv

\* Every step of every task keeps ExactInv.
LEMMA ExactStep ==
  ASSUME TypeOK, LockInv, ExactInv, Next
  PROVE  ExactInv'
<1> USE ContextAssumption DEF TypeOK, StreamTyped, PlaceTyped, Goto, bodyVars
<1>1. CASE RunCli \/ PeerSend \/ PeerClose
  <2>1. UNCHANGED bodyVars
    BY <1>1 DEF RunCli, StartHandler, HandlerReturn, LeaveLoop, FinalAnswer,
                PeerSend, PeerClose
  <2>2. \A p \in Procs : pc'[p] = "read" => pc[p] = "read"
    BY <1>1 DEF RunCli, StartHandler, HandlerReturn, LeaveLoop, FinalAnswer,
                PeerSend, PeerClose, BeginAnswer
  <2> QED
    BY <2>1, <2>2, ExactAlone
<1>2. ASSUME NEW p \in Procs, BodyCall(p) PROVE ExactInv'
  <2>1. /\ UNCHANGED <<bodys, bodyok, rd, got, lost, broken, lock>>
        /\ \A q \in Procs : pc'[q] = "read" => pc[q] = "read"
    BY <1>2 DEF BodyCall
  <2> QED
    BY <2>1, ExactAlone
<1>3. ASSUME NEW p \in Procs, BodyCancel(p) PROVE ExactInv'
  <2>1. CASE pc[p] = "lock"
    <3>1. lock # p /\ got[p] = <<>> /\ Len(<<>>) = 0
      BY <2>1 DEF LockInv
    <3>2. UNCHANGED <<bodys, bodyok, rd, lost, broken, lock>>
      BY <1>3, <3>1 DEF BodyCancel
    <3>3. got' = [got EXCEPT ![p] = got[p]] /\ got \in [Procs -> Seq(Nat)]
      BY <1>3, <3>1 DEF BodyCancel
    <3>4. got' = got
      BY <3>3
    <3>5. \A q \in Procs : pc'[q] = "read" => pc[q] = "read"
      BY <1>3 DEF BodyCancel
    <3> QED
      BY <3>2, <3>4, <3>5, ExactAlone
  <2>2. CASE pc[p] = "read"
    <3>1. lock = p /\ ~bodyok /\ bodys = <<>> /\ rd = lost + Len(got[p])
      BY <2>2 DEF LockInv, ExactInv
    <3>2. /\ rd' = rd /\ lost' = lost + Len(got[p]) /\ lock' = Nobody
          /\ UNCHANGED <<bodyok, bodys, broken>>
      BY <1>3, <3>1 DEF BodyCancel
    <3>3. \A q \in Procs : pc'[q] # "read"
      BY <1>3, <3>1 DEF BodyCancel, LockInv
    <3> QED
      BY <3>1, <3>2, <3>3 DEF ExactInv
  <2> QED
    BY <1>3, <2>1, <2>2 DEF BodyCancel
<1>4. ASSUME NEW p \in Procs, RespCall(p) PROVE ExactInv'
  <2>1. /\ UNCHANGED <<bodys, bodyok, rd, got, lost, broken, lock>>
        /\ \A q \in Procs : pc'[q] = "read" => pc[q] = "read"
    BY <1>4 DEF RespCall, BeginAnswer
  <2> QED
    BY <2>1, ExactAlone
<1>5. ASSUME NEW p \in Procs, InBody(p) PROVE ExactInv'
  <2>1. CASE BodyLock(p)
    <3>1. got[p] = <<>> /\ BytesRead(lost, 0) = <<>> /\ Len(<<>>) = 0
      BY <2>1 DEF BodyLock, LockInv, BytesRead
    <3>2. UNCHANGED <<bodys, rd, got, lost, broken>>
      BY <2>1 DEF BodyLock
    <3>3. CASE ~bodyok /\ BodyLen > 0 /\ conn = "open"
      <4>1. lock' = p /\ bodyok' = bodyok /\ \A q \in Procs : pc'[q] = "read" => q = p
        BY <2>1, <3>3 DEF BodyLock, LockInv
      <4>2. rd = lost /\ rd' = lost' + 0
        BY <2>1, <3>2, <3>3 DEF BodyLock, ExactInv
      <4>3. BytesRead(lost', 0) = <<>>
        BY <3>1, <3>2
      <4>4. got'[p] = BytesRead(lost', Len(got'[p])) /\ Len(got'[p]) = 0
        BY <3>1, <3>2, <4>3
      <4>5. bodys' = <<>> /\ ~bodyok' /\ ~broken'
        BY <3>2, <3>3, <4>1 DEF LockInv, ExactInv
      <4> QED
        BY <3>3, <4>1, <4>2, <4>4, <4>5 DEF ExactInv
    <3>4. CASE ~(~bodyok /\ BodyLen > 0 /\ conn = "open")
      <4>1. /\ bodyok' /\ lock' = lock /\ lock = Nobody
            /\ \A q \in Procs : pc'[q] # "read"
        BY <2>1, <3>4 DEF BodyLock, LockInv, AfterBody
      <4>2. bodyok \/ BodyLen = 0
        BY <3>4 DEF LockInv
      <4> QED
        BY <3>2, <4>1, <4>2 DEF ExactInv
    <3> QED
      BY <3>3, <3>4
  <2>2. CASE BodyRead(p)
    <3> DEFINE n == Len(got[p])
    <3>1. /\ lock = p /\ ~bodyok /\ bodys = <<>> /\ pc[p] = "read"
          /\ \A q \in Procs : pc[q] = "read" => q = p
      BY <2>2 DEF BodyRead, LockInv
    <3>2. /\ got[p] = BytesRead(lost, n) /\ n < BodyLen /\ n \in Nat
          /\ rd = lost + n /\ lost \in Nat /\ ~broken
      BY <3>1 DEF ExactInv
    <3>3. Append(got[p], rd + 1) = BytesRead(lost, n + 1)
      BY <3>2, CountAppend DEF BytesRead
    <3>4. rd' = rd + 1 /\ UNCHANGED <<lost, broken>>
      BY <2>2 DEF BodyRead
    <3>5. Len(BytesRead(lost, n + 1)) = n + 1
      BY <3>2 DEF BytesRead
    <3> HIDE DEF n
    <3>7. CASE n + 1 = BodyLen
      <4>1. /\ bodys' = BytesRead(lost, BodyLen) /\ bodyok' /\ lock' = Nobody
            /\ \A q \in Procs : pc'[q] # "read"
        BY <2>2, <3>1, <3>3, <3>7 DEF BodyRead, AfterBody, n
      <4>2. BytesRead(lost', BodyLen) = BytesRead(lost, BodyLen)
        BY <3>4
      <4> QED
        BY <3>2, <3>4, <3>7, <4>1, <4>2 DEF ExactInv
    <3>8. CASE n + 1 # BodyLen
      <4>1. /\ got' = [got EXCEPT ![p] = BytesRead(lost, n + 1)]
            /\ UNCHANGED <<bodys, bodyok, lock, pc>>
        BY <2>2, <3>3, <3>8 DEF BodyRead, n
      <4>2. got'[p] = BytesRead(lost, n + 1)
        BY <4>1
      <4>3. Len(got'[p]) = n + 1
        BY <3>5, <4>2
      <4>4. BytesRead(lost', Len(got'[p])) = BytesRead(lost, n + 1)
        BY <3>4, <4>3
      <4>5. rd' = lost' + (n + 1) /\ n + 1 < BodyLen
        BY <3>2, <3>4, <3>8
      <4>6. /\ got'[p] = BytesRead(lost', Len(got'[p])) /\ Len(got'[p]) < BodyLen
            /\ rd' = lost' + Len(got'[p])
        BY <4>2, <4>3, <4>4, <4>5
      <4>7. /\ lock' # Nobody /\ ~bodyok' /\ ~broken' /\ bodys' = <<>>
            /\ \A q \in Procs : pc'[q] = "read" => q = p
        BY <3>1, <3>2, <3>4, <4>1
      <4> QED
        BY <4>6, <4>7 DEF ExactInv
    <3> QED
      BY <3>7, <3>8
  <2>3. CASE BodyError(p)
    <3>1. lock = p /\ bodys = <<>> /\ rd = lost + Len(got[p])
      BY <2>3 DEF BodyError, LockInv, ExactInv
    <3>2. /\ rd' = rd /\ lost' = lost + Len(got[p]) /\ lock' = Nobody
          /\ bodyok' /\ broken' /\ bodys' = bodys
      BY <2>3 DEF BodyError
    <3>3. \A q \in Procs : pc'[q] # "read"
      BY <2>3, <3>1 DEF BodyError, LockInv, AfterBody
    <3>4. rd' = lost' + (IF broken' THEN 0 ELSE BodyLen)
      BY <3>1, <3>2
    <3>5. bodys' = <<>>
      BY <3>1, <3>2
    <3> QED
      BY <3>2, <3>3, <3>4, <3>5 DEF ExactInv
  <2>4. CASE OwnTake(p)
    <3>1. /\ UNCHANGED <<bodys, bodyok, rd, got, lost, broken, lock>>
          /\ \A q \in Procs : pc'[q] = "read" => pc[q] = "read"
      BY <2>4 DEF OwnTake
    <3> QED
      BY <3>1, ExactAlone
  <2> QED
    BY <1>5, <2>1, <2>2, <2>3, <2>4 DEF InBody
<1>6. ASSUME NEW p \in Procs, InResponse(p) PROVE ExactInv'
  <2>1. UNCHANGED bodyVars
    BY <1>6 DEF InResponse, RespCheck, RespMark, RespWrite, RespFail
  <2>2. \A q \in Procs : pc'[q] = "read" => pc[q] = "read"
    BY <1>6 DEF InResponse, RespCheck, RespMark, RespWrite, RespFail, EndAnswer
  <2> QED
    BY <2>1, <2>2, ExactAlone
<1>7. ASSUME NEW t \in Spawned, Spawn(t) \/ TaskEnd(t) PROVE ExactInv'
  <2>1. /\ UNCHANGED <<bodys, bodyok, rd, got, lost, broken, lock>>
        /\ \A q \in Procs : pc'[q] = "read" => pc[q] = "read"
    BY <1>7 DEF Spawn, TaskEnd
  <2> QED
    BY <2>1, ExactAlone
<1> QED
  BY <1>1, <1>2, <1>3, <1>4, <1>5, <1>6, <1>7 DEF Next

\* The cursor of the stream always matches what was read of the body.
THEOREM ExactCorrect == Spec => []ExactInv
<1>1. TypeOK /\ LockInv /\ ExactInv /\ [Next]_vars => ExactInv'
  <2>1. CASE UNCHANGED vars
    BY <2>1 DEF ExactInv, vars
  <2> QED
    BY <2>1, ExactStep
<1> QED
  BY <1>1, ExactInit, TypeCorrect, LockCorrect, PTL DEF Spec

\* Any number of tasks may ask for the body at any time, and calls may be cut
\* short at any byte: what get_bodys stores and where own_conn hands the stream
\* over is decided by the bytes lost in cut-short reads alone, and exact when
\* there were none.
THEOREM StreamIsExact == Spec => []StreamExact
<1>1. LockInv /\ ExactInv => StreamExact
  BY DEF LockInv, ExactInv, StreamExact, BytesRead
<1> QED
  BY <1>1, LockCorrect, ExactCorrect, PTL
----------------------------------------------------------------------------
(* The Context implements its promise *)

\* A fresh Context is a fresh promise.
LEMMA PromiseInit == Init => Promise!Init
BY DEF Init, Promise!Init, Promise!Missing

\* Settling the body, handing the stream over and marking the answer are the
\* only steps a user of the Context can tell from a stutter.
LEMMA PromiseStep ==
  ASSUME TypeOK, LockInv, Next
  PROVE  [Promise!Next]_Promise!vars
<1> USE ContextAssumption DEF TypeOK, FlagsTyped, StreamTyped, PlaceTyped,
        LockInv, Promise!vars, bodyVars, respVars, cliVars, peerVars
<1>0. ASSUME ~bodyok, bodyok' = TRUE, conn = "open", conn' = conn,
             sended' = sended, bodys' \in Seq(Nat), Len(bodys') \in {0, BodyLen}
      PROVE  Promise!Next
  BY <1>0 DEF Promise!Next, Promise!Settle
<1>1. CASE RunCli
  BY <1>1 DEF RunCli, StartHandler, HandlerReturn, LeaveLoop, FinalAnswer
<1>2. ASSUME NEW p \in Procs, BodyCall(p) \/ BodyCancel(p) \/ RespCall(p)
      PROVE  UNCHANGED Promise!vars
  BY <1>2 DEF BodyCall, BodyCancel, RespCall
<1>3. ASSUME NEW p \in Procs, BodyLock(p) PROVE [Promise!Next]_Promise!vars
  <2>1. CASE bodyok' = bodyok
    BY <1>3, <2>1 DEF BodyLock
  <2>2. CASE bodyok' # bodyok
    BY <1>0, <1>3, <2>2 DEF BodyLock
  <2> QED
    BY <2>1, <2>2
<1>4. ASSUME NEW p \in Procs, BodyRead(p) PROVE [Promise!Next]_Promise!vars
  <2>1. lock = p /\ ~bodyok /\ conn = "open"
    BY <1>4 DEF BodyRead
  <2>2. CASE Len(got[p]) + 1 = BodyLen
    <3>1. /\ Append(got[p], rd + 1) \in Seq(Nat)
          /\ Len(Append(got[p], rd + 1)) = BodyLen
      BY <2>2, AppendProperties
    <3> QED
      BY <1>0, <1>4, <2>1, <2>2, <3>1 DEF BodyRead
  <2>3. CASE Len(got[p]) + 1 # BodyLen
    BY <1>4, <2>3 DEF BodyRead
  <2> QED
    BY <2>2, <2>3
<1>5. ASSUME NEW p \in Procs, BodyError(p) PROVE [Promise!Next]_Promise!vars
  <2>1. lock = p /\ ~bodyok /\ conn = "open" /\ Len(bodys) = 0
    BY <1>5 DEF BodyError
  <2> QED
    BY <1>0, <1>5, <2>1 DEF BodyError
<1>6. ASSUME NEW p \in Procs, OwnTake(p) PROVE [Promise!Next]_Promise!vars
  BY <1>6 DEF OwnTake, Promise!Next, Promise!HandOver
<1>7. ASSUME NEW p \in Procs, InResponse(p) PROVE [Promise!Next]_Promise!vars
  BY <1>7 DEF InResponse, RespCheck, RespMark, RespWrite, RespFail,
              Promise!Next, Promise!Answer
<1>8. ASSUME NEW t \in Spawned, Spawn(t) \/ TaskEnd(t)
      PROVE  UNCHANGED Promise!vars
  BY <1>8 DEF Spawn, TaskEnd
<1>9. CASE PeerSend \/ PeerClose
  BY <1>9 DEF PeerSend, PeerClose
<1> QED
  BY <1>1, <1>2, <1>3, <1>4, <1>5, <1>6, <1>7, <1>8, <1>9 DEF Next, InBody

\* The Context implements ContextPromise: the body it returns never changes
\* once returned, the stream is given away at most once and after the body,
\* the mark of an answer stays.
THEOREM ContextKeepsPromise == Spec => PromiseKept
<1>1. TypeOK /\ LockInv /\ [Next]_vars => [Promise!Next]_Promise!vars
  <2>1. CASE UNCHANGED vars
    BY <2>1 DEF vars, Promise!vars
  <2> QED
    BY <2>1, PromiseStep
<1> QED
  BY <1>1, PromiseInit, TypeCorrect, LockCorrect, PTL
     DEF Spec, PromiseKept, Promise!Spec
----------------------------------------------------------------------------
(* The answers run_cli adds *)

\* Once run_cli is past its last look at sended, only an answer it is about to
\* mark can be missing.
AnswerInv ==
  stage = "end" /\ pc[Cli] \notin {"check", "mark"} => sended \/ conn = "owned"

\* An error is on its way to the peer unless somebody answered or has
\* the stream.  "Unknown" that run_cli adds all the same is refused then: the
\* stream is gone.
SilentInv ==
  /\ failed => \/ sended \/ conn = "owned"
               \/ pc[Cli] \in {"check", "mark"} /\ code[Cli] = "error"
  /\ \A p \in Procs : code[p] = "unknown" =>
       /\ stage \in {"end", "panic"}
       /\ failed => pc[p] \notin {"mark", "write"}
       /\ failed /\ pc[p] = "check" => conn = "owned"
  /\ \A i \in DOMAIN out :
       out[i].code = "unknown" => ~failed /\ stage \in {"end", "panic"}

\* Initially run_cli is in its loop and nothing was written.
LEMMA AnswerInit == Init => AnswerInv /\ SilentInv
BY DEF Init, AnswerInv, SilentInv

\* A chunk that is appended is the last, and the only new one.
LEMMA OutAppend ==
  ASSUME NEW s \in Seq(Chunks), NEW c \in Chunks,
         NEW i \in DOMAIN Append(s, c)
  PROVE  \/ i \in DOMAIN s /\ Append(s, c)[i] = s[i]
         \/ Append(s, c)[i] = c
OBVIOUS

\* Every step of every task keeps both.
LEMMA AnswersStep ==
  ASSUME TypeOK, AnswerInv, SilentInv, Next
  PROVE  AnswerInv' /\ SilentInv'
<1> Cli \in Procs
  BY DEF Procs
<1> USE ContextAssumption DEF TypeOK, FlagsTyped, StreamTyped, PlaceTyped,
        AnswerInv, SilentInv, CliIdle, Goto, BeginAnswer, EndAnswer, AfterBody,
        bodyVars, respVars, cliVars, peerVars
<1>0. code \in [Procs -> Codes] /\ out \in Seq(Chunks)
  BY DEF AnswerTyped
<1>1. CASE RunCli
  <2>1. CASE StartHandler
    BY <2>1 DEF StartHandler
  <2>2. CASE HandlerReturn
    BY <1>0, <2>2 DEF HandlerReturn
  <2>3. CASE LeaveLoop
    BY <2>3 DEF LeaveLoop
  <2>4. CASE FinalAnswer
    BY <1>0, <2>4 DEF FinalAnswer
  <2> QED
    BY <1>1, <2>1, <2>2, <2>3, <2>4 DEF RunCli
<1>2. ASSUME NEW p \in Procs, BodyCall(p) \/ BodyCancel(p)
      PROVE  AnswerInv' /\ SilentInv'
  BY <1>2 DEF BodyCall, MayCall, BodyCancel
<1>3. ASSUME NEW p \in Procs, RespCall(p) PROVE AnswerInv' /\ SilentInv'
  BY <1>0, <1>3 DEF RespCall, MayCall
<1>4. ASSUME NEW p \in Procs, InBody(p) PROVE AnswerInv' /\ SilentInv'
  <2>1. CASE BodyLock(p)
    BY <2>1 DEF BodyLock
  <2>2. CASE BodyRead(p)
    BY <2>2 DEF BodyRead
  <2>3. CASE BodyError(p)
    BY <2>3 DEF BodyError
  <2>4. CASE OwnTake(p)
    BY <2>4 DEF OwnTake
  <2> QED
    BY <1>4, <2>1, <2>2, <2>3, <2>4 DEF InBody
<1>5. ASSUME NEW p \in Procs, InResponse(p) PROVE AnswerInv' /\ SilentInv'
  <2>1. CASE RespCheck(p)
    BY <1>0, <2>1 DEF RespCheck
  <2>2. CASE RespMark(p)
    BY <1>0, <2>2 DEF RespMark
  <2>3. CASE RespWrite(p)
    <3> DEFINE c == [by |-> p, code |-> code[p], part |-> Head(todo[p])]
    <3>1. c \in Chunks /\ out' = Append(out, c)
      BY <1>0, <2>3 DEF RespWrite, Chunks, AnswerTyped
    <3>2. c.code = "unknown" => ~failed /\ stage \in {"end", "panic"}
      BY <2>3 DEF RespWrite
    <3>3. /\ UNCHANGED <<sended, conn, stage, failed>>
          /\ \/ UNCHANGED <<pc, code>>
             \/ pc' = [pc EXCEPT ![p] = "idle"] /\ code' = [code EXCEPT ![p] = "app"]
      BY <2>3 DEF RespWrite
    <3> HIDE DEF c
    <3>4. \A i \in DOMAIN out' :
            out'[i].code = "unknown" => ~failed /\ stage \in {"end", "panic"}
      BY <1>0, <3>1, <3>2, OutAppend
    <3> QED
      BY <1>0, <2>3, <3>3, <3>4 DEF RespWrite
  <2>4. CASE RespFail(p)
    BY <1>0, <2>4 DEF RespFail
  <2> QED
    BY <1>5, <2>1, <2>2, <2>3, <2>4 DEF InResponse
<1>6. ASSUME NEW t \in Spawned, Spawn(t) \/ TaskEnd(t)
      PROVE  AnswerInv' /\ SilentInv'
  <2> t \in Procs
    BY DEF Procs
  <2> QED
    BY <1>6 DEF Spawn, TaskEnd
<1>7. CASE PeerSend \/ PeerClose
  BY <1>7 DEF PeerSend, PeerClose
<1> QED
  BY <1>1, <1>2, <1>3, <1>4, <1>5, <1>6, <1>7 DEF Next

\* The answers of run_cli are where it is, in every reachable state.
LEMMA AnswersCorrect == Spec => [](AnswerInv /\ SilentInv)
<1>1. TypeOK /\ (AnswerInv /\ SilentInv) /\ [Next]_vars => (AnswerInv /\ SilentInv)'
  <2>1. CASE UNCHANGED vars
    BY <2>1 DEF AnswerInv, SilentInv, vars
  <2> QED
    BY <2>1, AnswersStep
<1> QED
  BY <1>1, AnswerInit, TypeCorrect, PTL DEF Spec

\* run_cli leaves no request without an answer whose connection it still has,
\* whatever handlers and their tasks do meanwhile; and the error of a handler
\* is never overwritten by "Unknown", although other tasks may answer or take
\* the connection at any moment.
THEOREM AlwaysReplied == Spec => []Replied
<1>1. AnswerInv /\ SilentInv => Replied
  BY DEF AnswerInv, SilentInv, Replied, CliIdle
<1> QED
  BY <1>1, AnswersCorrect, PTL
----------------------------------------------------------------------------
(* One response of each task *)

\* What a task that is in response() has written and has still to write: up to
\* the mark it has written nothing, then the two make up one frame.  Outside of
\* it what the task has written is the beginning of one, and `sended` is
\* set for good, so that it gets no further than the check any more.
Written(p) == Cardinality(WrittenBy(p))
IsRest(t, f, n) ==
  n + Len(t) = Len(f) /\ \A i \in 1..Len(t) : t[i] = f[n + i]

WriteInv(p) ==
  /\ WrittenBy(p) # {} => sended
  /\ pc[p] = "mark" => WrittenBy(p) = {}
  /\ pc[p] \in {"check", "mark"} => todo[p] \in Frames
  /\ pc[p] = "write" =>
       /\ sended
       /\ \E f \in Frames : /\ Matches(p, f, code[p])
                            /\ IsRest(todo[p], f, Written(p))
  /\ \E f \in Frames, c \in Codes : Matches(p, f, c)

WroteInv == \A p \in Procs : WriteInv(p)

\* Taking a chunk off the rest of a frame leaves the rest behind it.
LEMMA RestTail ==
  ASSUME NEW f \in Frames, NEW n \in Nat, NEW t \in Seq(Parts), t # <<>>,
         IsRest(t, f, n)
  PROVE  /\ n + 1 \in DOMAIN f /\ Head(t) = f[n + 1]
         /\ IsRest(Tail(t), f, n + 1)
<1>1. f \in Seq(Parts) /\ Len(f) \in Nat /\ DOMAIN f = 1..Len(f)
  BY FramesTyped
<1>2. Len(t) \in Nat \ {0}
  BY EmptySeq
<1>3. n + Len(t) = Len(f) /\ \A i \in 1..Len(t) : t[i] = f[n + i]
  BY DEF IsRest
<1>4. Head(t) = t[1]
  OBVIOUS
<1>5. /\ Len(Tail(t)) = Len(t) - 1
      /\ \A i \in 1..Len(Tail(t)) : Tail(t)[i] = t[i + 1]
  BY HeadTailProperties
<1>6. n + 1 \in DOMAIN f /\ Head(t) = f[n + 1]
  BY <1>1, <1>2, <1>3, <1>4
<1>7. ASSUME NEW i \in 1..Len(Tail(t))
      PROVE  Tail(t)[i] = f[n + 1 + i]
  <2>1. i + 1 \in 1..Len(t) /\ n + (i + 1) = n + 1 + i
    BY <1>2, <1>5
  <2> QED
    BY <1>3, <1>5, <2>1
<1>8. n + 1 + Len(Tail(t)) = Len(f)
  BY <1>2, <1>3, <1>5
<1> QED
  BY <1>6, <1>7, <1>8 DEF IsRest

\* Written counts a finite set.
LEMMA WrittenCounts ==
  ASSUME out \in Seq(Chunks), NEW p
  PROVE  IsFiniteSet(WrittenBy(p)) /\ Written(p) \in Nat
<1>1. IsFiniteSet(1..Len(out)) /\ WrittenBy(p) \subseteq 1..Len(out)
  BY FS_Interval DEF WrittenBy
<1> QED
  BY <1>1, FS_Subset, FS_CardinalityType DEF Written

\* What a task has written changes only by its own chunks.
LEMMA WrittenSame ==
  ASSUME UNCHANGED out, NEW p
  PROVE  /\ WrittenBy(p)' = WrittenBy(p) /\ Written(p)' = Written(p)
         /\ \A f, c : Matches(p, f, c)' <=> Matches(p, f, c)
BY DEF WrittenBy, Written, Matches, Rank

\* A chunk of another task leaves what p has written alone.
LEMMA WrittenOther ==
  ASSUME out \in Seq(Chunks), NEW c \in Chunks, out' = Append(out, c),
         NEW p, c.by # p
  PROVE  /\ WrittenBy(p)' = WrittenBy(p) /\ Written(p)' = Written(p)
         /\ \A f, d : Matches(p, f, d)' <=> Matches(p, f, d)
<1>1. /\ DOMAIN out' = 1..(Len(out) + 1) /\ DOMAIN out = 1..Len(out)
      /\ Len(out) \in Nat
      /\ out'[Len(out) + 1] = c
      /\ \A i \in DOMAIN out : out'[i] = out[i]
  OBVIOUS
<1>2. WrittenBy(p)' = WrittenBy(p)
  BY <1>1 DEF WrittenBy
<1>3. \A i \in WrittenBy(p) : out'[i] = out[i]
  BY <1>1 DEF WrittenBy
<1>4. \A i : Rank(p, i)' = Rank(p, i)
  BY <1>2 DEF Rank
<1> QED
  BY <1>2, <1>3, <1>4 DEF Written, Matches

\* A chunk of p comes behind all it has written.
LEMMA WrittenOwn ==
  ASSUME out \in Seq(Chunks), NEW p, NEW c \in Chunks, out' = Append(out, c),
         c.by = p, NEW f, NEW d, Matches(p, f, d), c.code = d,
         Written(p) + 1 \in DOMAIN f, c.part = f[Written(p) + 1]
  PROVE  Written(p)' = Written(p) + 1 /\ Matches(p, f, d)'
<1>0. PICK n \in Nat : n = Len(out)
  OBVIOUS
<1>1. /\ DOMAIN out' = 1..(n + 1) /\ DOMAIN out = 1..n /\ n \in Nat
      /\ out'[n + 1] = c
      /\ \A i \in DOMAIN out : out'[i] = out[i]
  BY <1>0
<1>2. WrittenBy(p)' = WrittenBy(p) \union {n + 1} /\ n + 1 \notin WrittenBy(p)
  BY <1>1 DEF WrittenBy
<1>3. WrittenBy(p) \subseteq 1..n
  BY <1>1 DEF WrittenBy
<1>4. Written(p)' = Written(p) + 1
  BY <1>2, WrittenCounts, FS_AddElement DEF Written
<1>5. Rank(p, n + 1)' = Written(p) + 1
  <2>1. {j \in WrittenBy(p)' : j <= n + 1} = WrittenBy(p)'
    BY <1>1, <1>2, <1>3
  <2> QED
    BY <1>4, <2>1 DEF Rank, Written
<1>6. ASSUME NEW i \in WrittenBy(p) PROVE Rank(p, i)' = Rank(p, i)
  <2>1. {j \in WrittenBy(p)' : j <= i} = {j \in WrittenBy(p) : j <= i}
    BY <1>1, <1>2, <1>3
  <2> QED
    BY <2>1 DEF Rank
<1>7. \A i \in WrittenBy(p) : out'[i] = out[i]
  BY <1>1 DEF WrittenBy
<1>8. ASSUME NEW i \in WrittenBy(p)'
      PROVE  /\ Rank(p, i)' \in DOMAIN f
             /\ out'[i].part = f[Rank(p, i)']
             /\ out'[i].code = d
  <2>1. CASE i = n + 1
    BY <1>1, <1>5, <2>1
  <2>2. CASE i # n + 1
    BY <1>2, <1>6, <1>7, <2>2 DEF Matches
  <2> QED
    BY <2>1, <2>2
<1> QED
  BY <1>4, <1>8 DEF Matches

\* A step that writes nothing and keeps `sended` can only break WriteInv of the
\* tasks it moves.
LEMMA WriteSame ==
  ASSUME NEW p \in Procs, WriteInv(p), UNCHANGED out, sended => sended',
         pc'[p] = pc[p] \/ pc'[p] \notin {"check", "mark", "write"},
         pc'[p] \in {"check", "mark", "write"} =>
           todo'[p] = todo[p] /\ code'[p] = code[p]
  PROVE  WriteInv(p)'
BY WrittenSame DEF WriteInv

\* Initially nothing was written.
LEMMA WroteInit == Init => WroteInv
<1> SUFFICES ASSUME Init, NEW p \in Procs PROVE WriteInv(p)
  BY DEF WroteInv
<1>1. WrittenBy(p) = {} /\ pc[p] \notin {"check", "mark", "write"}
  BY DEF Init, WrittenBy
<1>2. StringFrame \in Frames /\ "app" \in Codes
  BY DEF StringFrame, Frames, Codes
<1> QED
  BY <1>1, <1>2 DEF WriteInv, Matches

\* Every step of every task keeps it.
LEMMA WroteStep ==
  ASSUME TypeOK, WroteInv, Next
  PROVE  WroteInv'
<1> Cli \in Procs
  BY DEF Procs
<1> SUFFICES ASSUME NEW q \in Procs PROVE WriteInv(q)'
  BY DEF WroteInv
<1>0. WriteInv(q)
  BY DEF WroteInv
<1>t. /\ pc \in [Procs -> Points] /\ code \in [Procs -> Codes]
      /\ out \in Seq(Chunks) /\ todo \in [Procs -> Seq(Parts)]
      /\ sended \in BOOLEAN
      /\ pc[q] \in {"check", "mark", "write"} => todo[q] # <<>>
  BY DEF TypeOK, FlagsTyped, PlaceTyped, AnswerTyped
<1> USE DEF Goto, CliIdle, bodyVars, respVars, cliVars, peerVars
\* The beginning of a call: a frame is chosen.
<1>b. ASSUME NEW p \in Procs, NEW c \in Codes, NEW f \in Frames,
             BeginAnswer(p, c, f), UNCHANGED <<sended, out>>
      PROVE  WriteInv(q)'
  <2>1. CASE q = p
    BY <1>0, <1>t, <1>b, <2>1, WrittenSame DEF WriteInv, BeginAnswer
  <2>2. CASE q # p
    <3>1. pc'[q] = pc[q] /\ todo'[q] = todo[q] /\ code'[q] = code[q]
      BY <1>t, <1>b, <2>2 DEF BeginAnswer
    <3> QED
      BY <1>0, <1>b, <3>1, WriteSame
  <2> QED
    BY <2>1, <2>2
\* The end of a call: what was written stays.
<1>e. ASSUME NEW p \in Procs, EndAnswer(p), sended => sended', UNCHANGED out
      PROVE  WriteInv(q)'
  <2>1. \/ pc'[q] = "idle"
        \/ pc'[q] = pc[q] /\ todo'[q] = todo[q] /\ code'[q] = code[q]
    BY <1>t, <1>e DEF EndAnswer
  <2> QED
    BY <1>0, <1>e, <2>1, WriteSame
\* A step outside of response().
<1>m. ASSUME NEW p \in Procs, NEW l, l \notin {"check", "mark", "write"},
             pc' = pc \/ pc' = [pc EXCEPT ![p] = l], UNCHANGED respVars
      PROVE  WriteInv(q)'
  <2>1. pc'[q] = pc[q] \/ pc'[q] = l
    BY <1>t, <1>m
  <2> QED
    BY <1>0, <1>m, <2>1, WriteSame
<1>1. CASE RunCli
  <2> "error" \in Codes /\ "unknown" \in Codes /\ StringFrame \in Frames
    BY DEF Codes, StringFrame, Frames
  <2>1. CASE StartHandler
    BY <1>m, <2>1 DEF StartHandler
  <2>2. CASE HandlerReturn
    <3>1. CASE pc' = pc /\ UNCHANGED <<code, todo>>
      BY <1>m, <2>2, <3>1 DEF HandlerReturn
    <3>2. CASE BeginAnswer(Cli, "error", StringFrame)
      BY <1>b, <2>2, <3>2 DEF HandlerReturn
    <3>3. CASE pc' = [pc EXCEPT ![Cli] = "ended"] /\ UNCHANGED <<code, todo>>
      BY <1>m, <2>2, <3>3 DEF HandlerReturn
    <3> QED
      BY <2>2, <3>1, <3>2, <3>3 DEF HandlerReturn
  <2>3. CASE LeaveLoop
    BY <1>m, <2>3 DEF LeaveLoop
  <2>4. CASE FinalAnswer
    <3>1. CASE sended
      BY <1>m, <2>4, <3>1 DEF FinalAnswer
    <3>2. CASE ~sended
      BY <1>b, <2>4, <3>2 DEF FinalAnswer
    <3> QED
      BY <3>1, <3>2
  <2> QED
    BY <1>1, <2>1, <2>2, <2>3, <2>4 DEF RunCli
<1>2. ASSUME NEW p \in Procs, BodyCall(p) \/ BodyCancel(p) PROVE WriteInv(q)'
  BY <1>m, <1>2 DEF BodyCall, BodyCancel
<1>3. ASSUME NEW p \in Procs, RespCall(p) PROVE WriteInv(q)'
  BY <1>b, <1>3 DEF RespCall, Codes
<1>4. ASSUME NEW p \in Procs, InBody(p) PROVE WriteInv(q)'
  <2> AfterBody(p) \in {"take", "idle"}
    BY DEF AfterBody
  <2>1. CASE BodyLock(p)
    BY <1>m, <2>1 DEF BodyLock
  <2>2. CASE BodyRead(p)
    BY <1>m, <2>2 DEF BodyRead
  <2>3. CASE BodyError(p)
    BY <1>m, <2>3 DEF BodyError
  <2>4. CASE OwnTake(p)
    BY <1>m, <2>4 DEF OwnTake
  <2> QED
    BY <1>4, <2>1, <2>2, <2>3, <2>4 DEF InBody
<1>5. ASSUME NEW p \in Procs, RespCheck(p) PROVE WriteInv(q)'
  <2>1. CASE EndAnswer(p)
    BY <1>e, <1>5, <2>1 DEF RespCheck
  <2>2. CASE ~sended /\ pc' = [pc EXCEPT ![p] = "mark"] /\ UNCHANGED <<code, todo>>
    <3>1. UNCHANGED <<out, sended>> /\ pc[p] = "check"
      BY <1>5 DEF RespCheck
    <3>2. CASE q = p
      BY <1>0, <1>t, <2>2, <3>1, <3>2, WrittenSame DEF WriteInv
    <3>3. CASE q # p
      <4>1. pc'[q] = pc[q]
        BY <1>t, <2>2, <3>3
      <4> QED
        BY <1>0, <2>2, <3>1, <4>1, WriteSame
    <3> QED
      BY <3>2, <3>3
  <2> QED
    BY <1>5, <2>1, <2>2 DEF RespCheck
<1>6. ASSUME NEW p \in Procs, RespMark(p) PROVE WriteInv(q)'
  <2>0. UNCHANGED out /\ sended' = TRUE /\ pc[p] = "mark"
    BY <1>6 DEF RespMark
  <2>1. CASE EndAnswer(p)
    BY <1>e, <2>0, <2>1
  <2>2. CASE pc' = [pc EXCEPT ![p] = "write"] /\ UNCHANGED <<code, todo>>
    <3>1. CASE q = p
      <4>1. WrittenBy(q) = {} /\ todo[q] \in Frames
        BY <1>0, <2>0, <3>1 DEF WriteInv
      <4>2. Written(q) = 0
        BY <4>1, FS_EmptySet DEF Written
      <4>3. Matches(q, todo[q], code[q])
        BY <4>1 DEF Matches
      <4>4. IsRest(todo[q], todo[q], Written(q))
        <5>1. Len(todo[q]) \in Nat
          BY <1>t
        <5> QED
          BY <4>2, <5>1 DEF IsRest
      <4>5. Matches(q, todo[q], code[q])' /\ IsRest(todo[q], todo[q], Written(q))'
        BY <2>0, <2>2, <4>3, <4>4, WrittenSame DEF IsRest
      <4>6. todo' = todo /\ code' = code /\ pc'[q] = "write" /\ code[q] \in Codes
        BY <1>t, <2>2, <3>1
      <4> QED
        BY <2>0, <4>1, <4>5, <4>6 DEF WriteInv
    <3>2. CASE q # p
      <4>1. pc'[q] = pc[q]
        BY <1>t, <2>2, <3>2
      <4> QED
        BY <1>0, <2>0, <2>2, <4>1, WriteSame
    <3> QED
      BY <3>1, <3>2
  <2> QED
    BY <1>6, <2>1, <2>2 DEF RespMark
<1>7. ASSUME NEW p \in Procs, RespWrite(p) PROVE WriteInv(q)'
  <2> DEFINE c == [by |-> p, code |-> code[p], part |-> Head(todo[p])]
  <2>1. /\ pc[p] = "write" /\ sended' = sended
        /\ out' = Append(out, c)
    BY <1>7 DEF RespWrite
  <2>2. /\ todo[p] \in Seq(Parts) /\ todo[p] # <<>>
    BY <2>1 DEF TypeOK, AnswerTyped
  <2>3. c \in Chunks
    BY <1>t, <2>2, HeadTailProperties DEF Chunks
  <2>4. c.by = p /\ c.code = code[p] /\ c.part = Head(todo[p])
    OBVIOUS
  <2> HIDE DEF c
  <2>5. CASE q = p
    <3>1. PICK f \in Frames : Matches(q, f, code[q]) /\ IsRest(todo[q], f, Written(q))
      BY <1>0, <2>1, <2>5 DEF WriteInv
    <3>2. Written(q) \in Nat
      BY <1>t, WrittenCounts
    <3>3. /\ Written(q) + 1 \in DOMAIN f /\ Head(todo[q]) = f[Written(q) + 1]
          /\ IsRest(Tail(todo[q]), f, Written(q) + 1)
      BY <2>2, <2>5, <3>1, <3>2, RestTail
    <3>4. PICK d \in Codes : d = code[q]
      BY <1>t
    <3>5. Written(q)' = Written(q) + 1 /\ Matches(q, f, d)'
      BY <1>t, <2>1, <2>3, <2>4, <2>5, <3>1, <3>3, <3>4, WrittenOwn
    <3>6. sended
      BY <1>0, <2>1, <2>5 DEF WriteInv
    <3>7. CASE EndAnswer(p)
      <4>1. pc'[q] = "idle"
        BY <1>t, <2>5, <3>7 DEF EndAnswer
      <4> QED
        BY <2>1, <3>5, <3>6, <4>1 DEF WriteInv
    <3>8. CASE todo' = [todo EXCEPT ![p] = Tail(@)] /\ UNCHANGED <<pc, code>>
      <4>1. pc'[q] = "write" /\ todo'[q] = Tail(todo[q]) /\ code'[q] = d
        BY <1>t, <2>1, <2>5, <3>4, <3>8
      <4>2. IsRest(todo'[q], f, Written(q)')
        BY <3>3, <3>5, <4>1
      <4> QED
        BY <2>1, <3>5, <3>6, <4>1, <4>2 DEF WriteInv
    <3> QED
      BY <1>7, <3>7, <3>8 DEF RespWrite
  <2>6. CASE q # p
    <3>1. /\ pc'[q] = pc[q] /\ todo'[q] = todo[q] /\ code'[q] = code[q]
      BY <1>t, <1>7, <2>6 DEF RespWrite, EndAnswer
    <3>2. /\ WrittenBy(q)' = WrittenBy(q) /\ Written(q)' = Written(q)
          /\ \A f, d : Matches(q, f, d)' <=> Matches(q, f, d)
      BY <1>t, <2>1, <2>3, <2>4, <2>6, WrittenOther
    <3> QED
      BY <1>0, <2>1, <3>1, <3>2 DEF WriteInv
  <2> QED
    BY <2>5, <2>6
<1>8. ASSUME NEW p \in Procs, RespFail(p) PROVE WriteInv(q)'
  BY <1>e, <1>8 DEF RespFail
<1>9. ASSUME NEW t \in Spawned, Spawn(t) \/ TaskEnd(t) PROVE WriteInv(q)'
  <2> t \in Procs
    BY DEF Procs
  <2> QED
    BY <1>m, <1>9 DEF Spawn, TaskEnd
<1>10. CASE PeerSend \/ PeerClose
  BY <1>m, <1>10 DEF PeerSend, PeerClose
<1> QED
  BY <1>1, <1>2, <1>3, <1>4, <1>5, <1>6, <1>7, <1>8, <1>9, <1>10
     DEF Next, InResponse

\* What every task has written and has still to write fits in every reachable
\* state.
LEMMA WroteCorrect == Spec => []WroteInv
<1>1. TypeOK /\ WroteInv /\ [Next]_vars => WroteInv'
  <2>1. ASSUME UNCHANGED vars, WroteInv PROVE WroteInv'
    <3>1. ASSUME NEW p \in Procs PROVE WriteInv(p)'
      BY <2>1, WriteSame DEF vars, WroteInv
    <3> QED
      BY <3>1 DEF WroteInv
  <2> QED
    BY <2>1, WroteStep
<1> QED
  BY <1>1, WroteInit, TypeCorrect, PTL DEF Spec

\* No task ever writes a second response, whatever the others write between
\* its chunks: a second handler that answers, and the answers run_cli adds,
\* are refused.
THEOREM OneResponseEach == Spec => []OneFrameEach
<1>1. WroteInv => OneFrameEach
  BY DEF WroteInv, WriteInv, OneFrameEach
<1> QED
  BY <1>1, WroteCorrect, PTL
----------------------------------------------------------------------------
(* One response on the wire, when only the handlers answer *)

\* Spawned tasks stay out of response(), and nobody but run_cli writes.
SerialInv ==
  /\ \A t \in Spawned : pc[t] \notin {"check", "mark", "write"}
  /\ \A i \in DOMAIN out : out[i].by = Cli

\* Every step keeps SerialInv when spawned tasks do not call response().
LEMMA SerialStep ==
  ASSUME "resp" \notin SpawnOps, TypeOK, SerialInv, Next
  PROVE  SerialInv'
<1> USE ContextAssumption DEF SerialInv, Goto, CliIdle, BeginAnswer, EndAnswer,
        bodyVars, respVars, cliVars, peerVars
<1>t. pc \in [Procs -> Points] /\ out \in Seq(Chunks) /\ Spawned \subseteq Procs
  BY DEF TypeOK, PlaceTyped, AnswerTyped, Procs
<1>1. CASE RunCli
  BY <1>t, <1>1 DEF RunCli, StartHandler, HandlerReturn, LeaveLoop, FinalAnswer
<1>2. ASSUME NEW p \in Procs, BodyCall(p) \/ BodyCancel(p) PROVE SerialInv'
  BY <1>t, <1>2 DEF BodyCall, BodyCancel
<1>3. ASSUME NEW p \in Procs, RespCall(p) PROVE SerialInv'
  <2>1. p = Cli /\ UNCHANGED out
    BY <1>3 DEF RespCall, MayCall, Procs
  <2> QED
    BY <1>t, <1>3, <2>1 DEF RespCall
<1>4. ASSUME NEW p \in Procs, InBody(p) PROVE SerialInv'
  BY <1>t, <1>4 DEF InBody, BodyLock, BodyRead, BodyError, OwnTake, AfterBody
<1>5. ASSUME NEW p \in Procs, InResponse(p) PROVE SerialInv'
  <2>1. p = Cli
    BY <1>5 DEF InResponse, RespCheck, RespMark, RespWrite, RespFail, Procs
  <2>2. \A t \in Spawned : pc'[t] = pc[t]
    BY <1>t, <1>5, <2>1
       DEF InResponse, RespCheck, RespMark, RespWrite, RespFail
  <2>3. CASE UNCHANGED out
    BY <2>2, <2>3
  <2>4. CASE RespWrite(p)
    <3> DEFINE c == [by |-> p, code |-> code[p], part |-> Head(todo[p])]
    <3>1. c \in Chunks /\ c.by = Cli /\ out' = Append(out, c)
      BY <2>1, <2>4, HeadTailProperties DEF RespWrite, Chunks, AnswerTyped, TypeOK
    <3> HIDE DEF c
    <3>2. \A i \in DOMAIN out' : out'[i].by = Cli
      BY <1>t, <3>1, OutAppend
    <3> QED
      BY <2>2, <3>2
  <2> QED
    BY <1>5, <2>3, <2>4 DEF InResponse, RespCheck, RespMark, RespFail
<1>6. ASSUME NEW t \in Spawned, Spawn(t) \/ TaskEnd(t) PROVE SerialInv'
  BY <1>t, <1>6 DEF Spawn, TaskEnd
<1>7. CASE PeerSend \/ PeerClose
  BY <1>7 DEF PeerSend, PeerClose
<1> QED
  BY <1>1, <1>2, <1>3, <1>4, <1>5, <1>6, <1>7 DEF Next

\* When run_cli is the only writer, the i-th chunk is its i-th.
LEMMA SerialRank ==
  ASSUME out \in Seq(Chunks), \A i \in DOMAIN out : out[i].by = Cli,
         NEW i \in DOMAIN out
  PROVE  i \in WrittenBy(Cli) /\ Rank(Cli, i) = i
<1>1. i \in 1..Len(out) /\ Len(out) \in Nat
  OBVIOUS
<1>2. {j \in WrittenBy(Cli) : j <= i} = 1..i
  BY <1>1 DEF WrittenBy
<1>3. Cardinality(1..i) = i
  BY <1>1, FS_Interval
<1> QED
  BY <1>2, <1>3 DEF WrittenBy, Rank

\* A sequence whose elements are the first ones of f is a prefix of f.
LEMMA PrefixOf ==
  ASSUME NEW S, NEW f \in Seq(S), NEW n \in Nat, n <= Len(f),
         NEW s \in [1..n -> S], \A i \in 1..n : s[i] = f[i]
  PROVE  IsPrefix(s, f)
<1>1. Len(s) = n /\ s \in Seq(S)
  OBVIOUS
<1>2. /\ \A i \in 1..Len(s) : s[i] \in S
      /\ \A i \in 1..Len(s) : f[i] \in S
  BY <1>1, LenProperties
<1>3. SubSeq(s, 1, Len(s)) = SubSeq(f, 1, Len(s))
  BY <1>1, <1>2
<1> QED
  BY <1>1, <1>3 DEF IsPrefix

\* As long as the tasks that handlers spawn do not answer themselves, the peer
\* receives at most one response, of one writer and with one code, complete or
\* cut off: "already responsed!" holds for every sequence of handlers,
\* whoever reads the body or takes the stream meanwhile.
THEOREM OneResponse ==
  ASSUME "resp" \notin SpawnOps
  PROVE  Spec => []SingleFrame
<1>1. Init => SerialInv
  BY ContextAssumption DEF Init, SerialInv, Procs
<1>2. TypeOK /\ SerialInv /\ [Next]_vars => SerialInv'
  <2>1. CASE UNCHANGED vars
    BY <2>1 DEF SerialInv, vars
  <2> QED
    BY <2>1, SerialStep
<1>3. ASSUME TypeOK, WroteInv, SerialInv PROVE SingleFrame
  <2>1. out \in Seq(Chunks) /\ \A i \in DOMAIN out : out[i].by = Cli
    BY <1>3 DEF TypeOK, AnswerTyped, SerialInv
  <2>2. PICK f \in Frames, c \in Codes : Matches(Cli, f, c)
    BY <1>3 DEF WroteInv, WriteInv, Procs
  <2>3. \A i \in DOMAIN out : i \in DOMAIN f /\ out[i].part = f[i] /\ out[i].code = c
    BY <2>1, <2>2, SerialRank DEF Matches
  <2>4. f \in Seq(Parts) /\ Len(f) \in Nat /\ DOMAIN f = 1..Len(f)
    BY FramesTyped
  <2>5. Len(out) \in Nat /\ DOMAIN out = 1..Len(out) /\ Len(out) <= Len(f)
    BY <2>1, <2>3, <2>4
  <2>6. /\ [i \in DOMAIN out |-> out[i].part] \in [1..Len(out) -> Parts]
        /\ \A i \in 1..Len(out) : [j \in DOMAIN out |-> out[j].part][i] = f[i]
    <3>1. ASSUME NEW i \in 1..Len(out) PROVE out[i].part \in Parts
      <4>1. out[i] \in Chunks
        BY <2>1, ElementOfSeq
      <4> QED
        BY <4>1 DEF Chunks
    <3> QED
      BY <2>3, <2>5, <3>1
  <2>7. IsPrefix([i \in DOMAIN out |-> out[i].part], f)
    BY <2>4, <2>5, <2>6, PrefixOf
  <2> QED
    BY <2>1, <2>3, <2>7 DEF SingleFrame, Frame
<1> QED
  BY <1>1, <1>2, <1>3, TypeCorrect, WroteCorrect, PTL DEF Spec
----------------------------------------------------------------------------
(* No task is left waiting *)

\* The reader never gets ahead of the peer.
LEMMA CursorCorrect == Spec => [](rd <= sent)
<1>1. Init => rd <= sent
  BY DEF Init
<1>2. ASSUME TypeOK, rd <= sent, [Next]_vars PROVE (rd <= sent)'
  <2> USE DEF TypeOK, StreamTyped, bodyVars, respVars, cliVars, peerVars
  <2>1. CASE UNCHANGED vars
    BY <1>2, <2>1 DEF vars
  <2>2. CASE RunCli
    BY <1>2, <2>2 DEF RunCli, StartHandler, HandlerReturn, LeaveLoop, FinalAnswer
  <2>3. ASSUME NEW p \in Procs,
               BodyCall(p) \/ BodyCancel(p) \/ RespCall(p) \/ InBody(p)
        PROVE  (rd <= sent)'
    BY <1>2, <2>3 DEF BodyCall, BodyCancel, RespCall, InBody, BodyLock, BodyRead,
                      BodyError, OwnTake
  <2>4. ASSUME NEW p \in Procs, InResponse(p) PROVE (rd <= sent)'
    BY <1>2, <2>4 DEF InResponse, RespCheck, RespMark, RespWrite, RespFail
  <2>5. ASSUME NEW t \in Spawned, Spawn(t) \/ TaskEnd(t) PROVE (rd <= sent)'
    BY <1>2, <2>5 DEF Spawn, TaskEnd
  <2>6. CASE PeerSend \/ PeerClose
    BY <1>2, <2>6 DEF PeerSend, PeerClose
  <2> QED
    BY <1>2, <2>1, <2>2, <2>3, <2>4, <2>5, <2>6 DEF Next
<1> QED
  BY <1>1, <1>2, TypeCorrect, PTL DEF Spec

\* However many tasks wait for the body and however their calls end, no task
\* is left waiting for a Mutex that nobody will drop, or for a peer that is
\* gone: Served needs no more than that those who can go on do.
THEOREM NobodyWedged == Spec => []NeverWedged
<1>1. ASSUME TypeOK, LockInv, rd <= sent PROVE NeverWedged
  <2> SUFFICES ASSUME eof, NEW p \in Procs,
                      pc[p] \notin {"unborn", "idle", "ended"}, ~CanStep(p)
               PROVE  pc[p] = "lock" /\ lock \in Procs /\ CanStep(lock)
    BY DEF NeverWedged
  <2>1. /\ \A q \in Procs : pc[q] \in Points
        /\ lock \in Procs \union {Nobody} /\ rd \in Nat /\ sent \in Nat
    BY <1>1 DEF TypeOK, PlaceTyped, StreamTyped
  <2>2. \A q \in Procs : pc[q] = "read" => CanStep(q)
    BY <1>1, <2>1 DEF CanStep
  <2>3. pc[p] = "lock" /\ lock # Nobody
    BY <2>1, <2>2 DEF Points, CanStep
  <2>4. lock \in Procs /\ pc[lock] = "read"
    BY <1>1, <2>1, <2>3 DEF LockInv
  <2> QED
    BY <2>2, <2>3, <2>4
<1> QED
  BY <1>1, TypeCorrect, LockCorrect, CursorCorrect, PTL
=============================================================================
