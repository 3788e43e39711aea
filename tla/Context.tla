------------------------------ MODULE Context ------------------------------
(***************************************************************************)
(* One request on the server: the Context of res.rs, made by parse_conn    *)
(* and shared by every clone of it.  Its users are the task of             *)
(* Engine::run_cli, which awaits the registered handlers one after the     *)
(* other, and the tasks those handlers spawn with a clone (the runtime is  *)
(* multi-threaded).  Inner is reached through ArcMut::muts(), so only the  *)
(* body is behind a lock (the tokio Mutex `bodyok`); `sended` and `conn`   *)
(* are plain fields.                                                       *)
(*                                                                         *)
(* A step of a task is the code between two points where another task can  *)
(* act: an await, or, for the unsynchronised flag `sended`, between its    *)
(* read and its write.  The stream of the peer is BodyLen body bytes and   *)
(* then Trailing bytes of whatever follows (a protocol spoken over the     *)
(* connection once own_conn has handed it over); byte i is the number i.   *)
(***************************************************************************)
EXTENDS Naturals, Sequences, FiniteSets, SequencesExt

CONSTANTS
  Cli,         \* the task that executes Engine::run_cli
  Spawned,     \* the tasks handlers may spawn with a clone of the Context
  Nobody,      \* the holder of a free lock
  HandlerOps,  \* the calls handlers make: a subset of {"body", "own", "resp"}
  SpawnOps,    \* the calls spawned tasks make
  NHandlers,   \* functions found for the control of the request (0: none)
  MaxCalls,    \* bound: calls made by handlers and tasks
  BodyLen,     \* bodylen: the body length the request header announces
  Trailing     \* bytes the peer may send after the body

Procs == {Cli} \union Spawned
Ops == {"body", "own", "resp"}

ASSUME ContextAssumption ==
  /\ Cli \notin Spawned
  /\ Nobody \notin Procs
  /\ HandlerOps \subseteq Ops
  /\ SpawnOps \subseteq Ops
  /\ NHandlers \in Nat
  /\ MaxCalls \in Nat
  /\ BodyLen \in Nat
  /\ Trailing \in Nat

VARIABLES
  sended,   \* Inner.sended: a response was begun
  conn,     \* Inner.conn: "open" is Some(stream), "owned" is None
  lock,     \* the holder of the Mutex bodyok
  bodyok,   \* the value the Mutex guards: the body was dealt with
  bodys,    \* Inner.bodys: <<>> is None, else the bytes read
  rd,       \* bytes of the stream consumed so far
  sent,     \* bytes of the stream the peer has sent so far
  eof,      \* the peer has closed its end
  out,      \* response chunks written, in order: [by, code, part]
  stage,    \* where run_cli is
  h,        \* handlers run_cli has started
  pc,       \* where a task is in the call it makes ("idle": in no call)
  own,      \* the body is read on behalf of own_conn
  got,      \* the local buffer of read_all_async
  code,     \* the code argument of response()
  todo,     \* response chunks a call has still to write
  calls,    \* calls made so far
  lost,     \* history: bytes consumed by reads of the body cut short
  broken,   \* history: such a read failed, and there will be no body
  failed    \* history: some handler returned Err

vars == <<sended, conn, lock, bodyok, bodys, rd, sent, eof, out, stage, h,
          pc, own, got, code, todo, calls, lost, broken, failed>>
bodyVars == <<lock, bodyok, bodys, rd, own, got, lost, broken>>
respVars == <<sended, out, code, todo>>
cliVars  == <<stage, h, failed>>
peerVars == <<sent, eof>>

\* The chunks response() writes: the header, then each part given as Some.
Frames == {<<"info">>, <<"info", "head">>, <<"info", "body">>,
           <<"info", "head", "body">>}
\* res_bytes and res_string pass no heads.
StringFrame == <<"info", "body">>

Stages == {"loop", "handler", "final", "end", "panic"}
Points == {"unborn", "idle", "lock", "read", "take", "check", "mark", "write",
           "ended"}
Codes == {"app", "error", "unknown"}

Init ==
  /\ sended = FALSE /\ conn = "open"
  /\ lock = Nobody /\ bodyok = FALSE /\ bodys = <<>>
  /\ rd = 0 /\ sent = 0 /\ eof = FALSE
  /\ out = <<>>
  /\ stage = "loop" /\ h = 0
  /\ pc = [p \in Procs |-> IF p = Cli THEN "idle" ELSE "unborn"]
  /\ own = [p \in Procs |-> FALSE]
  /\ got = [p \in Procs |-> <<>>]
  /\ code = [p \in Procs |-> "app"]
  /\ todo = [p \in Procs |-> <<>>]
  /\ calls = 0
  /\ lost = 0 /\ broken = FALSE /\ failed = FALSE

Goto(p, l) == pc' = [pc EXCEPT ![p] = l]

\* Task p is executing code of the application and may call op.
MayCall(p, op) ==
  /\ pc[p] = "idle"
  /\ p = Cli => stage = "handler"
  /\ op \in (IF p = Cli THEN HandlerOps ELSE SpawnOps)
  /\ calls < MaxCalls
  /\ calls' = calls + 1

----------------------------------------------------------------------------
(* get_bodys and own_conn *)

\* Mutant: own_conn takes the stream without awaiting get_bodys.
BodyCallNoDrain(p) ==
  /\ \/ MayCall(p, "body") /\ own' = [own EXCEPT ![p] = FALSE] /\ Goto(p, "lock")
     \/ MayCall(p, "own") /\ own' = [own EXCEPT ![p] = TRUE] /\ Goto(p, "take")
  /\ UNCHANGED <<conn, lock, bodyok, bodys, rd, got, lost, broken, respVars,
                 cliVars, peerVars>>

\* body_str, body_json and get_bodys(..) (own = FALSE), and own_conn, which
\* first awaits get_bodys(None): both go and queue for the Mutex.
BodyCall(p) ==
  /\ \/ MayCall(p, "body") /\ own' = [own EXCEPT ![p] = FALSE]
     \/ MayCall(p, "own") /\ own' = [own EXCEPT ![p] = TRUE]
  /\ Goto(p, "lock")
  /\ UNCHANGED <<conn, lock, bodyok, bodys, rd, got, lost, broken, respVars,
                 cliVars, peerVars>>

AfterBody(p) == IF own[p] THEN "take" ELSE "idle"

\* Mutant: the body is read without holding the Mutex.
BodyLockUnguarded(p) ==
  /\ pc[p] = "lock"
  /\ IF ~bodyok /\ BodyLen > 0 /\ conn = "open"
       THEN Goto(p, "read") /\ UNCHANGED bodyok
       ELSE bodyok' = TRUE /\ Goto(p, AfterBody(p))
  /\ UNCHANGED <<conn, lock, bodys, rd, own, got, lost, broken, calls, respVars,
                 cliVars, peerVars>>

\* The Mutex is granted.  Unless the body must still be read the guard is
\* dropped at once; the stream is borrowed (`&mut ins.conn`) only to read.
BodyLock(p) ==
  /\ pc[p] = "lock" /\ lock = Nobody
  /\ IF ~bodyok /\ BodyLen > 0 /\ conn = "open"
       THEN lock' = p /\ Goto(p, "read") /\ UNCHANGED bodyok
       ELSE bodyok' = TRUE /\ Goto(p, AfterBody(p)) /\ UNCHANGED lock
  /\ UNCHANGED <<conn, bodys, rd, own, got, lost, broken, calls, respVars,
                 cliVars, peerVars>>

\* Mutant: the body is stored but the flag is not set.
BodyReadUnmarked(p) ==
  /\ pc[p] = "read" /\ rd < sent
  /\ rd' = rd + 1
  /\ IF Len(got[p]) + 1 = BodyLen
       THEN /\ bodys' = Append(got[p], rd + 1)
            /\ got' = [got EXCEPT ![p] = <<>>]
            /\ lock' = Nobody /\ Goto(p, AfterBody(p))
       ELSE /\ got' = [got EXCEPT ![p] = Append(@, rd + 1)]
            /\ UNCHANGED <<bodys, lock, pc>>
  /\ UNCHANGED <<conn, bodyok, own, lost, broken, calls, respVars, cliVars,
                 peerVars>>

\* read_all_async takes one more byte; with the last one the call stores the
\* body, sets the flag and drops the guard.
BodyRead(p) ==
  /\ pc[p] = "read" /\ rd < sent
  /\ rd' = rd + 1
  /\ IF Len(got[p]) + 1 = BodyLen
       THEN /\ bodys' = Append(got[p], rd + 1) /\ bodyok' = TRUE
            /\ got' = [got EXCEPT ![p] = <<>>]
            /\ lock' = Nobody /\ Goto(p, AfterBody(p))
       ELSE /\ got' = [got EXCEPT ![p] = Append(@, rd + 1)]
            /\ UNCHANGED <<bodys, bodyok, lock, pc>>
  /\ UNCHANGED <<conn, own, lost, broken, calls, respVars, cliVars, peerVars>>

\* Mutant: the guard is not dropped on the error path.
BodyErrorKeepsLock(p) ==
  /\ pc[p] = "read"
  /\ (eof /\ rd = sent) \/ ~own[p]
  /\ bodyok' = TRUE /\ Goto(p, AfterBody(p))
  /\ lost' = lost + Len(got[p]) /\ broken' = TRUE
  /\ got' = [got EXCEPT ![p] = <<>>]
  /\ UNCHANGED <<conn, lock, bodys, rd, own, calls, respVars, cliVars,
                 peerVars>>

\* read_all_async fails: the stream ended early, or the context the caller
\* passed is done (own_conn passes none).  The error is printed and the flag
\* is set all the same: nobody will try again.
BodyError(p) ==
  /\ pc[p] = "read"
  /\ (eof /\ rd = sent) \/ ~own[p]
  /\ bodyok' = TRUE /\ lock' = Nobody /\ Goto(p, AfterBody(p))
  /\ lost' = lost + Len(got[p]) /\ broken' = TRUE
  /\ got' = [got EXCEPT ![p] = <<>>]
  /\ UNCHANGED <<conn, bodys, rd, own, calls, respVars, cliVars, peerVars>>

\* The application drops the future of the call (a timeout or a select around
\* it): the guard is released with the flag unset and the local buffer lost.
BodyCancel(p) ==
  /\ pc[p] \in {"lock", "read"}
  /\ lock' = IF lock = p THEN Nobody ELSE lock
  /\ lost' = lost + Len(got[p])
  /\ got' = [got EXCEPT ![p] = <<>>]
  /\ Goto(p, "idle")
  /\ UNCHANGED <<conn, bodyok, bodys, rd, own, broken, calls, respVars, cliVars,
                 peerVars>>

\* own_conn replaces conn by None and returns the stream; it panics when
\* another call has done so before.
OwnTake(p) ==
  /\ pc[p] = "take"
  /\ IF conn = "open"
       THEN conn' = "owned" /\ Goto(p, "idle") /\ UNCHANGED stage
       ELSE /\ UNCHANGED conn
            /\ Goto(p, "ended")
            /\ stage' = IF p = Cli THEN "panic" ELSE stage
  /\ UNCHANGED <<bodyVars, calls, respVars, h, failed, peerVars>>

----------------------------------------------------------------------------
(* response *)

BeginAnswer(p, c, f) ==
  /\ Goto(p, "check")
  /\ code' = [code EXCEPT ![p] = c]
  /\ todo' = [todo EXCEPT ![p] = f]

EndAnswer(p) ==
  /\ Goto(p, "idle")
  /\ code' = [code EXCEPT ![p] = "app"]
  /\ todo' = [todo EXCEPT ![p] = <<>>]

RespCall(p) ==
  /\ MayCall(p, "resp")
  /\ \E f \in Frames : BeginAnswer(p, "app", f)
  /\ UNCHANGED <<sended, conn, out, bodyVars, cliVars, peerVars>>

\* Mutant: the early return for a second response is missing.
RespCheckOpen(p) ==
  /\ pc[p] = "check"
  /\ IF conn = "open" THEN Goto(p, "mark") /\ UNCHANGED <<code, todo>>
                      ELSE EndAnswer(p)
  /\ UNCHANGED <<sended, conn, out, calls, bodyVars, cliVars, peerVars>>

\* "not found conn" and "already responsed!" return Err at once.
RespCheck(p) ==
  /\ pc[p] = "check"
  /\ IF conn = "open" /\ ~sended
       THEN Goto(p, "mark") /\ UNCHANGED <<code, todo>>
       ELSE EndAnswer(p)
  /\ UNCHANGED <<sended, conn, out, calls, bodyVars, cliVars, peerVars>>

\* sended is set before anything is written, and stays set.
RespMark(p) ==
  /\ pc[p] = "mark"
  /\ sended' = TRUE
  /\ IF conn = "open" THEN Goto(p, "write") /\ UNCHANGED <<code, todo>>
                      ELSE EndAnswer(p)
  /\ UNCHANGED <<conn, calls, out, bodyVars, cliVars, peerVars>>

\* One write_all_async.  The reference into ins.conn is held across the
\* awaits: if own_conn takes the stream meanwhile, the write may still reach
\* the socket or fail, the two outcomes of the build.
RespWrite(p) ==
  /\ pc[p] = "write"
  /\ out' = Append(out, [by |-> p, code |-> code[p], part |-> Head(todo[p])])
  /\ IF Tail(todo[p]) = <<>>
       THEN EndAnswer(p)
       ELSE todo' = [todo EXCEPT ![p] = Tail(@)] /\ UNCHANGED <<pc, code>>
  /\ UNCHANGED <<sended, conn, calls, bodyVars, cliVars, peerVars>>

\* A write fails (its context lasts 10, 20 or 30 s) or its future is dropped:
\* the rest of the frame is never written.
RespFail(p) ==
  /\ pc[p] = "write"
  /\ EndAnswer(p)
  /\ UNCHANGED <<sended, conn, out, calls, bodyVars, cliVars, peerVars>>

----------------------------------------------------------------------------
(* run_cli, the application's code and the peer *)

CliIdle(s) == stage = s /\ pc[Cli] = "idle"

\* Mutant: the loop runs one handler too many.
StartHandlerPast ==
  /\ CliIdle("loop") /\ h <= NHandlers /\ ~sended
  /\ h' = h + 1 /\ stage' = "handler"
  /\ UNCHANGED <<conn, pc, calls, failed, respVars, bodyVars, peerVars>>

\* The next handler of the list is awaited, unless a response was begun.
StartHandler ==
  /\ CliIdle("loop") /\ h < NHandlers /\ ~sended
  /\ h' = h + 1 /\ stage' = "handler"
  /\ UNCHANGED <<conn, pc, calls, failed, respVars, bodyVars, peerVars>>

\* A handler ends: Ok; Err, which run_cli answers with ResCodeErr; a panic,
\* which ends the task.
HandlerReturn ==
  /\ CliIdle("handler")
  /\ \/ /\ stage' = "loop"
        /\ UNCHANGED <<pc, code, todo, failed>>
     \/ /\ stage' = "loop" /\ failed' = TRUE
        /\ BeginAnswer(Cli, "error", StringFrame)
     \/ /\ stage' = "panic" /\ Goto(Cli, "ended")
        /\ UNCHANGED <<code, todo, failed>>
  /\ UNCHANGED <<sended, conn, out, calls, h, bodyVars, peerVars>>

LeaveLoop ==
  /\ CliIdle("loop") /\ (h = NHandlers \/ sended)
  /\ stage' = "final"
  /\ UNCHANGED <<conn, pc, calls, h, failed, respVars, bodyVars, peerVars>>

\* Mutant: run_cli ends without the last answer.
FinalAnswerNone ==
  /\ CliIdle("final")
  /\ stage' = "end"
  /\ UNCHANGED <<sended, conn, out, pc, code, todo, calls, h, failed, bodyVars,
                 peerVars>>

\* `if !res.is_sended()`: nobody answered, so "Unknown" is sent.
FinalAnswer ==
  /\ CliIdle("final")
  /\ stage' = "end"
  /\ IF sended THEN UNCHANGED <<pc, code, todo>>
               ELSE BeginAnswer(Cli, "unknown", StringFrame)
  /\ UNCHANGED <<sended, conn, out, calls, h, failed, bodyVars, peerVars>>

\* A handler spawns a task with a clone of the Context.
Spawn(t) ==
  /\ CliIdle("handler") /\ pc[t] = "unborn"
  /\ Goto(t, "idle")
  /\ UNCHANGED <<conn, calls, respVars, bodyVars, cliVars, peerVars>>

TaskEnd(t) ==
  /\ pc[t] = "idle"
  /\ Goto(t, "ended")
  /\ UNCHANGED <<conn, calls, respVars, bodyVars, cliVars, peerVars>>

PeerSend ==
  /\ ~eof /\ sent < BodyLen + Trailing
  /\ sent' = sent + 1
  /\ UNCHANGED <<conn, eof, pc, calls, respVars, bodyVars, cliVars>>

PeerClose ==
  /\ ~eof
  /\ eof' = TRUE
  /\ UNCHANGED <<conn, sent, pc, calls, respVars, bodyVars, cliVars>>

RunCli == StartHandler \/ HandlerReturn \/ LeaveLoop \/ FinalAnswer
InBody(p) == BodyLock(p) \/ BodyRead(p) \/ BodyError(p) \/ OwnTake(p)
InResponse(p) == RespCheck(p) \/ RespMark(p) \/ RespWrite(p) \/ RespFail(p)

Next ==
  \/ RunCli
  \/ \E p \in Procs : \/ BodyCall(p) \/ BodyCancel(p) \/ RespCall(p)
                      \/ InBody(p) \/ InResponse(p)
  \/ \E t \in Spawned : Spawn(t) \/ TaskEnd(t)
  \/ PeerSend \/ PeerClose

Spec == Init /\ [][Next]_vars

\* What task p can do without the peer, or with what the peer has sent; what
\* waits for the peer ends, one way or the other, when the peer is gone.
GoesOn(p) ==
  \/ BodyLock(p) \/ BodyRead(p) \/ OwnTake(p) \/ RespCheck(p) \/ RespMark(p)
  \/ eof /\ (BodyError(p) \/ RespWrite(p) \/ RespFail(p))

\* Tasks are scheduled, handlers return, a free Mutex is granted to a waiter.
\* Nothing is assumed of the peer, and no timeout ends a pending read or write.
Fairness == WF_vars(RunCli) /\ \A p \in Procs : WF_vars(GoesOn(p))

FairSpec == Spec /\ Fairness
----------------------------------------------------------------------------
(* Properties *)

Parts == {"info", "head", "body"}
Chunks == [by : Procs, code : Codes, part : Parts]

FlagsTyped ==
  /\ sended \in BOOLEAN /\ bodyok \in BOOLEAN /\ eof \in BOOLEAN
  /\ broken \in BOOLEAN /\ failed \in BOOLEAN
  /\ own \in [Procs -> BOOLEAN]

StreamTyped ==
  /\ conn \in {"open", "owned"}
  /\ lock \in Procs \union {Nobody}
  /\ bodys \in Seq(Nat) /\ got \in [Procs -> Seq(Nat)]
  /\ rd \in Nat /\ sent \in Nat /\ lost \in Nat

AnswerTyped ==
  /\ out \in Seq(Chunks)
  /\ code \in [Procs -> Codes]
  /\ todo \in [Procs -> Seq(Parts)]
  /\ \A p \in Procs : pc[p] \in {"check", "mark", "write"} => todo[p] # <<>>

PlaceTyped ==
  /\ stage \in Stages /\ h \in 0..NHandlers
  /\ pc \in [Procs -> Points]
  /\ calls \in 0..MaxCalls

\* The fields hold values of their Rust types, run_cli has started no more
\* handlers than it found, and a call of response() has a chunk to write
\* whenever it is about to write one.
TypeOK == FlagsTyped /\ StreamTyped /\ AnswerTyped /\ PlaceTyped

\* The unsafe borrow of the stream in get_bodys is exclusive: while a task
\* reads the body no other task reads it, none is about to move the stream
\* out in own_conn, and the stream is still there.
ExclusiveRead ==
  \A p, q \in Procs :
    pc[p] = "read" => /\ conn = "open"
                      /\ pc[q] \in {"read", "take"} => q = p

\* However many tasks ask for the body, concurrently or after cancelled and
\* failed reads, the stream is accounted for to the byte.  What get_bodys
\* stores is BodyLen bytes in order and without a gap, the client's body when
\* no read was cut short; and own_conn hands the stream over right behind the
\* bytes the reads have taken: behind the body, behind it and as many bytes
\* again as cancelled reads have lost, or, where a read failed, in the middle.
StreamExact ==
  /\ bodys # <<>> => bodys = [i \in 1..BodyLen |-> lost + i]
  /\ conn = "owned" => rd = lost + (IF broken THEN 0 ELSE BodyLen)

\* A frame, or the beginning of one, with one code.
Frame(chunks) ==
  /\ \E f \in Frames : IsPrefix([i \in DOMAIN chunks |-> chunks[i].part], f)
  /\ \A i, j \in DOMAIN chunks : chunks[i].code = chunks[j].code

\* The chunks task p has written, and how many of them up to the i-th chunk.
WrittenBy(p) == {i \in DOMAIN out : out[i].by = p}
Rank(p, i) == Cardinality({j \in WrittenBy(p) : j <= i})

\* The chunks of p are the parts of frame f from its first on, all with code c.
Matches(p, f, c) ==
  \A i \in WrittenBy(p) : /\ Rank(p, i) \in DOMAIN f
                          /\ out[i].part = f[Rank(p, i)]
                          /\ out[i].code = c

\* Whoever else answers meanwhile, one task never writes more than one
\* response, complete or cut off by a failed write: neither two handlers in a
\* row, nor a handler and the answers run_cli adds.
OneFrameEach == \A p \in Procs : \E f \in Frames, c \in Codes : Matches(p, f, c)

\* "already responsed!": what the peer receives is one response of one caller.
SingleFrame == Frame(out) /\ \A i, j \in DOMAIN out : out[i].by = out[j].by

\* When run_cli ends without a panic, a response was begun, by a handler or
\* by run_cli itself, or a handler took the connection over; and the client is
\* told "Unknown" only if no handler returned an error: an error is reported
\* as such and never overwritten by a later answer.
Replied ==
  /\ CliIdle("end") => sended \/ conn = "owned"
  /\ \A i \in DOMAIN out : out[i].code = "unknown" => ~failed

\* Once the peer is gone run_cli ends (or dies with a panicking handler): no
\* interleaving of body readers, cancelled calls and answers leaves it waiting
\* for the Mutex or the stream for ever.
Served == eof ~> (stage = "panic" \/ CliIdle("end"))

\* The guards of GoesOn(p).
CanStep(p) ==
  \/ pc[p] = "lock" /\ lock = Nobody
  \/ pc[p] = "read" /\ (rd < sent \/ (eof /\ rd = sent))
  \/ pc[p] \in {"take", "check", "mark", "write"}

\* Nobody waits for ever once the peer is gone: a task in a call can go on, or
\* it waits for the Mutex of get_bodys and the task that holds it can go on.
\* No cancelled, failed or finished read leaves the Mutex locked behind it.
NeverWedged ==
  eof => \A p \in Procs : \/ pc[p] \in {"unborn", "idle", "ended"}
                          \/ CanStep(p)
                          \/ pc[p] = "lock" /\ lock \in Procs /\ CanStep(lock)

\* The Context keeps the promise stated in ContextPromise.
Promise == INSTANCE ContextPromise
             WITH settled <- bodyok, value <- bodys, stream <- conn,
                  answered <- sended
PromiseKept == Promise!Spec
=============================================================================
