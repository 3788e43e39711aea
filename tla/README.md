# hbtp in TLA+

`hbtp` is a small request/response protocol over TCP with a server engine, a
client request, and two message transports (`socks`) that keep a connection
open. The code runs on tokio's multi-threaded runtime and shares its objects
through `ruisutil::ArcMut`, whose `muts()` hands out an unguarded `&mut`. Most of
what can go wrong is therefore a matter of interleaving: who is at which `await`
while somebody else changes the same `Inner`. This directory holds TLA+ modules
of the library, configurations that model-check them, and proofs.

Check a run with `tlc -config context.cfg MCContext`, a proof with
`tlapm ContextProofs.tla`. `PROJECT.json` lists the runs, the theorems, the
mutants (small bugs each property was seen to catch), the lines of code each
definition stands for, and the hazards the properties are aimed at.

## Inventory

| part | code | state | operations | hard because of |
| --- | --- | --- | --- | --- |
| **Context** of a request | `src/src/res.rs` 12-307, `run_cli` in `src/src/lib.rs` 284-326 | `sended`, `conn`, `bodyok` (a Mutex), `bodys`; where `run_cli` is | `get_bodys` / `body_str` / `body_json`, `own_conn`, `response` / `res_*`; the dispatch loop | shared by handlers and the tasks they spawn; lazily read body; plain flag `sended`; cancelled calls; a client that closes early |
| **Request / Response** and `parse_conn` | `src/src/req.rs`, `src/src/res.rs` 47-110 and 311-378 | `sended`, `conn` of the Request; `bodyok`, `bodys` of the Response; bytes in both directions | `send`, `dors`, `donrs`, `res`, `response`, `get_bodys`; `parse_conn` | two independent computations of lengths in `u16`/`u32`; limits; failures at every await; calls repeated after errors; no timeout that ends a pending read |
| **Engine** | `src/src/lib.rs` 194-351 | `ctx`, `lsr`, `fns`, `lmts` | `run`, `runs`, `stop`, drop, `reg_fun`, `get_lmt_max`, dispatch | clones stop, run and register concurrently; two maps under two locks; the listener is dropped under a borrow |
| **Messager** | `src/src/socks/tcp/msger.rs`, `src/src/socks/msg/tcps.rs` | `ctx`, `shuted`, the channel, `buf`, the connection; four tasks at each end | `send`, `stop`, `run`, `run_send`, `run_read`, `run_parse` / `run_recv`, `run_check`, `on_msg`; `send_msgs`, `parse_msg`, `parse_steam_msg` | bounded buffers in both directions; a frame can be cut at any write; tasks learn of a stop in different ways |
| **Heartbeat** | `run_check` and `on_msg` of `msger.rs` | `ctms`, `ctmout`, hearts on their way | as the Messager | two timers at two ends, a loop that is late |
| **Response** shared by clones | `src/src/req.rs` 235-345 | `conn`, `bodyok` (an AtomicBool), `bodys` | `get_bodys` / `body_str` / `body_json`, `own_conn` | the body is read without a lock |
| **UMsgerServ** (UDP) | `src/src/socks/udp/udp.rs`, `src/src/socks/msg/udps.rs` | `conn`, `ctx`, `shuted`; datagrams; tasks that parse | `run`, `run_recv`, `run_parse`, `connect`, `stop`, `send1bts`, `send1msg` | stop under a borrow, a loop without an await, three limits of lengths, lost, repeated and reordered datagrams |
| **UdpMsgParse / UdpMsgMerge** | `src/src/socks/udp/udps.rs` | `curr`, 256 handles of one buffer: `finished`, `ln`, `count`, `datas` and its lock | `ctrls`, `parse`, `push`, `run` | `u8` window arithmetic, a test without the lock, a lock taken twice; nothing calls it |
| not compiled | `src/src/socks/udp/udpc.rs`, `src/src/socks/tcp/msgbuf.rs.not` | | | their `mod` lines are commented out |
| external | `ruisutil`, tokio, qstring, serde_json | | | modelled only as the code uses them |

How they interact: `Request::send` writes a header and parts that
`Context::parse_conn` reads; `Engine::runs` spawns `run_cli` per connection,
which parses, looks up limits and handlers of the control (`fns`, `lmts`), and
awaits the handlers, all of them with clones of one Context; `Context::response`
writes what `Request::response` reads. A Messager takes a connection over
(typically one that `own_conn` released), and two of them speak the framing of
`tcps.rs`; `run_check` uses the same channel as the users for its hearts, and
`on_msg`, running in the task that reads, uses it for the answers. A UMsgerServ
talks to others of its kind over UDP; what it receives it parses in a task per
datagram and hands to the `IUMsgerServ` of the application. `UdpMsgParse` was to
stand between the two.

What makes each part correct:

* Context: one response per request; the body read once, in full, by one task;
  the stream handed over right behind it; every request answered.
* Exchange: the server cuts the stream where the client did; limits and versions
  are enforced; handlers run at most once per Request; the two ends never wait for
  each other.
* Engine: registrations take effect, with their limits; nothing is accepted for
  long after a stop; slow handlers do not block the listener.
* Messager: frames arrive whole, in order, once; nothing deadlocks; a stop
  spreads to every task of both ends.
* Heartbeat: idle connections live, dead ones are noticed.
* Response: what Context promises of its body, as far as it holds without a lock.
* UDP server: a handler gets what was written, with an accepted token; what may be
  sent can be received; the loop neither spins nor blocks nor leaves its socket.
* UDP reassembly: a message whose pieces are all there is handed over.

## Modules

| module | models | run through | proved in |
| --- | --- | --- | --- |
| `Context` | one Context, `run_cli` and the tasks that share it | `MCContext` | `ContextProofs` |
| `ContextPromise` | abstract: what a Context promises | as property `PromiseKept` | `ContextProofs` |
| `Exchange` | one Request, its connections, the server's end of each | `MCExchange` | `ExchangeProofs` |
| `RequestPromise` | abstract: what a Request promises, whatever fails and is called again | as property `PromiseKept` | `ExchangeProofs` |
| `Engine` | clones of an Engine, accept loops, connections | `MCEngine` | `EngineProofs` |
| `Messager` | a pair of Messagers and their connection | `MCMessager` | `MessagerProofs`, `MessagerLinkProofs` |
| `FifoLink` | abstract: a pair of FIFO links | as property `LinkKept` | `MessagerLinkProofs` |
| `Heartbeat` | the heartbeat in discrete time | `MCHeartbeat` | `HeartbeatProofs` |
| `Reply` | one Response and the tasks that share it | `MCReply` | `ReplyProofs` |
| `UdpServer` | UMsgerServs, other programs and the network between them | `MCUdpServer` | `UdpServerProofs` |
| `Merge` | one UdpMsgParse and its UdpMsgMerge | `MCMerge` | |

The modules meet at their boundaries and are not multiplied out. `Engine` takes
a request from accept to the end of its handlers in four steps; the first two are
the subject of `Exchange` (which ends with "handed to the handlers" and one
answer), the handlers that of `Context` (which starts there, with a body still
on the wire). `Messager` is untimed, and `Heartbeat` replaces everything
`Messager` models between two ends by a delay. `Reply` starts where `Exchange`
has made a Response, and has several users of it where `Exchange` has one.

A step is the code between two points where another task can act: two awaits,
or two accesses of an unguarded field. Definitions called *Mutant* belong to no
specification; each is a plausible bug of the definition below it.

### Context

`pc[p]` says where a task is in the call it makes; `stage` where `run_cli` is.

* `BodyCall` → `BodyLock` → `BodyRead`* is `get_bodys`: queueing for the Mutex,
  the decision under it, one byte after the other, and with the last byte
  `bodys`, the flag and the guard. `BodyError` is the error path that prints and
  sets the flag all the same; `BodyCancel` a dropped future, which leaves the flag
  and loses the local buffer. `own_conn` is `BodyCall` with `own` set and
  `OwnTake` behind it, which panics when the stream is gone.
* `RespCall`, `RespCheck`, `RespMark`, `RespWrite`, `RespFail` are `response`:
  the check of `sended` and the assignment are two steps, each write is one.
* `StartHandler`, `HandlerReturn` (Ok, Err, panic), `LeaveLoop` and
  `FinalAnswer` are the dispatch loop. `Spawn` is a handler's
  `task::spawn` with a clone.
* A response that still writes while `own_conn` moves the stream out is undefined
  behaviour; `RespWrite` and `RespFail` are its two outcomes.

### Exchange

Bytes are counted: `up[c]`, `rd[c]`, `down[c]`, `cr`. `Header` is what
`send` puts into `MsgInfo` (`% U16`, `% U32`), `ClientLen` what it then writes of
each part, `ServerLen` what `parse_conn` reads of it. `SendCall`, `Connect`,
`Write` are `send`; `ReadInfo`, `ReadHead` are `response`; `GiveUp` is any await
of them that fails, a partial write included. `ParseInfo` holds the checks of
`parse_conn` as they are written (`NotFoundVersion`, `OutOfLimit`); `Build` says
whether `u16 + u16` panics (debug) or wraps (release) on overflow. `AnswerWrite`
writes a response, behind which the connection lives on with the Context
(`"answered"`) until `RunEnd` drops it. `BodyCut` is the failed or dropped read of
`Response::get_bodys`; a call repeated after it asks for the whole length again.

### Engine

A listener, a run and a loop are named by the user that called `run`, which
consumes its clone. `Bind`, `Publish`, `RunReturn` are `run`; `StopListener`,
`StopContext` the two halves of `stop`; `ParentStop` a stop of the context
the engine was made with; `DropInner` the drop of the last clone. `LoopStart`,
`LoopCheck`, `Accept`, `AcceptFail` are `runs`. `RegFns` and `RegLimit` are the
two critical sections of `reg_fun`; `ReadHeader` reads `lmts`, `Dispatch` reads
`fns`. The set `ready` and its copy `before` remember which registrations were
complete when a header was read.

### Messager

A frame is a sequence of units: the two start bytes, `MsgInfo`, one unit per
piece of command, heads and body, the end bytes. A write or read of any part may
be interrupted between units. `Declared` is the length `MsgInfo` announces,
with the command's taken modulo `LenMod` (2^16). The parser knows units only by
what their bytes show: data may look like anything (`Passable`), so a stream that
lost its framing is explored with every reading of it. `SendTake`, `SendUnit`,
`SendFail`, `SendIdle` are `run_send`; `ReadFill`, `ReadPush`, `ReadFail` are
`run_read`; `ParseUnit`, `ParseMsg`, `ParseReject`, `ParseFail` are `run_parse`
over the buffer (ends in `Streamed`) or `run_recv` over the socket; `OnMsg` is
`on_msg`, which runs inside `ParseMsg`; `HeartTick`, `HeartSend`, `HeartTimeout`,
`RunEnd` are `run` with `run_check`; `UserStop` is `stop`.

### Heartbeat

`place`, `spent` and `since` are where `run()` of an end is, for how long, and the
time on its `ctmout`; `tick` is `ctms` of the client. `Tick` lets time pass unless
a deadline forbids it. Between the channel of one end and `on_msg` of the other a
heart takes at most `Delay`, or is lost; the history variable `lost` remembers
that, and the promise to an idle connection (`HealthyStays`) ends there.

### Reply

`pc[t]` is where a task is: `Call` is the load of `bodyok` and what is decided by
it, `Read` one byte of `read_all_async` (with the last one `bodys` is assigned),
`ReadFail` and `Cancel` its other ends, `Flag` the store to `bodyok`, `Take` the
replacement in `own_conn`. Two histories say when the promise of an exact body ends:
`torn` (a read was cut short) and `shared` (a call began to read between the load
and the store of another). Without `shared` in it `ExactUnlessShared` is false: two
readers then divide the bytes of one body among them, the second waits for bytes
that never come, and what is behind the body is read as body. The lock that
`Context` has is what `Response` lacks. `SettledOnce` is about those calls too: it
says that the window closes with `bodyok`. No call begins to read behind it, and only
one that overlapped the call that set it can still change the body.

### UdpServer

An end is one UMsgerServ; `run[e]` is where its `run()` is: `Bind`, `Publish` (the
store of the socket), the loop `LoopCheck`, `LoopLook`, `Recv` or `RecvFail`, and the
`stop()` at its end, `RunStopTest`, `RunStop`, `RunDrop`. `UserStopTest`, `UserStop`,
`UserDrop` are a `stop()` of somebody else, in the same three steps: the test of
`shuted`, the flag with the context, the socket. Both may pass the test. `Parse` is
the end of a task of `run_parse`.

A message is known by the lengths of its token, command, heads and body. `PackLen`
is what `packet_fmts` and `msg_fmts` write; `Received` what fits into the buffer of
`recv_from`; `TokenField` and `Fields` the lengths as their fields hold them (`% U16`,
`% U32`); `Cut` where `packet_parse` and `msg_parse` cut; `Written` where the sender
put the parts. `Accepted` stands for `check_token`. Sending without a socket
returns Ok and sends nothing. `Duplicate` and `Lose` are the network; `Lose` may
make a connected sender's socket report an error (`icmp`), which a later send or
receive returns. A socket that was dropped while `recv_from` borrows it is undefined
behaviour: `RecvFail` may happen then and need not.

### Merge

One task per piece `<<id, ind, ln>>`: `Ctrls` (with `CanuseId`, computed modulo `U8`,
or panicking in a debug build), `Parse`, then `push`: `Check` reads `finished` and `ln`
without a lock, `Clear` replaces the vector under the lock, `Reset` sets the fields
after it, `Insert` stores the piece under a second guard, `Stored` hands a complete
message on and then asks for the lock it holds (`stuck`). `vec![UdpMsgMerge::new(..);
256]` clones a handle: the model has one buffer. `Arrive` and `Enter` stand for the
caller, which `udp.rs` holds in a comment: it handles the first piece of a peer under
a lock, the others concurrently.

## Runs

| run | instance | shows |
| --- | --- | --- |
| `context` | 2 handlers in a row, 1 spawned task, 2 calls in all, 2 body bytes, 1 behind; fairness | `ExclusiveRead`, `StreamExact`; `OneFrameEach`, `Replied`; `NeverWedged`; the Context implements `ContextPromise`; `Served` |
| `context_race` | 1 handler, 1 spawned task, both answer | **violated**: `SingleFrame` |
| `exchange` | commands of 0, 5, 9 and arguments of 0, 1, 5 bytes with `U16 = 8`, heads of responses below and above the client's limit, a given connection or a new one, 3 calls, checked arithmetic; fairness | `Aligned`, `LimitSound`, `ResponseExact`; the Request implements `RequestPromise`; `AwaitsEnd` |
| `exchange_wrap` | more lengths, versions 0, 1, 3, release arithmetic | **violated**: `LimitSound` |
| `exchange_version` | as `exchange_wrap`, checked arithmetic | **violated**: `VersionSupported` |
| `engine` | 2 clones, 2 handlers of a control registered with or without a limit, 2 connections, accept may fail; fairness | `OneLateAtMost`, `LimitUpToDate`, `AllHandlersSeen`, `SocketServed`; `KeepsAccepting` |
| `messager` | client to server, in any order: two messages that are right, one whose command does not fit, one above the limit; buffers of one unit; the connection may break | `ExactFrames`; the pair implements `FifoLink`, up to the first message that does not fit |
| `messager_live` | a heart, and behind it the answer and a message of the server, which share a channel of one place; a pipe of one unit, stops anywhere; fairness | `OneLateMessage`, `NoHeartEcho`, `RestsRight`; `WindsDown`, `Arrives` |
| `heartbeat` | the timers of the code in half seconds, any pattern of loss | `HealthyStays`, `SilenceDetected`; time never blocks (deadlock is checked) |
| `udp` | 2 ends, another program; 4 messages with the numbers of the code: 1200 bytes with a token of 300 (1507 bytes, over both limits of the receiver), parts of 1200 bytes with a token of 265 (1472 bytes, just fits, twice), one with a bad token, one above the sender's limit; one end may be stopped; fairness | `Faithful`, `RefusedForToken`, `LoopHasSocket`, `ClosedAfterRun`; `KeepsReceiving` |
| `reply` | 3 tasks, 5 calls in all, 2 body bytes and 2 behind | `ExactUnlessShared`, `SettledOnce` |
| `merge` | 2 messages of 2 pieces, release arithmetic; fairness | **violated**: `Reassembled` |

Each component's first passing run checks its `TypeOK` too. Deadlock is checked
where the system runs for ever (`heartbeat`). In the other runs the tasks end, the
calls are used up, or an end stops: they have `CHECK_DEADLOCK FALSE`, and what must
not block is a liveness property. No run uses symmetry: most of
the passing ones check liveness.

Bounds. Two tasks suffice for every race on a Context (its hazards are pairs: one
reads, another enters; one checks, another marks), and two handlers let a first
one fail or stay silent before a second answers. Two calls in all are
every pair of them, of one task or of two: a call and its retry after a failure or
a cancellation, and a call in the middle of another. Two body bytes
give a read a beginning, a middle and an end, with one byte behind the body to be
stolen. `U16 = 8` keeps the cases that differ: a sum that overflows (5 + 5), a
sum above a limit that neither term exceeds (5 + 1, `MaxOther = 5`), a
length that becomes 0 (8) and one that becomes another (9). Three calls on a
Request allow donrs, res and a retry, or two failures and a retry. Two clones of an
Engine allow one to register or stop while the other runs, and two connections
one to be late while another holds a handler. The Messager's buffers (`QueueCap`,
`PipeCap`, `BufCap`) are smaller than a frame, so that they fill up. In `messager` all
messages go one way, so that two of them can arrive before the one that ends the
promise; that both directions are FIFO at once is left to the theorem (with messages
in both, TLC needs more than five minutes). In `messager_live` the channel of the
server has one place: when the heart arrives, the message of the server may fill it,
and the answer is dropped. The client's buffer has three units and the message three,
so that the last unit of the answer and all of the message behind it can wait behind
a stop. The heads of responses (2 and 6, with `ResMaxHeads = 4`) are below and above
the limit. Three tasks of a
Response are two that may overlap and one that finds them; five calls leave each of
them a second one. On the UDP side one end that stops and one that lives meet every
order of `run()` and `stop()`, and a second copy (`Copies`) of the message that just
fits every repetition that differs; the lengths are those at the limits. `U32` is
smaller than 2^32, which TLC's integers do not hold, and larger than any datagram. `MaxTicks` bounds hearts, `MaxCalls` calls, `Lengths` the
lengths a parser reads from bytes that are no `MsgInfo`.

### Liveness without fairness

Each liveness property has a safety property beside it that says why it can hold:
nobody is ever in a place that no step of the system leads out of. What remains for
fairness is that the steps are taken. The safety half holds for every value of the
constants (see Proofs).

* `NeverWedged` for `Served`: once the peer is gone, every task in a call of the
  Context can go on, or waits for the Mutex and the task that holds it can go on.
* `RestsRight` for `Arrives` and `WindsDown`: when no task of a pair of Messagers can
  go on (`Standstill`: no message, no room, no end of file for any of them), all that
  was accepted has arrived, or all tasks have ended. `CanSend`, `CanRead`,
  `CanParse` and `CanLoop` are the guards of the tasks' steps written as state
  predicates; they were compared with `ENABLED` of the four step actions on the
  instances of both runs.
* `SocketServed` for `KeepsAccepting`: until a stop begins, an open socket has the
  run or the loop that serves its backlog.
* `LoopHasSocket` for `KeepsReceiving`: until the context is done, an open UDP
  socket has the loop that reads it.

### Fairness

No timeout ends a pending read or write. `read_all_async` and `write_all_async` are
given contexts with timeouts, but `ruisutil` is external, and nothing under `src/`
would wake a task that waits in them: the modules let a call fail at any await and
never assume that it does. What ends a pending read is its bytes, the end of the
connection, or the application that drops the future. `connect` alone is under a
`tokio::time::timeout` (`req.rs:119`).

* `Context!Fairness`: `run_cli`, calls in progress and handlers make progress
  (weakly fair): tokio polls a woken task, its Mutex is FIFO, and handlers are
  assumed to return. A read that waits for the client, and a write, need not end while
  the client is there (`GoesOn`). Nothing makes the client send or close, so `Served`
  speaks of a client that is gone (`eof`).
* `Exchange!Fairness`: what can be read is read, what the server is waiting for can be
  written, `connect` ends, and an end that waits is told when the other has dropped the
  connection (`SeesEnd`; `ParseFail` once the client has closed). Nothing is assumed of
  accept, handlers, users, nor of a peer that is silent. `AwaitsEnd` therefore excepts
  who waits for a step the peer is free not to take (`HeldUp`; a client that connected
  and wrote nothing). What it says is that the two ends never wait for *each other*: if
  the server expected one byte more than the client writes, as the mutant
  `ServerLenMagic` does, both would wait for ever.
* `Engine!Fairness`: a run that bound its socket and its loop (start, check,
  accept of some waiting connection) are weakly fair. Handlers need not return.
* `Messager!Fairness`: each task that can move does. Users, handlers, timers and
  the network are free.
* `UdpServer!Fairness`: a `run()` that has stored its socket takes its steps and a
  datagram that is there. Nothing is assumed of handlers, `packet_err`, users, the
  network, or of a socket that was dropped under a borrow.
* `Merge!Spec`: the tasks of pieces that arrived, and `run()`, are scheduled.
* `Reply` and `Heartbeat` have no fairness: the bounds on time are part of `Tick`, and
  their properties are safety properties. (A call of `get_bodys` without a context
  waits as long as the server does.)

## Findings

* `context_race`: `response()` tests `sended` and sets it without a lock, though a
  Context is meant to be cloned into tasks; two can pass the test
  (`src/src/res.rs:265`) and their frames mix, although line 266 says
  "already responsed!".
* `exchange_wrap`: `len_cmd + len_arg` is added in `u16` before it is widened
  (`src/src/res.rs:62`); in a release build the limit can be passed by.
* `exchange_version`: `version < 1 && version > 2` (`src/src/res.rs:58`) is never
  true; "not found version!" is never returned.
* `merge`: packages of control 20 to 30 are to be put together in any order
  (`src/src/socks/udp/udp.rs:151`). `canuse_id` (`src/src/socks/udp/udps.rs:86`)
  computes `curr - id` for `id >= curr` in `u8`, and `curr` stays what the first piece
  set it to: every later id is refused (release) or panics (debug). In the same
  behaviour the task with the last piece of the first message waits for the lock it
  holds (line 195), so that nothing of the peer could be stored any more. The code is
  compiled; its only caller is commented out.

## Proofs

The theorems hold for every value of the constants that meets the `ASSUME` of the
module (`ContextAssumption` and so on; TLC evaluates them in each run): any number
of tasks, bytes, clones, connections and messages, all capacities and timers.
Every property proved is also checked by TLC on the small instance of a run. The
proofs cover every invariant of the passing runs, their action properties and the
three refinements; `SingleFrame`, which a run refutes, is proved under the assumption
that excludes the counterexample.

* **Context.** `TypeCorrect` is inductive: the only delicate part is that a call
  about to write has a chunk left, `todo[p] # <<>>`. `ReadExclusive` needs
  `LockInv`: the reader *is* the holder of the Mutex, a held Mutex implies
  `~bodyok` and an open stream, and a task that is about to take the stream has
  seen `bodyok`; whoever does not read has an empty buffer. (`ExclusiveRead` alone is not inductive: it does not say why a
  reader and a taker exclude each other, which is the flag.) `StreamIsExact`
  adds `ExactInv`, which counts the bytes cancelled reads took with them (`lost`) and
  notes a read that failed (`broken`): the reader's buffer is the stream from
  `lost + 1` to `rd`, and once `bodyok` is set `rd = lost + BodyLen`, or `lost` after a
  failure. So the property holds for every behaviour, and says what a dropped call costs. `ContextKeepsPromise` is the step
  simulation: `BodyLock`, `BodyRead` and `BodyError` map to `Settle`, `OwnTake` to
  `HandOver`, `RespMark` to `Answer`, everything else stutters; it uses `LockInv`
  to know that settling happens once and before the stream goes. `AlwaysReplied`
  has two parts. `AnswerInv`: once the dispatch has ended, the only answer that can be missing is
  one that passed the check and is about to be marked. `SilentInv`: after an error of a handler somebody has answered, or the stream is
  gone, or the answer with the error is between check and mark; the "Unknown" that
  comes behind it is then refused. `OneResponseEach` rests on `WroteInv`: what a
  task has written so far, whatever others write in between, is a prefix of one
  frame with one code, and while it writes, what is left to write (`todo`) is the
  rest of it; a task that has written something finds `sended` set and begins
  nothing new. `OneResponse` assumes that spawned tasks do not answer
  (`"resp" \notin SpawnOps`), which is exactly what the finding `context_race` lacks:
  then the only writer is the task of `run_cli` with its handlers (`SerialInv`), and
  its chunks are all the connection carries. `NobodyWedged` is read off `LockInv`:
  the holder of the Mutex is a task in the middle of a read, and with the peer gone
  a read can always go on, or fail.
* **Exchange.** `ExecutedAtMostOnce` (handlers see a Request on one connection
  only) rests on `OnceInv`: only one connection ever
  carries bytes, namely the one of the call that set `sended`, and a connection
  behind its header carries some. `PartsAligned` is `Aligned` plus "an unread
  connection has `rd = 0`"; each write and read moves its cursor from the start
  of a part to that of the next, which is the same arithmetic on both sides
  as long as the lengths fit the header (`SameLengths`). Where they do not, each length
  the server reads is at most the one the client writes (`ServerLen` against
  `ClientLen`), so the server's cursor is behind (`Behind`), never ahead. `LimitsHold` assumes
  `Build = "panic"`; for the wrapping build the statement is false
  (`exchange_wrap`). `ResponseIsExact` needs two more facts: a connection that
  carries bytes of a response was executed and has its lengths fixed
  (`AnsweredInv`), and while a call holds a connection there is no Response; once
  there is one no call gets another connection, and the cursor stands behind the
  head (`CursorInv`). `RequestKeepsPromise` is the step simulation: the step of `send`
  that sets `sended` maps to `Ask`, the last part `parse_conn` reads to `Execute`, the
  header of the response to `Answer`, `ReadHead` to `Deliver`, the end of
  `get_bodys` to `Settle`, and everything else, failures, retries and refused
  calls included, stutters. `OnceInv` gives "executed once" and "answered once",
  `CursorInv` that the Response delivered is the answer given, with its length as
  the header holds it.
* **Engine.** `OneLate`: a loop that accepted while done stands before its check,
  or has ended. `TypeCorrect` includes the bounds (`BoundInv`). `LimitsUpToDate`
  and `HandlersSeen` follow the two critical sections of a registration: a handler
  is registered once (`OnceInv`), the limit in force is that of the last one
  (`LastInv`), and what was complete when a header was read is still in `fns` when
  the dispatch reads it (`FnsInv`). `SocketsServed`: a user that has not stored a
  listener has no loop, and `lsr` is not its (`OwnInv`); as long as no stop has begun
  the loop of the open socket is at its start with `lsr` its own, goes round on it, or
  has failed in an accept (`ServedInv`). Both rest on the type
  invariant with `BoundInv`: at most one socket is open, `lsr` holds no other, and none
  between a bind and its store; so no second `run` can replace `lsr` before the first
  loop has looked for it.
* **Messager.** `TypeCorrect`: the channels stay within their capacities, and sender
  and reader hold data exactly while they work on it. `OneLate`: a parser that
  handed over a message while done has ended.
* **The link** (`MessagerLinkProofs`). The units between a sender and the parser at
  the other end wait in the buffer, in the reader's hands, in the pipe and in the
  sender's hands; together they are one line, `Line(p)`. `LineInv` says that the line
  leads, unit after unit, from the place where the parser stands through the
  frames of the messages taken from the channel, and that what the parser holds
  is the start of the next frame, whose length it knows (`PartRight`). This holds
  while no message before was a misfit (`Clean`). A failure only cuts the line off;
  then it no longer reaches the last frame (`Joined` is false) and nothing is added to
  it. Each step moves a unit along the line, adds a frame at its end, takes a unit
  at its head, or cuts it. `FramesAreExact` is read off the step in which a frame
  is complete. `PairIsFifoLink` is the step simulation: `Send` and `HeartSend`
  map to `Accept`, `ParseMsg` to `Pass` (with the answer to a heart, if one is
  sent) or, behind a misfit, to what is left of it; `SendTake` moves a
  message from the channel to those taken and changes nothing of what was
  accepted, and the rest stutters. `PairRestsRight` needs in addition which tasks have
  ended, and why (`EndInv`), and what the places of the others mean when nobody can go
  on (`AtRest`): a sender that cannot write has a full pipe, a reader that cannot push a
  full buffer, a parser that cannot read an empty one. If the pair is up, the empty
  buffer of the parser empties the pipe, and that the sender; so the line is empty and,
  by `LineInv`, the parser stands behind the last frame (`AllArrives`). If an end is
  done, its loop has shut its direction down and closed its buffer, the other end
  reads the end of file, and so everything ends (`StopReachesAll`).
  `HeartsDoNotMultiply` counts: hearts accepted by an end are those of its ticks and
  its answers, the answers are to hearts that came (`EchoInv`), and those are among
  the hearts the other end accepted, by `LineInv`. It is stated for behaviours in
  which all commands fit (`AllFit`, as they do in `messager_live`): behind one that does
  not, data may be read as a heart.
* **Heartbeat.** `SilenceIsDetected` (for `Delay <= Timeout`) follows the clock of
  an end from place to place: at each it is at most `Timeout` plus the time the
  loop can have spent since its last check. `HealthyIsKept` needs `FlightInv`,
  which holds until something is lost (`KeepInv`) and bounds, for each heart and each answer on its way, the clocks of both ends
  by the age of the message: under the margin
  `Period + CheckWait + Pause + SendWait + 2 Delay < Timeout` neither reaches
  `Timeout`. With the values of the code the margin is
  20 + 5 + 0.1 + 3 + 2 Delay < 30: it holds as long as a message takes less than
  0.95 s between the ends.

* **Reply.** `AloneInv`: `bodyok` is set before the connection is given away, and a
  reader that does not share is alone and finds `bodyok` not set. `SettledOnce` follows
  step by step: a call begins to read only where `bodyok` is not set, and only a reader
  writes `bodys`; without `shared` that reader is alone, so that none is left once
  `bodyok` is set. `Exact`: what was consumed
  is in the buffer of the one reader (`1..rd`) or is the stored body.
* **UdpServer.** `WholeCut`: a datagram of at most `PackMax` bytes arrived whole and its
  lengths fit their fields, so that it is cut where it was written; `DataInv` says
  that only such ones are parsed and that what an end sent is within `DataMax`.
  `FaithfulHolds` and `RefusedForTokenHolds` follow. `StopInv` relates the place of
  `run()`, the steps of `stop()` and the socket: once stored it is missing only
  when the context is done, and if the flag is set while it is open, somebody is
  about to drop it, or a stop was over before it was stored (`early`).
  `LoopHasSocketHolds` and `ClosedAfterRunHolds` are read off it.

Only model-checked: the liveness properties `Served`, `AwaitsEnd`, `KeepsAccepting`,
`WindsDown`, `Arrives` and `KeepsReceiving`, since fairness and `ENABLED` are out of the
prover's reach. The violated properties `VersionSupported` and `Reassembled` have no
theorem, and `Merge` has none at all: the run shows that its promise does not hold.
What a recursive definition computes for all inputs could not be proved either (the
induction theorems take an operator); no module defines one.

## Not modelled, and why

* Names, arguments and JSON: `QString`, serde, `res_json`, `do_json` convert
  between a buffer and a value; only lengths matter to the protocol.
* `set_lmt_tm`, `set_lmt_max` of the Engine and the setters of Request: plain
  stores before use. `put_data` / `get_data`: an application's map.
* A write to a TCP connection that fails while later writes succeed: TCP has
  none, so `SendFail` is permanent (`shuted` or `cut`). `run_send`, which goes on
  after an error, would desynchronise on a transport that had one.
* Delivery of bytes: TCP is a FIFO pipe. Reads and writes of `ruisutil` move all
  bytes or fail.
* Wall-clock durations outside `Heartbeat`. A timeout that ends something pending
  (`connect`, the second of `run_send`) is a step that may happen; the contexts of reads
  and writes make a read or write fail, which it may at any await and need not.
* What a silent peer holds: a client that stops in the middle of a request keeps the
  task of `parse_conn`, a server that does not answer keeps `dors` and `res`, and so
  does a `res()` on a connection on which nothing was sent. No property says that these
  end, because nothing in the code ends them.
* What is lost with a read that was cut short: `get_bodys` of a Response, called again
  after its future was dropped, takes what is behind the body for the body, or waits.
  `Exchange` and `Reply` reach this and except it (`resp.lost`, `torn`); `Context`, with
  the same code under a lock, says exactly where the stream then is (`StreamExact`).
* What the properties except is in the notes of the hazards: the moment between the two
  locks of `reg_fun`, a listener or socket stored behind a finished stop, an accept loop
  that an error has ended, a handler that panicked, and frames behind a command that
  does not fit its length field.

* Durations and timers of UDP (`ctmout` of 30 s, `tick`): a step that may happen.
* `UMsgerServ::remove` and `mutis`: nothing is ever put into the map. `udpc.rs` and
  `msgbuf.rs.not` are not compiled.
* The text of tokens and messages: `check_token` is a set of messages, UTF-8 errors are
  packages of other programs that are dropped.

## Plan

Done: all compiled components, their runs, and proofs of every invariant and
refinement the passing runs check. What is left:

* for the Engine an abstract specification of registration (a dispatch runs the
  handlers registered at one moment, with a limit at least as new), in the way of
  `RequestPromise`, with its refinement;
* for the Heartbeat whether `Margin` is necessary: below it, an idle connection that
  TLC shows to be given up;
* for `Merge`, the parts that hold in spite of the finding: what `push` stores is of the
  message in progress, as long as the pieces come one after the other.
