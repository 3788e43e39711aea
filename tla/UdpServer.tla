------------------------------ MODULE UdpServer ------------------------------
(***************************************************************************)
(* UMsgerServ of socks/udp/udp.rs with the packages of socks/msg/udps.rs:  *)
(* ends that are each one UMsgerServ (run() is called once), the programs  *)
(* that share it (they send, connect and stop it), and the network between *)
(* them, which loses, repeats and reorders datagrams.                      *)
(*                                                                         *)
(* A message is known by its lengths.  What send1bts and send1msg write    *)
(* and what packet_parse and msg_parse cut out of it are computed          *)
(* independently, the latter from the fields of the datagram, which are    *)
(* u16 and u32, and from the part of it that fits into the buffer.         *)
(*                                                                         *)
(* A step is the code between two awaits, or between two accesses of a     *)
(* field of Inner, all of which are reached without a lock.                *)
(***************************************************************************)
EXTENDS Naturals

CONSTANTS
  Ends,       \* the addresses with a UMsgerServ
  Others,     \* the addresses of other programs
  None,       \* no peer
  Msgs,       \* messages, each sent at most once
  From, To,   \* sender's and receiver's address of a message
  Ctrl,       \* control of its package: 11 (send1bts), 12 (send1msg), others
  TokenLen,   \* length of its token, 0 for none or an empty one
  Parts,      \* lengths of its command, heads and body (Ctrl # 12: body only)
  Accepted,   \* the messages whose token check_token accepts
  Stoppable,  \* the ends whose stop() or parent context is used
  Copies,     \* bound: copies of a datagram there are at a time or ever taken
  DataMax,    \* 1200: the limit of send1bts and send1msg
  PackMax,    \* 1472: the limit of run_recv
  BufLen,     \* 1500: the buffer of run_recv
  OsMax,      \* 65507: the longest datagram the system sends
  U16, U32    \* 2^16 and 2^32

ASSUME UdpAssumption ==
  /\ None \notin Ends \union Others /\ Ends \intersect Others = {}
  /\ From \in [Msgs -> Ends \union Others] /\ To \in [Msgs -> Ends]
  /\ Ctrl \in [Msgs -> Nat] /\ TokenLen \in [Msgs -> Nat]
  /\ Parts \in [Msgs -> [cmd : Nat, head : Nat, body : Nat]]
  /\ Accepted \subseteq Msgs /\ Stoppable \subseteq Ends
  /\ Copies \in [Msgs -> Nat] /\ DataMax \in Nat /\ PackMax \in Nat
  /\ BufLen \in Nat /\ OsMax \in Nat
  /\ U16 \in Nat \ {0} /\ U32 \in Nat \ {0}
  /\ PackMax < BufLen
  /\ PackMax < U16 /\ PackMax < U32

VARIABLES
  conn,      \* Inner.conn is Some: its socket is open
  peer,      \* the address that socket is connected to
  icmp,      \* the socket has an error to report
  done,      \* Inner.ctx is done
  shuted,    \* Inner.shuted
  stopper,   \* where the stop() of a user is: it has read that shuted is
             \* not set ("seen"), or it stands before `ins.conn = None` ("drop")
  run,       \* where run() is
  early,     \* history: a stop() was over before run() stored its socket
  sent,      \* history: messages somebody sent
  net,       \* copies on their way or in the receiver's socket
  taken,     \* history: copies recv_from returned
  parsing,   \* tasks of run_parse that have not handed a message on
  handed,    \* history: calls of on_bts or on_msg
  refused    \* history: messages packet_err was called for

vars == <<conn, peer, icmp, done, shuted, stopper, run, early, sent, net,
          taken, parsing, handed, refused>>
sockVars == <<peer, icmp>>
stopVars == <<done, shuted, stopper>>
taskVars == <<taken, parsing, handed, refused>>

Init ==
  /\ conn = [e \in Ends |-> FALSE] /\ peer = [e \in Ends |-> None]
  /\ icmp = [e \in Ends |-> FALSE]
  /\ done = [e \in Ends |-> FALSE] /\ shuted = [e \in Ends |-> FALSE]
  /\ stopper = [e \in Ends |-> "none"]
  /\ run = [e \in Ends |-> "idle"] /\ early = [e \in Ends |-> FALSE]
  /\ sent = {} /\ net = [m \in Msgs |-> 0]
  /\ taken = [m \in Msgs |-> 0] /\ parsing = [m \in Msgs |-> 0]
  /\ handed = [m \in Msgs |-> 0] /\ refused = {}

RunAt(e, p, q) == run[e] = p /\ run' = [run EXCEPT ![e] = q]
Add(f, m) == [f EXCEPT ![m] = @ + 1]
Take(f, m) == f[m] > 0 /\ f' = [f EXCEPT ![m] = @ - 1]

----------------------------------------------------------------------------
(* Packages *)

PackHead == 7    \* 'H', 'B', version, control, length of the token
MsgHead == 18    \* two start bytes, MsgInfo

Sum(p) == p.cmd + p.head + p.body

\* What send1bts and send1msg put into a package, and its length.
DataLen(m) == IF Ctrl[m] = 12 THEN MsgHead + Sum(Parts[m]) ELSE Parts[m].body
PackLen(m) == PackHead + TokenLen[m] + DataLen(m)

\* recv_from cuts off what does not fit into the buffer.
Received(m) == IF PackLen(m) <= BufLen THEN PackLen(m) ELSE BufLen

\* packet_parse: the token is as long as its field says, the data is the rest.
TokenField(m) == TokenLen[m] % U16
DataFrom(m) == PackHead + TokenField(m)
PackOk(m) == DataFrom(m) <= Received(m)

\* msg_parse: parts as long as MsgInfo says (its limits of heads and bodies
\* are above what a datagram holds).  A part is <<where it starts, length>>.
Fields(m) == [cmd |-> Parts[m].cmd % U16, head |-> Parts[m].head % U32,
              body |-> Parts[m].body % U32]
MsgFrom(m) == DataFrom(m) + MsgHead
MsgOk(m) == MsgFrom(m) + Sum(Fields(m)) <= Received(m)

\* What is handed on: the rest of the package to on_bts, the parts to on_msg.
Cut(m) ==
  IF Ctrl[m] = 12
    THEN LET f == Fields(m)
         IN  [cmd  |-> <<MsgFrom(m), f.cmd>>,
              head |-> <<MsgFrom(m) + f.cmd, f.head>>,
              body |-> <<MsgFrom(m) + f.cmd + f.head, f.body>>]
    ELSE [body |-> <<DataFrom(m), Received(m) - DataFrom(m)>>]

----------------------------------------------------------------------------
(* Sending *)

\* Mutant: no limit of the data.
FitsPackageAny(m) == Ctrl[m] \in {11, 12}

\* "data len out packet", "msg len out packet": the token is not counted.
FitsPackage(m) == Ctrl[m] \in {11, 12} /\ DataLen(m) <= DataMax

\* send1bts and send1msg return Ok, though without a socket nothing is sent.
\* To whom (dist, or the peer of connect) is part of the message.
Send(m) ==
  /\ From[m] \in Ends /\ m \notin sent
  /\ FitsPackage(m) /\ PackLen(m) <= OsMax
  /\ sent' = sent \union {m}
  /\ net' = IF conn[From[m]] THEN Add(net, m) ELSE net
  /\ UNCHANGED <<conn, sockVars, stopVars, run, early, taskVars>>

\* The error of an earlier datagram is reported instead of sending.
SendFail(e) ==
  /\ icmp[e] /\ icmp' = [icmp EXCEPT ![e] = FALSE]
  /\ UNCHANGED <<conn, peer, stopVars, run, early, sent, net, taskVars>>

\* External: another program sends a package, of any control and length.
Inject(m) ==
  /\ From[m] \in Others /\ m \notin sent /\ PackLen(m) <= OsMax
  /\ sent' = sent \union {m} /\ net' = Add(net, m)
  /\ UNCHANGED <<conn, sockVars, stopVars, run, early, taskVars>>

\* connect(): the socket, if there is one, hears its peer only.
Connect(e, d) ==
  /\ conn[e] /\ d # e
  /\ peer' = [peer EXCEPT ![e] = d]
  /\ UNCHANGED <<conn, icmp, stopVars, run, early, sent, net, taskVars>>

----------------------------------------------------------------------------
(* The network *)

Duplicate(m) ==
  /\ net[m] > 0 /\ net[m] + taken[m] < Copies[m]
  /\ net' = Add(net, m)
  /\ UNCHANGED <<conn, sockVars, stopVars, run, early, sent, taskVars>>

\* A copy is lost.  When nobody listens at its address a connected sender is
\* told so.
Lose(m) ==
  /\ Take(net, m)
  /\ icmp' = [e \in Ends |->
                \/ icmp[e]
                \/ e = From[m] /\ ~conn[To[m]] /\ conn[e] /\ peer[e] = To[m]]
  /\ UNCHANGED <<conn, peer, stopVars, run, early, sent, taskVars>>

----------------------------------------------------------------------------
(* run and run_recv *)

\* bind succeeds, or fails and run() returns the error.
Bind(e) ==
  /\ RunAt(e, "idle", "bound") \/ RunAt(e, "idle", "end")
  /\ UNCHANGED <<conn, sockVars, stopVars, early, sent, net, taskVars>>

\* The socket is stored, whatever happened during bind.
Publish(e) ==
  /\ RunAt(e, "bound", "check")
  /\ conn' = [conn EXCEPT ![e] = TRUE]
  /\ early' = [early EXCEPT ![e] = shuted[e] /\ stopper[e] # "drop"]
  /\ UNCHANGED <<sockVars, stopVars, sent, net, taskVars>>

LoopCheck(e) ==
  /\ RunAt(e, "check", IF done[e] THEN "stop" ELSE "look")
  /\ UNCHANGED <<conn, sockVars, stopVars, early, sent, net, taskVars>>

\* `if let Some(conn)`: without a socket the loop turns at once.
LoopLook(e) ==
  /\ RunAt(e, "look", IF conn[e] THEN "recv" ELSE "check")
  /\ UNCHANGED <<conn, sockVars, stopVars, early, sent, net, taskVars>>

TakeFromSocket(e, m) ==
  /\ conn[e] /\ To[m] = e /\ peer[e] \in {None, From[m]}
  /\ Take(net, m)
  /\ taken' = Add(taken, m)
  /\ UNCHANGED <<conn, sockVars, stopVars, early, sent, handed>>

SpawnParse(e, m) ==
  /\ RunAt(e, "recv", "check")
  /\ parsing' = Add(parsing, m) /\ UNCHANGED refused

CallPacketErr(e, m) ==
  /\ RunAt(e, "recv", "err")
  /\ refused' = refused \union {m} /\ UNCHANGED parsing

\* Mutant: everything that was received is parsed.
RecvWide(e, m) == TakeFromSocket(e, m) /\ SpawnParse(e, m)

\* Mutant: run_parse is awaited, no task is spawned for it.
RecvInline(e, m) ==
  /\ \A k \in Msgs : To[k] = e => parsing[k] = 0
  /\ TakeFromSocket(e, m)
  /\ IF Received(m) <= PackMax THEN SpawnParse(e, m) ELSE CallPacketErr(e, m)

\* recv_from returns a datagram.  One that may have been cut off goes to
\* packet_err, which is awaited; for another a task of run_parse is spawned.
Recv(e, m) ==
  /\ TakeFromSocket(e, m)
  /\ IF Received(m) <= PackMax THEN SpawnParse(e, m) ELSE CallPacketErr(e, m)

\* recv_from fails, and the loop goes on.  On a socket that stop() dropped
\* under the borrow it fails or is never woken: nothing forces this step.
RecvFail(e) ==
  /\ RunAt(e, "recv", "check")
  /\ icmp[e] \/ ~conn[e]
  /\ icmp' = [icmp EXCEPT ![e] = FALSE]
  /\ UNCHANGED <<conn, peer, stopVars, early, sent, net, taskVars>>

PacketErrEnd(e) ==
  /\ RunAt(e, "err", "check")
  /\ UNCHANGED <<conn, sockVars, stopVars, early, sent, net, taskVars>>

\* run_parse: check_token has answered.
Parse(m) ==
  /\ Take(parsing, m)
  /\ handed' =
       IF /\ PackOk(m) /\ m \in Accepted
          /\ Ctrl[m] = 11 \/ (Ctrl[m] = 12 /\ MsgOk(m))
         THEN Add(handed, m) ELSE handed
  /\ UNCHANGED <<conn, sockVars, stopVars, run, early, sent, net, taken, refused>>

----------------------------------------------------------------------------
(* stop *)

\* Mutant: the context is not stopped.
ShutFlagsOnly(e) ==
  /\ shuted' = [shuted EXCEPT ![e] = TRUE]
  /\ UNCHANGED done

\* stop() tests shuted and sets it without a lock: the one at the end of
\* run() and one of a user may both find it unset.
ShutFlags(e) ==
  /\ shuted' = [shuted EXCEPT ![e] = TRUE]
  /\ done' = [done EXCEPT ![e] = TRUE]

DropConn(e) ==
  /\ conn' = [conn EXCEPT ![e] = FALSE] /\ peer' = [peer EXCEPT ![e] = None]
  /\ icmp' = [icmp EXCEPT ![e] = FALSE]

\* Mutant: run() does not stop at its end.
RunNoStop(e) ==
  /\ RunAt(e, "stop", "end")
  /\ UNCHANGED <<conn, sockVars, stopVars, early, sent, net, taskVars>>

\* The stop() of run(): the test, the flag and the context, the socket.
RunStopTest(e) ==
  /\ RunAt(e, "stop", IF shuted[e] THEN "end" ELSE "seen")
  /\ UNCHANGED <<conn, sockVars, stopVars, early, sent, net, taskVars>>

RunStop(e) ==
  /\ RunAt(e, "seen", "drop")
  /\ ShutFlags(e)
  /\ UNCHANGED <<conn, sockVars, stopper, early, sent, net, taskVars>>

RunDrop(e) ==
  /\ RunAt(e, "drop", "end")
  /\ DropConn(e)
  /\ UNCHANGED <<stopVars, early, sent, net, taskVars>>

StopperAt(e, p, q) == stopper[e] = p /\ stopper' = [stopper EXCEPT ![e] = q]

\* Mutant: the socket is dropped before the context is stopped.
UserStopDropFirst(e) ==
  /\ e \in Stoppable /\ ~shuted[e]
  /\ StopperAt(e, "none", "seen")
  /\ DropConn(e)
  /\ UNCHANGED <<done, shuted, run, early, sent, net, taskVars>>

\* stop() of a user, at any time.
UserStopTest(e) ==
  /\ e \in Stoppable /\ ~shuted[e]
  /\ StopperAt(e, "none", "seen")
  /\ UNCHANGED <<conn, sockVars, done, shuted, run, early, sent, net, taskVars>>

UserStop(e) ==
  /\ StopperAt(e, "seen", "drop")
  /\ ShutFlags(e)
  /\ UNCHANGED <<conn, sockVars, run, early, sent, net, taskVars>>

\* The socket is dropped, whoever borrows it.
UserDrop(e) ==
  /\ StopperAt(e, "drop", "none")
  /\ DropConn(e)
  /\ UNCHANGED <<done, shuted, run, early, sent, net, taskVars>>

\* The context passed to new() is stopped.
ParentStop(e) ==
  /\ e \in Stoppable /\ ~done[e]
  /\ done' = [done EXCEPT ![e] = TRUE]
  /\ UNCHANGED <<conn, sockVars, shuted, stopper, run, early, sent, net, taskVars>>

----------------------------------------------------------------------------
RunStep(e) ==
  \/ Publish(e) \/ LoopCheck(e) \/ LoopLook(e)
  \/ RunStopTest(e) \/ RunStop(e) \/ RunDrop(e)
  \/ \E m \in Msgs : Recv(e, m)

Next ==
  \/ \E e \in Ends :
       \/ RunStep(e) \/ Bind(e) \/ RecvFail(e) \/ PacketErrEnd(e)
       \/ SendFail(e) \/ \E d \in Ends : Connect(e, d)
       \/ UserStopTest(e) \/ UserStop(e) \/ UserDrop(e) \/ ParentStop(e)
  \/ \E m \in Msgs : \/ Send(m) \/ Inject(m) \/ Duplicate(m) \/ Lose(m)
                     \/ Parse(m)

Spec == Init /\ [][Next]_vars

\* A run() that has its socket is scheduled.  Nothing is assumed of users,
\* of the tasks of run_parse, of packet_err and of the network.
Fairness == \A e \in Ends : WF_vars(RunStep(e))

FairSpec == Spec /\ Fairness
----------------------------------------------------------------------------
(* Properties *)

RunPlaces == {"idle", "bound", "check", "look", "recv", "err", "stop", "seen",
              "drop", "end"}
Counts == [Msgs -> Nat]
Flags == [Ends -> BOOLEAN]

\* The fields hold values of their types; without a socket there is no peer
\* and no error; a stop() that drops the socket has stopped the context.
TypeOK ==
  /\ conn \in Flags /\ peer \in [Ends -> Ends \union {None}] /\ icmp \in Flags
  /\ done \in Flags /\ shuted \in Flags
  /\ stopper \in [Ends -> {"none", "seen", "drop"}]
  /\ run \in [Ends -> RunPlaces] /\ early \in Flags
  /\ sent \subseteq Msgs /\ refused \subseteq Msgs
  /\ net \in Counts /\ taken \in Counts /\ parsing \in Counts /\ handed \in Counts
  /\ \A e \in Ends :
       /\ ~conn[e] => peer[e] = None /\ ~icmp[e]
       /\ stopper[e] = "drop" \/ run[e] = "drop" => shuted[e]
       /\ shuted[e] => done[e]

\* Where the parts of a message are in what its sender wrote.
Written(m) ==
  LET p == Parts[m]
      at == PackHead + TokenLen[m]
  IN  IF Ctrl[m] = 12
        THEN [cmd  |-> <<at + MsgHead, p.cmd>>,
              head |-> <<at + MsgHead + p.cmd, p.head>>,
              body |-> <<at + MsgHead + p.cmd + p.head, p.body>>]
        ELSE [body |-> <<at, p.body>>]

\* on_bts and on_msg are called for packages that were sent, with a token
\* that was accepted, at most once for each copy that arrived, and with the
\* parts the sender wrote: none of them cut short or shifted by a length that
\* does not fit its field, nor by a buffer the datagram does not fit.
Faithful ==
  \A m \in Msgs :
    /\ handed[m] + parsing[m] <= taken[m]
    /\ taken[m] > 0 => m \in sent
    /\ handed[m] > 0 => m \in Accepted /\ Cut(m) = Written(m)

\* What send1bts and send1msg let through is refused by run_recv for its
\* length only if its token takes more than the two limits leave for it.
RefusedForToken ==
  \A m \in refused :
    From[m] \in Ends => PackHead + TokenLen[m] > PackMax - DataMax

\* Until the context is done, the loop of run_recv and its socket are there
\* together.  The loop, which has no await when it finds no socket, does not
\* spin; and an open socket is read, or its loop is in packet_err: no error of
\* recv_from and no refused package ends the loop.
LoopHasSocket ==
  \A e \in Ends :
    ~done[e] => (conn[e] <=> run[e] \in {"check", "look", "recv", "err"})

\* When run() has returned, however it was stopped, its socket is closed or a
\* stop() in progress will close it.  (Unless a stop() was over before run()
\* stored the socket: that socket stays open.)
ClosedAfterRun ==
  \A e \in Ends : run[e] = "end" /\ ~early[e] /\ conn[e] => stopper[e] = "drop"

\* A datagram does not stay in the socket of a running end: tasks that never
\* return do not keep run_recv from taking it (packet_err may), and errors do
\* not end the loop.
KeepsReceiving ==
  \A m \in Msgs :
    net[m] > 0 /\ conn[To[m]] ~>
      LET e == To[m]
      IN  net[m] = 0 \/ done[e] \/ run[e] = "err" \/ peer[e] \notin {None, From[m]}
=============================================================================
