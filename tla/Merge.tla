-------------------------------- MODULE Merge --------------------------------
(***************************************************************************)
(* UdpMsgParse and UdpMsgMerge of socks/udp/udps.rs: the pieces of the     *)
(* messages of one peer, each handled by a task of its own, are put        *)
(* together.  The 256 elements of Inner.msgs are clones of one UdpMsgMerge *)
(* (vec![..; 256]), whose Clone copies the handle: they are one buffer.    *)
(*                                                                         *)
(* Nothing calls ctrls(): its caller in udp.rs is commented out, and the   *)
(* actions Arrive and Enter are what that comment holds.                   *)
(***************************************************************************)
EXTENDS Naturals, FiniteSets

CONSTANTS
  Pieces,   \* what the peer sends: <<id, ind, ln>>, ind from 1 on
  Nobody,   \* the holder of a free lock
  Missing,  \* a piece that is not there
  Build,    \* u8 subtraction below 0: "panic" (debug) or "wrap" (release)
  U8        \* 2^8

VARIABLES
  curr,      \* UdpMsgParse: the id of the first message
  prt,       \* UdpMsgMerge: prt was set by run()
  finished,  \* UdpMsgMerge: no message is being put together
  ln, count, \* UdpMsgMerge: pieces expected, pieces stored
  datas,     \* UdpMsgMerge: the pieces
  lock,      \* the holder of the RwLock of datas (only write() is used)
  run,       \* where run() is
  pc,        \* where the task of a piece is
  handed     \* history: ids of messages handed to UdpMsgParse::push() whole

vars == <<curr, prt, finished, ln, count, datas, lock, run, pc, handed>>
stateVars == <<finished, ln, count>>

Id(t) == t[1]
Ind(t) == t[2]
Ln(t) == t[3]

Init ==
  /\ curr = 0 /\ prt = FALSE
  /\ finished = TRUE /\ ln = 0 /\ count = 0 /\ datas = <<>>
  /\ lock = Nobody /\ run = "start"
  /\ pc = [t \in Pieces |-> "none"] /\ handed = {}

At(t, p, q) == pc[t] = p /\ pc' = [pc EXCEPT ![t] = q]

----------------------------------------------------------------------------
(* The caller, as it was *)

Arrive(t) ==
  /\ At(t, "none", "wait")
  /\ UNCHANGED <<curr, prt, stateVars, datas, lock, run, handed>>

\* The first piece of a peer is handled under the write lock of mutis, before
\* any other.
Enter(t) ==
  /\ \/ \A u \in Pieces : pc[u] \in {"none", "wait"}
     \/ \E u \in Pieces : pc[u] \in {"done", "panic"}
  /\ At(t, "wait", "admit")
  /\ UNCHANGED <<curr, prt, stateVars, datas, lock, run, handed>>

----------------------------------------------------------------------------
(* UdpMsgParse: ctrls and parse *)

\* `curr - id` for id >= curr.
Behind(id) == (curr + U8 - id) % U8

CanuseId(id) ==
  \/ curr = 0
  \/ id >= curr /\ Behind(id) < 100
  \/ id < curr /\ curr + 100 >= 255 /\ id < curr + 100 - 254

Ctrls(t) ==
  /\ \/ /\ Build = "panic" /\ curr # 0 /\ Id(t) > curr
        /\ At(t, "admit", "panic")
     \/ /\ Build = "wrap" \/ curr = 0 \/ Id(t) <= curr
        /\ At(t, "admit", IF CanuseId(Id(t)) THEN "parse" ELSE "done")
  /\ UNCHANGED <<curr, prt, stateVars, datas, lock, run, handed>>

\* curr is set by the first piece, and never moves on.
Parse(t) ==
  /\ At(t, "parse", "check")
  /\ curr' = IF curr = 0 THEN Id(t) ELSE curr
  /\ UNCHANGED <<prt, stateVars, datas, lock, run, handed>>

----------------------------------------------------------------------------
(* UdpMsgMerge: push *)

\* finished and ln are read without a lock.
Check(t) ==
  /\ At(t, "check", IF finished \/ ln # Ln(t) THEN "clear" ELSE "insert")
  /\ UNCHANGED <<curr, prt, stateVars, datas, lock, run, handed>>

\* Under the lock a vector of empty places, after it the fields.
Clear(t) ==
  /\ lock = Nobody
  /\ At(t, "clear", "reset")
  /\ datas' = [k \in 1 .. Ln(t) |-> Missing]
  /\ UNCHANGED <<curr, prt, stateVars, lock, run, handed>>

Reset(t) ==
  /\ At(t, "reset", "insert")
  /\ ln' = Ln(t) /\ count' = 0 /\ finished' = FALSE
  /\ UNCHANGED <<curr, prt, datas, lock, run, handed>>

\* The piece is stored under a second lock, or the index is out of bounds.
Insert(t) ==
  /\ lock = Nobody
  /\ IF Ind(t) \in DOMAIN datas
       THEN /\ At(t, "insert", "stored") /\ lock' = t
            /\ datas' = [datas EXCEPT ![Ind(t)] = IF @ = Missing THEN Id(t) ELSE @]
            /\ count' = IF datas[Ind(t)] = Missing THEN count + 1 ELSE count
       ELSE At(t, "insert", "panic") /\ UNCHANGED <<datas, count, lock>>
  /\ UNCHANGED <<curr, prt, finished, ln, run, handed>>

\* The last piece: push() of the parser, if run() has set it, and then a
\* write() of the lock the task still holds, which is never granted.
Stored(t) ==
  /\ IF count >= Ln(t)
       THEN /\ At(t, "stored", "stuck")
            /\ finished' = TRUE
            /\ handed' = IF prt /\ \A k \in DOMAIN datas : datas[k] = Id(t)
                           THEN handed \union {Id(t)} ELSE handed
            /\ UNCHANGED lock
       ELSE At(t, "stored", "done") /\ lock' = Nobody /\ UNCHANGED <<finished, handed>>
  /\ UNCHANGED <<curr, prt, ln, count, datas, run>>

----------------------------------------------------------------------------
(* UdpMsgParse: run *)

RunStart ==
  /\ run = "start" /\ run' = "scan" /\ prt' = TRUE
  /\ UNCHANGED <<curr, stateVars, datas, lock, pc, handed>>

\* The scan goes on, without an await, until it finds a finished message.
RunScan ==
  /\ run = "scan" /\ finished /\ run' = "sleep"
  /\ UNCHANGED <<curr, prt, stateVars, datas, lock, pc, handed>>

\* After a sleep the loop turns, or ends (30 s without a call, or stop()).
RunTurn ==
  /\ run = "sleep" /\ run' \in {"scan", "end"}
  /\ UNCHANGED <<curr, prt, stateVars, datas, lock, pc, handed>>

Handle(t) ==
  Enter(t) \/ Ctrls(t) \/ Parse(t) \/ Check(t) \/ Clear(t) \/ Reset(t) \/ Insert(t)
  \/ Stored(t)

RunStep == RunStart \/ RunScan \/ RunTurn

Next == RunStep \/ \E t \in Pieces : Arrive(t) \/ Handle(t)

\* Tasks are scheduled.
Spec ==
  /\ Init /\ [][Next]_vars
  /\ WF_vars(RunStep) /\ \A t \in Pieces : WF_vars(Handle(t))
----------------------------------------------------------------------------
(* Properties *)

\* "20-30: needs reassembly, in any order" (the comment in run_parse): when all
\* pieces of a message have arrived it is handed over whole.
Reassembled ==
  \A i \in {Id(t) : t \in Pieces} :
    (\A t \in Pieces : Id(t) = i => pc[t] # "none") ~> i \in handed
=============================================================================
