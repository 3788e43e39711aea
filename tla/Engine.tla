------------------------------- MODULE Engine -------------------------------
(***************************************************************************)
(* The Engine of lib.rs: a value shared by clones.  Users hold clones: they *)
(* register handlers, run the engine, stop it, drop their clone.  A run     *)
(* spawns an accept loop (runs), and the loop a task (run_cli) for every    *)
(* connection; both hold a clone as well.  The fields `lsr` and `ctx` are   *)
(* reached through ArcMut::muts() without a lock, the two maps of handlers  *)
(* and limits are each behind an RwLock of their own.                       *)
(*                                                                          *)
(* What happens inside one request is the subject of Exchange and Context;  *)
(* here a connection is parsed, dispatched and over.  A user runs the       *)
(* engine at most once (run consumes the clone), so a listener, a run and   *)
(* an accept loop are named by their user.                                  *)
(***************************************************************************)
EXTENDS Naturals, Sequences, SequencesExt

CONSTANTS
  Users,        \* tasks that own a clone of the Engine
  Clients,      \* connections to its address
  Handlers,     \* the functions that may be registered, each once
  Controls,     \* control numbers of requests
  ControlOf,    \* the control a handler is registered for
  AskedBy,      \* the control a connection's request asks for
  None,         \* no listener, no limit of a control (the default applies)
  AcceptErrors  \* whether accept may fail (too many files, ...)

ASSUME EngineAssumption ==
  /\ ControlOf \in [Handlers -> Controls]
  /\ AskedBy \in [Clients -> Controls]
  /\ None \notin Users /\ None \notin Handlers
  /\ AcceptErrors \in BOOLEAN

VARIABLES
  done,     \* Inner.ctx is done
  lsr,      \* Inner.lsr: None or the listener of a user's run
  bound,    \* the listeners whose socket is open
  user,     \* where a user is
  reg,      \* the handler a user is registering
  loop,     \* where the accept loop of a user's run is
  via,      \* the listener that loop borrowed
  fns,      \* Inner.fns: the handlers of a control, in order
  lmts,     \* Inner.lmts: whose limit a control has, None: the default's
  cl,       \* where a connection is
  at,       \* the listener whose backlog it is in
  limit,    \* the limit its header was checked against
  seen,     \* the handlers it was dispatched to
  ready,    \* history: handlers whose reg_fun had returned ...
  before,   \* ... when a connection's header was read
  order,    \* history: the handlers whose limit was stored, in order
  late      \* history: connections a loop accepted while done

vars == <<done, lsr, bound, user, reg, loop, via, fns, lmts, cl, at, limit,
          seen, ready, before, order, late>>
regVars  == <<reg, fns, lmts, ready, order>>
loopVars == <<loop, via, late>>
connVars == <<cl, at, limit, seen, before>>

Init ==
  /\ done = FALSE /\ lsr = None /\ bound = {}
  /\ user = [u \in Users |-> "idle"]
  /\ reg = [u \in Users |-> None]
  /\ loop = [u \in Users |-> "none"]
  /\ via = [u \in Users |-> None]
  /\ fns = [k \in Controls |-> <<>>]
  /\ lmts = [k \in Controls |-> None]
  /\ cl = [c \in Clients |-> "idle"]
  /\ at = [c \in Clients |-> None]
  /\ limit = [c \in Clients |-> None]
  /\ seen = [c \in Clients |-> <<>>]
  /\ ready = {} /\ before = [c \in Clients |-> {}] /\ order = <<>>
  /\ late = [u \in Users |-> 0]

UserAt(u, p, q) == user[u] = p /\ user' = [user EXCEPT ![u] = q]
LoopAt(u, p, q) == loop[u] = p /\ loop' = [loop EXCEPT ![u] = q]
ConnAt(c, p, q) == cl[c] = p /\ cl' = [cl EXCEPT ![c] = q]

\* A listener is dropped: its socket closes, connections of its backlog that
\* no accept returned are reset.
Close(ls) ==
  /\ bound' = bound \ ls
  /\ cl' = [c \in Clients |->
              IF cl[c] = "backlog" /\ at[c] \in ls THEN "over" ELSE cl[c]]

----------------------------------------------------------------------------
(* Handlers and limits *)

\* Mutant: the new vector replaces the one of the control.
RegFnsReplace(u, h) ==
  /\ h \notin ready /\ \A v \in Users : reg[v] # h
  /\ fns' = [fns EXCEPT ![ControlOf[h]] = <<h>>]
  /\ \/ /\ UserAt(u, "idle", "idle")
        /\ ready' = ready \union {h} /\ UNCHANGED reg
     \/ /\ UserAt(u, "idle", "limit")
        /\ reg' = [reg EXCEPT ![u] = h] /\ UNCHANGED ready
  /\ UNCHANGED <<done, lsr, bound, lmts, order, loopVars, connVars>>

\* reg_fun, under the lock of fns: the handler is appended to the vector of
\* its control.  A call with a limit to store is not over yet.
RegFns(u, h) ==
  /\ h \notin ready /\ \A v \in Users : reg[v] # h
  /\ fns' = [fns EXCEPT ![ControlOf[h]] = Append(@, h)]
  /\ \/ /\ UserAt(u, "idle", "idle")
        /\ ready' = ready \union {h} /\ UNCHANGED reg
     \/ /\ UserAt(u, "idle", "limit")
        /\ reg' = [reg EXCEPT ![u] = h] /\ UNCHANGED ready
  /\ UNCHANGED <<done, lsr, bound, lmts, order, loopVars, connVars>>

\* Mutant: a control keeps the first limit it was given.
RegLimitFirst(u) ==
  /\ UserAt(u, "limit", "idle")
  /\ lmts' = [lmts EXCEPT ![ControlOf[reg[u]]] = IF @ = None THEN reg[u] ELSE @]
  /\ order' = Append(order, reg[u])
  /\ ready' = ready \union {reg[u]}
  /\ reg' = [reg EXCEPT ![u] = None]
  /\ UNCHANGED <<done, lsr, bound, fns, loopVars, connVars>>

\* reg_fun, under the lock of lmts: the limit replaces the control's.
RegLimit(u) ==
  /\ UserAt(u, "limit", "idle")
  /\ lmts' = [lmts EXCEPT ![ControlOf[reg[u]]] = reg[u]]
  /\ order' = Append(order, reg[u])
  /\ ready' = ready \union {reg[u]}
  /\ reg' = [reg EXCEPT ![u] = None]
  /\ UNCHANGED <<done, lsr, bound, fns, loopVars, connVars>>

----------------------------------------------------------------------------
(* run, stop and drop *)

\* bind fails while another socket is bound to the address; the clone run
\* consumed is then dropped.
Bind(u) ==
  /\ IF bound = {} THEN UserAt(u, "idle", "bound") /\ bound' = {u}
                   ELSE UserAt(u, "idle", "gone") /\ UNCHANGED bound
  /\ UNCHANGED <<done, lsr, regVars, loopVars, connVars>>

\* run stores the listener (dropping one that is there) and spawns the loop.
Publish(u) ==
  /\ UserAt(u, "bound", "running")
  /\ lsr' = u
  /\ Close({lsr})
  /\ LoopAt(u, "none", "start")
  /\ UNCHANGED <<done, regVars, via, late, at, limit, seen, before>>

\* Mutant: the loop is a part of run's future and ends with it.
RunReturnAborts(u) ==
  /\ UserAt(u, "running", "gone")
  /\ loop' = [loop EXCEPT ![u] = "end"]
  /\ UNCHANGED <<done, lsr, bound, regVars, via, late, connVars>>

\* run polls ctx.done() every 100 ms and returns; or its future is dropped.
\* The loop it spawned goes on by itself.
RunReturn(u) ==
  /\ UserAt(u, "running", "gone")
  /\ UNCHANGED <<done, lsr, bound, regVars, loopVars, connVars>>

\* Mutant: the socket is closed but the field keeps the listener.
StopListenerStale(u) ==
  /\ UserAt(u, "idle", "stopping")
  /\ lsr' = lsr
  /\ Close({lsr})
  /\ UNCHANGED <<done, regVars, loopVars, at, limit, seen, before>>

\* stop: first the listener is dropped, even if a loop borrows it ...
StopListener(u) ==
  /\ UserAt(u, "idle", "stopping")
  /\ lsr' = None
  /\ Close({lsr})
  /\ UNCHANGED <<done, regVars, loopVars, at, limit, seen, before>>

\* ... then the context.
StopContext(u) ==
  /\ UserAt(u, "stopping", "idle")
  /\ done' = TRUE
  /\ UNCHANGED <<lsr, bound, regVars, loopVars, connVars>>

\* The context passed to Engine::new is stopped: ctx is done, lsr stays.
ParentStop ==
  /\ ~done /\ done' = TRUE
  /\ UNCHANGED <<lsr, bound, user, regVars, loopVars, connVars>>

DropClone(u) ==
  /\ UserAt(u, "idle", "gone")
  /\ UNCHANGED <<done, lsr, bound, regVars, loopVars, connVars>>

\* Drop of Inner, by whoever dropped the last clone.
DropInner ==
  /\ \A u \in Users : user[u] = "gone" /\ loop[u] \in {"none", "end"}
  /\ \A c \in Clients : cl[c] \notin {"parse", "dispatch", "run"}
  /\ lsr # None
  /\ lsr' = None /\ done' = TRUE
  /\ Close({lsr})
  /\ UNCHANGED <<user, regVars, loopVars, at, limit, seen, before>>

----------------------------------------------------------------------------
(* runs: the accept loop *)

\* The loop borrows the listener it finds, once.
LoopStart(u) ==
  /\ LoopAt(u, "start", IF lsr = None THEN "end" ELSE "check")
  /\ via' = [via EXCEPT ![u] = lsr]
  /\ UNCHANGED <<done, lsr, bound, user, regVars, late, connVars>>

\* Mutant: the loop does not look at the context.
LoopCheckNever(u) ==
  /\ LoopAt(u, "check", "accept")
  /\ UNCHANGED <<done, lsr, bound, user, regVars, via, late, connVars>>

LoopCheck(u) ==
  /\ LoopAt(u, "check", IF done THEN "end" ELSE "accept")
  /\ UNCHANGED <<done, lsr, bound, user, regVars, via, late, connVars>>

\* Mutant: run_cli is awaited by the loop.
AcceptInline(u, c) ==
  /\ LoopAt(u, "accept", "check")
  /\ \A d \in Clients : cl[d] \notin {"parse", "dispatch", "run"}
  /\ via[u] \in bound /\ at[c] = via[u]
  /\ ConnAt(c, "backlog", "parse")
  /\ at' = [at EXCEPT ![c] = None]
  /\ late' = [late EXCEPT ![u] = IF done THEN @ + 1 ELSE @]
  /\ UNCHANGED <<done, lsr, bound, user, regVars, via, limit, seen, before>>

\* accept returns a connection, and a task of its own is spawned for it.
Accept(u, c) ==
  /\ LoopAt(u, "accept", "check")
  /\ via[u] \in bound /\ at[c] = via[u]
  /\ ConnAt(c, "backlog", "parse")
  /\ at' = [at EXCEPT ![c] = None]
  /\ late' = [late EXCEPT ![u] = IF done THEN @ + 1 ELSE @]
  /\ UNCHANGED <<done, lsr, bound, user, regVars, via, limit, seen, before>>

\* accept fails, which ends the loop for good.  On a listener that was
\* dropped under the loop's borrow it fails or is never woken: in a build it
\* may do either, so this step is possible and nothing forces it.
AcceptFail(u) ==
  /\ LoopAt(u, "accept", "end")
  /\ AcceptErrors \/ via[u] \notin bound
  /\ UNCHANGED <<done, lsr, bound, user, regVars, via, late, connVars>>

----------------------------------------------------------------------------
(* run_cli and its peer *)

Connect(c) ==
  /\ ConnAt(c, "idle", "backlog")
  /\ \E l \in bound : at' = [at EXCEPT ![c] = l]
  /\ UNCHANGED <<done, lsr, bound, user, regVars, loopVars, limit, seen, before>>

\* parse_conn has the header and asks for the limit of its control.
ReadHeader(c) ==
  /\ ConnAt(c, "parse", "dispatch")
  /\ limit' = [limit EXCEPT ![c] = lmts[AskedBy[c]]]
  /\ before' = [before EXCEPT ![c] = ready]
  /\ UNCHANGED <<done, lsr, bound, user, regVars, loopVars, at, seen>>

\* The task of a connection ends, and with it what it held.
ConnOver(c) ==
  /\ limit' = [limit EXCEPT ![c] = None]
  /\ seen' = [seen EXCEPT ![c] = <<>>]
  /\ before' = [before EXCEPT ![c] = {}]

\* The request is out of its limit, or a read of parse_conn fails: the peer
\* is gone, or its context (a child of the engine's) is done when it begins.
ParseFail(c) ==
  /\ ConnAt(c, "parse", "over") \/ ConnAt(c, "dispatch", "over")
  /\ ConnOver(c)
  /\ UNCHANGED <<done, lsr, bound, user, regVars, loopVars, at>>

\* Under the lock of fns every handler of the control is given a clone of the
\* Context, in order.
Dispatch(c) ==
  /\ ConnAt(c, "dispatch", "run")
  /\ seen' = [seen EXCEPT ![c] = fns[AskedBy[c]]]
  /\ UNCHANGED <<done, lsr, bound, user, regVars, loopVars, at, limit, before>>

RunEnd(c) ==
  /\ ConnAt(c, "run", "over")
  /\ ConnOver(c)
  /\ UNCHANGED <<done, lsr, bound, user, regVars, loopVars, at>>

----------------------------------------------------------------------------
LoopStep(u) == LoopStart(u) \/ LoopCheck(u) \/ \E c \in Clients : Accept(u, c)

Next ==
  \/ \E u \in Users :
       \/ \E h \in Handlers : RegFns(u, h)
       \/ RegLimit(u) \/ Bind(u) \/ Publish(u) \/ RunReturn(u)
       \/ StopListener(u) \/ StopContext(u) \/ DropClone(u)
       \/ LoopStep(u) \/ AcceptFail(u)
  \/ ParentStop \/ DropInner
  \/ \E c \in Clients : \/ Connect(c) \/ ReadHeader(c) \/ ParseFail(c)
                        \/ Dispatch(c) \/ RunEnd(c)

Spec == Init /\ [][Next]_vars

\* The runtime schedules a run that has bound its socket, and its loop.
\* Nothing is assumed of handlers: they may never return.
Fairness == \A u \in Users : WF_vars(Publish(u)) /\ WF_vars(LoopStep(u))

FairSpec == Spec /\ Fairness
----------------------------------------------------------------------------
(* Properties *)

UserPlaces == {"idle", "limit", "bound", "running", "stopping", "gone"}
LoopPlaces == {"none", "start", "check", "accept", "end"}
ConnPlaces == {"idle", "backlog", "parse", "dispatch", "run", "over"}

\* The fields hold values of their types.  The engine has at most one open
\* socket, and Inner.lsr never holds a closed one.
TypeOK ==
  /\ done \in BOOLEAN
  /\ lsr \in bound \union {None}
  /\ bound \subseteq Users /\ \A u, v \in bound : u = v
  /\ user \in [Users -> UserPlaces]
  /\ reg \in [Users -> Handlers \union {None}]
  /\ \A u \in Users : user[u] = "limit" <=> reg[u] # None
  /\ loop \in [Users -> LoopPlaces] /\ via \in [Users -> Users \union {None}]
  /\ fns \in [Controls -> Seq(Handlers)]
  /\ lmts \in [Controls -> Handlers \union {None}]
  /\ cl \in [Clients -> ConnPlaces] /\ at \in [Clients -> Users \union {None}]
  /\ limit \in [Clients -> Handlers \union {None}]
  /\ seen \in [Clients -> Seq(Handlers)]
  /\ ready \subseteq Handlers /\ before \in [Clients -> SUBSET Handlers]
  /\ order \in Seq(Handlers) /\ late \in [Users -> Nat]

\* Once the context is done an accept loop hands at most one more connection
\* to run_cli: the one the accept it was waiting in returns.
OneLateAtMost == \A u \in Users : late[u] <= 1

Later(h, g) == \E i, j \in DOMAIN order : i <= j /\ order[i] = h /\ order[j] = g

\* A request is never checked against an older limit than the one of a
\* handler whose registration was complete when the header was read: neither
\* the default nor a limit another registration of the control had replaced.
LimitUpToDate ==
  \A c \in Clients :
    cl[c] \in {"dispatch", "run"} =>
      \A h \in before[c] \intersect ToSet(order) :
        ControlOf[h] = AskedBy[c] =>
          limit[c] # None /\ Later(h, limit[c])

\* A request runs through all handlers of its control whose registration was
\* complete when its header was read, each once, and through no others.
AllHandlersSeen ==
  \A c \in Clients :
    cl[c] = "run" =>
      /\ \A h \in before[c] : ControlOf[h] = AskedBy[c] => h \in ToSet(seen[c])
      /\ \A h \in ToSet(seen[c]) : ControlOf[h] = AskedBy[c]
      /\ IsInjective(seen[c])

\* No stop has begun.
Quiet == ~done /\ \A u \in Users : user[u] # "stopping"

\* The run that bound socket l has yet to store it, or the loop it spawned has
\* yet to look for it or goes round on it, or an accept on it has failed.
Serving(l) ==
  \/ user[l] = "bound"
  \/ loop[l] = "start" /\ lsr = l
  \/ loop[l] \in {"check", "accept"} /\ via[l] = l
  \/ loop[l] = "end" /\ via[l] = l /\ AcceptErrors

\* No open socket is forgotten: it is in Inner.lsr, where the next stop or the
\* drop of Inner closes it, or the run that bound it has yet to store it; a
\* stop in between finds nothing to close, but loses nothing either.  Nor is a
\* socket left alone with its backlog before a stop begins: returned or dropped
\* runs, stops of earlier runs and loops that found the listener of another
\* run do not take its loop away.
SocketServed ==
  /\ \A l \in bound : /\ lsr = l \/ user[l] = "bound"
                      /\ Quiet => Serving(l)
  /\ \A c \in Clients : cl[c] = "backlog" => at[c] \in bound

\* A connection in the backlog is accepted although handlers of other
\* connections never return, unless the engine is being stopped or an error of
\* accept has ended the loop of its listener.
KeepsAccepting ==
  \A c \in Clients :
    cl[c] = "backlog" ~> \/ cl[c] # "backlog" \/ done
                         \/ \E u \in Users : user[u] = "stopping"
                         \/ \E u \in Users : via[u] = at[c] /\ loop[u] = "end"
=============================================================================
