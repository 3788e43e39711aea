---------------------------- MODULE EngineProofs ----------------------------
(***************************************************************************)
(* Proofs about Engine, for any number of users, connections and handlers. *)
(*                                                                         *)
(* The accept loops after a stop: a loop that accepted a connection while  *)
(* the context was done has not passed its next check of the context, and  *)
(* will not, since a context stays done (LateInv).  Types and sockets: a   *)
(* user between bind and the store of its listener owns the open socket    *)
(* (BoundInv).  Registration: a handler whose call is in progress is in no *)
(* header's past (OnceInv), the limit stored last is the one in force      *)
(* (LastInv), a vector holds all handlers of its control (FnsInv).         *)
(* Service: a loop belongs to the listener of its run until a stop begins  *)
(* (OwnInv, ServedInv).                                                    *)
(***************************************************************************)
EXTENDS Engine, TLAPS

\* A loop with a late connection stands before the check, or has ended.
LateInv ==
  /\ late \in [Users -> Nat]
  /\ loop \in [Users -> LoopPlaces]
  /\ \A u \in Users :
       late[u] = 0 \/ (late[u] = 1 /\ done /\ loop[u] \in {"check", "end"})

\* No loop has accepted anything initially.
LEMMA LateInit == Init => LateInv
  BY DEF Init, LateInv, LoopPlaces

\* Every step keeps the invariant.
LEMMA LateStep == LateInv /\ [Next]_vars => LateInv'
<1> SUFFICES ASSUME LateInv, [Next]_vars PROVE LateInv'
  OBVIOUS
<1>1. ASSUME UNCHANGED <<loop, late>>, done => done' PROVE LateInv'
  BY <1>1 DEF LateInv
<1>2. ASSUME NEW u \in Users, NEW h \in Handlers, RegFns(u, h) PROVE LateInv'
  BY <1>1, <1>2 DEF RegFns, loopVars
<1>3. ASSUME NEW u \in Users,
             RegLimit(u) \/ Bind(u) \/ RunReturn(u) \/ StopListener(u)
               \/ StopContext(u) \/ DropClone(u)
      PROVE  LateInv'
  BY <1>1, <1>3
  DEF RegLimit, Bind, RunReturn, StopListener, StopContext, DropClone, loopVars
<1>4. CASE ParentStop \/ DropInner
  BY <1>1, <1>4 DEF ParentStop, DropInner, loopVars
<1>5. ASSUME NEW c \in Clients,
             Connect(c) \/ ReadHeader(c) \/ ParseFail(c) \/ Dispatch(c) \/ RunEnd(c)
      PROVE  LateInv'
  BY <1>1, <1>5 DEF Connect, ReadHeader, ParseFail, Dispatch, RunEnd, loopVars
<1>6. ASSUME NEW u \in Users, Publish(u) PROVE LateInv'
  BY <1>6 DEF Publish, LoopAt, LateInv, LoopPlaces
<1>7. ASSUME NEW u \in Users, LoopStart(u) PROVE LateInv'
  BY <1>7 DEF LoopStart, LoopAt, LateInv, LoopPlaces
<1>8. ASSUME NEW u \in Users, LoopCheck(u) PROVE LateInv'
  BY <1>8 DEF LoopCheck, LoopAt, LateInv, LoopPlaces
<1>9. ASSUME NEW u \in Users, NEW c \in Clients, Accept(u, c) PROVE LateInv'
  BY <1>9 DEF Accept, LoopAt, LateInv, LoopPlaces
<1>10. ASSUME NEW u \in Users, AcceptFail(u) PROVE LateInv'
  BY <1>10 DEF AcceptFail, LoopAt, LateInv, LoopPlaces
<1>11. CASE UNCHANGED vars
  BY <1>1, <1>11 DEF vars, loopVars
<1> QED
  BY <1>2, <1>3, <1>4, <1>5, <1>6, <1>7, <1>8, <1>9, <1>10, <1>11
  DEF Next, LoopStep

\* After a stop every accept loop hands at most one more connection to
\* run_cli, with any number of runs of one engine.
THEOREM OneLate == Spec => []OneLateAtMost
<1>1. LateInv => OneLateAtMost
  BY DEF LateInv, OneLateAtMost
<1> QED
  BY <1>1, LateInit, LateStep, PTL DEF Spec

----------------------------------------------------------------------------
(* Types: a listener is stored at most once, and never closed while stored *)

\* A user between bind and the store of the listener owns the only open
\* socket, and the field is empty until it is stored.
BoundInv ==
  \A u \in Users : user[u] = "bound" => u \in bound /\ lsr = None

TypeInv == TypeOK /\ BoundInv

\* The parts of the type invariant that the tasks of an engine share.
UserTypes ==
  /\ done \in BOOLEAN
  /\ lsr \in bound \union {None}
  /\ bound \subseteq Users /\ \A u, v \in bound : u = v
  /\ user \in [Users -> UserPlaces]
  /\ BoundInv
RegTypes ==
  /\ reg \in [Users -> Handlers \union {None}]
  /\ \A u \in Users : user[u] = "limit" <=> reg[u] # None
  /\ fns \in [Controls -> Seq(Handlers)]
  /\ lmts \in [Controls -> Handlers \union {None}]
  /\ ready \subseteq Handlers /\ order \in Seq(Handlers)
LoopTypes ==
  /\ loop \in [Users -> LoopPlaces] /\ via \in [Users -> Users \union {None}]
  /\ late \in [Users -> Nat]
ConnTypes ==
  /\ cl \in [Clients -> ConnPlaces] /\ at \in [Clients -> Users \union {None}]
  /\ limit \in [Clients -> Handlers \union {None}]
  /\ seen \in [Clients -> Seq(Handlers)]
  /\ before \in [Clients -> SUBSET Handlers]

\* The type invariant is the conjunction of its parts.
LEMMA TypeParts == TypeInv <=> UserTypes /\ RegTypes /\ LoopTypes /\ ConnTypes
  BY DEF TypeInv, TypeOK, UserTypes, RegTypes, LoopTypes, ConnTypes

\* Nothing is bound, registered or connected initially.
LEMMA TypeInit == Init => TypeInv
<1> SUFFICES ASSUME Init PROVE TypeInv
  OBVIOUS
<1> USE DEF Init
<1>1. UserTypes
  BY DEF UserTypes, BoundInv, UserPlaces
<1>2. <<>> \in Seq(Handlers)
  OBVIOUS
<1>3. RegTypes
  BY <1>2 DEF RegTypes
<1>4. LoopTypes
  BY DEF LoopTypes, LoopPlaces
<1>5. ConnTypes
  BY <1>2 DEF ConnTypes, ConnPlaces
<1> QED
  BY <1>1, <1>3, <1>4, <1>5, TypeParts

\* The steps of users keep the types of what users and listeners are.
LEMMA UserStep ==
  ASSUME TypeInv, [Next]_vars
  PROVE  UserTypes'
<1> USE EngineAssumption, TypeParts
<1>1. ASSUME UNCHANGED <<lsr, bound, user>>, done' \in BOOLEAN PROVE UserTypes'
  BY <1>1 DEF UserTypes, BoundInv
<1>2. ASSUME NEW u \in Users, NEW h \in Handlers, RegFns(u, h) PROVE UserTypes'
  BY <1>2 DEF RegFns, UserAt, UserTypes, BoundInv, UserPlaces
<1>3. ASSUME NEW u \in Users, RegLimit(u) PROVE UserTypes'
  BY <1>3 DEF RegLimit, UserAt, UserTypes, BoundInv, UserPlaces
<1>4. ASSUME NEW u \in Users, Bind(u) PROVE UserTypes'
  BY <1>4 DEF Bind, UserAt, UserTypes, BoundInv, UserPlaces
<1>5. ASSUME NEW u \in Users, Publish(u) PROVE UserTypes'
  BY <1>5 DEF Publish, Close, UserAt, UserTypes, BoundInv, UserPlaces
<1>6. ASSUME NEW u \in Users, RunReturn(u) \/ DropClone(u) PROVE UserTypes'
  BY <1>6 DEF RunReturn, DropClone, UserAt, UserTypes, BoundInv, UserPlaces
<1>7. ASSUME NEW u \in Users, StopListener(u) PROVE UserTypes'
  BY <1>7 DEF StopListener, Close, UserAt, UserTypes, BoundInv, UserPlaces
<1>8. ASSUME NEW u \in Users, StopContext(u) PROVE UserTypes'
  BY <1>8 DEF StopContext, UserAt, UserTypes, BoundInv, UserPlaces
<1>9. CASE DropInner
  BY <1>9 DEF DropInner, Close, UserTypes, BoundInv
<1>10. CASE ParentStop
  BY <1>1, <1>10 DEF ParentStop
<1>11. ASSUME NEW u \in Users, LoopStep(u) \/ AcceptFail(u) PROVE UserTypes'
  BY <1>1, <1>11
  DEF LoopStep, LoopStart, LoopCheck, Accept, AcceptFail, UserTypes
<1>12. ASSUME NEW c \in Clients,
              Connect(c) \/ ReadHeader(c) \/ ParseFail(c) \/ Dispatch(c) \/ RunEnd(c)
       PROVE  UserTypes'
  BY <1>1, <1>12
  DEF Connect, ReadHeader, ParseFail, Dispatch, RunEnd, UserTypes
<1>13. CASE UNCHANGED vars
  BY <1>1, <1>13 DEF vars, UserTypes
<1> QED
  BY <1>2, <1>3, <1>4, <1>5, <1>6, <1>7, <1>8, <1>9, <1>10, <1>11, <1>12, <1>13
  DEF Next

\* So do they with what is registered.
LEMMA RegStep ==
  ASSUME TypeInv, [Next]_vars
  PROVE  RegTypes'
<1> USE EngineAssumption, TypeParts
<1>1. ASSUME UNCHANGED regVars,
             \A u \in Users : user'[u] = "limit" <=> user[u] = "limit"
      PROVE  RegTypes'
  BY <1>1 DEF RegTypes, regVars
<1>2. ASSUME NEW u \in Users, NEW h \in Handlers, RegFns(u, h) PROVE RegTypes'
  <2>1. Append(fns[ControlOf[h]], h) \in Seq(Handlers)
    BY DEF RegTypes
  <2>2. fns' \in [Controls -> Seq(Handlers)]
    BY <1>2, <2>1 DEF RegFns, RegTypes
  <2>3. /\ reg' \in [Users -> Handlers \union {None}]
        /\ \A v \in Users : user'[v] = "limit" <=> reg'[v] # None
    <3>1. CASE UserAt(u, "idle", "idle") /\ UNCHANGED reg
      BY <3>1 DEF UserAt, RegTypes, UserTypes
    <3>2. CASE UserAt(u, "idle", "limit") /\ reg' = [reg EXCEPT ![u] = h]
      BY <3>2 DEF UserAt, RegTypes, UserTypes
    <3> QED
      BY <1>2, <3>1, <3>2 DEF RegFns
  <2>4. UNCHANGED <<lmts, order>> /\ ready' \subseteq Handlers
    BY <1>2 DEF RegFns, RegTypes
  <2> QED
    BY <2>2, <2>3, <2>4 DEF RegTypes
<1>3. ASSUME NEW u \in Users, RegLimit(u) PROVE RegTypes'
  <2>1. reg[u] \in Handlers
    BY <1>3 DEF RegLimit, UserAt, RegTypes
  <2> QED
    BY <1>3, <2>1 DEF RegLimit, UserAt, RegTypes, UserTypes, UserPlaces
<1>4. ASSUME NEW u \in Users,
             Bind(u) \/ Publish(u) \/ RunReturn(u) \/ StopListener(u)
               \/ StopContext(u) \/ DropClone(u)
      PROVE  RegTypes'
  BY <1>1, <1>4
  DEF Bind, Publish, RunReturn, StopListener, StopContext, DropClone, UserAt,
      UserTypes, UserPlaces, regVars
<1>5. CASE ParentStop \/ DropInner
  BY <1>1, <1>5 DEF ParentStop, DropInner, regVars
<1>6. ASSUME NEW u \in Users, LoopStep(u) \/ AcceptFail(u) PROVE RegTypes'
  BY <1>1, <1>6
  DEF LoopStep, LoopStart, LoopCheck, Accept, AcceptFail, regVars
<1>7. ASSUME NEW c \in Clients,
             Connect(c) \/ ReadHeader(c) \/ ParseFail(c) \/ Dispatch(c) \/ RunEnd(c)
      PROVE  RegTypes'
  BY <1>1, <1>7 DEF Connect, ReadHeader, ParseFail, Dispatch, RunEnd, regVars
<1>8. CASE UNCHANGED vars
  BY <1>1, <1>8 DEF vars, regVars
<1> QED
  BY <1>2, <1>3, <1>4, <1>5, <1>6, <1>7, <1>8 DEF Next

\* The steps of accept loops keep the types of what a loop holds.
LEMMA LoopTypesStep ==
  ASSUME TypeInv, [Next]_vars
  PROVE  LoopTypes'
<1> USE EngineAssumption, TypeParts
<1>1. ASSUME UNCHANGED loopVars PROVE LoopTypes'
  BY <1>1 DEF LoopTypes, loopVars
<1>2. ASSUME NEW u \in Users, Publish(u) PROVE LoopTypes'
  BY <1>2 DEF Publish, LoopAt, LoopTypes, LoopPlaces
<1>3. ASSUME NEW u \in Users, LoopStart(u) PROVE LoopTypes'
  BY <1>3 DEF LoopStart, LoopAt, LoopTypes, LoopPlaces, UserTypes
<1>4. ASSUME NEW u \in Users, LoopCheck(u) PROVE LoopTypes'
  BY <1>4 DEF LoopCheck, LoopAt, LoopTypes, LoopPlaces
<1>5. ASSUME NEW u \in Users, NEW c \in Clients, Accept(u, c) PROVE LoopTypes'
  BY <1>5 DEF Accept, LoopAt, LoopTypes, LoopPlaces
<1>6. ASSUME NEW u \in Users, AcceptFail(u) PROVE LoopTypes'
  BY <1>6 DEF AcceptFail, LoopAt, LoopTypes, LoopPlaces
<1>7. ASSUME NEW u \in Users, NEW h \in Handlers, RegFns(u, h) PROVE LoopTypes'
  BY <1>1, <1>7 DEF RegFns
<1>8. ASSUME NEW u \in Users,
             RegLimit(u) \/ Bind(u) \/ RunReturn(u) \/ StopListener(u)
               \/ StopContext(u) \/ DropClone(u)
      PROVE  LoopTypes'
  BY <1>1, <1>8
  DEF RegLimit, Bind, RunReturn, StopListener, StopContext, DropClone
<1>9. CASE ParentStop \/ DropInner
  BY <1>1, <1>9 DEF ParentStop, DropInner
<1>10. ASSUME NEW c \in Clients,
              Connect(c) \/ ReadHeader(c) \/ ParseFail(c) \/ Dispatch(c) \/ RunEnd(c)
       PROVE  LoopTypes'
  BY <1>1, <1>10 DEF Connect, ReadHeader, ParseFail, Dispatch, RunEnd
<1>11. CASE UNCHANGED vars
  BY <1>1, <1>11 DEF vars, loopVars
<1> QED
  BY <1>2, <1>3, <1>4, <1>5, <1>6, <1>7, <1>8, <1>9, <1>10, <1>11
  DEF Next, LoopStep

\* The steps of connections, and a listener that is dropped, keep the types of
\* what belongs to a connection.
LEMMA ConnStep ==
  ASSUME TypeInv, [Next]_vars
  PROVE  ConnTypes'
<1> USE EngineAssumption, TypeParts
<1>1. ASSUME UNCHANGED connVars PROVE ConnTypes'
  BY <1>1 DEF ConnTypes, connVars
<1>2. ASSUME NEW ls, Close(ls), UNCHANGED <<at, limit, seen, before>>
      PROVE  ConnTypes'
  BY <1>2 DEF Close, ConnTypes, ConnPlaces
<1>3. ASSUME NEW u \in Users, Publish(u) \/ StopListener(u) PROVE ConnTypes'
  BY <1>2, <1>3 DEF Publish, StopListener
<1>4. CASE DropInner
  BY <1>2, <1>4 DEF DropInner
<1>5. ASSUME NEW u \in Users, NEW c \in Clients, Accept(u, c) PROVE ConnTypes'
  BY <1>5 DEF Accept, ConnAt, ConnTypes, ConnPlaces
<1>6. ASSUME NEW c \in Clients, Connect(c) PROVE ConnTypes'
  BY <1>6 DEF Connect, ConnAt, ConnTypes, ConnPlaces, UserTypes
<1>7. ASSUME NEW c \in Clients, ReadHeader(c) PROVE ConnTypes'
  BY <1>7 DEF ReadHeader, ConnAt, ConnTypes, ConnPlaces, RegTypes
<1>8. ASSUME NEW c \in Clients, NEW p \in ConnPlaces, ConnAt(c, p, "over"),
             ConnOver(c), UNCHANGED at
      PROVE  ConnTypes'
  <2>1. <<>> \in Seq(Handlers)
    OBVIOUS
  <2> QED
    BY <1>8, <2>1 DEF ConnOver, ConnAt, ConnTypes, ConnPlaces
<1>9. ASSUME NEW c \in Clients, ParseFail(c) \/ RunEnd(c) PROVE ConnTypes'
  BY <1>8, <1>9 DEF ParseFail, RunEnd, ConnPlaces
<1>10. ASSUME NEW c \in Clients, Dispatch(c) PROVE ConnTypes'
  BY <1>10 DEF Dispatch, ConnAt, ConnTypes, ConnPlaces, RegTypes
<1>11. ASSUME NEW u \in Users, NEW h \in Handlers, RegFns(u, h) PROVE ConnTypes'
  BY <1>1, <1>11 DEF RegFns
<1>12. ASSUME NEW u \in Users,
              RegLimit(u) \/ Bind(u) \/ RunReturn(u) \/ StopContext(u)
                \/ DropClone(u) \/ LoopStart(u) \/ LoopCheck(u) \/ AcceptFail(u)
       PROVE  ConnTypes'
  BY <1>1, <1>12
  DEF RegLimit, Bind, RunReturn, StopContext, DropClone, LoopStart, LoopCheck,
      AcceptFail
<1>13. CASE ParentStop
  BY <1>1, <1>13 DEF ParentStop
<1>14. CASE UNCHANGED vars
  BY <1>1, <1>14 DEF vars, connVars
<1> QED
  BY <1>3, <1>4, <1>5, <1>6, <1>7, <1>9, <1>10, <1>11, <1>12, <1>13, <1>14
  DEF Next, LoopStep

\* Every step keeps the type invariant.
LEMMA TypeStep == TypeInv /\ [Next]_vars => TypeInv'
<1>1. UserTypes' /\ RegTypes' /\ LoopTypes' /\ ConnTypes' => TypeInv'
  BY DEF TypeInv, TypeOK, UserTypes, RegTypes, LoopTypes, ConnTypes
<1> QED
  BY <1>1, UserStep, RegStep, LoopTypesStep, ConnStep

\* The engine has at most one open socket, and Inner.lsr never holds a closed
\* one, for any number of clones that run and stop it.
THEOREM TypeCorrect == Spec => []TypeOK
<1>1. TypeInv => TypeOK
  BY DEF TypeInv
<1> QED
  BY <1>1, TypeInit, TypeStep, PTL DEF Spec

----------------------------------------------------------------------------
(* Limits: a control has the limit stored last, and a registration in       *)
(* progress is in no header's past                                          *)

\* A handler is registered once, and is not ready while its call lasts; what
\* was ready when a header was read is ready.
OnceInv ==
  /\ \A u, v \in Users : reg[u] # None /\ reg[u] = reg[v] => u = v
  /\ \A u \in Users : reg[u] \notin ready
  /\ \A c \in Clients : before[c] \subseteq ready

\* Nothing is ready initially.
LEMMA OnceInit == Init => OnceInv
  BY EngineAssumption DEF Init, OnceInv

\* The limit of a control is the last stored for it.
LastInv ==
  \A h \in ToSet(order) :
    lmts[ControlOf[h]] # None /\ Later(h, lmts[ControlOf[h]])

\* Every step keeps handlers registered once.
LEMMA OnceStep ==
  ASSUME TypeInv, OnceInv, [Next]_vars
  PROVE  OnceInv'
<1> USE EngineAssumption, TypeParts
<1>1. ASSUME UNCHANGED <<reg, ready>>,
             \A c \in Clients : before'[c] \subseteq ready
      PROVE  OnceInv'
  BY <1>1 DEF OnceInv
<1>2. ASSUME NEW u \in Users, NEW h \in Handlers, RegFns(u, h) PROVE OnceInv'
  <2>1. UNCHANGED before
    BY <1>2 DEF RegFns, connVars
  <2>2. CASE UserAt(u, "idle", "idle") /\ ready' = ready \union {h} /\ UNCHANGED reg
    BY <1>2, <2>1, <2>2 DEF RegFns, OnceInv
  <2>3. CASE reg' = [reg EXCEPT ![u] = h] /\ UNCHANGED ready
    BY <1>2, <2>1, <2>3 DEF RegFns, OnceInv, RegTypes
  <2> QED
    BY <1>2, <2>2, <2>3 DEF RegFns
<1>3. ASSUME NEW u \in Users, RegLimit(u) PROVE OnceInv'
  <2>1. reg[u] \in Handlers /\ UNCHANGED before
    BY <1>3 DEF RegLimit, UserAt, RegTypes, connVars
  <2>2. /\ reg' = [reg EXCEPT ![u] = None] /\ ready' = ready \union {reg[u]}
    BY <1>3 DEF RegLimit
  <2> QED
    BY <2>1, <2>2 DEF OnceInv, RegTypes
<1>4. ASSUME NEW u \in Users,
             Bind(u) \/ Publish(u) \/ RunReturn(u) \/ StopListener(u)
               \/ StopContext(u) \/ DropClone(u) \/ LoopStep(u) \/ AcceptFail(u)
      PROVE  OnceInv'
  <2>1. UNCHANGED <<reg, ready, before>>
    BY <1>4
    DEF Bind, Publish, RunReturn, StopListener, StopContext, DropClone,
        LoopStep, LoopStart, LoopCheck, Accept, AcceptFail, regVars, connVars
  <2> QED
    BY <1>1, <2>1 DEF OnceInv
<1>5. CASE ParentStop \/ DropInner
  BY <1>1, <1>5 DEF ParentStop, DropInner, regVars, connVars, OnceInv
<1>6. ASSUME NEW c \in Clients, Connect(c) \/ Dispatch(c) PROVE OnceInv'
  BY <1>1, <1>6 DEF Connect, Dispatch, regVars, OnceInv
<1>7. ASSUME NEW c \in Clients, ReadHeader(c) PROVE OnceInv'
  BY <1>1, <1>7 DEF ReadHeader, regVars, OnceInv, ConnTypes
<1>8. ASSUME NEW c \in Clients, ParseFail(c) \/ RunEnd(c) PROVE OnceInv'
  BY <1>1, <1>8 DEF ParseFail, RunEnd, ConnOver, regVars, OnceInv, ConnTypes
<1>9. CASE UNCHANGED vars
  BY <1>1, <1>9 DEF vars, OnceInv
<1> QED
  BY <1>2, <1>3, <1>4, <1>5, <1>6, <1>7, <1>8, <1>9 DEF Next

\* What is stored is later than all that was stored before it.
LEMMA LaterAppend ==
  ASSUME NEW g \in Handlers, order \in Seq(Handlers), order' = Append(order, g)
  PROVE  /\ \A h, x \in Handlers : Later(h, x) => Later(h, x)'
         /\ \A h \in ToSet(order') : Later(h, g)'
         /\ \A h \in ToSet(order') : h \in ToSet(order) \/ h = g
         /\ ToSet(order') \subseteq Handlers
<1>1. /\ DOMAIN order = 1..Len(order) /\ Len(order) \in Nat
      /\ DOMAIN order' = 1..Len(order) + 1
      /\ order'[Len(order) + 1] = g
      /\ \A i \in DOMAIN order : order'[i] = order[i] /\ order[i] \in Handlers
  OBVIOUS
<1> QED
  BY <1>1 DEF Later, ToSet

\* Storing a limit keeps it the last of its control.
LEMMA LastStep ==
  ASSUME TypeInv, LastInv, [Next]_vars
  PROVE  LastInv'
<1> USE EngineAssumption, TypeParts
<1>1. ASSUME UNCHANGED <<order, lmts>> PROVE LastInv'
  BY <1>1 DEF LastInv, Later
<1>2. ASSUME NEW u \in Users, RegLimit(u) PROVE LastInv'
  <2> DEFINE g == reg[u]
  <2>1. g \in Handlers /\ order \in Seq(Handlers)
    BY <1>2 DEF RegLimit, UserAt, RegTypes
  <2>2. order' = Append(order, g) /\ lmts' = [lmts EXCEPT ![ControlOf[g]] = g]
    BY <1>2 DEF RegLimit
  <2> HIDE DEF g
  <2>3. SUFFICES ASSUME NEW h \in ToSet(order')
                 PROVE  (lmts[ControlOf[h]] # None /\ Later(h, lmts[ControlOf[h]]))'
    BY DEF LastInv
  <2>4. h \in Handlers
    BY <2>1, <2>2, LaterAppend
  <2>5. CASE ControlOf[h] = ControlOf[g]
    <3>1. lmts'[ControlOf[h]] = g
      BY <2>1, <2>2, <2>4, <2>5 DEF RegTypes
    <3> QED
      BY <2>1, <2>2, <3>1, LaterAppend DEF Later
  <2>6. CASE ControlOf[h] # ControlOf[g]
    <3>1. lmts'[ControlOf[h]] = lmts[ControlOf[h]] /\ h \in ToSet(order)
      BY <2>1, <2>2, <2>4, <2>6, LaterAppend DEF RegTypes
    <3>2. lmts[ControlOf[h]] \in Handlers /\ Later(h, lmts[ControlOf[h]])
      BY <2>4, <3>1 DEF LastInv, RegTypes
    <3> QED
      BY <2>1, <2>2, <2>4, <3>1, <3>2, LaterAppend, SMTT(30) DEF Later
  <2> QED
    BY <2>5, <2>6
<1>3. ASSUME NEW u \in Users, NEW h \in Handlers, RegFns(u, h) PROVE LastInv'
  BY <1>1, <1>3 DEF RegFns
<1>4. ASSUME NEW u \in Users,
             Bind(u) \/ Publish(u) \/ RunReturn(u) \/ StopListener(u)
               \/ StopContext(u) \/ DropClone(u) \/ LoopStep(u) \/ AcceptFail(u)
      PROVE  LastInv'
  BY <1>1, <1>4
  DEF Bind, Publish, RunReturn, StopListener, StopContext, DropClone,
      LoopStep, LoopStart, LoopCheck, Accept, AcceptFail, regVars
<1>5. CASE ParentStop \/ DropInner
  BY <1>1, <1>5 DEF ParentStop, DropInner, regVars
<1>6. ASSUME NEW c \in Clients,
             Connect(c) \/ ReadHeader(c) \/ ParseFail(c) \/ Dispatch(c) \/ RunEnd(c)
      PROVE  LastInv'
  BY <1>1, <1>6 DEF Connect, ReadHeader, ParseFail, Dispatch, RunEnd, regVars
<1>7. CASE UNCHANGED vars
  BY <1>1, <1>7 DEF vars
<1> QED
  BY <1>2, <1>3, <1>4, <1>5, <1>6, <1>7 DEF Next

\* A header that was checked stays checked against a limit that is late enough.
LEMMA LimitStep ==
  ASSUME TypeInv, OnceInv, LastInv, LimitUpToDate, [Next]_vars
  PROVE  LimitUpToDate'
<1> USE EngineAssumption, TypeParts
<1>1. ASSUME UNCHANGED order,
             \A c \in Clients :
               cl'[c] \in {"dispatch", "run"} =>
                 /\ cl[c] \in {"dispatch", "run"}
                 /\ before'[c] = before[c] /\ limit'[c] = limit[c]
      PROVE  LimitUpToDate'
  BY <1>1 DEF LimitUpToDate, Later
<1>2. ASSUME NEW u \in Users, RegLimit(u) PROVE LimitUpToDate'
  <2> DEFINE g == reg[u]
  <2>1. g \in Handlers /\ order \in Seq(Handlers) /\ order' = Append(order, g)
    BY <1>2 DEF RegLimit, UserAt, RegTypes
  <2>2. UNCHANGED <<cl, limit, before>>
    BY <1>2 DEF RegLimit, connVars
  <2>3. \A c \in Clients : g \notin before[c] /\ before[c] \subseteq Handlers
    BY DEF OnceInv, ConnTypes
  <2> HIDE DEF g
  <2>4. SUFFICES ASSUME NEW c \in Clients, cl[c] \in {"dispatch", "run"},
                        NEW h \in before[c] \intersect ToSet(order'),
                        ControlOf[h] = AskedBy[c]
                 PROVE  limit[c] # None /\ Later(h, limit[c])'
    BY <2>2 DEF LimitUpToDate, Later
  <2>5. h \in ToSet(order) /\ h \in Handlers
    BY <2>1, <2>3, LaterAppend
  <2>6. limit[c] \in Handlers /\ Later(h, limit[c])
    BY <2>4, <2>5 DEF LimitUpToDate, ConnTypes
  <2> QED
    BY <2>1, <2>2, <2>5, <2>6, LaterAppend, SMTT(30) DEF Later
<1>3. ASSUME NEW c \in Clients, ReadHeader(c) PROVE LimitUpToDate'
  <2>1. /\ cl' = [cl EXCEPT ![c] = "dispatch"] /\ UNCHANGED order
        /\ limit' = [limit EXCEPT ![c] = lmts[AskedBy[c]]]
        /\ before' = [before EXCEPT ![c] = ready]
    BY <1>3 DEF ReadHeader, ConnAt, regVars
  <2>2. \A h \in ready \intersect ToSet(order) :
          ControlOf[h] = AskedBy[c] =>
            lmts[AskedBy[c]] # None /\ Later(h, lmts[AskedBy[c]])
    BY DEF LastInv
  <2> QED
    BY <2>1, <2>2 DEF LimitUpToDate, Later, ConnTypes
<1>4. ASSUME NEW u \in Users, NEW h \in Handlers, RegFns(u, h) PROVE LimitUpToDate'
  BY <1>1, <1>4 DEF RegFns, connVars
<1>5. ASSUME NEW u \in Users,
             Bind(u) \/ RunReturn(u) \/ StopContext(u) \/ DropClone(u)
               \/ LoopStart(u) \/ LoopCheck(u) \/ AcceptFail(u)
      PROVE  LimitUpToDate'
  BY <1>1, <1>5
  DEF Bind, RunReturn, StopContext, DropClone, LoopStart, LoopCheck, AcceptFail,
      regVars, connVars
<1>6. ASSUME NEW u \in Users, Publish(u) \/ StopListener(u) PROVE LimitUpToDate'
  BY <1>1, <1>6 DEF Publish, StopListener, Close, regVars, ConnTypes
<1>7. CASE DropInner
  BY <1>1, <1>7 DEF DropInner, Close, regVars, ConnTypes
<1>8. CASE ParentStop
  BY <1>1, <1>8 DEF ParentStop, regVars, connVars
<1>9. ASSUME NEW u \in Users, NEW c \in Clients, Accept(u, c) PROVE LimitUpToDate'
  BY <1>1, <1>9 DEF Accept, ConnAt, regVars, ConnTypes
<1>10. ASSUME NEW c \in Clients, Connect(c) PROVE LimitUpToDate'
  BY <1>1, <1>10 DEF Connect, ConnAt, regVars, ConnTypes
<1>11. ASSUME NEW c \in Clients, Dispatch(c) PROVE LimitUpToDate'
  BY <1>1, <1>11 DEF Dispatch, ConnAt, regVars, ConnTypes
<1>12. ASSUME NEW c \in Clients, ParseFail(c) \/ RunEnd(c) PROVE LimitUpToDate'
  BY <1>1, <1>12 DEF ParseFail, RunEnd, ConnOver, ConnAt, regVars, ConnTypes
<1>13. CASE UNCHANGED vars
  BY <1>1, <1>13 DEF vars
<1> QED
  BY <1>2, <1>3, <1>4, <1>5, <1>6, <1>7, <1>8, <1>9, <1>10, <1>11, <1>12, <1>13
  DEF Next, LoopStep

\* No request is checked against a limit older than one whose registration
\* was over when its header was read, however registrations interleave.
THEOREM LimitsUpToDate == Spec => []LimitUpToDate
<1> DEFINE Inv == TypeInv /\ OnceInv /\ LastInv /\ LimitUpToDate
<1>1. Init => Inv
  <2>1. Init => LastInv /\ LimitUpToDate
    BY DEF Init, LastInv, LimitUpToDate, ToSet
  <2> QED
    BY <2>1, TypeInit, OnceInit
<1>2. Inv /\ [Next]_vars => Inv'
  BY TypeStep, OnceStep, LastStep, LimitStep
<1> QED
  BY <1>1, <1>2, PTL DEF Spec

----------------------------------------------------------------------------
(* Handlers: none is lost between reg_fun and the dispatch of a request *)

\* The vector of a control holds its handlers, each once: those that are
\* ready, and those whose registration stores its limit.
FnsInv ==
  /\ \A k \in Controls :
       /\ IsInjective(fns[k])
       /\ \A h \in ToSet(fns[k]) :
            ControlOf[h] = k /\ (h \in ready \/ \E u \in Users : reg[u] = h)
  /\ \A h \in ready : h \in ToSet(fns[ControlOf[h]])
  /\ \A u \in Users : reg[u] # None => reg[u] \in ToSet(fns[ControlOf[reg[u]]])

\* What a handler's vector holds after the handler was appended.
LEMMA FnsAppend ==
  ASSUME NEW s \in Seq(Handlers), NEW h \in Handlers
  PROVE  /\ \A g : g \in ToSet(Append(s, h)) <=> g \in ToSet(s) \/ g = h
         /\ IsInjective(s) /\ h \notin ToSet(s) => IsInjective(Append(s, h))
<1>1. /\ DOMAIN s = 1..Len(s) /\ Len(s) \in Nat
      /\ DOMAIN Append(s, h) = 1..Len(s) + 1
      /\ Append(s, h)[Len(s) + 1] = h
      /\ \A i \in DOMAIN s : Append(s, h)[i] = s[i]
  OBVIOUS
<1> QED
  BY <1>1 DEF ToSet, IsInjective

\* Every step keeps the vectors complete.
LEMMA FnsStep ==
  ASSUME TypeInv, FnsInv, [Next]_vars
  PROVE  FnsInv'
<1> USE EngineAssumption, TypeParts
<1>1. ASSUME UNCHANGED <<fns, reg, ready>> PROVE FnsInv'
  BY <1>1 DEF FnsInv
<1>2. ASSUME NEW u \in Users, NEW h \in Handlers, RegFns(u, h) PROVE FnsInv'
  <2> DEFINE k == ControlOf[h]
  <2>1. /\ k \in Controls /\ fns[k] \in Seq(Handlers)
        /\ fns' = [fns EXCEPT ![k] = Append(fns[k], h)]
        /\ h \notin ready /\ \A v \in Users : reg[v] # h
    BY <1>2 DEF RegFns, RegTypes
  <2>2. h \notin ToSet(fns[k])
    BY <2>1 DEF FnsInv
  <2>3. /\ fns'[k] = Append(fns[k], h) /\ fns[k] \in Seq(Handlers)
        /\ \A j \in Controls : j # k => fns'[j] = fns[j]
    BY <2>1 DEF RegTypes
  <2>4. /\ \A j \in Controls : IsInjective(fns'[j])
        /\ \A j \in Controls : ToSet(fns[j]) \subseteq ToSet(fns'[j])
        /\ \A j \in Controls : \A g \in ToSet(fns'[j]) :
             g \in ToSet(fns[j]) \/ (g = h /\ j = k)
        /\ h \in ToSet(fns'[k])
    BY <2>1, <2>2, <2>3, FnsAppend DEF FnsInv
  <2> HIDE DEF k
  <2>5. CASE /\ UserAt(u, "idle", "idle") /\ ready' = ready \union {h}
             /\ UNCHANGED reg
    BY <2>1, <2>4, <2>5 DEF FnsInv, RegTypes, k
  <2>6. CASE /\ UserAt(u, "idle", "limit") /\ UNCHANGED ready
             /\ reg' = [reg EXCEPT ![u] = h]
    <3>1. reg[u] = None /\ reg'[u] = h /\ \A v \in Users : v # u => reg'[v] = reg[v]
      BY <2>6 DEF UserAt, RegTypes, UserTypes
    <3>2. \A g \in Handlers : (\E v \in Users : reg[v] = g) => \E v \in Users : reg'[v] = g
      BY <3>1
    <3>3. \A j \in Controls : \A g \in ToSet(fns'[j]) :
            ControlOf[g] = j /\ (g \in ready \/ \E v \in Users : reg'[v] = g)
      <4>1. \A j \in Controls : ToSet(fns[j]) \subseteq Handlers
        BY DEF RegTypes, ToSet
      <4> QED
        BY <2>4, <3>1, <3>2, <4>1 DEF FnsInv, k
    <3>4. \A v \in Users : reg'[v] # None => reg'[v] \in ToSet(fns'[ControlOf[reg'[v]]])
      BY <2>4, <3>1 DEF FnsInv, RegTypes, k
    <3>5. \A g \in ready : g \in ToSet(fns'[ControlOf[g]])
      BY <2>4 DEF FnsInv, RegTypes
    <3> QED
      BY <2>4, <2>6, <3>3, <3>4, <3>5 DEF FnsInv
  <2> QED
    BY <1>2, <2>5, <2>6 DEF RegFns
<1>3. ASSUME NEW u \in Users, RegLimit(u) PROVE FnsInv'
  <2>1. /\ reg[u] \in Handlers /\ UNCHANGED fns
        /\ reg' = [reg EXCEPT ![u] = None] /\ ready' = ready \union {reg[u]}
    BY <1>3 DEF RegLimit, UserAt, RegTypes
  <2>2. \A h : (h \in ready \/ \E v \in Users : reg[v] = h) =>
               (h \in ready' \/ \E v \in Users : reg'[v] = h)
    BY <2>1 DEF RegTypes
  <2> QED
    BY <2>1, <2>2 DEF FnsInv, RegTypes
<1>4. ASSUME NEW u \in Users,
             Bind(u) \/ Publish(u) \/ RunReturn(u) \/ StopListener(u)
               \/ StopContext(u) \/ DropClone(u) \/ LoopStep(u) \/ AcceptFail(u)
      PROVE  FnsInv'
  BY <1>1, <1>4
  DEF Bind, Publish, RunReturn, StopListener, StopContext, DropClone,
      LoopStep, LoopStart, LoopCheck, Accept, AcceptFail, regVars
<1>5. CASE ParentStop \/ DropInner
  BY <1>1, <1>5 DEF ParentStop, DropInner, regVars
<1>6. ASSUME NEW c \in Clients,
             Connect(c) \/ ReadHeader(c) \/ ParseFail(c) \/ Dispatch(c) \/ RunEnd(c)
      PROVE  FnsInv'
  BY <1>1, <1>6 DEF Connect, ReadHeader, ParseFail, Dispatch, RunEnd, regVars
<1>7. CASE UNCHANGED vars
  BY <1>1, <1>7 DEF vars, regVars
<1> QED
  BY <1>2, <1>3, <1>4, <1>5, <1>6, <1>7 DEF Next

\* A dispatch takes the vector of its control, and keeps it.
LEMMA SeenStep ==
  ASSUME TypeInv, OnceInv, FnsInv, AllHandlersSeen, [Next]_vars
  PROVE  AllHandlersSeen'
<1> USE EngineAssumption, TypeParts
<1>1. ASSUME \A c \in Clients :
               cl'[c] = "run" =>
                 cl[c] = "run" /\ before'[c] = before[c] /\ seen'[c] = seen[c]
      PROVE  AllHandlersSeen'
  BY <1>1 DEF AllHandlersSeen
<1>2. ASSUME NEW c \in Clients, Dispatch(c) PROVE AllHandlersSeen'
  <2>1. /\ cl' = [cl EXCEPT ![c] = "run"] /\ UNCHANGED before
        /\ seen' = [seen EXCEPT ![c] = fns[AskedBy[c]]]
    BY <1>2 DEF Dispatch, ConnAt
  <2>2. /\ \A h \in before[c] :
             ControlOf[h] = AskedBy[c] => h \in ToSet(fns[AskedBy[c]])
        /\ \A h \in ToSet(fns[AskedBy[c]]) : ControlOf[h] = AskedBy[c]
        /\ IsInjective(fns[AskedBy[c]])
    BY DEF OnceInv, FnsInv
  <2> QED
    BY <2>1, <2>2 DEF AllHandlersSeen, ConnTypes
<1>3. ASSUME NEW u \in Users, NEW h \in Handlers, RegFns(u, h) PROVE AllHandlersSeen'
  BY <1>1, <1>3 DEF RegFns, connVars
<1>4. ASSUME NEW u \in Users,
             RegLimit(u) \/ Bind(u) \/ RunReturn(u) \/ StopContext(u)
               \/ DropClone(u) \/ LoopStart(u) \/ LoopCheck(u) \/ AcceptFail(u)
      PROVE  AllHandlersSeen'
  BY <1>1, <1>4
  DEF RegLimit, Bind, RunReturn, StopContext, DropClone, LoopStart, LoopCheck,
      AcceptFail, connVars
<1>5. ASSUME NEW u \in Users, Publish(u) \/ StopListener(u) PROVE AllHandlersSeen'
  BY <1>1, <1>5 DEF Publish, StopListener, Close, ConnTypes
<1>6. CASE DropInner
  BY <1>1, <1>6 DEF DropInner, Close, ConnTypes
<1>7. CASE ParentStop
  BY <1>1, <1>7 DEF ParentStop, connVars
<1>8. ASSUME NEW u \in Users, NEW c \in Clients, Accept(u, c) PROVE AllHandlersSeen'
  BY <1>1, <1>8 DEF Accept, ConnAt, ConnTypes
<1>9. ASSUME NEW c \in Clients, Connect(c) PROVE AllHandlersSeen'
  BY <1>1, <1>9 DEF Connect, ConnAt, ConnTypes
<1>10. ASSUME NEW c \in Clients, ReadHeader(c) PROVE AllHandlersSeen'
  BY <1>1, <1>10 DEF ReadHeader, ConnAt, ConnTypes
<1>11. ASSUME NEW c \in Clients, ParseFail(c) \/ RunEnd(c) PROVE AllHandlersSeen'
  BY <1>1, <1>11 DEF ParseFail, RunEnd, ConnOver, ConnAt, ConnTypes
<1>12. CASE UNCHANGED vars
  BY <1>1, <1>12 DEF vars, connVars
<1> QED
  BY <1>2, <1>3, <1>4, <1>5, <1>6, <1>7, <1>8, <1>9, <1>10, <1>11, <1>12
  DEF Next, LoopStep

\* No handler whose registration was over when a header was read is missed by
\* its request, and none is called for another control, or twice.
THEOREM HandlersSeen == Spec => []AllHandlersSeen
<1> DEFINE Inv == TypeInv /\ OnceInv /\ FnsInv /\ AllHandlersSeen
<1>1. Init => Inv
  <2>1. Init => FnsInv /\ AllHandlersSeen
    BY DEF Init, FnsInv, AllHandlersSeen, ToSet, IsInjective
  <2> QED
    BY <2>1, TypeInit, OnceInit
<1>2. Inv /\ [Next]_vars => Inv'
  BY TypeStep, OnceStep, FnsStep, SeenStep
<1> QED
  BY <1>1, <1>2, PTL DEF Spec
----------------------------------------------------------------------------
(* Sockets and loops: whose they are, and who serves a backlog *)

\* A user that has not stored a listener has no loop; who waits in a backlog
\* waits at an open socket.
OwnInv ==
  /\ \A l \in bound : lsr = l \/ user[l] = "bound"
  /\ \A u \in Users :
       user[u] \in {"idle", "limit", "bound", "stopping"} => loop[u] = "none" /\ lsr # u
  /\ \A c \in Clients : cl[c] = "backlog" => at[c] \in bound

\* The loop a run spawned stays with its listener until a stop begins.
ServedInv == Quiet => \A l \in bound : Serving(l)

\* No socket is open initially.
LEMMA OwnInit == Init => OwnInv /\ ServedInv
BY EngineAssumption DEF Init, OwnInv, ServedInv

\* Users that bind, store, stop and drop keep OwnInv.
LEMMA OwnUsers ==
  ASSUME TypeInv, OwnInv, NEW u \in Users,
         \/ \E h \in Handlers : RegFns(u, h)
         \/ RegLimit(u) \/ Bind(u) \/ Publish(u) \/ RunReturn(u)
         \/ StopListener(u) \/ StopContext(u) \/ DropClone(u)
  PROVE  OwnInv'
<1> USE EngineAssumption, TypeParts
    DEF UserTypes, BoundInv, LoopTypes, ConnTypes, OwnInv, UserAt
<1>1. ASSUME NEW h \in Handlers, RegFns(u, h) PROVE OwnInv'
  BY <1>1 DEF RegFns, loopVars, connVars
<1>2. CASE RegLimit(u) \/ RunReturn(u) \/ StopContext(u) \/ DropClone(u)
  BY <1>2 DEF RegLimit, RunReturn, StopContext, DropClone, loopVars, connVars
<1>3. CASE Bind(u)
  BY <1>3 DEF Bind, loopVars, connVars
<1>4. CASE Publish(u)
  <2>1. bound' = bound /\ cl' = cl /\ at' = at
    BY <1>4 DEF Publish, Close
  <2>2. /\ lsr' = u /\ loop' = [loop EXCEPT ![u] = "start"]
        /\ user' = [user EXCEPT ![u] = "running"] /\ \A v \in bound : v = u
    BY <1>4 DEF Publish, LoopAt
  <2> QED
    BY <2>1, <2>2
<1>5. CASE StopListener(u)
  BY <1>5 DEF StopListener, Close, loopVars
<1> QED
  BY <1>1, <1>2, <1>3, <1>4, <1>5

\* Every step keeps OwnInv.
LEMMA OwnStep ==
  ASSUME TypeInv, OwnInv, [Next]_vars
  PROVE  OwnInv'
<1> USE EngineAssumption, TypeParts
    DEF UserTypes, BoundInv, LoopTypes, ConnTypes, OwnInv
<1>1. ASSUME NEW u \in Users,
             LoopStart(u) \/ LoopCheck(u) \/ AcceptFail(u)
      PROVE  OwnInv'
  BY <1>1 DEF LoopStart, LoopCheck, AcceptFail, LoopAt, regVars, connVars
<1>2. ASSUME NEW u \in Users, NEW c \in Clients, Accept(u, c) PROVE OwnInv'
  BY <1>2 DEF Accept, LoopAt, ConnAt, regVars
<1>3. CASE ParentStop
  BY <1>3 DEF ParentStop, loopVars, connVars
<1>4. CASE DropInner
  BY <1>4 DEF DropInner, Close, loopVars
<1>5. ASSUME NEW c \in Clients, Connect(c) PROVE OwnInv'
  BY <1>5 DEF Connect, ConnAt, loopVars
<1>6. ASSUME NEW c \in Clients,
             ReadHeader(c) \/ ParseFail(c) \/ Dispatch(c) \/ RunEnd(c)
      PROVE  OwnInv'
  BY <1>6 DEF ReadHeader, ParseFail, Dispatch, RunEnd, ConnAt, loopVars
<1>7. CASE UNCHANGED vars
  BY <1>7 DEF vars
<1> QED
  BY <1>1, <1>2, <1>3, <1>4, <1>5, <1>6, <1>7, OwnUsers DEF Next, LoopStep

\* Every step keeps ServedInv.
LEMMA ServedStep ==
  ASSUME TypeInv, OwnInv, ServedInv, [Next]_vars
  PROVE  ServedInv'
<1> USE EngineAssumption, TypeParts
    DEF UserTypes, BoundInv, LoopTypes, ServedInv, Quiet, Serving
<1>0. /\ lsr \in bound \union {None} /\ \A u, v \in bound : u = v
      /\ bound \subseteq Users /\ None \notin Users
  OBVIOUS
<1>1. ASSUME UNCHANGED <<lsr, bound, user, loop, via>>, done => done' PROVE ServedInv'
  BY <1>1
<1>2. ASSUME NEW u \in Users,
             \/ \E h \in Handlers : RegFns(u, h)
             \/ RegLimit(u) \/ RunReturn(u) \/ DropClone(u)
      PROVE  ServedInv'
  <2>1. /\ UNCHANGED <<done, lsr, bound, loop, via>>
        /\ user[u] \notin {"bound", "stopping"}
        /\ \A v \in Users : v # u => user'[v] = user[v]
    BY <1>2 DEF RegFns, RegLimit, RunReturn, DropClone, UserAt, loopVars
  <2> QED
    BY <2>1
<1>3. ASSUME NEW u \in Users, Bind(u) PROVE ServedInv'
  BY <1>3 DEF Bind, UserAt, loopVars
<1>4. ASSUME NEW u \in Users, Publish(u) PROVE ServedInv'
  <2>1. bound' = bound /\ lsr' = u /\ \A v \in bound : v = u
    BY <1>4 DEF Publish, Close, UserAt
  <2>2. loop' = [loop EXCEPT ![u] = "start"]
    BY <1>4 DEF Publish, LoopAt
  <2> QED
    BY <2>1, <2>2
<1>5. ASSUME NEW u \in Users, StopListener(u) PROVE ServedInv'
  BY <1>5 DEF StopListener, UserAt
<1>6. ASSUME NEW u \in Users, StopContext(u) PROVE ServedInv'
  BY <1>6 DEF StopContext
<1>7. CASE ParentStop \/ DropInner
  BY <1>7 DEF ParentStop, DropInner
<1>8. ASSUME NEW u \in Users, LoopStart(u) \/ LoopCheck(u) \/ AcceptFail(u)
      PROVE  ServedInv'
  <2> SUFFICES ASSUME Quiet', NEW l \in bound PROVE Serving(l)'
    BY <1>8 DEF LoopStart, LoopCheck, AcceptFail
  <2>1. UNCHANGED <<done, lsr, bound, user>> /\ Serving(l)
    BY <1>8 DEF LoopStart, LoopCheck, AcceptFail
  <2>2. CASE u = l
    BY <1>8, <2>1, <2>2 DEF LoopStart, LoopCheck, AcceptFail, LoopAt
  <2>3. CASE u # l
    BY <1>8, <2>1, <2>3 DEF LoopStart, LoopCheck, AcceptFail, LoopAt
  <2> QED
    BY <2>2, <2>3
<1>9. ASSUME NEW u \in Users, NEW c \in Clients, Accept(u, c) PROVE ServedInv'
  BY <1>9 DEF Accept, LoopAt
<1>10. ASSUME NEW c \in Clients,
              Connect(c) \/ ReadHeader(c) \/ ParseFail(c) \/ Dispatch(c) \/ RunEnd(c)
       PROVE  ServedInv'
  BY <1>1, <1>10 DEF Connect, ReadHeader, ParseFail, Dispatch, RunEnd, loopVars
<1>11. CASE UNCHANGED vars
  BY <1>1, <1>11 DEF vars
<1> QED
  BY <1>2, <1>3, <1>4, <1>5, <1>6, <1>7, <1>8, <1>9, <1>10, <1>11
  DEF Next, LoopStep

\* The two hold together.
LEMMA OwnCorrect == Spec => [](TypeInv /\ OwnInv /\ ServedInv)
BY OwnInit, OwnStep, ServedStep, TypeInit, TypeStep, PTL DEF Spec

\* No open socket is forgotten, whatever stops a run between its bind and the
\* store of its listener; and until a stop begins, who waits in a backlog has a
\* run or a loop of the very listener to serve it: KeepsAccepting needs no more
\* than that it is scheduled.
THEOREM SocketsServed == Spec => []SocketServed
<1>1. OwnInv /\ ServedInv => SocketServed
  BY DEF OwnInv, ServedInv, SocketServed
<1> QED
  BY <1>1, OwnCorrect, PTL
=============================================================================
