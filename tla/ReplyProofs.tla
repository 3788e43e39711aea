----------------------------- MODULE ReplyProofs -----------------------------
(***************************************************************************)
(* Proofs about Reply, for any number of tasks and calls and any length of *)
(* the body.                                                               *)
(*                                                                         *)
(* As long as nothing is shared a reader is alone and bodyok is not set    *)
(* (AloneInv); as long as nothing is torn either, what was consumed of the *)
(* stream is in the reader's buffer or in bodys (ExactInv).                *)
(***************************************************************************)
EXTENDS Reply, SequenceTheorems, TLAPS

\* A Response that was just made is well typed.
LEMMA TypeInit == Init => TypeOK
<1> SUFFICES ASSUME Init PROVE TypeOK
  OBVIOUS
<1>1. <<>> \in Seq(Nat) /\ Len(<<>>) = 0
  OBVIOUS
<1>2. calls \in 0 .. MaxCalls
  BY ReplyAssumption DEF Init
<1>3. bodys \in Seq(Nat) /\ Len(bodys) \in {0, BodyLen}
  BY <1>1 DEF Init
<1>4. got \in [Tasks -> Seq(Nat)]
  BY <1>1 DEF Init
<1> QED
  BY <1>2, <1>3, <1>4 DEF Init, TypeOK

\* A byte is stored or kept.
LEMMA ReadTyped ==
  ASSUME TypeOK, NEW t \in Tasks, Read(t) PROVE TypeOK'
<1> USE ReplyAssumption DEF TypeOK, Read
<1>1. /\ got[t] \in Seq(Nat) /\ Append(got[t], rd + 1) \in Seq(Nat)
      /\ Len(Append(got[t], rd + 1)) = Len(got[t]) + 1
  BY AppendProperties
<1>2. rd' \in Nat /\ UNCHANGED <<conn, bodyok, sent, eof, op, calls, torn, shared>>
  BY DEF TakeByte
<1>3. CASE Len(got[t]) + 1 = BodyLen
  <2>1. StoreBody(t) /\ <<>> \in Seq(Nat)
    BY <1>3
  <2>2. bodys' \in Seq(Nat) /\ Len(bodys') = BodyLen
    BY <1>1, <1>3, <2>1 DEF StoreBody
  <2>3. pc' = [pc EXCEPT ![t] = "flag"] /\ got' = [got EXCEPT ![t] = <<>>]
    BY <2>1 DEF StoreBody, Goto
  <2> QED
    BY <1>2, <2>1, <2>2, <2>3
<1>4. CASE ~(Len(got[t]) + 1 = BodyLen)
  BY <1>1, <1>2, <1>4 DEF KeepByte
<1> QED
  BY <1>3, <1>4

\* Every step keeps the types.
LEMMA TypeStep == TypeOK /\ [Next]_vars => TypeOK'
<1> SUFFICES ASSUME TypeOK, [Next]_vars PROVE TypeOK'
  OBVIOUS
<1> USE ReplyAssumption DEF TypeOK, Goto, streamVars
<1>1. ASSUME NEW t \in Tasks, Call(t) PROVE TypeOK'
  <2>1. /\ calls' \in 0 .. MaxCalls /\ op' \in [Tasks -> {"body", "own"}]
    BY <1>1 DEF Call, MayCall
  <2>2. \/ BeginRead(t)
        \/ \E q \in {"flag", "take", "idle"} : Goto(t, q) /\ UNCHANGED shared
    BY <1>1 DEF Call, Done
  <2>3. /\ pc' \in [Tasks -> {"idle", "read", "flag", "take", "panic"}]
        /\ shared' \in BOOLEAN
    BY <2>2 DEF BeginRead
  <2>4. UNCHANGED <<conn, bodyok, bodys, streamVars, got, torn>>
    BY <1>1 DEF Call
  <2> QED
    BY <2>1, <2>3, <2>4
<1>2. ASSUME NEW t \in Tasks, ReadFail(t) \/ Cancel(t) PROVE TypeOK'
  <2>1. <<>> \in Seq(Nat)
    OBVIOUS
  <2> QED
    BY <1>2, <2>1 DEF ReadFail, Cancel
<1>3. ASSUME NEW t \in Tasks, Flag(t) PROVE TypeOK'
  BY <1>3 DEF Flag, Done
<1>4. ASSUME NEW t \in Tasks, Take(t) PROVE TypeOK'
  BY <1>4 DEF Take
<1>5. CASE ServerSend \/ ServerClose
  <2>1. sent' \in Nat /\ eof' \in BOOLEAN
    <3>1. CASE ServerSend
      <4>1. sent' = sent + 1 /\ eof' = eof
        BY <3>1 DEF ServerSend
      <4> QED
        BY <4>1
    <3>2. CASE ServerClose
      <4>1. sent' = sent /\ eof' = TRUE
        BY <3>2 DEF ServerClose
      <4> QED
        BY <4>1
    <3> QED
      BY <1>5, <3>1, <3>2
  <2>2. UNCHANGED <<conn, bodyok, bodys, rd, pc, op, got, calls, torn, shared>>
    BY <1>5 DEF ServerSend, ServerClose
  <2>3. bodys' \in Seq(Nat) /\ Len(bodys') \in {0, BodyLen}
    BY <2>2
  <2>4. got' \in [Tasks -> Seq(Nat)] /\ calls' \in 0 .. MaxCalls
    BY <2>2
  <2> QED
    BY <2>1, <2>2, <2>3, <2>4
<1>6. CASE UNCHANGED vars
  BY <1>6 DEF vars
<1> QED
  BY <1>1, <1>2, <1>3, <1>4, <1>5, <1>6, ReadTyped DEF Next

\* The fields stay of their types, and a body is stored whole.
THEOREM Typed == Spec => []TypeOK
  BY TypeInit, TypeStep, PTL DEF Spec
----------------------------------------------------------------------------
(* A reader is alone *)

\* The connection is given away only when bodyok is set; buffers belong to
\* readers; and a reader that shares with nobody is alone and finds bodyok
\* not set.
AloneInv ==
  /\ conn = "owned" => bodyok
  /\ \A t \in Tasks :
       /\ pc[t] = "take" => bodyok
       /\ pc[t] # "read" => got[t] = <<>>
       /\ pc[t] = "read" => BodyLen > 0
       /\ pc[t] = "read" /\ ~shared =>
            ~bodyok /\ \A u \in Tasks \ {t} : pc[u] \notin {"read", "flag"}

\* Nobody reads.
LEMMA AloneInit == Init => AloneInv
  BY DEF Init, AloneInv

\* A call that starts to read is alone, or it shares.
LEMMA CallAlone ==
  ASSUME TypeOK, AloneInv, NEW t \in Tasks, Call(t) PROVE AloneInv'
<1> USE DEF TypeOK, AloneInv, Goto
<1>1. pc[t] = "idle" /\ UNCHANGED <<conn, bodyok, bodys, got>>
  BY DEF Call, MayCall
<1>2. CASE ~bodyok /\ MustRead /\ BeginRead(t)
  <2>1. /\ BodyLen > 0 /\ pc' = [pc EXCEPT ![t] = "read"]
        /\ shared' = (shared \/ \E u \in Tasks \ {t} : pc[u] \in {"read", "flag"})
    BY <1>2 DEF MustRead, BeginRead
  <2> QED
    BY <1>1, <1>2, <2>1
<1>3. CASE ~bodyok /\ ~MustRead /\ Goto(t, "flag") /\ UNCHANGED shared
  <2>1. BodyLen = 0
    BY <1>3, ReplyAssumption DEF MustRead
  <2> QED
    BY <1>1, <1>3, <2>1
<1>4. CASE bodyok /\ UNCHANGED shared /\ \E q \in {"take", "idle"} : Goto(t, q)
  BY <1>1, <1>4
<1> QED
  BY <1>2, <1>3, <1>4 DEF Call, Done

\* Every step keeps the invariant.
LEMMA AloneStep == TypeOK /\ AloneInv /\ [Next]_vars => AloneInv'
<1> SUFFICES ASSUME TypeOK, AloneInv, [Next]_vars PROVE AloneInv'
  OBVIOUS
<1> USE DEF TypeOK, AloneInv, Goto
<1>1. ASSUME NEW t \in Tasks, Read(t) PROVE AloneInv'
  <2>1. pc[t] = "read" /\ UNCHANGED <<conn, bodyok, shared>>
    BY <1>1 DEF Read, TakeByte
  <2>2. CASE StoreBody(t)
    BY <2>1, <2>2 DEF StoreBody
  <2>3. CASE KeepByte(t)
    BY <2>1, <2>3 DEF KeepByte
  <2> QED
    BY <1>1, <2>2, <2>3 DEF Read
<1>2. ASSUME NEW t \in Tasks, ReadFail(t) PROVE AloneInv'
  BY <1>2 DEF ReadFail
<1>3. ASSUME NEW t \in Tasks, Cancel(t) PROVE AloneInv'
  BY <1>3 DEF Cancel
<1>4. ASSUME NEW t \in Tasks, Flag(t) PROVE AloneInv'
  BY <1>4 DEF Flag, Done
<1>5. ASSUME NEW t \in Tasks, Take(t) PROVE AloneInv'
  BY <1>5 DEF Take
<1>6. CASE ServerSend \/ ServerClose
  BY <1>6 DEF ServerSend, ServerClose
<1>7. CASE UNCHANGED vars
  BY <1>7 DEF vars
<1> QED
  BY <1>1, <1>2, <1>3, <1>4, <1>5, <1>6, <1>7, CallAlone DEF Next

\* Once bodyok is set it stays, no call begins to read, and the body changes
\* only under a read that overlapped with the one that set it; with reads one
\* at a time it never changes.
THEOREM SettledOnceHolds == Spec => SettledOnce
<1>1. TypeOK /\ AloneInv /\ [Next]_vars
      => [bodyok => /\ bodyok'
                    /\ Readers' \subseteq Readers
                    /\ bodys' # bodys => shared /\ Readers # {}]_vars
  <2> SUFFICES ASSUME TypeOK, AloneInv, Next, bodyok
               PROVE  /\ bodyok'
                      /\ Readers' \subseteq Readers
                      /\ bodys' # bodys => shared /\ Readers # {}
    BY DEF vars
  <2> USE DEF TypeOK, Readers, Goto, Done
  <2>1. ASSUME NEW t \in Tasks, Call(t)
        PROVE  bodyok' /\ Readers' \subseteq Readers /\ bodys' = bodys
    BY <2>1 DEF Call, MayCall
  <2>2. ASSUME NEW t \in Tasks, Read(t)
        PROVE  /\ bodyok' /\ Readers' \subseteq Readers
               /\ shared /\ Readers # {}
    <3>1. pc[t] = "read" /\ bodyok' = bodyok
      BY <2>2 DEF Read, TakeByte
    <3>2. Readers' \subseteq Readers
      BY <2>2 DEF Read, TakeByte, StoreBody, KeepByte
    <3> QED
      BY <3>1, <3>2 DEF AloneInv
  <2>3. ASSUME NEW t \in Tasks, ReadFail(t) \/ Cancel(t) \/ Flag(t) \/ Take(t)
        PROVE  bodyok' /\ Readers' \subseteq Readers /\ bodys' = bodys
    BY <2>3 DEF ReadFail, Cancel, Flag, Take
  <2>4. CASE ServerSend \/ ServerClose
    BY <2>4 DEF ServerSend, ServerClose
  <2> QED
    BY <2>1, <2>2, <2>3, <2>4 DEF Next
<1> QED
  BY <1>1, TypeInit, TypeStep, AloneInit, AloneStep, PTL DEF Spec, SettledOnce
----------------------------------------------------------------------------
(* The body is read exactly *)

\* 1, ..., n has n elements, and there are none for n = 0.
LEMMA CountLength ==
  ASSUME NEW n \in Nat
  PROVE  /\ Len([i \in 1 .. n |-> i]) = n
         /\ n = 0 <=> [i \in 1 .. n |-> i] = <<>>
  OBVIOUS

\* One more byte.
LEMMA CountAppend ==
  ASSUME NEW n \in Nat
  PROVE  Append([i \in 1 .. n |-> i], n + 1) = [i \in 1 .. (n + 1) |-> i]
  OBVIOUS

\* What was consumed is in the reader's buffer, or is the stored body.
Exact ==
  /\ \A t \in Tasks : pc[t] = "read" =>
       rd < BodyLen /\ bodys = <<>> /\ got[t] = [i \in 1 .. rd |-> i]
  /\ bodyok \/ (\E t \in Tasks : pc[t] = "flag") => rd = BodyLen /\ bodys = Whole
  /\ ~bodyok /\ (\A t \in Tasks : pc[t] \notin {"read", "flag"}) =>
       rd = 0 /\ bodys = <<>>

ExactInv == ~torn /\ ~shared => Exact

\* Nothing was consumed.
LEMMA ExactInit == Init => ExactInv
  BY DEF Init, ExactInv, Exact

\* A call starts to read at the beginning, or finds the body settled.
LEMMA CallExact ==
  ASSUME TypeOK, AloneInv, Exact, NEW t \in Tasks, Call(t), ~shared'
  PROVE  Exact'
<1> USE ReplyAssumption DEF TypeOK, Exact, Goto
<1>1. pc[t] = "idle" /\ got[t] = <<>> /\ UNCHANGED <<conn, bodyok, bodys, rd, got>>
  BY DEF Call, MayCall, AloneInv, streamVars
<1>2. Whole' = Whole
  BY DEF Whole
<1>3. CASE ~bodyok /\ MustRead /\ BeginRead(t)
  <2>1. \A u \in Tasks : pc[u] \notin {"read", "flag"}
    BY <1>1, <1>3 DEF BeginRead
  <2>2. rd = 0 /\ bodys = <<>> /\ got[t] = [i \in 1 .. rd |-> i]
    BY <1>1, <1>3, <2>1, CountLength
  <2>3. rd < BodyLen /\ pc' = [pc EXCEPT ![t] = "read"]
    BY <1>3, <2>2 DEF MustRead, BeginRead
  <2> QED
    BY <1>1, <1>3, <2>1, <2>2, <2>3
<1>4. CASE ~bodyok /\ ~MustRead /\ Goto(t, "flag")
  <2>1. BodyLen = 0 /\ \A u \in Tasks : pc[u] # "read"
    BY <1>4 DEF MustRead, AloneInv
  <2>2. Whole = <<>>
    BY <2>1, CountLength DEF Whole
  <2>3. rd = BodyLen /\ bodys = Whole
    BY <1>4, <2>1, <2>2
  <2> QED
    BY <1>1, <1>2, <1>4, <2>1, <2>3
<1>5. CASE bodyok /\ \E q \in {"take", "idle"} : Goto(t, q)
  BY <1>1, <1>2, <1>5
<1> QED
  BY <1>3, <1>4, <1>5 DEF Call, Done

\* A reader that is alone goes on behind what it has, up to the whole body.
LEMMA ReadExact ==
  ASSUME TypeOK, AloneInv, Exact, NEW t \in Tasks, Read(t), ~shared
  PROVE  Exact'
<1> USE DEF TypeOK, Goto
<1>1. /\ pc[t] = "read" /\ ~bodyok /\ rd' = rd + 1 /\ UNCHANGED bodyok
      /\ \A u \in Tasks \ {t} : pc[u] \notin {"read", "flag"}
  BY DEF Read, TakeByte, AloneInv
<1>2. got[t] = [i \in 1 .. rd |-> i] /\ rd < BodyLen /\ bodys = <<>>
  BY <1>1 DEF Exact
<1>3. Len(got[t]) = rd /\ Append(got[t], rd + 1) = [i \in 1 .. (rd + 1) |-> i]
  BY <1>2, CountLength, CountAppend
<1>4. CASE rd + 1 = BodyLen
  <2>1. bodys' = Whole /\ pc' = [pc EXCEPT ![t] = "flag"]
    BY <1>3, <1>4 DEF Read, StoreBody, Whole
  <2>2. Whole' = Whole
    BY DEF Whole
  <2> QED
    BY <1>1, <1>4, <2>1, <2>2 DEF Exact
<1>5. CASE rd + 1 # BodyLen
  <2>1. /\ got' = [got EXCEPT ![t] = Append(got[t], rd + 1)]
        /\ UNCHANGED <<bodys, pc>>
    BY <1>3, <1>5 DEF Read, KeepByte
  <2>2. rd + 1 < BodyLen
    BY <1>2, <1>5, ReplyAssumption
  <2>3. got'[t] = [i \in 1 .. rd' |-> i]
    BY <1>1, <1>3, <2>1
  <2> QED
    BY <1>1, <1>2, <2>1, <2>2, <2>3 DEF Exact
<1> QED
  BY <1>4, <1>5

\* Every step keeps the invariant.
LEMMA ExactStep == TypeOK /\ AloneInv /\ ExactInv /\ [Next]_vars => ExactInv'
<1> SUFFICES ASSUME TypeOK, AloneInv, ExactInv, [Next]_vars, ~torn', ~shared'
             PROVE  Exact'
  BY DEF ExactInv
<1> Whole' = Whole
  BY DEF Whole
<1>1. ASSUME NEW t \in Tasks, Call(t) PROVE Exact'
  <2>1. ~torn
    BY <1>1 DEF Call
  <2>2. BeginRead(t) \/ UNCHANGED shared
    BY <1>1 DEF Call
  <2>3. ~shared
    BY <2>2 DEF BeginRead
  <2> QED
    BY <1>1, <2>1, <2>3, CallExact DEF ExactInv
<1>2. ASSUME NEW t \in Tasks, Read(t) PROVE Exact'
  <2>1. ~torn /\ ~shared
    BY <1>2 DEF Read, TakeByte
  <2> QED
    BY <1>2, <2>1, ReadExact DEF ExactInv
<1>3. ASSUME NEW t \in Tasks, Cancel(t) PROVE Exact'
  <2>1. ~torn /\ ~shared /\ got[t] = <<>> /\ pc[t] = "read"
    BY <1>3 DEF Cancel
  <2>2. Exact
    BY <2>1 DEF ExactInv
  <2>3. rd = 0 /\ bodys = <<>>
    BY <2>1, <2>2, CountLength DEF Exact, TypeOK
  <2>4. ~bodyok /\ \A u \in Tasks \ {t} : pc[u] \notin {"read", "flag"}
    BY <2>1 DEF AloneInv
  <2> QED
    BY <1>3, <2>3, <2>4 DEF Cancel, Exact, TypeOK, Goto, streamVars
<1>4. ASSUME NEW t \in Tasks, Flag(t) PROVE Exact'
  <2>1. Exact
    BY <1>4 DEF Flag, ExactInv
  <2>2. \A u \in Tasks : pc[u] # "read"
    BY <1>4 DEF Flag, AloneInv
  <2> QED
    BY <1>4, <2>1, <2>2 DEF Flag, Done, Exact, TypeOK, Goto, streamVars
<1>5. ASSUME NEW t \in Tasks, Take(t) PROVE Exact'
  <2>1. Exact
    BY <1>5 DEF Take, ExactInv
  <2> QED
    BY <1>5, <2>1 DEF Take, AloneInv, Exact, TypeOK, Goto, streamVars
<1>6. CASE ServerSend \/ ServerClose \/ UNCHANGED vars
  BY <1>6 DEF ServerSend, ServerClose, vars, Exact, ExactInv
<1> QED
  BY <1>1, <1>2, <1>3, <1>4, <1>5, <1>6 DEF Next, ReadFail

\* Without overlapping reads the body is exact, and own_conn hands the
\* connection over behind it.
THEOREM ExactHolds == Spec => []ExactUnlessShared
<1>1. TypeOK /\ AloneInv /\ ExactInv => ExactUnlessShared
  <2> SUFFICES ASSUME TypeOK, AloneInv, Exact, ~shared
               PROVE  /\ bodys \in {<<>>, Whole}
                      /\ conn = "owned" => rd = BodyLen
                      /\ \A t, u \in Tasks : pc[t] = "read" =>
                           conn = "open" /\ (pc[u] \in {"read", "take"} => u = t)
    BY DEF ExactInv, ExactUnlessShared
  <2>1. bodys \in {<<>>, Whole}
    <3>1. CASE bodyok \/ \E t \in Tasks : pc[t] = "flag"
      BY <3>1 DEF Exact
    <3>2. CASE \E t \in Tasks : pc[t] = "read"
      BY <3>2 DEF Exact
    <3>3. CASE ~bodyok /\ \A t \in Tasks : pc[t] \notin {"read", "flag"}
      BY <3>3 DEF Exact
    <3> QED
      BY <3>1, <3>2, <3>3
  <2>2. conn = "owned" => rd = BodyLen
    BY DEF AloneInv, Exact
  <2>3. ASSUME NEW t \in Tasks, NEW u \in Tasks, pc[t] = "read"
        PROVE  conn = "open" /\ (pc[u] \in {"read", "take"} => u = t)
    BY <2>3 DEF TypeOK, AloneInv
  <2> QED
    BY <2>1, <2>2, <2>3
<1> QED
  BY <1>1, TypeInit, TypeStep, AloneInit, AloneStep, ExactInit, ExactStep, PTL
  DEF Spec
=============================================================================
