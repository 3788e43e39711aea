-------------------------------- MODULE Reply --------------------------------
(***************************************************************************)
(* The Response of req.rs in the hands of several tasks: it is Clone, all  *)
(* clones are one Inner, and get_bodys reads the body through ArcMut::muts *)
(* with an AtomicBool, no lock, to say that this was done (the Context of  *)
(* res.rs has a Mutex there).                                              *)
(*                                                                         *)
(* A step is the code between two awaits, or between two accesses of       *)
(* bodyok or bodys.  The server sends BodyLen body bytes and then Trailing *)
(* bytes of what follows on the connection; byte i is the number i.        *)
(***************************************************************************)
EXTENDS Naturals, Sequences

CONSTANTS
  Tasks,     \* the tasks with a clone of the Response
  MaxCalls,  \* bound: calls they make
  BodyLen,   \* bodylen: the body length the answer announces
  Trailing   \* bytes the server may send after the body

ASSUME ReplyAssumption == MaxCalls \in Nat /\ BodyLen \in Nat /\ Trailing \in Nat

VARIABLES
  conn,    \* Inner.conn: "open" is Some(stream), "owned" is None
  bodyok,  \* Inner.bodyok
  bodys,   \* Inner.bodys: <<>> is None, else the bytes read
  rd,      \* bytes of the stream consumed so far
  sent,    \* bytes of the stream the server has sent so far
  eof,     \* the server has closed its end
  pc,      \* where a task is: in no call ("idle"), reading, before the store
           \* to bodyok ("flag"), before own_conn's replace ("take"), panicked
  op,      \* the call it is in: "own", or another that gets the body
  got,     \* the local buffer of read_all_async
  calls,   \* calls made so far
  torn,    \* history: a read of the body was cut short
  shared   \* history: a call began to read while another had begun, and had
           \* not set bodyok

vars == <<conn, bodyok, bodys, rd, sent, eof, pc, op, got, calls, torn, shared>>
streamVars == <<rd, sent, eof>>

Init ==
  /\ conn = "open" /\ bodyok = FALSE /\ bodys = <<>>
  /\ rd = 0 /\ sent = 0 /\ eof = FALSE
  /\ pc = [t \in Tasks |-> "idle"] /\ op = [t \in Tasks |-> "body"]
  /\ got = [t \in Tasks |-> <<>>]
  /\ calls = 0
  /\ torn = FALSE /\ shared = FALSE

Goto(t, p) == pc' = [pc EXCEPT ![t] = p]

\* What a call does when it has the body: own_conn goes on.
Done(o) == IF o = "own" THEN "take" ELSE "idle"

MustRead == BodyLen > 0 /\ conn = "open"

\* A task calls get_bodys, body_str or body_json, or own_conn.
MayCall(t, o) ==
  /\ pc[t] = "idle" /\ calls < MaxCalls
  /\ calls' = calls + 1
  /\ op' = [op EXCEPT ![t] = o]

BeginRead(t) ==
  /\ Goto(t, "read")
  /\ shared' = (shared \/ \E u \in Tasks \ {t} : pc[u] \in {"read", "flag"})

\* Mutant: own_conn does not await get_bodys.
CallUndrained(t) ==
  /\ \E o \in {"body", "own"} :
       /\ MayCall(t, o)
       /\ \/ ~bodyok /\ MustRead /\ o = "body" /\ BeginRead(t)
          \/ ~bodyok /\ ~MustRead /\ o = "body" /\ Goto(t, "flag") /\ UNCHANGED shared
          \/ (bodyok \/ o = "own") /\ Goto(t, Done(o)) /\ UNCHANGED shared
  /\ UNCHANGED <<conn, bodyok, bodys, streamVars, got, torn>>

\* Mutant: bodyok is set before the body is read.
CallFlagFirst(t) ==
  /\ \E o \in {"body", "own"} :
       /\ MayCall(t, o)
       /\ bodyok' = TRUE
       /\ \/ ~bodyok /\ MustRead /\ BeginRead(t)
          \/ (bodyok \/ ~MustRead) /\ Goto(t, Done(o)) /\ UNCHANGED shared
  /\ UNCHANGED <<conn, bodys, streamVars, got, torn>>

\* The call loads bodyok, and reads unless it is set, there is no body or the
\* connection is gone.
Call(t) ==
  /\ \E o \in {"body", "own"} :
       /\ MayCall(t, o)
       /\ \/ ~bodyok /\ MustRead /\ BeginRead(t)
          \/ ~bodyok /\ ~MustRead /\ Goto(t, "flag") /\ UNCHANGED shared
          \/ bodyok /\ Goto(t, Done(o)) /\ UNCHANGED shared
  /\ UNCHANGED <<conn, bodyok, bodys, streamVars, got, torn>>

TakeByte(t) ==
  /\ pc[t] = "read" /\ rd < sent
  /\ rd' = rd + 1
  /\ UNCHANGED <<conn, bodyok, sent, eof, op, calls, torn, shared>>

StoreBody(t) ==
  /\ bodys' = Append(got[t], rd + 1) /\ Goto(t, "flag")
  /\ got' = [got EXCEPT ![t] = <<>>]

KeepByte(t) ==
  /\ got' = [got EXCEPT ![t] = Append(@, rd + 1)]
  /\ UNCHANGED <<bodys, pc>>

\* Mutant: one read of the socket, which may return less than the body.
ReadOnce(t) == TakeByte(t) /\ StoreBody(t)

\* read_all_async takes one more byte, and with the last one the body is stored.
\* (Another task may take the connection meanwhile: the read may go on in the
\* moved stream.)
Read(t) ==
  /\ TakeByte(t)
  /\ IF Len(got[t]) + 1 = BodyLen THEN StoreBody(t) ELSE KeepByte(t)

\* read_all_async fails: the stream ended, the context the caller passed to
\* get_bodys is done when it reads on (own_conn passes none), or the connection
\* was taken.
ReadFail(t) ==
  /\ pc[t] = "read"
  /\ (eof /\ rd = sent) \/ op[t] = "body" \/ conn = "owned"
  /\ Goto(t, "flag")
  /\ got' = [got EXCEPT ![t] = <<>>] /\ torn' = TRUE
  /\ UNCHANGED <<conn, bodyok, bodys, streamVars, op, calls, shared>>

\* The future of the call is dropped while it reads.
Cancel(t) ==
  /\ pc[t] = "read"
  /\ Goto(t, "idle")
  /\ got' = [got EXCEPT ![t] = <<>>] /\ torn' = (torn \/ got[t] # <<>>)
  /\ UNCHANGED <<conn, bodyok, bodys, streamVars, op, calls, shared>>

\* bodyok is set, whatever became of the read.
Flag(t) ==
  /\ pc[t] = "flag"
  /\ bodyok' = TRUE
  /\ Goto(t, Done(op[t]))
  /\ UNCHANGED <<conn, bodys, streamVars, op, got, calls, torn, shared>>

\* own_conn replaces conn by None, or panics ("conn?").
Take(t) ==
  /\ pc[t] = "take"
  /\ conn' = "owned"
  /\ Goto(t, IF conn = "open" THEN "idle" ELSE "panic")
  /\ UNCHANGED <<bodyok, bodys, streamVars, op, got, calls, torn, shared>>

ServerSend ==
  /\ ~eof /\ sent < BodyLen + Trailing
  /\ sent' = sent + 1
  /\ UNCHANGED <<conn, bodyok, bodys, rd, eof, pc, op, got, calls, torn, shared>>

ServerClose ==
  /\ ~eof /\ eof' = TRUE
  /\ UNCHANGED <<conn, bodyok, bodys, rd, sent, pc, op, got, calls, torn, shared>>

Next ==
  \/ \E t \in Tasks : \/ Call(t) \/ Read(t) \/ ReadFail(t) \/ Cancel(t)
                      \/ Flag(t) \/ Take(t)
  \/ ServerSend \/ ServerClose

Spec == Init /\ [][Next]_vars
----------------------------------------------------------------------------
(* Properties *)

\* The fields hold values of their types, and a body is never stored in part.
TypeOK ==
  /\ conn \in {"open", "owned"} /\ bodyok \in BOOLEAN
  /\ bodys \in Seq(Nat) /\ Len(bodys) \in {0, BodyLen}
  /\ rd \in Nat /\ sent \in Nat /\ eof \in BOOLEAN
  /\ pc \in [Tasks -> {"idle", "read", "flag", "take", "panic"}]
  /\ op \in [Tasks -> {"body", "own"}]
  /\ got \in [Tasks -> Seq(Nat)]
  /\ calls \in 0 .. MaxCalls
  /\ torn \in BOOLEAN /\ shared \in BOOLEAN

Whole == [i \in 1 .. BodyLen |-> i]

\* As long as no call began to read before another one that was at it had set
\* bodyok, and no read was cut short: the body every task gets is what the
\* server sent, no connection is taken away under a reader, and own_conn hands
\* it over right behind the body.
ExactUnlessShared ==
  ~torn /\ ~shared =>
    /\ bodys \in {<<>>, Whole}
    /\ conn = "owned" => rd = BodyLen
    /\ \A t, u \in Tasks : pc[t] = "read" =>
         conn = "open" /\ (pc[u] \in {"read", "take"} => u = t)

Readers == {t \in Tasks : pc[t] = "read"}

\* bodyok settles the body for every call that comes later: it is never reset,
\* and no call begins to read behind it, not even after an error or a call
\* whose future was dropped.  A reference that get_bodys returned is written
\* through by a call only that was reading already, together with the one that
\* set bodyok.
SettledOnce ==
  [][bodyok => /\ bodyok'
               /\ Readers' \subseteq Readers
               /\ bodys' # bodys => shared /\ Readers # {}]_vars
=============================================================================
