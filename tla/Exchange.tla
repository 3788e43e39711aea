------------------------------ MODULE Exchange ------------------------------
(***************************************************************************)
(* One Request of req.rs, the connections its calls open, and the server's *)
(* end of each of them: parse_conn and what follows it in run_cli.         *)
(*                                                                         *)
(* What travels is counted, not spelt out: up[c] bytes of connection c     *)
(* were written by the client, rd[c] of them read by the server.  Which    *)
(* bytes belong to which part of the message is a matter of lengths, and   *)
(* the two sides compute them independently: the client from its buffers,  *)
(* the server from the header, whose fields are u16 and u32.               *)
(*                                                                         *)
(* A step is the code between two awaits.  A read or a write can fail at   *)
(* any await: the peer is gone, its Context is done when the read or write *)
(* begins, or the future of the call was dropped.  That it can fail is not *)
(* that it will: read_all_async and write_all_async look at their Context  *)
(* before a read or a write, not while it is pending, so nothing but the   *)
(* peer ends a pending one (see Fairness).                                 *)
(***************************************************************************)
EXTENDS Naturals

CONSTANTS
  Conns,        \* the connections calls may open
  None,         \* no connection
  Given,        \* the connection Request::new_conn is passed (Request::new is
                \* passed none)
  Requests,     \* lengths and version a Request may have
  ResHeads,     \* lengths of heads and bodies
  ResBodies,    \* a response may have
  U16, U32,     \* 2^16 and 2^32
  MaxOther,     \* max_ohther of the limit the control of the request has
  MaxHeads,     \* max_heads of that limit
  ResMaxHeads,  \* max_heads of the Request's limit
  Build,        \* "panic" or "wrap": what u16 + u16 does when it overflows
  MaxCalls      \* bound: calls of dors, donrs and res

ASSUME ExchangeAssumption ==
  /\ None \notin Conns
  /\ Given \in Conns
  /\ Requests \subseteq
       [use_version : Nat, cmd : Nat, arg : Nat, head : Nat, body : Nat]
  /\ ResHeads \subseteq Nat /\ ResBodies \subseteq Nat
  /\ U16 \in Nat \ {0} /\ U32 \in Nat \ {0}
  /\ MaxOther \in Nat /\ MaxHeads \in Nat /\ ResMaxHeads \in Nat
  /\ Build \in {"panic", "wrap"}
  /\ MaxCalls \in Nat

VARIABLES
  req,     \* the lengths and the version the Request was given
  sended,  \* Request.sended
  conn,    \* Request.conn
  call,    \* the call of the user in progress, or "none"
  at,      \* where that call is: the part it writes or reads next
  cur,     \* the connection it holds in a local variable
  calls,   \* calls made so far
  resp,    \* the Response the last call returned
  cr,      \* bytes of cur (or resp.conn) the client has read
  link,    \* a connection is "fresh", "open" or "closed" (by the client)
  up,      \* bytes written by the client
  srv,     \* where run_cli is for a connection
  rd,      \* bytes read by the server
  ans,     \* lengths of the response begun on a connection
  down,    \* bytes written by the server
  ran      \* history: connections whose request was handed to handlers

vars == <<req, sended, conn, call, at, cur, calls, resp, cr, link, up, srv, rd,
          ans, down, ran>>
reqVars  == <<req, sended, conn>>
callVars == <<call, at, cur, calls>>
respVars == <<resp, cr>>
servVars == <<srv, rd, ans, down, ran>>

InfoLen == 18   \* size_of::<MsgInfo>(), packed
ResLen == 12    \* size_of::<ResInfoV1>(), packed
MagicLen == 4   \* 'H', 'B', 'T', 'P'

\* A Response: its stream and bodylen.  state is "unread" while bodyok is
\* FALSE; then bodys is None ("none") or holds the bytes of the stream from
\* offset `from` on ("has").  lost counts the bytes of reads cut short.
NoResponse == [conn |-> None, body |-> 0, state |-> "unread", from |-> 0,
               lost |-> 0]
NoAnswer == [head |-> 0, body |-> 0]

\* send: version 2 unless set_use_version was called; `as u16` and `as u32`.
Header ==
  [version |-> IF req.use_version > 0 THEN req.use_version ELSE 2,
   len_cmd |-> req.cmd % U16, len_arg |-> req.arg % U16,
   len_head |-> req.head % U32, len_body |-> req.body % U32]

\* What send writes of each part: the buffer, whatever the header says of it,
\* but nothing when the field of the header is 0.
ClientLen ==
  [info  |-> InfoLen,
   magic |-> IF Header.version >= 2 THEN MagicLen ELSE 0,
   cmd   |-> IF Header.len_cmd > 0 THEN req.cmd ELSE 0,
   arg   |-> IF Header.len_arg > 0 THEN req.arg ELSE 0,
   head  |-> req.head,
   body  |-> req.body]

\* Mutant: the magic is expected of version 1 too.
ServerLenMagic ==
  [info  |-> InfoLen,
   magic |-> MagicLen,
   cmd   |-> Header.len_cmd,
   arg   |-> Header.len_arg,
   head  |-> Header.len_head]

\* What parse_conn reads for each part.
ServerLen ==
  [info  |-> InfoLen,
   magic |-> IF Header.version >= 2 THEN MagicLen ELSE 0,
   cmd   |-> Header.len_cmd,
   arg   |-> Header.len_arg,
   head  |-> Header.len_head]

Parts == {"info", "magic", "cmd", "arg", "head", "body"}
After == [info |-> "magic", magic |-> "cmd", cmd |-> "arg", arg |-> "head",
          head |-> "body", body |-> "rinfo"]

Init ==
  /\ req \in Requests
  /\ sended = FALSE /\ conn \in {None, Given}
  /\ call = "none" /\ at = "idle" /\ cur = None /\ calls = 0
  /\ resp = NoResponse /\ cr = 0
  /\ link = [c \in Conns |-> IF c = conn THEN "open" ELSE "fresh"]
  /\ up = [c \in Conns |-> 0]
  /\ srv = [c \in Conns |-> "wait"]
  /\ rd = [c \in Conns |-> 0]
  /\ ans = [c \in Conns |-> NoAnswer]
  /\ down = [c \in Conns |-> 0]
  /\ ran = {}

----------------------------------------------------------------------------
(* The client: send *)

\* dors and donrs go through send; res only reads.
Sends == {"dors", "donrs"}

Count == calls < MaxCalls /\ calls' = calls + 1

\* Mutant: the connection of a failed call is kept.
ReturnHolding ==
  /\ call' = "none" /\ at' = "idle" /\ cur' = cur
  /\ link' = link

\* A call ends and drops the connection it holds, if any.
Return ==
  /\ call' = "none" /\ at' = "idle" /\ cur' = None
  /\ link' = [c \in Conns |-> IF c = cur THEN "closed" ELSE link[c]]

\* Mutant: the Request is not marked as sent.
SendOnUnmarked(o, c) ==
  IF sended
    THEN /\ call' = "none" /\ at' = "idle" /\ cur' = None
         /\ link' = [link EXCEPT ![c] = "closed"]
         /\ UNCHANGED sended
    ELSE /\ call' = o /\ at' = "info" /\ cur' = c
         /\ link' = [link EXCEPT ![c] = "open"]
         /\ UNCHANGED sended

\* send, once it has the connection c: a Request that was sent before is
\* refused and c is dropped; else it is marked before anything is written.
SendOn(o, c) ==
  IF sended
    THEN /\ call' = "none" /\ at' = "idle" /\ cur' = None
         /\ link' = [link EXCEPT ![c] = "closed"]
         /\ UNCHANGED sended
    ELSE /\ call' = o /\ at' = "info" /\ cur' = c
         /\ link' = [link EXCEPT ![c] = "open"]
         /\ sended' = TRUE

\* On a Request that holds no connection, connect is awaited first.
SendCall(o) ==
  /\ call = "none" /\ Count
  /\ IF conn = None
       THEN /\ call' = o /\ at' = "connect"
            /\ UNCHANGED <<sended, conn, cur, link>>
       ELSE conn' = None /\ SendOn(o, conn)
  /\ UNCHANGED <<req, respVars, up, servVars>>

Connect(c) ==
  /\ at = "connect" /\ link[c] = "fresh"
  /\ SendOn(call, c)
  /\ UNCHANGED <<req, conn, calls, respVars, up, servVars>>

\* One write_all_async (none for a part of length 0).  After the body donrs
\* keeps the connection in the Request, dors goes on to the response.
Write ==
  /\ call \in Sends /\ at \in Parts
  /\ up' = [up EXCEPT ![cur] = @ + ClientLen[at]]
  /\ IF at = "body" /\ call = "donrs"
       THEN conn' = cur /\ cur' = None /\ at' = "idle" /\ call' = "none"
       ELSE at' = After[at] /\ UNCHANGED <<conn, cur, call>>
  /\ UNCHANGED <<req, sended, calls, respVars, link, servVars>>

\* The user may send only once but may call res() as often as it likes.
ResCall ==
  /\ call = "none" /\ Count
  /\ conn # None      \* else Err "send?" at once
  /\ conn' = None /\ cur' = conn
  /\ call' = "res" /\ at' = "rinfo"
  /\ UNCHANGED <<req, sended, respVars, link, up, servVars>>

\* An await of the call fails (connect at the latest after tmout), or the
\* future of the call is dropped.  A write may have been carried out in part.
GiveUp ==
  /\ call \in Sends \union {"res"}
  /\ Return
  /\ IF at \in Parts /\ ClientLen[at] > 0
       THEN \E n \in {0, ClientLen[at] - 1} : up' = [up EXCEPT ![cur] = @ + n]
       ELSE UNCHANGED up
  /\ UNCHANGED <<reqVars, calls, respVars, servVars>>

----------------------------------------------------------------------------
(* The client: response and the Response it returns *)

\* The lengths in the header of a response, `as u32`.
ResHead(c) == ans[c].head % U32
ResBody(c) == ans[c].body % U32

\* A head above the limit is an error, and the connection is dropped.
ReadInfo ==
  /\ at = "rinfo" /\ down[cur] >= ResLen
  /\ cr' = ResLen
  /\ IF ResHead(cur) > ResMaxHeads
       THEN Return
       ELSE at' = "rhead" /\ UNCHANGED <<call, cur, link>>
  /\ UNCHANGED <<reqVars, calls, resp, up, servVars>>

\* Mutant: the head is not taken off the stream.
ReadHeadKept ==
  /\ at = "rhead" /\ down[cur] >= cr + ResHead(cur)
  /\ cr' = cr
  /\ resp' = [NoResponse EXCEPT !.conn = cur, !.body = ResBody(cur)]
  /\ call' = "none" /\ at' = "idle" /\ cur' = None
  /\ UNCHANGED <<reqVars, calls, link, up, servVars>>

ReadHead ==
  /\ at = "rhead" /\ down[cur] >= cr + ResHead(cur)
  /\ cr' = cr + ResHead(cur)
  /\ resp' = [NoResponse EXCEPT !.conn = cur, !.body = ResBody(cur)]
  /\ call' = "none" /\ at' = "idle" /\ cur' = None
  /\ UNCHANGED <<reqVars, calls, link, up, servVars>>

\* get_bodys of the Response, by one caller at a time.  Nothing is read when
\* bodyok is set or the body is empty; bodyok is set in either case.
BodyCall ==
  /\ call = "none" /\ resp.conn # None /\ Count
  /\ IF resp.state # "unread" \/ resp.body = 0
       THEN /\ resp' = [resp EXCEPT !.state = IF @ = "unread" THEN "none" ELSE @]
            /\ UNCHANGED <<call, at>>
       ELSE call' = "body" /\ at' = "rbody" /\ UNCHANGED resp
  /\ UNCHANGED <<reqVars, cur, cr, link, up, servVars>>

EndBody == call' = "none" /\ at' = "idle"

BodyRead ==
  /\ at = "rbody" /\ down[resp.conn] >= cr + resp.body
  /\ cr' = cr + resp.body
  /\ resp' = [resp EXCEPT !.state = "has", !.from = cr]
  /\ EndBody
  /\ UNCHANGED <<reqVars, cur, calls, link, up, servVars>>

\* The read fails (bodyok is set all the same), or its future is dropped
\* (bodyok is not).  Bytes it had read are lost.
BodyCut ==
  /\ at = "rbody"
  /\ \E n \in {0, resp.body - 1} :
       /\ down[resp.conn] >= cr + n /\ cr' = cr + n
       /\ \E s \in {"unread", "none"} :
            resp' = [resp EXCEPT !.state = s, !.lost = @ + n]
  /\ EndBody
  /\ UNCHANGED <<reqVars, cur, calls, link, up, servVars>>

----------------------------------------------------------------------------
(* The server *)

Parsing == {"info", "magic", "cmd", "arg", "head"}

\* The listener hands the connection to a task of run_cli.
Accept(c) ==
  /\ srv[c] = "wait" /\ link[c] # "fresh"
  /\ srv' = [srv EXCEPT ![c] = "info"]
  /\ UNCHANGED <<reqVars, callVars, respVars, link, up, rd, ans, down, ran>>

\* The first check of parse_conn, as it is written.
NotFoundVersion == Header.version < 1 /\ Header.version > 2

\* len_cmd + len_arg is added in u16, and widened to u64 afterwards.
Overflows == Header.len_cmd + Header.len_arg >= U16
SumLen == (Header.len_cmd + Header.len_arg) % U16

\* Mutant: only the arguments count.
OutOfLimitArgs ==
  \/ NotFoundVersion
  \/ Overflows /\ Build = "panic"
  \/ Header.len_arg > MaxOther
  \/ Header.len_head > MaxHeads

\* parse_conn gives up on the header: with an error, or with the panic of a
\* build that checks arithmetic.
OutOfLimit ==
  \/ NotFoundVersion
  \/ Overflows /\ Build = "panic"
  \/ SumLen > MaxOther
  \/ Header.len_head > MaxHeads

ParseInfo(c) ==
  /\ srv[c] = "info" /\ up[c] >= InfoLen
  /\ rd' = [rd EXCEPT ![c] = InfoLen]
  /\ srv' = [srv EXCEPT ![c] = IF OutOfLimit THEN "over" ELSE "magic"]
  /\ UNCHANGED <<reqVars, callVars, respVars, link, up, ans, down, ran>>

\* The following parts, each read in full or skipped when its length is 0.
\* After the heads the Context goes to the handlers of its control.
ParsePart(c) ==
  /\ srv[c] \in Parsing \ {"info"}
  /\ up[c] >= rd[c] + ServerLen[srv[c]]
  /\ rd' = [rd EXCEPT ![c] = @ + ServerLen[srv[c]]]
  /\ srv' = [srv EXCEPT ![c] = IF @ = "head" THEN "run" ELSE After[@]]
  /\ ran' = IF srv[c] = "head" THEN ran \union {c} ELSE ran
  /\ UNCHANGED <<reqVars, callVars, respVars, link, up, ans, down>>

\* A read of parse_conn fails, or the bytes are not what they should be (no
\* magic, no UTF-8): run_cli prints the error and drops the connection.
ParseFail(c) ==
  /\ srv[c] \in Parsing
  /\ srv' = [srv EXCEPT ![c] = "over"]
  /\ UNCHANGED <<reqVars, callVars, respVars, link, up, rd, ans, down, ran>>

\* run_cli is past parse_conn: handlers run, or a response is written.
Running == {"run", "rinfo", "rhead", "rbody", "answered"}

\* A handler (or run_cli itself) begins a response, of any lengths.
Answer(c) ==
  /\ srv[c] = "run"
  /\ \E h \in ResHeads, b \in ResBodies :
       ans' = [ans EXCEPT ![c] = [head |-> h, body |-> b]]
  /\ srv' = [srv EXCEPT ![c] = "rinfo"]
  /\ UNCHANGED <<reqVars, callVars, respVars, link, up, rd, down, ran>>

\* Its chunks are written one after the other.  The connection lives on with
\* the Context, or with the handler that took it over.
AnswerWrite(c) ==
  /\ \/ /\ srv[c] = "rinfo"
        /\ down' = [down EXCEPT ![c] = ResLen]
        /\ srv' = [srv EXCEPT ![c] = "rhead"]
     \/ /\ srv[c] = "rhead"
        /\ down' = [down EXCEPT ![c] = @ + ans[c].head]
        /\ srv' = [srv EXCEPT ![c] = "rbody"]
     \/ /\ srv[c] = "rbody"
        /\ down' = [down EXCEPT ![c] = @ + ans[c].body]
        /\ srv' = [srv EXCEPT ![c] = "answered"]
  /\ UNCHANGED <<reqVars, callVars, respVars, link, up, rd, ans, ran>>

\* The connection is dropped: the handlers are through, with a response,
\* without one, or with one of which a write failed.
RunEnd(c) ==
  /\ srv[c] \in Running
  /\ srv' = [srv EXCEPT ![c] = "over"]
  /\ UNCHANGED <<reqVars, callVars, respVars, link, up, rd, ans, down, ran>>

----------------------------------------------------------------------------
ClientStep == (\E c \in Conns : Connect(c)) \/ Write \/ ReadInfo \/ ReadHead \/ GiveUp
Parse(c) == ParseInfo(c) \/ ParsePart(c) \/ ParseFail(c)

Next ==
  \/ \E o \in Sends : SendCall(o)
  \/ ResCall \/ BodyCall \/ BodyRead \/ BodyCut
  \/ ClientStep
  \/ \E c \in Conns : \/ Accept(c) \/ Parse(c)
                      \/ Answer(c) \/ AnswerWrite(c) \/ RunEnd(c)

Spec == Init /\ [][Next]_vars

\* The connection the call in progress waits for.
Holding == IF call = "body" THEN resp.conn ELSE cur

\* The call sees that the server dropped the connection.
SeesEnd == Holding # None /\ srv[Holding] = "over" /\ (GiveUp \/ BodyCut)

\* What is there to be read is read, what the peer is reading can be written,
\* and the network tells an end that the other dropped the connection.  Only
\* connect is under a timeout that ends it while it is pending.  Nothing is
\* assumed of accept, of handlers, of the user, nor of a silent peer.
Fairness ==
  /\ WF_vars(at = "connect" /\ ((\E c \in Conns : Connect(c)) \/ GiveUp))
  /\ WF_vars(at \in Parts /\ srv[cur] \in Parsing /\ Write)
  /\ WF_vars(ReadInfo \/ ReadHead \/ BodyRead)
  /\ WF_vars(SeesEnd)
  /\ \A c \in Conns : /\ WF_vars(ParseInfo(c) \/ ParsePart(c))
                      /\ WF_vars(link[c] = "closed" /\ ParseFail(c))

FairSpec == Spec /\ Fairness
----------------------------------------------------------------------------
(* Properties *)

ClientPlaces == Parts \union {"idle", "connect", "rinfo", "rhead", "rbody"}
ServerPlaces == Parsing \union Running \union {"wait", "over"}
Answers == [head : ResHeads \union {0}, body : ResBodies \union {0}]

RequestTyped ==
  /\ req \in Requests
  /\ conn \in Conns \union {None}
  /\ calls \in 0..MaxCalls

CallTyped ==
  /\ call \in Sends \union {"none", "res", "body"}
  /\ at \in ClientPlaces
  /\ cur \in Conns \union {None}
  /\ cur # None <=> at \in Parts \union {"rinfo", "rhead"}
  /\ call = "none" => at = "idle"
  /\ at \in Parts \union {"connect"} => call \in Sends
  /\ link \in [Conns -> {"fresh", "open", "closed"}]
  /\ up \in [Conns -> Nat]

Responses == [conn : Conns \union {None}, body : Nat,
              state : {"unread", "none", "has"}, from : Nat, lost : Nat]

ResponseTyped ==
  /\ resp \in Responses
  /\ call = "body" <=> at = "rbody"
  /\ at = "rbody" => resp.conn # None /\ resp.body > 0
  /\ cr \in Nat

ServerTyped ==
  /\ srv \in [Conns -> ServerPlaces]
  /\ rd \in [Conns -> Nat]
  /\ ans \in [Conns -> Answers]
  /\ down \in [Conns -> Nat]
  /\ ran \subseteq Conns

\* The fields hold values of their types, and a call holds a connection
\* exactly while it writes or reads.
TypeOK ==
  sended \in BOOLEAN /\ RequestTyped /\ CallTyped /\ ResponseTyped /\ ServerTyped

\* The lengths of the Request fit the fields of the header.
Fits == /\ req.cmd < U16 /\ req.arg < U16
        /\ req.head < U32 /\ req.body < U32

\* Where each part starts in what the client sends.
StartOf ==
  [info  |-> 0,
   magic |-> InfoLen,
   cmd   |-> InfoLen + ClientLen.magic,
   arg   |-> InfoLen + ClientLen.magic + ClientLen.cmd,
   head  |-> InfoLen + ClientLen.magic + ClientLen.cmd + ClientLen.arg,
   body  |-> InfoLen + ClientLen.magic + ClientLen.cmd + ClientLen.arg
               + ClientLen.head]

\* The part the server reads next.
Reading(c) == IF srv[c] = "run" THEN "body" ELSE srv[c]

\* Client and server agree, on every connection and whatever failed before,
\* where each part of a Request that fits starts: the client starts to write
\* it, and the server to read it, at the same byte, and the handlers find the
\* stream at the first byte of the body.  With lengths that do not fit their
\* fields the server may be behind, never ahead: it does not wait for a byte
\* that no part the client has still to write contains.
Aligned ==
  /\ at \in Parts => up[cur] = StartOf[at]
  /\ \A c \in Conns :
       srv[c] \in Parsing \union {"run"} =>
         /\ Fits => rd[c] = StartOf[Reading(c)]
         /\ rd[c] <= StartOf[Reading(c)]
         /\ srv[c] \in Parsing => rd[c] + ServerLen[srv[c]] <= StartOf[After[srv[c]]]

\* One Request is executed at most once, however often the user calls dors,
\* donrs and res again after an error: handlers saw it on one connection only.
AtMostOnce == \A c, d \in ran : c = d

\* A request that gets past the header of parse_conn makes the server read,
\* and allocate, no more than its limits allow.
LimitSound ==
  \A c \in Conns :
    srv[c] \in (Parsing \ {"info"}) \union {"run"} =>
      /\ ServerLen.cmd + ServerLen.arg <= MaxOther
      /\ ServerLen.head <= MaxHeads

\* "not found version!": a request that gets past the header has one of the
\* two versions of the protocol.
VersionSupported ==
  \A c \in Conns :
    srv[c] \in (Parsing \ {"info"}) \union {"run"} => Header.version \in 1..2

\* The body a Response returns is the one the server wrote on the connection
\* of this request, from its first byte, unless a read cut short lost bytes.
ResponseExact ==
  resp.state = "has" /\ resp.lost = 0 =>
    LET a == ans[resp.conn]
    IN  a.head < U32 /\ a.body < U32 =>
          /\ resp.conn \in ran
          /\ resp.from = ResLen + a.head
          /\ resp.body = a.body

\* The call waits for what others have still to do, or for what will never
\* come: it is a res() on a connection nothing was ever sent on, or it reads a
\* body of which an earlier read, cut short, has lost bytes.
HeldUp ==
  /\ Holding # None
  /\ \/ srv[Holding] \in {"wait"} \union (Running \ {"answered"})
     \/ srv[Holding] = "answered" /\ at \in Parts
     \/ srv[Holding] = "answered" /\ at = "rbody" /\ resp.lost > 0
     \/ at = "rinfo" /\ up[Holding] = 0

\* The two ends never wait for each other.  Whatever lengths were truncated
\* and wherever the other end drops the connection, a call of the Request, or
\* the reading of a body, is kept for good in the cases of HeldUp only, and
\* parse_conn only by a client that opened a connection and sends nothing.
AwaitsEnd ==
  /\ []<>(call = "none" \/ HeldUp)
  /\ \A c \in Conns : []<>(srv[c] \notin Parsing \/ (link[c] = "open" /\ up[c] = 0))

\* The Request keeps the promise stated in RequestPromise: an answer is given
\* once its header is written, and the Response is what the call returned.
Promise == INSTANCE RequestPromise
             WITH Places <- Conns, Sizes <- ResBodies \union {0}, Width <- U32,
                  asked <- sended, executed <- ran,
                  answered <- {<<c, ans[c].body>> : c \in {d \in ran : down[d] > 0}},
                  reply <- IF resp.conn = None THEN {}
                           ELSE {<<resp.conn, resp.body>>},
                  body <- resp.state
PromiseKept == Promise!Spec
=============================================================================
