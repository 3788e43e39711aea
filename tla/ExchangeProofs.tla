--------------------------- MODULE ExchangeProofs ---------------------------
(***************************************************************************)
(* Theorems about Exchange, for any number of connections and calls, any   *)
(* lengths, limits and widths of the header's fields, and both builds.     *)
(***************************************************************************)
EXTENDS Exchange, TLAPS

\* The lengths are numbers, whatever the Request.
LEMMA LengthsAreNat ==
  ASSUME TypeOK
  PROVE  /\ \A p \in Parts : ClientLen[p] \in Nat
         /\ \A p \in Parsing : ServerLen[p] \in Nat
         /\ Header.version \in Nat
         /\ Header.len_cmd \in 0..(U16 - 1) /\ Header.len_arg \in 0..(U16 - 1)
         /\ Header.len_head \in 0..(U32 - 1) /\ Header.len_body \in 0..(U32 - 1)
<1>1. req \in [use_version : Nat, cmd : Nat, arg : Nat, head : Nat, body : Nat]
  BY ExchangeAssumption DEF TypeOK, RequestTyped
<1>2. /\ Header.version \in Nat
      /\ Header.len_cmd \in 0..(U16 - 1) /\ Header.len_arg \in 0..(U16 - 1)
      /\ Header.len_head \in 0..(U32 - 1) /\ Header.len_body \in 0..(U32 - 1)
  BY <1>1, ExchangeAssumption DEF Header
<1>3. \A p \in Parts : ClientLen[p] \in Nat
  BY <1>1, <1>2 DEF Parts, ClientLen, InfoLen, MagicLen
<1>4. \A p \in Parsing : ServerLen[p] \in Nat
  BY <1>2 DEF Parsing, ServerLen, InfoLen, MagicLen
<1> QED
  BY <1>2, <1>3, <1>4

\* The lengths of an answer are numbers.
LEMMA AnswersAreNat ==
  ASSUME NEW a \in Answers
  PROVE  a.head \in Nat /\ a.body \in Nat
<1>1. \A n \in (ResHeads \union ResBodies) \union {0} : n \in Nat
  BY ExchangeAssumption
<1>2. a.head \in ResHeads \union {0} /\ a.body \in ResBodies \union {0}
  BY DEF Answers
<1> QED
  BY <1>1, <1>2

\* The types of the fields of a Response.
LEMMA ResponseFields ==
  ASSUME NEW r \in Responses
  PROVE  /\ r.conn \in Conns \union {None} /\ r.state \in {"unread", "none", "has"}
         /\ r.body \in Nat /\ r.from \in Nat /\ r.lost \in Nat
BY DEF Responses

\* What get_bodys assigns leaves a Response well typed.
LEMMA ResponseUpdate ==
  ASSUME NEW r \in Responses, NEW s \in {"unread", "none", "has"}, NEW n \in Nat
  PROVE  /\ [r EXCEPT !.state = s] \in Responses
         /\ [r EXCEPT !.state = s, !.from = n] \in Responses
         /\ [r EXCEPT !.state = s, !.lost = n] \in Responses
BY DEF Responses

\* A fresh Request, without calls, is well typed.
LEMMA TypeInit == Init => TypeOK
<1> SUFFICES ASSUME Init PROVE TypeOK
  OBVIOUS
<1> USE ExchangeAssumption DEF Init
<1>1. sended \in BOOLEAN
  OBVIOUS
<1>2. RequestTyped
  BY DEF RequestTyped
<1>3. CallTyped
  BY DEF CallTyped, ClientPlaces, Parts, Sends
<1>4. ResponseTyped
  BY DEF ResponseTyped, Responses, NoResponse
<1>5. ServerTyped
  BY DEF ServerTyped, ServerPlaces, Answers, NoAnswer
<1> QED
  BY <1>1, <1>2, <1>3, <1>4, <1>5 DEF TypeOK

\* sended is only ever assigned a Boolean.
LEMMA FlagStep ==
  ASSUME TypeOK, Next
  PROVE  sended' \in BOOLEAN
<1> USE DEF TypeOK, reqVars
<1>1. ASSUME NEW o \in Sends, SendCall(o) PROVE sended' \in BOOLEAN
  BY <1>1 DEF SendCall, SendOn
<1>2. ASSUME NEW c \in Conns, Connect(c) PROVE sended' \in BOOLEAN
  BY <1>2 DEF Connect, SendOn
<1>3. CASE Write \/ ReadInfo \/ ReadHead \/ GiveUp
  BY <1>3 DEF Write, ReadInfo, ReadHead, GiveUp
<1>4. CASE ResCall \/ BodyCall \/ BodyRead \/ BodyCut
  BY <1>4 DEF ResCall, BodyCall, BodyRead, BodyCut
<1>5. ASSUME NEW c \in Conns, \/ Accept(c) \/ Parse(c) \/ Answer(c)
                              \/ AnswerWrite(c) \/ RunEnd(c)
      PROVE  sended' \in BOOLEAN
  BY <1>5 DEF Accept, Parse, ParseInfo, ParsePart, ParseFail, Answer, AnswerWrite, RunEnd
<1> QED
  BY <1>1, <1>2, <1>3, <1>4, <1>5 DEF Next, ClientStep

\* The Request keeps its type.
LEMMA RequestStep ==
  ASSUME TypeOK, Next
  PROVE  RequestTyped'
<1> USE ExchangeAssumption DEF TypeOK, RequestTyped, CallTyped, Count, reqVars,
        callVars
<1>1. ASSUME NEW o \in Sends, SendCall(o) PROVE RequestTyped'
  BY <1>1 DEF SendCall
<1>2. ASSUME NEW c \in Conns, Connect(c) PROVE RequestTyped'
  BY <1>2 DEF Connect
<1>3. CASE Write \/ ReadInfo \/ ReadHead \/ GiveUp
  BY <1>3 DEF Write, ReadInfo, ReadHead, GiveUp
<1>4. CASE ResCall \/ BodyCall \/ BodyRead \/ BodyCut
  <2>1. CASE ResCall
    BY <2>1 DEF ResCall
  <2>2. CASE BodyCall
    BY <2>2 DEF BodyCall
  <2>3. CASE BodyRead
    BY <2>3 DEF BodyRead
  <2>4. CASE BodyCut
    BY <2>4 DEF BodyCut
  <2> QED
    BY <1>4, <2>1, <2>2, <2>3, <2>4
<1>5. ASSUME NEW c \in Conns, \/ Accept(c) \/ Parse(c) \/ Answer(c)
                              \/ AnswerWrite(c) \/ RunEnd(c)
      PROVE  RequestTyped'
  BY <1>5 DEF Accept, Parse, ParseInfo, ParsePart, ParseFail, Answer, AnswerWrite, RunEnd
<1> QED
  BY <1>1, <1>2, <1>3, <1>4, <1>5 DEF Next, ClientStep

\* A call holds a connection exactly while it writes or reads.
LEMMA CallStep ==
  ASSUME TypeOK, Next
  PROVE  CallTyped'
<1> USE ExchangeAssumption DEF TypeOK, RequestTyped, CallTyped, ResponseTyped,
        Count, Return, EndBody, Sends, Parts, ClientPlaces, reqVars, callVars, respVars, servVars
<1>1. ASSUME NEW o \in Sends, SendCall(o) PROVE CallTyped'
  BY <1>1 DEF SendCall, SendOn
<1>2. ASSUME NEW c \in Conns, Connect(c) PROVE CallTyped'
  BY <1>2 DEF Connect, SendOn
<1>3. CASE Write
  <2>1. up' \in [Conns -> Nat]
    BY <1>3, LengthsAreNat DEF Write
  <2> QED
    BY <1>3, <2>1 DEF Write, After
<1>4. CASE ReadInfo \/ ReadHead
  BY <1>4 DEF ReadInfo, ReadHead
<1>5. CASE GiveUp
  <2>1. up' \in [Conns -> Nat]
    BY <1>5, LengthsAreNat DEF GiveUp
  <2> QED
    BY <1>5, <2>1 DEF GiveUp
<1>6. CASE ResCall \/ BodyCall \/ BodyRead \/ BodyCut
  BY <1>6 DEF ResCall, BodyCall, BodyRead, BodyCut
<1>7. ASSUME NEW c \in Conns, \/ Accept(c) \/ Parse(c) \/ Answer(c)
                              \/ AnswerWrite(c) \/ RunEnd(c)
      PROVE  CallTyped'
  BY <1>7 DEF Accept, Parse, ParseInfo, ParsePart, ParseFail, Answer, AnswerWrite, RunEnd
<1> QED
  BY <1>1, <1>2, <1>3, <1>4, <1>5, <1>6, <1>7 DEF Next, ClientStep

\* The Response keeps its type; get_bodys reads from a stream it has.
LEMMA ResponseStep ==
  ASSUME TypeOK, Next
  PROVE  ResponseTyped'
<1> USE ExchangeAssumption DEF TypeOK, CallTyped, ResponseTyped, Sends, Parts,
        respVars, callVars
<1>1. ASSUME NEW o \in Sends, SendCall(o) PROVE ResponseTyped'
  BY <1>1 DEF SendCall, SendOn
<1>2. ASSUME NEW c \in Conns, Connect(c) PROVE ResponseTyped'
  BY <1>2 DEF Connect, SendOn
<1>3. CASE Write
  BY <1>3 DEF Write, After
<1>4. CASE ReadInfo
  BY <1>4 DEF ReadInfo, Return, ResLen
<1>5. CASE ReadHead
  <2>1. ans[cur] \in Answers /\ cur \in Conns
    BY <1>5 DEF ReadHead, ServerTyped
  <2>2. ResHead(cur) \in Nat /\ ResBody(cur) \in Nat
    BY <2>1, AnswersAreNat, ExchangeAssumption DEF ResHead, ResBody
  <2>3. resp' \in Responses
    BY <1>5, <2>1, <2>2 DEF ReadHead, NoResponse, Responses
  <2> QED
    BY <1>5, <2>2, <2>3 DEF ReadHead
<1>6. CASE GiveUp
  BY <1>6 DEF GiveUp, Return
<1>7. CASE ResCall
  BY <1>7 DEF ResCall
<1>8. CASE BodyCall
  <2>1. resp' \in Responses
    BY <1>8, ResponseUpdate, ResponseFields DEF BodyCall
  <2>2. call' = "body" => resp'.conn # None /\ resp'.body > 0
    BY <1>8, ResponseFields DEF BodyCall
  <2> QED
    BY <1>8, <2>1, <2>2 DEF BodyCall
<1>9. CASE BodyRead
  <2>1. resp' \in Responses
    BY <1>9, ResponseUpdate DEF BodyRead
  <2> QED
    BY <1>9, <2>1, ResponseFields DEF BodyRead, EndBody
<1>10. CASE BodyCut
  <2>1. PICK n \in {0, resp.body - 1}, s \in {"unread", "none"} :
          cr' = cr + n /\ resp' = [resp EXCEPT !.state = s, !.lost = @ + n]
    BY <1>10 DEF BodyCut
  <2>2. n \in Nat /\ resp.lost + n \in Nat
    BY <1>10, ResponseFields DEF BodyCut
  <2>3. resp' \in Responses
    BY <2>1, <2>2, ResponseUpdate
  <2> QED
    BY <1>10, <2>1, <2>2, <2>3 DEF BodyCut, EndBody
<1>11. ASSUME NEW c \in Conns, \/ Accept(c) \/ Parse(c) \/ Answer(c)
                               \/ AnswerWrite(c) \/ RunEnd(c)
       PROVE  ResponseTyped'
  BY <1>11 DEF Accept, Parse, ParseInfo, ParsePart, ParseFail, Answer, AnswerWrite, RunEnd
<1> QED
  BY <1>1, <1>2, <1>3, <1>4, <1>5, <1>6, <1>7, <1>8, <1>9, <1>10, <1>11
     DEF Next, ClientStep

\* What the server knows of its connections keeps its type.
LEMMA ServerStep ==
  ASSUME TypeOK, Next
  PROVE  ServerTyped'
<1> USE DEF TypeOK, ServerTyped, ServerPlaces, Parsing, Running, servVars
<1>1. ASSUME NEW o \in Sends, SendCall(o) PROVE ServerTyped'
  BY <1>1 DEF SendCall
<1>2. ASSUME NEW c \in Conns, Connect(c) PROVE ServerTyped'
  BY <1>2 DEF Connect
<1>3. CASE Write \/ ReadInfo \/ ReadHead \/ GiveUp
  BY <1>3 DEF Write, ReadInfo, ReadHead, GiveUp
<1>4. CASE ResCall \/ BodyCall \/ BodyRead \/ BodyCut
  BY <1>4 DEF ResCall, BodyCall, BodyRead, BodyCut
<1>5. ASSUME NEW c \in Conns, Accept(c) \/ ParseInfo(c) \/ ParseFail(c) \/ RunEnd(c)
      PROVE  ServerTyped'
  BY <1>5 DEF Accept, ParseInfo, ParseFail, RunEnd, InfoLen
<1>6. ASSUME NEW c \in Conns, ParsePart(c) PROVE ServerTyped'
  <2>1. ServerLen[srv[c]] \in Nat
    BY <1>6, LengthsAreNat DEF ParsePart
  <2>2. rd' \in [Conns -> Nat]
    BY <1>6, <2>1 DEF ParsePart
  <2>3. srv' \in [Conns -> ServerPlaces]
    BY <1>6 DEF ParsePart, After
  <2> QED
    BY <1>6, <2>2, <2>3 DEF ParsePart
<1>7. ASSUME NEW c \in Conns, Answer(c) PROVE ServerTyped'
  BY <1>7 DEF Answer, Answers
<1>8. ASSUME NEW c \in Conns, AnswerWrite(c) PROVE ServerTyped'
  <2>1. ans[c].head \in Nat /\ ans[c].body \in Nat
    BY AnswersAreNat
  <2>2. down' \in [Conns -> Nat]
    BY <1>8, <2>1 DEF AnswerWrite, ResLen
  <2> QED
    BY <1>8, <2>2 DEF AnswerWrite
<1> QED
  BY <1>1, <1>2, <1>3, <1>4, <1>5, <1>6, <1>7, <1>8 DEF Next, ClientStep, Parse

\* A step of somebody else leaves the types alone.
LEMMA TypeStutter ==
  ASSUME TypeOK, UNCHANGED vars
  PROVE  TypeOK'
BY DEF TypeOK, RequestTyped, CallTyped, ResponseTyped, ServerTyped, vars

\* Every reachable state is well typed: a call holds a connection exactly
\* while it writes or reads it.
THEOREM TypeCorrect == Spec => []TypeOK
<1>1. TypeOK /\ [Next]_vars => TypeOK'
  BY FlagStep, RequestStep, CallStep, ResponseStep, ServerStep, TypeStutter
     DEF TypeOK
<1> QED
  BY <1>1, TypeInit, PTL DEF Spec

----------------------------------------------------------------------------
(* A Request is executed at most once *)

\* Only one connection ever carries bytes of the Request: the one the send
\* that set `sended` was given.
OnceInv ==
  /\ \A c \in Conns : up[c] > 0 => sended
  /\ at \in Parts => sended
  /\ \A c, d \in Conns : up[c] > 0 /\ up[d] > 0 => c = d
  /\ at \in Parts => \A c \in Conns : up[c] > 0 => c = cur
  /\ \A c \in Conns : srv[c] \in Parsing \ {"info"} => up[c] > 0
  /\ \A c \in ran : up[c] > 0

\* Initially nothing was sent.
LEMMA OnceInit == Init => OnceInv
BY DEF Init, OnceInv, Parts, Parsing

\* Every step of the client and the server keeps OnceInv.
LEMMA OnceStep ==
  ASSUME TypeOK, OnceInv, Next
  PROVE  OnceInv'
<1> USE ExchangeAssumption DEF TypeOK, CallTyped, ServerTyped, OnceInv, Parts,
        Parsing, Return, EndBody, reqVars, callVars, respVars, servVars
<1>1. ASSUME NEW o \in Sends, SendCall(o) PROVE OnceInv'
  BY <1>1 DEF SendCall, SendOn, RequestTyped
<1>2. ASSUME NEW c \in Conns, Connect(c) PROVE OnceInv'
  BY <1>2 DEF Connect, SendOn
<1>3. CASE Write
  <2>1. /\ cur \in Conns
        /\ \E n \in Nat : up' = [up EXCEPT ![cur] = @ + n]
    BY <1>3, LengthsAreNat DEF Write
  <2>2. at' \in Parts => at \in Parts /\ cur' = cur
    BY <1>3 DEF Write, After
  <2> QED
    BY <1>3, <2>1, <2>2 DEF Write
<1>4. CASE ReadInfo \/ ReadHead
  BY <1>4 DEF ReadInfo, ReadHead
<1>5. CASE GiveUp
  <2>1. CASE at \in Parts
    <3>1. /\ cur \in Conns
          /\ \E n \in Nat : up' = [up EXCEPT ![cur] = @ + n]
      BY <1>5, <2>1, LengthsAreNat DEF GiveUp
    <3> QED
      BY <1>5, <2>1, <3>1 DEF GiveUp
  <2>2. CASE at \notin Parts
    BY <1>5, <2>2 DEF GiveUp
  <2> QED
    BY <2>1, <2>2
<1>6. CASE ResCall \/ BodyCall
  BY <1>6 DEF ResCall, BodyCall
<1>7. CASE BodyRead \/ BodyCut
  BY <1>7 DEF BodyRead, BodyCut
<1>8. ASSUME NEW c \in Conns, Accept(c) \/ ParseFail(c) \/ Answer(c) \/ AnswerWrite(c) \/ RunEnd(c)
      PROVE  OnceInv'
  BY <1>8 DEF Accept, ParseFail, Answer, AnswerWrite, RunEnd
<1>9. ASSUME NEW c \in Conns, ParseInfo(c) \/ ParsePart(c) PROVE OnceInv'
  BY <1>9 DEF ParseInfo, ParsePart, After, InfoLen
<1> QED
  BY <1>1, <1>2, <1>3, <1>4, <1>5, <1>6, <1>7, <1>8, <1>9 DEF Next, ClientStep, Parse

\* No two connections ever carry bytes of one Request.
THEOREM OnceCorrect == Spec => []OnceInv
<1>1. TypeOK /\ OnceInv /\ [Next]_vars => OnceInv'
  <2>1. CASE UNCHANGED vars
    BY <2>1 DEF OnceInv, vars
  <2> QED
    BY <2>1, OnceStep
<1> QED
  BY <1>1, OnceInit, TypeCorrect, PTL DEF Spec

\* Handlers see one Request on at most one connection, whatever fails and
\* however often the user tries again: `sended` is set before the first byte
\* is written and never reset.
THEOREM ExecutedAtMostOnce == Spec => []AtMostOnce
<1>1. TypeOK /\ OnceInv => AtMostOnce
  BY DEF TypeOK, ServerTyped, OnceInv, AtMostOnce
<1> QED
  BY <1>1, TypeCorrect, OnceCorrect, PTL

----------------------------------------------------------------------------
(* The limits hold where the addition is checked *)

\* What the code checks of the header is what holds behind the check.
LimitInv ==
  \A c \in Conns : srv[c] \in (Parsing \ {"info"}) \union {"run"} => ~OutOfLimit

\* Initially no header was accepted.
LEMMA LimitInit == Init => LimitInv
BY DEF Init, LimitInv, Parsing

\* Only parse_conn moves a connection behind the check of its header.
LEMMA LimitStep ==
  ASSUME TypeOK, LimitInv, [Next]_vars
  PROVE  LimitInv'
<1> USE DEF TypeOK, ServerTyped, LimitInv, Parsing, reqVars, servVars
<1>1. req' = req => OutOfLimit' = OutOfLimit
  BY DEF OutOfLimit, NotFoundVersion, Overflows, SumLen, Header
<1>2. req' = req
  BY DEF Next, ClientStep, Parse, SendCall, Connect, Write, ReadInfo, ReadHead,
         GiveUp, ResCall, BodyCall, BodyRead, BodyCut, Accept, ParseInfo,
         ParsePart, ParseFail, Answer, AnswerWrite, RunEnd, vars
<1>3. CASE UNCHANGED srv
  BY <1>1, <1>2, <1>3
<1>4. ASSUME NEW c \in Conns, Accept(c) \/ ParseFail(c) \/ Answer(c) \/ AnswerWrite(c) \/ RunEnd(c)
      PROVE  LimitInv'
  BY <1>1, <1>2, <1>4 DEF Accept, ParseFail, Answer, AnswerWrite, RunEnd
<1>5. ASSUME NEW c \in Conns, ParseInfo(c) \/ ParsePart(c) PROVE LimitInv'
  BY <1>1, <1>2, <1>5 DEF ParseInfo, ParsePart, After
<1> QED
  BY <1>3, <1>4, <1>5
     DEF Next, ClientStep, Parse, SendCall, Connect, Write, ReadInfo, ReadHead,
         GiveUp, ResCall, BodyCall, BodyRead, BodyCut, vars

\* Where u16 + u16 does not overflow it is the sum.
LEMMA SumNoOverflow ==
  ASSUME TypeOK, ~Overflows
  PROVE  SumLen = Header.len_cmd + Header.len_arg
<1>1. /\ Header.len_cmd + Header.len_arg \in Nat
      /\ Header.len_cmd + Header.len_arg < U16
  BY LengthsAreNat, ExchangeAssumption DEF Overflows
<1> QED
  BY <1>1, ExchangeAssumption DEF SumLen

\* In a build that checks arithmetic no request makes the server read more
\* than the limits of its control allow, whatever lengths the header claims.
THEOREM LimitsHold == ASSUME Build = "panic" PROVE Spec => []LimitSound
<1>1. TypeOK /\ LimitInv => LimitSound
  <2> SUFFICES ASSUME TypeOK, LimitInv, NEW c \in Conns,
                      srv[c] \in (Parsing \ {"info"}) \union {"run"}
               PROVE  /\ ServerLen.cmd + ServerLen.arg <= MaxOther
                      /\ ServerLen.head <= MaxHeads
    BY DEF LimitSound
  <2>1. ~OutOfLimit
    BY DEF LimitInv
  <2>2. SumLen <= MaxOther /\ Header.len_head <= MaxHeads /\ ~Overflows
    BY <2>1, LengthsAreNat, ExchangeAssumption DEF OutOfLimit, SumLen
  <2> QED
    BY <2>2, SumNoOverflow DEF ServerLen
<1> QED
  BY <1>1, LimitInit, LimitStep, TypeCorrect, PTL DEF Spec

----------------------------------------------------------------------------
(* Client and server agree on where each part starts *)

\* When the lengths fit their fields, both sides use the same ones; the server
\* never expects more of a part than the client writes.
LEMMA SameLengths ==
  ASSUME TypeOK
  PROVE  /\ \A p \in Parsing : ServerLen[p] <= ClientLen[p]
         /\ Fits => \A p \in Parsing : ServerLen[p] = ClientLen[p]
<1>1. /\ req.cmd \in Nat /\ req.arg \in Nat /\ req.head \in Nat
  BY ExchangeAssumption DEF TypeOK, RequestTyped
<1>2. \A n \in Nat, w \in Nat \ {0} :
        n % w \in 0..n /\ (n < w => n % w = n)
  OBVIOUS
<1>3. /\ Header.len_cmd \in 0..req.cmd /\ Header.len_arg \in 0..req.arg
      /\ Header.len_head \in 0..req.head
  BY <1>1, <1>2, ExchangeAssumption DEF Header
<1>4. Fits => /\ Header.len_cmd = req.cmd /\ Header.len_arg = req.arg
              /\ Header.len_head = req.head
  BY <1>1, <1>2, ExchangeAssumption DEF Header, Fits
<1>5. /\ ClientLen.info = InfoLen /\ ServerLen.info = InfoLen
      /\ ClientLen.magic = ServerLen.magic /\ ServerLen.magic \in Nat
      /\ ClientLen.cmd = (IF Header.len_cmd > 0 THEN req.cmd ELSE 0)
      /\ ClientLen.arg = (IF Header.len_arg > 0 THEN req.arg ELSE 0)
      /\ ServerLen.cmd = Header.len_cmd /\ ServerLen.arg = Header.len_arg
      /\ ClientLen.head = req.head /\ ServerLen.head = Header.len_head
  BY DEF ClientLen, ServerLen, MagicLen
<1> QED
  BY <1>1, <1>3, <1>4, <1>5 DEF Parsing, InfoLen

\* A part starts where the part before it ends.
LEMMA NextStart ==
  ASSUME TypeOK
  PROVE  /\ StartOf.info = 0 /\ StartOf.magic = InfoLen
         /\ \A p \in Parts : StartOf[p] \in Nat
         /\ \A p \in Parsing : StartOf[After[p]] = StartOf[p] + ClientLen[p]
<1>1. /\ ClientLen.magic \in Nat /\ ClientLen.cmd \in Nat
      /\ ClientLen.arg \in Nat /\ ClientLen.head \in Nat
  BY LengthsAreNat DEF Parts
<1>2. ClientLen.info = InfoLen
  BY DEF ClientLen
<1>3. /\ StartOf.info = 0 /\ StartOf.magic = InfoLen
      /\ StartOf.cmd = InfoLen + ClientLen.magic
      /\ StartOf.arg = InfoLen + ClientLen.magic + ClientLen.cmd
      /\ StartOf.head = InfoLen + ClientLen.magic + ClientLen.cmd + ClientLen.arg
      /\ StartOf.body = InfoLen + ClientLen.magic + ClientLen.cmd + ClientLen.arg
                          + ClientLen.head
  BY DEF StartOf
<1>4. /\ After.info = "magic" /\ After.magic = "cmd" /\ After.cmd = "arg"
      /\ After.arg = "head" /\ After.head = "body"
  BY DEF After
<1> QED
  BY <1>1, <1>2, <1>3, <1>4 DEF Parsing, Parts, InfoLen

\* No call changes the lengths of the Request.
LEMMA ReqFixed ==
  ASSUME Next
  PROVE  /\ req' = req /\ StartOf' = StartOf /\ Fits' = Fits
         /\ ServerLen' = ServerLen
<1>1. req' = req
  BY DEF Next, ClientStep, Parse, SendCall, Connect, Write, ReadInfo, ReadHead,
         GiveUp, ResCall, BodyCall, BodyRead, BodyCut, Accept, ParseInfo,
         ParsePart, ParseFail, Answer, AnswerWrite, RunEnd, reqVars
<1> QED
  BY <1>1 DEF StartOf, Fits, ClientLen, ServerLen, Header

\* Where the server stands: at the start of a part or, with a length that was
\* truncated, before it.
Behind(n, p) == n <= StartOf[p] /\ (Fits => n = StartOf[p])

\* Aligned without what follows from the lengths alone.
AlignInv ==
  /\ at \in Parts => up[cur] = StartOf[at]
  /\ \A c \in Conns :
       /\ srv[c] \in Parsing \union {"run"} => Behind(rd[c], Reading(c))
       /\ srv[c] = "wait" => rd[c] = 0

\* A part the server reads next ends where the client ends it, or before.
LEMMA AlignedHolds == TypeOK /\ AlignInv => Aligned
<1> SUFFICES ASSUME TypeOK, AlignInv PROVE Aligned
  OBVIOUS
<1>1. ASSUME NEW c \in Conns, srv[c] \in Parsing
      PROVE  rd[c] + ServerLen[srv[c]] <= StartOf[After[srv[c]]]
  <2> DEFINE p == srv[c]
  <2>1. rd[c] <= StartOf[p] /\ rd[c] \in Nat
    BY <1>1 DEF AlignInv, Behind, Reading, TypeOK, ServerTyped, Parsing
  <2>2. /\ StartOf[After[p]] = StartOf[p] + ClientLen[p]
        /\ StartOf[p] \in Nat /\ ClientLen[p] \in Nat
        /\ ServerLen[p] \in Nat /\ ServerLen[p] <= ClientLen[p]
    BY <1>1, NextStart, SameLengths, LengthsAreNat DEF Parts, Parsing
  <2> HIDE DEF p
  <2>3. rd[c] + ServerLen[p] <= StartOf[After[p]]
    BY <2>1, <2>2
  <2> QED
    BY <2>3 DEF p
<1> QED
  BY <1>1 DEF AlignInv, Aligned, Behind

\* Initially both cursors are at the start.
LEMMA AlignInit == Init => AlignInv
BY DEF Init, AlignInv, Parts, Parsing

\* The client's cursor stands where the part it writes next starts.
LEMMA ClientAligned ==
  ASSUME TypeOK, OnceInv, AlignInv, Next
  PROVE  at' \in Parts => up'[cur'] = StartOf'[at']
<1> USE DEF TypeOK, CallTyped, AlignInv, reqVars, callVars, respVars, servVars,
        Return, EndBody
<1>0. StartOf' = StartOf
  BY ReqFixed
<1>1. ASSUME NEW o \in Sends, SendCall(o)
      PROVE  at' \in Parts => up'[cur'] = StartOf'[at']
  <2>1. up' = up
    BY <1>1 DEF SendCall
  <2>2. at' \in Parts => at' = "info" /\ cur' \in Conns /\ ~sended
    BY <1>1 DEF SendCall, SendOn, Parts, RequestTyped
  <2> QED
    BY <1>0, <2>1, <2>2, NextStart DEF OnceInv, Parts
<1>2. ASSUME NEW c \in Conns, Connect(c)
      PROVE  at' \in Parts => up'[cur'] = StartOf'[at']
  <2>1. up' = up
    BY <1>2 DEF Connect
  <2>2. at' \in Parts => at' = "info" /\ cur' \in Conns /\ ~sended
    BY <1>2 DEF Connect, SendOn, Parts
  <2> QED
    BY <1>0, <2>1, <2>2, NextStart DEF OnceInv, Parts
<1>3. CASE Write
  <2>1. cur \in Conns
    BY <1>3 DEF Write
  <2>2. at' \in Parts => at \in Parsing /\ at' = After[at] /\ cur' = cur
    BY <1>3 DEF Write, Parts, Parsing, After
  <2> QED
    BY <1>0, <1>3, <2>1, <2>2, NextStart, LengthsAreNat DEF Write, Parts
<1>4. CASE ReadInfo \/ ReadHead \/ GiveUp
  BY <1>4 DEF ReadInfo, ReadHead, GiveUp, Parts
<1>5. CASE ResCall \/ BodyCall \/ BodyRead \/ BodyCut
  BY <1>5 DEF ResCall, BodyCall, BodyRead, BodyCut, Parts
<1>6. ASSUME NEW c \in Conns,
             Accept(c) \/ Parse(c) \/ Answer(c) \/ AnswerWrite(c) \/ RunEnd(c)
      PROVE  at' \in Parts => up'[cur'] = StartOf'[at']
  BY <1>0, <1>6
     DEF Accept, Parse, ParseInfo, ParsePart, ParseFail, Answer, AnswerWrite, RunEnd
<1> QED
  BY <1>1, <1>2, <1>3, <1>4, <1>5, <1>6 DEF Next, ClientStep

\* The server's cursor moves from part to part with the client's, or behind.
LEMMA ServerAligned ==
  ASSUME TypeOK, AlignInv, Next
  PROVE  \A c \in Conns :
           /\ srv'[c] \in Parsing \union {"run"} => Behind(rd[c], Reading(c))'
           /\ srv'[c] = "wait" => rd'[c] = 0
<1> USE DEF TypeOK, ServerTyped, AlignInv, reqVars, callVars, respVars, servVars
<1>0. \A n, p : Behind(n, p)' <=> Behind(n', p')
  BY ReqFixed DEF Behind
<1>1. CASE UNCHANGED <<srv, rd>>
  BY <1>0, <1>1, ReqFixed DEF Reading, Behind
<1>2. ASSUME NEW c \in Conns, \/ Accept(c) \/ ParseFail(c) \/ Answer(c)
                              \/ AnswerWrite(c) \/ RunEnd(c)
      PROVE  \A d \in Conns :
               /\ srv'[d] \in Parsing \union {"run"} => Behind(rd[d], Reading(d))'
               /\ srv'[d] = "wait" => rd'[d] = 0
  BY <1>2, ReqFixed, NextStart
     DEF Behind, Reading, Accept, ParseFail, Answer, AnswerWrite, RunEnd, Running, Parsing
<1>3. ASSUME NEW c \in Conns, ParseInfo(c)
      PROVE  \A d \in Conns :
               /\ srv'[d] \in Parsing \union {"run"} => Behind(rd[d], Reading(d))'
               /\ srv'[d] = "wait" => rd'[d] = 0
  BY <1>3, ReqFixed, NextStart DEF Behind, Reading, ParseInfo, Parsing, InfoLen
<1>4. ASSUME NEW c \in Conns, ParsePart(c)
      PROVE  \A d \in Conns :
               /\ srv'[d] \in Parsing \union {"run"} => Behind(rd[d], Reading(d))'
               /\ srv'[d] = "wait" => rd'[d] = 0
  <2>1. /\ srv[c] \in Parsing /\ rd[c] \in Nat
        /\ rd' = [rd EXCEPT ![c] = @ + ServerLen[srv[c]]]
    BY <1>4 DEF ParsePart
  <2>2. Behind(rd[c], srv[c])
    BY <2>1 DEF Reading, Parsing
  <2>3. /\ StartOf[After[srv[c]]] = StartOf[srv[c]] + ClientLen[srv[c]]
        /\ ServerLen[srv[c]] \in Nat /\ ClientLen[srv[c]] \in Nat /\ StartOf[srv[c]] \in Nat
        /\ ServerLen[srv[c]] <= ClientLen[srv[c]]
        /\ Fits => ServerLen[srv[c]] = ClientLen[srv[c]]
    BY <2>1, NextStart, SameLengths, LengthsAreNat DEF Parts, Parsing
  <2>4. Behind(rd[c] + ServerLen[srv[c]], After[srv[c]])
    BY <2>1, <2>2, <2>3 DEF Behind
  <2>5. srv'[c] # "wait" /\ Reading(c)' = After[srv[c]]
    BY <1>4 DEF ParsePart, Reading, After, Parsing
  <2>6. \A d \in Conns \ {c} : srv'[d] = srv[d] /\ rd'[d] = rd[d]
    BY <1>4 DEF ParsePart
  <2>7. Behind(rd[c], Reading(c))'
    BY <2>1, <2>4, <2>5, ReqFixed DEF Behind
  <2>8. \A d \in Conns \ {c} : Reading(d)' = Reading(d)
    BY <2>6 DEF Reading
  <2> QED
    BY <2>5, <2>6, <2>7, <2>8, ReqFixed DEF Behind
<1> QED
  BY <1>1, <1>2, <1>3, <1>4
     DEF Next, ClientStep, Parse, SendCall, Connect, Write, ReadInfo, ReadHead,
         GiveUp, ResCall, BodyCall, BodyRead, BodyCut

\* The server finds every part of a Request where the client put it, and the
\* body behind the head, for all lengths that fit their fields; for all others
\* it never waits for a byte beyond the part the client writes.
THEOREM PartsAligned == Spec => []Aligned
<1>1. TypeOK /\ OnceInv /\ AlignInv /\ [Next]_vars => AlignInv'
  <2>1. CASE UNCHANGED vars
    BY <2>1 DEF AlignInv, Behind, Reading, Fits, StartOf, ClientLen, Header, vars
  <2> QED
    BY <2>1, ClientAligned, ServerAligned DEF AlignInv
<1> QED
  BY <1>1, AlignedHolds, AlignInit, TypeCorrect, OnceCorrect, PTL DEF Spec

----------------------------------------------------------------------------
(* A Response returns the body of its own connection *)

\* A response is written on connections whose request was executed only; its
\* lengths are fixed when its first byte is written, and its header is the
\* first thing written.
AnsweredInv ==
  \A c \in Conns :
    /\ srv[c] \in Running => c \in ran
    /\ down[c] > 0 => c \in ran /\ srv[c] \in {"rhead", "rbody", "answered", "over"}
    /\ srv[c] \in {"rhead", "rbody"} => down[c] > 0

\* While a call holds a connection there is no Response yet; once there is
\* one, no call gets another connection, and the cursor of the client stands
\* behind the head of the response until its body was read.
CursorInv ==
  /\ cur # None => conn = None /\ resp.conn = None
  /\ at = "connect" => conn = None
  /\ at = "rhead" => cr = ResLen /\ down[cur] > 0
  /\ at = "rbody" => resp.state = "unread"
  /\ resp.conn = None => resp.state = "unread"
  /\ resp.conn # None =>
       /\ sended /\ conn = None
       /\ down[resp.conn] > 0 /\ resp.body = ResBody(resp.conn)
       /\ resp.lost = 0 =>
            /\ resp.state = "unread" => cr = ResLen + ResHead(resp.conn)
            /\ resp.state = "has" => resp.from = ResLen + ResHead(resp.conn)

\* Initially nothing was answered.
LEMMA CursorInit == Init => AnsweredInv /\ CursorInv
BY ExchangeAssumption DEF Init, AnsweredInv, CursorInv, Running, NoResponse

\* Every step of the server keeps the order of a response's parts.
LEMMA AnsweredStep ==
  ASSUME TypeOK, AnsweredInv, Next
  PROVE  AnsweredInv'
<1> USE DEF TypeOK, ServerTyped, AnsweredInv, Running, servVars
<1>1. ASSUME UNCHANGED servVars PROVE AnsweredInv'
  BY <1>1
<1>2. CASE (\E o \in Sends : SendCall(o)) \/ ResCall \/ BodyCall \/ BodyRead \/ BodyCut
  BY <1>1, <1>2 DEF SendCall, ResCall, BodyCall, BodyRead, BodyCut
<1>3. CASE ClientStep
  BY <1>1, <1>3 DEF ClientStep, Connect, Write, ReadInfo, ReadHead, GiveUp
<1>4. ASSUME NEW c \in Conns, Accept(c) \/ ParseInfo(c) \/ ParseFail(c) \/ RunEnd(c)
      PROVE  AnsweredInv'
  BY <1>4 DEF Accept, ParseInfo, ParseFail, RunEnd, Parsing
<1>5. ASSUME NEW c \in Conns, ParsePart(c) PROVE AnsweredInv'
  BY <1>5 DEF ParsePart, Parsing, After
<1>6. ASSUME NEW c \in Conns, Answer(c) PROVE AnsweredInv'
  BY <1>6 DEF Answer
<1>7. ASSUME NEW c \in Conns, AnswerWrite(c) PROVE AnsweredInv'
  <2>1. ans[c].head \in Nat /\ ans[c].body \in Nat /\ down[c] \in Nat
    BY AnswersAreNat
  <2> QED
    BY <1>7, <2>1 DEF AnswerWrite, ResLen
<1> QED
  BY <1>2, <1>3, <1>4, <1>5, <1>6, <1>7 DEF Next, Parse

\* The lengths of a response are numbers, as it has them and as the client
\* reads them.
LEMMA ResLengths ==
  ASSUME TypeOK, NEW c \in Conns
  PROVE  /\ ans[c].head \in Nat /\ ans[c].body \in Nat
         /\ ResHead(c) \in Nat /\ ResBody(c) \in Nat
         /\ ans[c].head < U32 => ResHead(c) = ans[c].head
         /\ ans[c].body < U32 => ResBody(c) = ans[c].body
<1>1. ans[c].head \in Nat /\ ans[c].body \in Nat
  BY AnswersAreNat DEF TypeOK, ServerTyped
<1> QED
  BY <1>1, ExchangeAssumption DEF ResHead, ResBody

\* Steps of the server do not disturb what the client has read.
LEMMA CursorServer ==
  ASSUME TypeOK, AnsweredInv, CursorInv, NEW c \in Conns,
         Accept(c) \/ Parse(c) \/ Answer(c) \/ AnswerWrite(c) \/ RunEnd(c)
  PROVE  CursorInv'
<1>1. UNCHANGED <<cur, conn, resp, at, cr, sended>>
  BY DEF Accept, Parse, ParseInfo, ParsePart, ParseFail, Answer, AnswerWrite,
         RunEnd, reqVars, callVars, respVars
<1>2. \A d \in Conns : down[d] > 0 => down'[d] > 0
  <2>1. CASE AnswerWrite(c)
    BY <2>1, ResLengths DEF AnswerWrite, TypeOK, ServerTyped, ResLen
  <2>2. CASE Accept(c) \/ Parse(c) \/ Answer(c) \/ RunEnd(c)
    BY <2>2 DEF Accept, Parse, ParseInfo, ParsePart, ParseFail, Answer, RunEnd
  <2> QED
    BY <2>1, <2>2
<1>3. \A d \in Conns : down[d] > 0 => ans'[d] = ans[d]
  <2>1. CASE Answer(c)
    BY <2>1 DEF Answer, AnsweredInv, TypeOK, ServerTyped
  <2>2. CASE Accept(c) \/ Parse(c) \/ AnswerWrite(c) \/ RunEnd(c)
    BY <2>2 DEF Accept, Parse, ParseInfo, ParsePart, ParseFail, AnswerWrite, RunEnd
  <2> QED
    BY <2>1, <2>2
<1>4. resp.conn \in Conns \union {None} /\ (at = "rhead" => cur \in Conns)
  BY ResponseFields DEF TypeOK, CallTyped, ResponseTyped
<1> QED
  BY <1>1, <1>2, <1>3, <1>4 DEF CursorInv, ResHead, ResBody

\* Every step of the client keeps its cursor behind what it has read.
LEMMA CursorStep ==
  ASSUME TypeOK, OnceInv, AnsweredInv, CursorInv, Next
  PROVE  CursorInv'
<1> USE ExchangeAssumption DEF CursorInv
<1>0. /\ resp \in Responses /\ resp.conn \in Conns \union {None}
      /\ conn \in Conns \union {None} /\ cur \in Conns \union {None}
      /\ cur # None <=> at \in Parts \union {"rinfo", "rhead"}
      /\ call = "none" => at = "idle"
      /\ at = "connect" => call \in Sends
  BY ResponseFields DEF TypeOK, RequestTyped, CallTyped, ResponseTyped
<1>a. ASSUME UNCHANGED <<ans, down>>
      PROVE  \A c \in Conns : ResHead(c)' = ResHead(c) /\ ResBody(c)' = ResBody(c)
  BY <1>a DEF ResHead, ResBody
<1>1. ASSUME NEW o \in Sends, SendCall(o) PROVE CursorInv'
  BY <1>0, <1>1, <1>a DEF SendCall, SendOn, respVars, servVars, Parts
<1>2. ASSUME NEW c \in Conns, Connect(c) PROVE CursorInv'
  BY <1>0, <1>2, <1>a DEF Connect, SendOn, respVars, servVars, Parts
<1>3. CASE Write
  <2>1. at' \notin {"connect", "rhead", "rbody"} /\ cur # None /\ cur' \in {cur, None}
    BY <1>0, <1>3 DEF Write, Parts, After
  <2>2. cur' # None => conn' = conn
    BY <1>0, <1>3 DEF Write
  <2> QED
    BY <1>0, <1>3, <1>a, <2>1, <2>2 DEF Write, respVars, servVars
<1>4. CASE ResCall
  BY <1>0, <1>4, <1>a DEF ResCall, respVars, servVars, Parts
<1>5. CASE GiveUp
  BY <1>0, <1>5, <1>a DEF GiveUp, Return, reqVars, respVars, servVars
<1>6. CASE ReadInfo
  <2>1. cur \in Conns /\ down[cur] \in Nat /\ down[cur] > 0 /\ cr' = ResLen
    BY <1>0, <1>6 DEF ReadInfo, ResLen, TypeOK, ServerTyped
  <2>2. /\ cur' \in {cur, None} /\ at' \in {"idle", "rhead"}
        /\ cur' = None => at' = "idle"
        /\ UNCHANGED <<conn, sended, resp, ans, down>>
    BY <1>0, <1>6, <2>1 DEF ReadInfo, Return, reqVars, servVars
  <2> QED
    BY <1>0, <1>6, <1>a, <2>1, <2>2
<1>7. CASE ReadHead
  <2>1. cur \in Conns /\ down[cur] > 0 /\ cr = ResLen /\ conn = None
    BY <1>0, <1>7 DEF ReadHead
  <2>2. sended
    BY <2>1 DEF OnceInv, AnsweredInv
  <2>3. /\ resp' = [NoResponse EXCEPT !.conn = cur, !.body = ResBody(cur)]
        /\ cr' = cr + ResHead(cur) /\ cur' = None /\ at' = "idle"
        /\ UNCHANGED <<conn, sended, ans, down>>
    BY <1>7 DEF ReadHead, reqVars, servVars
  <2> QED
    BY <1>a, <2>1, <2>2, <2>3 DEF NoResponse
<1>8. CASE BodyCall
  BY <1>0, <1>8, <1>a DEF BodyCall, reqVars, servVars, Responses
<1>9. CASE BodyRead
  BY <1>0, <1>9, <1>a
     DEF BodyRead, EndBody, reqVars, servVars, Responses, TypeOK, ResponseTyped
<1>10. CASE BodyCut
  <2>1. at = "rbody" /\ resp.conn # None /\ resp.body \in Nat /\ resp.body > 0
        /\ resp.lost \in Nat /\ cr \in Nat
    BY <1>0, <1>10, ResponseFields DEF BodyCut, TypeOK, ResponseTyped
  <2>2. PICK n \in {0, resp.body - 1}, s \in {"unread", "none"} :
          cr' = cr + n /\ resp' = [resp EXCEPT !.state = s, !.lost = @ + n]
    BY <1>10 DEF BodyCut
  <2>3. /\ resp'.conn = resp.conn /\ resp'.body = resp.body
        /\ resp'.state = s /\ resp'.lost = resp.lost + n
    BY <1>0, <2>2 DEF Responses
  <2>4. UNCHANGED <<conn, sended, cur, ans, down>> /\ at' = "idle"
    BY <1>10 DEF BodyCut, EndBody, reqVars, servVars
  <2>5. n \in Nat /\ (resp.lost + n = 0 => n = 0 /\ resp.lost = 0)
    BY <2>1
  <2> QED
    BY <1>0, <1>a, <2>1, <2>2, <2>3, <2>4, <2>5
<1>11. ASSUME NEW c \in Conns,
              Accept(c) \/ Parse(c) \/ Answer(c) \/ AnswerWrite(c) \/ RunEnd(c)
       PROVE  CursorInv'
  BY <1>11, CursorServer
<1> QED
  BY <1>1, <1>2, <1>3, <1>4, <1>5, <1>6, <1>7, <1>8, <1>9, <1>10, <1>11
  DEF Next, ClientStep

\* The two hold throughout a Request.
LEMMA CursorCorrect == Spec => [](AnsweredInv /\ CursorInv)
<1>1. /\ TypeOK /\ OnceInv /\ (AnsweredInv /\ CursorInv) /\ [Next]_vars
      => (AnsweredInv /\ CursorInv)'
  <2>1. CASE UNCHANGED vars
    BY <2>1 DEF AnsweredInv, CursorInv, ResHead, ResBody, vars
  <2> QED
    BY <2>1, AnsweredStep, CursorStep
<1> QED
  BY <1>1, CursorInit, TypeCorrect, OnceCorrect, PTL DEF Spec

\* The body a Response returns is the one written on the connection its own
\* request was executed on, from its first byte, for all lengths that fit the
\* fields of the header.
THEOREM ResponseIsExact == Spec => []ResponseExact
<1>1. TypeOK /\ AnsweredInv /\ CursorInv => ResponseExact
  <2> SUFFICES ASSUME TypeOK, AnsweredInv, CursorInv,
                      resp.state = "has", resp.lost = 0
               PROVE  LET a == ans[resp.conn]
                      IN  a.head < U32 /\ a.body < U32 =>
                            /\ resp.conn \in ran
                            /\ resp.from = ResLen + a.head
                            /\ resp.body = a.body
    BY DEF ResponseExact
  <2>1. resp.conn \in Conns
    BY ResponseFields DEF CursorInv, TypeOK, ResponseTyped
  <2>2. resp.conn # None
    BY <2>1, ExchangeAssumption
  <2> QED
    BY <2>1, <2>2, ResLengths DEF AnsweredInv, CursorInv
<1> QED
  BY <1>1, CursorCorrect, TypeCorrect, PTL
----------------------------------------------------------------------------
(* The Request implements RequestPromise *)

\* A fresh Request promises nothing yet.
LEMMA PromiseInit == Init => Promise!Init
BY DEF Init, Promise!Init, NoResponse

\* The mapping's view of the Response and of the answers.
Replies == IF resp.conn = None THEN {} ELSE {<<resp.conn, resp.body>>}
Begun == {<<c, ans[c].body>> : c \in {d \in ran : down[d] > 0}}

\* A step that leaves alone what the mapping shows is a stutter.
LEMMA PromiseStutter ==
  ASSUME UNCHANGED <<sended, ran, ans, down>>,
         resp'.conn = resp.conn, resp'.body = resp.body, resp'.state = resp.state
  PROVE  UNCHANGED Promise!vars
BY DEF Promise!vars

\* Every step of the client is a step of the promise or a stutter.
LEMMA PromiseClient ==
  ASSUME TypeOK, OnceInv, AnsweredInv, CursorInv,
         \/ \E o \in Sends : SendCall(o)
         \/ ResCall \/ BodyCall \/ BodyRead \/ BodyCut \/ ClientStep
  PROVE  [Promise!Next]_Promise!vars
<1>0. /\ resp \in Responses /\ resp.conn \in Conns \union {None}
      /\ cur \in Conns \union {None} /\ None \notin Conns
  BY ResponseFields, ExchangeAssumption DEF TypeOK, CallTyped, ResponseTyped
<1>1. ASSUME UNCHANGED <<ran, ans, down, resp>>, sended' = sended \/ (~sended /\ sended' = TRUE)
      PROVE  [Promise!Next]_Promise!vars
  BY <1>1 DEF Promise!vars, Promise!Next, Promise!Ask
<1>2. ASSUME NEW o \in Sends, SendCall(o) PROVE [Promise!Next]_Promise!vars
  BY <1>1, <1>2 DEF SendCall, SendOn, TypeOK, respVars, servVars
<1>3. ASSUME NEW c \in Conns, Connect(c) PROVE [Promise!Next]_Promise!vars
  BY <1>1, <1>3 DEF Connect, SendOn, TypeOK, respVars, servVars
<1>4. CASE ResCall \/ Write \/ ReadInfo \/ GiveUp
  BY <1>1, <1>4 DEF ResCall, Write, ReadInfo, GiveUp, reqVars, respVars, servVars
<1>5. CASE ReadHead
  <2>1. /\ cur \in Conns /\ cur # None /\ resp.conn = None /\ resp.state = "unread"
        /\ down[cur] > 0 /\ cur \in ran
    BY <1>0, <1>5 DEF ReadHead, CursorInv, AnsweredInv, TypeOK, CallTyped
  <2>2. resp'.conn = cur /\ resp'.body = ResBody(cur) /\ resp'.state = "unread"
    BY <1>5 DEF ReadHead, NoResponse
  <2>3. <<cur, ans[cur].body>> \in Begun
    BY <2>1 DEF Begun
  <2>4. Replies = {} /\ Replies' = {<<cur, ans[cur].body % U32>>}
    BY <2>1, <2>2 DEF Replies, ResBody
  <2>5. UNCHANGED <<sended, ran, Begun, resp.state>>
    BY <1>5, <2>1, <2>2 DEF ReadHead, Begun, reqVars, servVars
  <2>6. \E a \in Begun : Replies' = {<<a[1], a[2] % U32>>}
    BY <2>3, <2>4
  <2>7. Promise!Deliver
    BY <2>4, <2>5, <2>6 DEF Promise!Deliver, Begun, Replies
  <2> QED
    BY <2>7 DEF Promise!Next
<1>6. CASE BodyCall \/ BodyRead \/ BodyCut
  <2>1. /\ resp.conn # None
        /\ \/ resp' = resp
           \/ resp.state = "unread" /\ resp'.state \in {"unread", "none", "has"}
        /\ resp'.conn = resp.conn /\ resp'.body = resp.body
        /\ UNCHANGED <<sended, ran, ans, down>>
    BY <1>0, <1>6 DEF BodyCall, BodyRead, BodyCut, CursorInv, Responses, TypeOK, ResponseTyped, reqVars, servVars
  <2> QED
    BY <1>0, <2>1, PromiseStutter DEF Promise!Next, Promise!Settle
<1> QED
  BY <1>2, <1>3, <1>4, <1>5, <1>6 DEF ClientStep

\* Every step of the server is a step of the promise or a stutter.
LEMMA PromiseServer ==
  ASSUME TypeOK, OnceInv, AnsweredInv, CursorInv, NEW c \in Conns,
         Accept(c) \/ Parse(c) \/ Answer(c) \/ AnswerWrite(c) \/ RunEnd(c)
  PROVE  [Promise!Next]_Promise!vars
<1> USE DEF TypeOK, ServerTyped
<1>1. UNCHANGED <<sended, resp>>
  BY DEF Accept, Parse, ParseInfo, ParsePart, ParseFail, Answer, AnswerWrite, RunEnd,
         reqVars, respVars
<1>2. CASE Accept(c) \/ ParseInfo(c) \/ ParseFail(c) \/ RunEnd(c)
  BY <1>1, <1>2, PromiseStutter DEF Accept, ParseInfo, ParseFail, RunEnd
<1>3. CASE ParsePart(c)
  <2>1. CASE srv[c] = "head"
    <3>1. sended /\ (\A d \in ran : d = c) /\ ran' = ran \union {c}
      BY <1>3, <2>1 DEF ParsePart, OnceInv, Parsing
    <3>2. UNCHANGED <<ans, down>>
      BY <1>3 DEF ParsePart
    <3>3. CASE c \in ran
      <4>1. ran' = ran
        BY <3>1, <3>3
      <4> QED
        BY <1>1, <3>2, <4>1, PromiseStutter
    <3>4. CASE c \notin ran
      <4>1. ran = {} /\ ran' = {c}
        BY <3>1, <3>4
      <4>2. Begun = {} /\ Begun' = {}
        BY <1>3, <3>2, <3>4, <4>1 DEF Begun, AnsweredInv, ParsePart
      <4>3. Promise!Execute
        BY <1>1, <3>1, <4>1, <4>2 DEF Promise!Execute, Begun
      <4> QED
        BY <4>3 DEF Promise!Next
    <3> QED
      BY <3>3, <3>4
  <2>2. CASE srv[c] # "head"
    BY <1>1, <1>3, <2>2, PromiseStutter DEF ParsePart
  <2> QED
    BY <2>1, <2>2
<1>4. CASE Answer(c)
  <2>1. /\ down' = down /\ ran' = ran /\ ~(down[c] > 0)
        /\ \A d \in Conns : d # c => ans'[d] = ans[d]
    BY <1>4 DEF Answer, AnsweredInv
  <2>2. Begun' = Begun
    BY <2>1 DEF Begun
  <2> QED
    BY <1>1, <2>1, <2>2 DEF Promise!vars, Begun
<1>5. CASE AnswerWrite(c)
  <2>1. ran' = ran /\ ans' = ans /\ c \in ran
    BY <1>5 DEF AnswerWrite, AnsweredInv, Running
  <2>2. ran = {c}
    BY <2>1 DEF OnceInv
  <2>3. CASE srv[c] = "rinfo"
    <3>1. down[c] \in Nat /\ ~(down[c] > 0) /\ down'[c] = ResLen
      BY <1>5, <2>3 DEF AnswerWrite, AnsweredInv
    <3>2. Begun = {} /\ Begun' = {<<c, ans[c].body>>}
      BY <2>1, <2>2, <3>1 DEF Begun, ResLen
    <3>3. ans[c].body \in ResBodies \union {0}
      BY DEF Answers
    <3>4. Promise!Answer
      BY <1>1, <2>1, <2>2, <3>2, <3>3 DEF Promise!Answer, Begun
    <3> QED
      BY <3>4 DEF Promise!Next
  <2>4. CASE srv[c] # "rinfo"
    <3>1. down[c] > 0 /\ down'[c] > 0
      BY <1>5, <2>4, ResLengths DEF AnswerWrite, AnsweredInv
    <3>2. Begun' = Begun
      BY <2>1, <2>2, <3>1 DEF Begun
    <3> QED
      BY <1>1, <2>1, <3>2 DEF Promise!vars, Begun
  <2> QED
    BY <2>3, <2>4
<1> QED
  BY <1>2, <1>3, <1>4, <1>5 DEF Parse

\* A Request implements RequestPromise: sent before it is executed, executed
\* once, answered once, one Response with the size of that answer, whose body
\* is settled once, whatever fails and however the user calls again.
THEOREM RequestKeepsPromise == Spec => PromiseKept
<1>1. TypeOK /\ OnceInv /\ (AnsweredInv /\ CursorInv) /\ [Next]_vars
      => [Promise!Next]_Promise!vars
  <2>1. CASE UNCHANGED vars
    BY <2>1, PromiseStutter DEF vars
  <2> QED
    BY <2>1, PromiseClient, PromiseServer DEF Next
<1> QED
  BY <1>1, PromiseInit, TypeCorrect, OnceCorrect, CursorCorrect, PTL
     DEF Spec, PromiseKept, Promise!Spec
=============================================================================
