------------------------- MODULE MessagerLinkProofs -------------------------
(***************************************************************************)
(* Proofs about Messager: what arrives is what was sent, for any messages, *)
(* buffers and failures (ExactFrames), and so the pair is a FifoLink.      *)
(*                                                                         *)
(* The units between the sender of a direction and its parser are a line,  *)
(* wherever they wait: in the buffer, in the hands of the reader, in the   *)
(* pipe or in those of the sender.  The line goes on where the parser is,  *)
(* unit by unit through the frames of the messages that were taken         *)
(* (LineInv).  A failure cuts the line off; then nothing is added to it.   *)
(***************************************************************************)
EXTENDS MessagerProofs, SequenceTheorems, FiniteSetTheorems

----------------------------------------------------------------------------
(* Lines of units *)

\* A place in the frames of a sequence of messages, the unit there, and the
\* next place.
Places == [num : Nat, at : Nat]
PlaceAt(n, i) == [num |-> n, at |-> i]
Inside(t, x) == x.num \in 1..Len(t) /\ x.at \in 1..FrameLen(t[x.num])
UnitAt(t, x) == [msg |-> t[x.num], at |-> x.at]
After(t, x) ==
  IF x.at = FrameLen(t[x.num]) THEN PlaceAt(x.num + 1, 1)
                               ELSE PlaceAt(x.num, x.at + 1)

\* One stream behind the other, an operator of its own, since the provers take
\* \o apart element by element.
Cat(r, s) == r \o s

\* The units of s are those of the frames of t from place x up to place y.
\* w says where each of them is.
Walk(s, t, x, y, w) ==
  /\ w[1] = x /\ w[Len(s) + 1] = y
  /\ \A j \in 1..Len(s) :
       Inside(t, w[j]) /\ s[j] = UnitAt(t, w[j]) /\ w[j + 1] = After(t, w[j])
Leads(s, t, x, y) == \E w \in [1..(Len(s) + 1) -> Places] : Walk(s, t, x, y, w)

\* The frame of a message has three units at least, and is as long as MsgInfo
\* says if the command fits.
LEMMA FrameLength ==
  ASSUME NEW m \in Msgs
  PROVE  /\ FrameLen(m) \in Nat /\ FrameLen(m) >= 3
         /\ Fits(m) => Declared(m) = FrameLen(m)
<1>1. /\ CmdLen[m] \in Nat /\ HeadLen[m] \in Nat /\ BodyLen[m] \in Nat
      /\ LenMod \in Nat \ {0}
  BY MessagerAssumption
<1>2. CmdLen[m] < LenMod => CmdLen[m] % LenMod = CmdLen[m]
  BY <1>1
<1> QED
  BY <1>1, <1>2 DEF FrameLen, Declared, Fits

\* No units lead nowhere.
LEMMA LeadsNowhere ==
  ASSUME NEW t, NEW x \in Places PROVE Leads(<<>>, t, x, x)
<1>1. Walk(<<>>, t, x, x, [i \in 1..1 |-> x])
  BY DEF Walk
<1> QED
  BY <1>1 DEF Leads

\* The next place is a place.
LEMMA AfterTyped ==
  ASSUME NEW t \in Seq(Msgs), NEW x \in Places PROVE After(t, x) \in Places
BY DEF After, Places, PlaceAt

\* Streams behind each other.
LEMMA CatTyped ==
  ASSUME NEW a \in Seq(Units), NEW b \in Seq(Units)
  PROVE  Cat(a, b) \in Seq(Units)
BY ConcatProperties DEF Cat

LEMMA CatEmpty ==
  ASSUME NEW a \in Seq(Units) PROVE Cat(a, <<>>) = a /\ Cat(<<>>, a) = a
BY ConcatEmptySeq DEF Cat

LEMMA CatAssociative ==
  ASSUME NEW a \in Seq(Units), NEW b \in Seq(Units), NEW c \in Seq(Units)
  PROVE  Cat(Cat(a, b), c) = Cat(a, Cat(b, c))
BY ConcatAssociative DEF Cat

\* The parser takes the first unit of a line.
LEMMA LeadsTail ==
  ASSUME NEW s \in Seq(Units), NEW t, NEW x, NEW y, Leads(s, t, x, y), s # <<>>
  PROVE  /\ Inside(t, x) /\ Head(s) = UnitAt(t, x)
         /\ Leads(Tail(s), t, After(t, x), y)
<1>1. PICK w \in [1..(Len(s) + 1) -> Places] : Walk(s, t, x, y, w)
  BY DEF Leads
<1>2. /\ Len(s) \in Nat \ {0} /\ Len(Tail(s)) = Len(s) - 1
      /\ Head(s) = s[1] /\ \A j \in 1..Len(Tail(s)) : Tail(s)[j] = s[j + 1]
  BY HeadTailProperties
<1>3. Inside(t, x) /\ Head(s) = UnitAt(t, x) /\ w[2] = After(t, x)
  BY <1>1, <1>2 DEF Walk
<1> DEFINE v == [j \in 1..Len(s) |-> w[j + 1]]
<1>4. Walk(Tail(s), t, After(t, x), y, v)
  BY <1>1, <1>2, <1>3 DEF Walk
<1>5. v \in [1..(Len(Tail(s)) + 1) -> Places]
  BY <1>2
<1> QED
  BY <1>3, <1>4, <1>5 DEF Leads

\* A line that is cut off is still a line.
LEMMA LeadsPrefix ==
  ASSUME NEW r \in Seq(Units), NEW s \in Seq(Units), NEW t, NEW x, NEW y,
         Leads(Cat(r, s), t, x, y)
  PROVE  \E z \in Places : Leads(r, t, x, z)
<1>1. PICK w \in [1..(Len(r \o s) + 1) -> Places] : Walk(r \o s, t, x, y, w)
  BY DEF Leads, Cat
<1>2. /\ Len(r) \in Nat /\ Len(s) \in Nat /\ Len(r \o s) = Len(r) + Len(s)
      /\ \A j \in 1..Len(r) : (r \o s)[j] = r[j]
  BY ConcatProperties
<1> DEFINE v == [j \in 1..(Len(r) + 1) |-> w[j]]
<1>3. v \in [1..(Len(r) + 1) -> Places]
  BY <1>2
<1>4. Walk(r, t, x, w[Len(r) + 1], v)
  BY <1>1, <1>2 DEF Walk
<1>5. w[Len(r) + 1] \in Places
  BY <1>2
<1> QED
  BY <1>3, <1>4, <1>5 DEF Leads

\* Two lines make one.
LEMMA LeadsJoin ==
  ASSUME NEW r \in Seq(Units), NEW s \in Seq(Units), NEW t,
         NEW x, NEW y, NEW z, Leads(r, t, x, y), Leads(s, t, y, z)
  PROVE  Leads(Cat(r, s), t, x, z)
<1>1. PICK v \in [1..(Len(r) + 1) -> Places] : Walk(r, t, x, y, v)
  BY DEF Leads
<1>2. PICK w \in [1..(Len(s) + 1) -> Places] : Walk(s, t, y, z, w)
  BY DEF Leads
<1>3. /\ Len(r) \in Nat /\ Len(s) \in Nat /\ Len(r \o s) = Len(r) + Len(s)
      /\ \A j \in 1..(Len(r) + Len(s)) :
           (r \o s)[j] = IF j <= Len(r) THEN r[j] ELSE s[j - Len(r)]
  BY ConcatProperties
<1> DEFINE u == [j \in 1..(Len(r \o s) + 1) |->
                   IF j <= Len(r) THEN v[j] ELSE w[j - Len(r)]]
<1>4. u \in [1..(Len(r \o s) + 1) -> Places]
  BY <1>3
<1>5. u[1] = x /\ u[Len(r \o s) + 1] = z
  BY <1>1, <1>2, <1>3 DEF Walk
<1>6. ASSUME NEW j \in 1..Len(r \o s)
      PROVE  /\ Inside(t, u[j]) /\ (r \o s)[j] = UnitAt(t, u[j])
             /\ u[j + 1] = After(t, u[j])
  <2>1. CASE j < Len(r)
    BY <1>1, <1>3, <2>1 DEF Walk
  <2>2. CASE j = Len(r)
    BY <1>1, <1>2, <1>3, <2>2 DEF Walk
  <2>3. CASE j > Len(r)
    <3>1. j - Len(r) \in 1..Len(s) /\ (j + 1) - Len(r) = (j - Len(r)) + 1
      BY <1>3, <2>3
    <3>2. /\ u[j] = w[j - Len(r)] /\ u[j + 1] = w[(j - Len(r)) + 1]
          /\ (r \o s)[j] = s[j - Len(r)]
      BY <1>3, <2>3, <3>1
    <3> QED
      BY <1>2, <3>1, <3>2 DEF Walk
  <2> QED
    BY <1>3, <2>1, <2>2, <2>3
<1> QED
  BY <1>4, <1>5, <1>6 DEF Leads, Walk, Cat

\* What a line leads through does not change when one more message is taken.
LEMMA LeadsGrow ==
  ASSUME NEW s \in Seq(Units), NEW t \in Seq(Msgs), NEW m \in Msgs,
         NEW x, NEW y, Leads(s, t, x, y)
  PROVE  Leads(s, Append(t, m), x, y)
<1>1. PICK w \in [1..(Len(s) + 1) -> Places] : Walk(s, t, x, y, w)
  BY DEF Leads
<1>2. /\ Len(t) \in Nat /\ Len(Append(t, m)) = Len(t) + 1
      /\ \A n \in 1..Len(t) : Append(t, m)[n] = t[n]
  OBVIOUS
<1>3. ASSUME NEW j \in 1..Len(s), Inside(t, w[j])
      PROVE  /\ Inside(Append(t, m), w[j])
             /\ UnitAt(Append(t, m), w[j]) = UnitAt(t, w[j])
             /\ After(Append(t, m), w[j]) = After(t, w[j])
  BY <1>2, <1>3 DEF Inside, UnitAt, After
<1>4. Walk(s, Append(t, m), x, y, w)
  BY <1>1, <1>3 DEF Walk
<1> QED
  BY <1>4 DEF Leads

\* The frame of the message taken last leads from the end of the frames to
\* their new end.
LEMMA LeadsFrame ==
  ASSUME NEW t \in Seq(Msgs), NEW m \in Msgs
  PROVE  Leads(Frame(m), Append(t, m), PlaceAt(Len(t) + 1, 1),
               PlaceAt(Len(t) + 2, 1))
<1> DEFINE k == FrameLen(m)
           n == Len(t) + 1
           w == [j \in 1..(k + 1) |-> IF j <= k THEN PlaceAt(n, j)
                                                ELSE PlaceAt(n + 1, 1)]
<1>1. /\ k \in Nat /\ k >= 3 /\ n \in Nat
      /\ Len(Append(t, m)) = n /\ Append(t, m)[n] = m
  BY FrameLength
<1>2. /\ Frame(m) \in Seq(Units) /\ Len(Frame(m)) = k
      /\ \A j \in 1..k : Frame(m)[j] = [msg |-> m, at |-> j]
  BY <1>1, FrameTyped DEF Frame
<1> HIDE DEF k
<1>3. w \in [1..(Len(Frame(m)) + 1) -> Places]
  BY <1>1, <1>2 DEF Places, PlaceAt
<1>4. w[1] = PlaceAt(n, 1) /\ w[k + 1] = PlaceAt(Len(t) + 2, 1)
  BY <1>1
<1>5. ASSUME NEW j \in 1..k
      PROVE  /\ Inside(Append(t, m), w[j])
             /\ Frame(m)[j] = UnitAt(Append(t, m), w[j])
             /\ w[j + 1] = After(Append(t, m), w[j])
  <2>1. w[j] = PlaceAt(n, j)
    BY <1>1
  <2>2. w[j].num = n /\ w[j].at = j
    BY <2>1 DEF PlaceAt
  <2>3. w[j + 1] = IF j = k THEN PlaceAt(n + 1, 1) ELSE PlaceAt(n, j + 1)
    BY <1>1
  <2> HIDE DEF w, n
  <2> QED
    BY <1>1, <1>2, <2>2, <2>3 DEF Inside, UnitAt, After, k
<1> QED
  BY <1>2, <1>3, <1>4, <1>5 DEF Leads, Walk

----------------------------------------------------------------------------
(* The line between an end and the parser of the other *)

\* What the sender of q will still write; after a shutdown, nothing.
Written(q) == IF shuted[q] \/ cut THEN <<>> ELSE out[q]

\* What the parser of p will still read.
OnWire(p) == Cat(pipe[Other(p)], Written(Other(p)))
Unread(p) == IF reader[p] = "end" THEN <<>> ELSE Cat(held[p], OnWire(p))
Line(p) == IF p \in Streamed THEN Cat(buf[p], Unread(p)) ELSE OnWire(p)

\* Nothing was cut off: the next frame will join the line.
Joined(p) ==
  /\ sender[Other(p)] # "end" /\ ~shuted[Other(p)] /\ ~cut
  /\ p \in Streamed => reader[p] # "end"

\* The place the parser of p reads next.
Here(p) == PlaceAt(Len(got[p]) + 1, Len(acc[p]) + 1)

\* No message p got, or is about to get, has a command that does not fit.
Clean(p) ==
  \A i \in 1..(Len(got[p]) + 1) :
    i \in DOMAIN taken[Other(p)] => Fits(taken[Other(p)][i])

\* The line starts at the parser, and ends with the last message taken.
LineRight(p) ==
  \E y \in Places :
    /\ Leads(Line(p), taken[Other(p)], Here(p), y)
    /\ Joined(p) => y = PlaceAt(Len(taken[Other(p)]) + 1, 1)

\* What the parser has of a frame is the start of the frame of the message
\* that is next, and it knows its length.
PartRight(p) ==
  LET t == taken[Other(p)]
      n == Len(got[p]) + 1
  IN  /\ need[p] = IF Len(acc[p]) < 2 THEN 0 ELSE FrameLen(t[n])
      /\ acc[p] # <<>> => n \in DOMAIN t /\ Len(acc[p]) < FrameLen(t[n])
      /\ \A i \in 1..Len(acc[p]) : acc[p][i] = [msg |-> t[n], at |-> i]

DirectionRight(p) == parser[p] = "read" /\ Clean(p) => LineRight(p) /\ PartRight(p)
LineInv == \A p \in Sides : DirectionRight(p)

\* Only an end with a buffer has a task that fills it.
ReaderInv == \A p \in Sides \ Streamed : reader[p] = "end"

LinkInv == LineInv /\ ReaderInv /\ ExactFrames

\* There are two ends.
LEMMA TwoSides ==
  ASSUME NEW p \in Sides
  PROVE  /\ Other(p) \in Sides /\ Other(p) # p /\ Other(Other(p)) = p
         /\ \A r \in Sides : r # p => r = Other(p)
<1>1. PICK a, b \in Sides : a # b /\ Sides \subseteq {a, b}
  BY MessagerAssumption
<1>2. \A r \in Sides : \E q \in Sides : q # r
  BY <1>1
<1>3. \A r \in Sides : Other(r) \in Sides /\ Other(r) # r
  BY <1>2 DEF Other
<1> QED
  BY <1>1, <1>3

\* Lines are sequences of units.
LinesTyped ==
  \A p \in Sides :
    /\ Line(p) \in Seq(Units) /\ OnWire(p) \in Seq(Units)
    /\ Unread(p) \in Seq(Units) /\ Here(p) \in Places
LEMMA LineTyped == TypeInv => LinesTyped
<1> SUFFICES ASSUME TypeInv, NEW p \in Sides
             PROVE  /\ Line(p) \in Seq(Units) /\ OnWire(p) \in Seq(Units)
                    /\ Unread(p) \in Seq(Units) /\ Here(p) \in Places
  BY DEF LinesTyped
<1>1. /\ pipe[Other(p)] \in Seq(Units) /\ out[Other(p)] \in Seq(Units)
      /\ held[p] \in Seq(Units) /\ buf[p] \in Seq(Units)
      /\ Len(got[p]) \in Nat /\ Len(acc[p]) \in Nat
  BY TwoSides DEF TypeInv, SenderTypes, StreamTypes, ParserTypes, Streams
<1>2. Written(Other(p)) \in Seq(Units)
  BY <1>1 DEF Written
<1>3. OnWire(p) \in Seq(Units)
  BY <1>1, <1>2, CatTyped DEF OnWire
<1>4. Unread(p) \in Seq(Units)
  BY <1>1, <1>3, CatTyped DEF Unread
<1>5. Line(p) \in Seq(Units)
  BY <1>1, <1>3, <1>4, CatTyped DEF Line
<1> QED
  BY <1>1, <1>3, <1>4, <1>5 DEF Here, Places, PlaceAt

\* Every step keeps the types.
LEMMA TypeStep == TypeInv /\ [Next]_vars => TypeInv'
  BY FlagStep, QueueStep, SenderStep, StreamStep, ParserStep DEF TypeInv

LEMMA LineTypedNext == TypeInv' => LinesTyped'
  BY LineTyped, PTL

\* What it takes for a line to be right after a step.
LEMMA LineRightNext ==
  ASSUME NEW p \in Sides, NEW y \in Places,
         Leads(Line(p)', taken'[Other(p)], Here(p)', y),
         Joined(p)' => y = PlaceAt(Len(taken'[Other(p)]) + 1, 1)
  PROVE  LineRight(p)'
BY DEF LineRight, Leads, Walk, Inside, UnitAt, After, PlaceAt, Other, FrameLen

\* The parser of p stays where it is, or ends.
SameParser(p) ==
  /\ parser'[p] = "read" => parser[p] = "read"
  /\ got'[p] = got[p] /\ acc'[p] = acc[p] /\ need'[p] = need[p]
  /\ taken'[Other(p)] = taken[Other(p)]

\* The line of p stays what it is, or is cut off somewhere.
SameLine(p) == Line(p)' = Line(p) /\ (Joined(p)' => Joined(p))
CutLine(p) ==
  ~Joined(p)' /\ \E s \in Seq(Units) : Line(p) = Cat(Line(p)', s)

\* A line that stays, or is cut off, is as right as it was.
LEMMA LineKept ==
  ASSUME TypeInv, TypeInv', NEW p \in Sides, DirectionRight(p), SameParser(p),
         SameLine(p) \/ CutLine(p)
  PROVE  DirectionRight(p)'
<1> SUFFICES ASSUME parser'[p] = "read", Clean(p)'
             PROVE  LineRight(p)' /\ PartRight(p)'
  BY DEF DirectionRight
<1>1. Clean(p) /\ parser[p] = "read" /\ Here(p)' = Here(p)
  BY DEF Clean, SameParser, Here
<1>2. LineRight(p) /\ PartRight(p)
  BY <1>1 DEF DirectionRight
<1>3. PartRight(p)'
  BY <1>2 DEF PartRight, SameParser
<1>4. PICK y \in Places :
         /\ Leads(Line(p), taken[Other(p)], Here(p), y)
         /\ Joined(p) => y = PlaceAt(Len(taken[Other(p)]) + 1, 1)
  BY <1>2 DEF LineRight
<1>5. CASE SameLine(p)
  BY <1>1, <1>3, <1>4, <1>5, LineRightNext DEF SameParser, SameLine
<1>6. CASE CutLine(p)
  <2>1. PICK s \in Seq(Units) : Line(p) = Cat(Line(p)', s)
    BY <1>6 DEF CutLine
  <2>2. Line(p)' \in Seq(Units)
    BY LineTypedNext DEF LinesTyped
  <2>3. \E z \in Places : Leads(Line(p)', taken[Other(p)], Here(p), z)
    BY <1>4, <2>1, <2>2, LeadsPrefix
  <2> QED
    BY <1>1, <1>3, <1>6, <2>3, LineRightNext DEF SameParser, CutLine
<1> QED
  BY <1>3, <1>5, <1>6

----------------------------------------------------------------------------
(* What the steps do to a line *)

\* An element behind two streams is behind the second.
LEMMA AppendCat ==
  ASSUME NEW S, NEW c \in Seq(S), NEW d \in Seq(S), NEW e \in S
  PROVE  c \o Append(d, e) = Append(c \o d, e)
OBVIOUS

\* A unit that moves from one sequence to the other stays in its place.
LEMMA MoveUnit ==
  ASSUME NEW S, NEW c \in Seq(S), NEW d \in Seq(S), d # <<>>
  PROVE  /\ Tail(d) \in Seq(S) /\ Append(c, Head(d)) \in Seq(S)
         /\ Cat(Append(c, Head(d)), Tail(d)) = Cat(c, d)
<1>1. /\ Tail(d) \in Seq(S) /\ Append(c, Head(d)) \in Seq(S)
      /\ Head(d) = d[1]
      /\ Len(d) \in Nat \ {0} /\ Len(Tail(d)) = Len(d) - 1
      /\ \A j \in 1..(Len(d) - 1) : Tail(d)[j] = d[j + 1]
  BY HeadTailProperties
<1> DEFINE a == Append(c, Head(d)) \o Tail(d)
           b == c \o d
<1>2. /\ Len(c) \in Nat /\ Len(Append(c, Head(d))) = Len(c) + 1
      /\ \A j \in 1..(Len(c) + 1) :
           Append(c, Head(d))[j] = IF j <= Len(c) THEN c[j] ELSE d[1]
  BY <1>1
<1>3. /\ a \in Seq(S) /\ b \in Seq(S)
      /\ Len(a) = Len(c) + Len(d) /\ Len(b) = Len(c) + Len(d)
  BY <1>1, <1>2, ConcatProperties
<1>4. ASSUME NEW j \in 1..(Len(c) + Len(d)) PROVE a[j] = b[j]
  <2>1. a[j] = IF j <= Len(c) + 1 THEN Append(c, Head(d))[j]
                                  ELSE Tail(d)[j - (Len(c) + 1)]
    BY <1>1, <1>2, ConcatProperties
  <2>2. b[j] = IF j <= Len(c) THEN c[j] ELSE d[j - Len(c)]
    BY ConcatProperties
  <2>3. CASE j <= Len(c) + 1
    BY <1>2, <2>1, <2>2, <2>3
  <2>4. CASE j > Len(c) + 1
    <3>1. /\ j - (Len(c) + 1) \in 1..(Len(d) - 1)
          /\ (j - (Len(c) + 1)) + 1 = j - Len(c)
      BY <1>1, <1>2, <2>4
    <3> QED
      BY <1>1, <1>2, <2>1, <2>2, <2>4, <3>1
  <2> QED
    BY <1>2, <2>3, <2>4
<1>5. a = b
  BY <1>3, <1>4, SeqEqual
<1> QED
  BY <1>1, <1>5 DEF Cat

\* A stream is its first unit and the rest.
LEMMA HeadFirst ==
  ASSUME NEW c \in Seq(Units), c # <<>>
  PROVE  /\ Tail(c) \in Seq(Units) /\ <<Head(c)>> \in Seq(Units)
         /\ Cat(<<Head(c)>>, Tail(c)) = c
<1>1. /\ <<Head(c)>> = Append(<<>>, Head(c)) /\ <<>> \in Seq(Units)
      /\ Head(c) \in Units
  BY HeadTailProperties
<1>2. Cat(Append(<<>>, Head(c)), Tail(c)) = Cat(<<>>, c)
  BY <1>1, MoveUnit
<1> QED
  BY <1>1, <1>2, CatEmpty, MoveUnit

\* The first unit of two streams behind each other is that of the first.
LEMMA TailOfCat ==
  ASSUME NEW a \in Seq(Units), NEW b \in Seq(Units), a # <<>>
  PROVE  /\ Cat(a, b) # <<>> /\ Head(Cat(a, b)) = Head(a)
         /\ Tail(Cat(a, b)) = Cat(Tail(a), b)
<1> DEFINE c == a \o b
           d == Tail(a) \o b
<1>1. /\ Tail(a) \in Seq(Units) /\ Len(a) \in Nat \ {0} /\ Len(b) \in Nat
      /\ Len(Tail(a)) = Len(a) - 1 /\ Head(a) = a[1]
      /\ \A j \in 1..(Len(a) - 1) : Tail(a)[j] = a[j + 1]
  BY HeadTailProperties
<1>2. /\ c \in Seq(Units) /\ Len(c) = Len(a) + Len(b)
      /\ \A j \in 1..(Len(a) + Len(b)) :
           c[j] = IF j <= Len(a) THEN a[j] ELSE b[j - Len(a)]
  BY ConcatProperties
<1>3. /\ d \in Seq(Units) /\ Len(d) = (Len(a) - 1) + Len(b)
      /\ \A j \in 1..((Len(a) - 1) + Len(b)) :
           d[j] = IF j <= Len(a) - 1 THEN Tail(a)[j] ELSE b[j - (Len(a) - 1)]
  BY <1>1, ConcatProperties
<1> HIDE DEF c, d
<1>4. /\ c # <<>> /\ Head(c) = c[1] /\ Tail(c) \in Seq(Units)
      /\ Len(Tail(c)) = Len(c) - 1
      /\ \A j \in 1..(Len(c) - 1) : Tail(c)[j] = c[j + 1]
  <2>1. c # <<>>
    BY <1>1, <1>2
  <2> QED
    BY <1>2, <2>1, HeadTailProperties
<1>5. ASSUME NEW j \in 1..((Len(a) - 1) + Len(b)) PROVE Tail(c)[j] = d[j]
  <2>1. /\ Tail(c)[j] = c[j + 1] /\ j + 1 \in 1..(Len(a) + Len(b))
        /\ (j + 1) - Len(a) = j - (Len(a) - 1)
    BY <1>1, <1>2, <1>4
  <2> QED
    BY <1>1, <1>2, <1>3, <2>1
<1>6. Tail(c) = d
  BY <1>1, <1>2, <1>3, <1>4, <1>5, SeqEqual
<1> QED
  BY <1>1, <1>2, <1>4, <1>6 DEF Cat, c, d

\* A line that is cut off behind the pipe.
LEMMA CutOff ==
  ASSUME NEW a \in Seq(Units), NEW b \in Seq(Units), NEW c \in Seq(Units),
         NEW d \in Seq(Units)
  PROVE  Cat(a, Cat(b, Cat(c, d))) = Cat(Cat(a, Cat(b, c)), d)
BY CatTyped, CatAssociative

\* What a line is made of.
LineVars(p) ==
  <<pipe[Other(p)], out[Other(p)], shuted[Other(p)], cut, sender[Other(p)],
    buf[p], held[p], reader[p]>>

\* A step that touches nothing of a line leaves it as it is.
LEMMA LineSame ==
  ASSUME NEW p \in Sides, UNCHANGED LineVars(p)
  PROVE  SameLine(p)
<1>1. /\ pipe'[Other(p)] = pipe[Other(p)] /\ out'[Other(p)] = out[Other(p)]
      /\ shuted'[Other(p)] = shuted[Other(p)] /\ cut' = cut
      /\ sender'[Other(p)] = sender[Other(p)] /\ buf'[p] = buf[p]
      /\ held'[p] = held[p] /\ reader'[p] = reader[p]
  BY DEF LineVars, Other
<1> QED
  BY <1>1 DEF SameLine, Line, OnWire, Unread, Written, Joined, Other

LEMMA Untouched ==
  ASSUME TypeInv, TypeInv', NEW p \in Sides, DirectionRight(p), SameParser(p),
         UNCHANGED LineVars(p)
  PROVE  DirectionRight(p)'
BY LineSame, LineKept

\* A unit moves from the sender to the pipe; the rest is given up when the
\* sender is done.
LEMMA LineSendUnit ==
  ASSUME TypeInv, NEW q \in Sides, SendUnit(q)
  PROVE  SameLine(Other(q)) \/ CutLine(Other(q))
<1> DEFINE p == Other(q)
           c == pipe[q]
           d == out[q]
<1>1. p \in Sides /\ Other(p) = q
  BY TwoSides
<1>2. /\ c \in Seq(Units) /\ d \in Seq(Units) /\ d # <<>>
      /\ buf[p] \in Seq(Units) /\ held[p] \in Seq(Units)
      /\ done[q] \in BOOLEAN /\ pipe \in Streams /\ out \in Streams
      /\ sender \in [Sides -> {"recv", "write", "end"}]
  BY <1>1 DEF SendUnit, TypeInv, FlagTypes, Flags, SenderTypes, StreamTypes, Streams
<1>3. /\ ~shuted[q] /\ ~cut /\ shuted' = shuted /\ cut' = cut
      /\ buf' = buf /\ held' = held /\ reader' = reader
      /\ pipe'[q] = Append(c, Head(d)) /\ sender[q] = "write"
      /\ out'[q] = IF done[q] THEN <<>> ELSE Tail(d)
      /\ done[q] => sender'[q] = "end"
  BY <1>2 DEF SendUnit, readVars, Streams, Again
<1>4. Written(q) = d /\ Written(q)' = out'[q]
  BY <1>3 DEF Written
<1> HIDE DEF c, d
<1>5. /\ Tail(d) \in Seq(Units) /\ Append(c, Head(d)) \in Seq(Units)
      /\ Cat(Append(c, Head(d)), Tail(d)) = Cat(c, d)
  BY <1>2, MoveUnit
<1>6. OnWire(p) = Cat(c, d) /\ OnWire(p)' = Cat(Append(c, Head(d)), out'[q])
  BY <1>1, <1>3, <1>4 DEF OnWire, Other, c
<1>7. CASE ~done[q]
  <2>1. OnWire(p)' = OnWire(p)
    BY <1>3, <1>5, <1>6, <1>7
  <2>2. Line(p)' = Line(p)
    BY <1>3, <2>1 DEF Line, Unread
  <2>3. Joined(p)' => Joined(p)
    BY <1>1, <1>3 DEF Joined, Other
  <2> QED
    BY <2>2, <2>3 DEF SameLine
<1>8. CASE done[q]
  <2>1. ~Joined(p)'
    BY <1>1, <1>3, <1>8 DEF Joined, Other
  <2>2. OnWire(p) = Cat(Append(c, Head(d)), Tail(d))
    BY <1>5, <1>6
  <2>3. OnWire(p)' = Append(c, Head(d))
    BY <1>3, <1>5, <1>6, <1>8, CatEmpty
  <2>4. CASE p \in Streamed /\ reader[p] # "end"
    <3>1. Line(p) = Cat(buf[p], Cat(held[p], Cat(Append(c, Head(d)), Tail(d))))
      BY <2>2, <2>4 DEF Line, Unread
    <3>2. Line(p)' = Cat(buf[p], Cat(held[p], Append(c, Head(d))))
      BY <1>3, <2>3, <2>4 DEF Line, Unread
    <3>3. Cat(buf[p], Cat(held[p], Cat(Append(c, Head(d)), Tail(d))))
            = Cat(Cat(buf[p], Cat(held[p], Append(c, Head(d)))), Tail(d))
      <4> DEFINE e == Append(c, Head(d))
                 f == Tail(d)
      <4>1. e \in Seq(Units) /\ f \in Seq(Units)
        BY <1>5
      <4> HIDE DEF e, f
      <4>2. Cat(buf[p], Cat(held[p], Cat(e, f)))
              = Cat(Cat(buf[p], Cat(held[p], e)), f)
        BY <1>2, <4>1, CutOff
      <4> QED
        BY <4>2 DEF e, f
    <3>4. Line(p) = Cat(Line(p)', Tail(d))
      BY <3>1, <3>2, <3>3
    <3> QED
      BY <1>5, <2>1, <3>4 DEF CutLine
  <2>5. CASE p \in Streamed /\ reader[p] = "end"
    <3>1. Line(p) = Cat(buf[p], <<>>) /\ Line(p)' = Cat(buf[p], <<>>)
      BY <1>3, <2>5 DEF Line, Unread
    <3>2. Line(p)' = Line(p) /\ ~Joined(p)'
      BY <2>1, <3>1
    <3> QED
      BY <3>2 DEF SameLine
  <2>6. CASE p \notin Streamed
    <3>1. /\ Line(p) = Cat(Append(c, Head(d)), Tail(d))
          /\ Line(p)' = Append(c, Head(d))
      BY <2>2, <2>3, <2>6 DEF Line
    <3>2. Line(p) = Cat(Line(p)', Tail(d))
      BY <1>2, <1>5, <3>1
    <3> QED
      BY <1>5, <2>1, <3>2 DEF CutLine
  <2> QED
    BY <2>4, <2>5, <2>6
<1> QED
  BY <1>2, <1>7, <1>8

\* A connection that breaks or is shut down cuts a line off behind the pipe.
LEMMA LineShut ==
  ASSUME TypeInv, NEW p \in Sides, shuted'[Other(p)] \/ cut',
         shuted[Other(p)] => shuted'[Other(p)], cut => cut',
         UNCHANGED <<pipe, readVars>>
  PROVE  CutLine(p)
<1> DEFINE q == Other(p)
           c == pipe[q]
           d == Written(q)
<1>1. /\ c \in Seq(Units) /\ d \in Seq(Units)
      /\ buf[p] \in Seq(Units) /\ held[p] \in Seq(Units)
  BY TwoSides DEF TypeInv, SenderTypes, StreamTypes, Streams, Written
<1>2. buf' = buf /\ held' = held /\ reader' = reader /\ pipe' = pipe
  BY DEF readVars
<1>3. ~Joined(p)' /\ Written(q)' = <<>>
  BY DEF Joined, Written, Other
<1>4. OnWire(p) = Cat(c, d) /\ OnWire(p)' = c
  BY <1>1, <1>2, <1>3, CatEmpty DEF OnWire, Other
<1> HIDE DEF c, d
<1>5. CASE p \in Streamed /\ reader[p] # "end"
  <2>1. /\ Line(p) = Cat(buf[p], Cat(held[p], Cat(c, d)))
        /\ Line(p)' = Cat(buf[p], Cat(held[p], c))
    BY <1>2, <1>4, <1>5 DEF Line, Unread
  <2>2. Cat(buf[p], Cat(held[p], Cat(c, d)))
          = Cat(Cat(buf[p], Cat(held[p], c)), d)
    BY <1>1, CutOff
  <2>3. Line(p) = Cat(Line(p)', d)
    BY <2>1, <2>2
  <2> QED
    BY <1>1, <1>3, <2>3 DEF CutLine
<1>6. CASE p \in Streamed /\ reader[p] = "end"
  <2>1. Line(p) = Cat(buf[p], <<>>) /\ Line(p)' = Cat(buf[p], <<>>)
    BY <1>2, <1>6 DEF Line, Unread
  <2>2. Line(p) = Cat(Line(p)', <<>>) /\ <<>> \in Seq(Units)
    BY <1>1, <2>1, CatEmpty
  <2> QED
    BY <1>3, <2>2 DEF CutLine
<1>7. CASE p \notin Streamed
  <2>1. Line(p) = Cat(c, d) /\ Line(p)' = c
    BY <1>4, <1>7 DEF Line
  <2>2. Line(p) = Cat(Line(p)', d)
    BY <1>1, <2>1
  <2> QED
    BY <1>1, <1>3, <2>2 DEF CutLine
<1> QED
  BY <1>5, <1>6, <1>7

\* The reader takes a unit of the pipe.
LEMMA LineReadFill ==
  ASSUME TypeInv, ReaderInv, NEW p \in Sides, ReadFill(p) PROVE SameLine(p)
<1> DEFINE c == pipe[Other(p)]
           d == Written(Other(p))
<1>1. /\ c \in Seq(Units) /\ d \in Seq(Units) /\ c # <<>>
      /\ held[p] = <<>> /\ p \in Streamed
      /\ reader[p] = "read" /\ reader'[p] = "push"
      /\ held'[p] = <<Head(c)>> /\ pipe'[Other(p)] = Tail(c)
      /\ buf' = buf /\ out' = out /\ shuted' = shuted /\ cut' = cut
      /\ sender' = sender
  BY TwoSides
  DEF ReadFill, ReaderInv, TypeInv, SenderTypes, StreamTypes, Streams, Written,
      sendVars
<1>2. d' = d
  BY <1>1 DEF Written, Other
<1>3. OnWire(p) = Cat(c, d) /\ OnWire(p)' = Cat(Tail(c), d)
  BY <1>1, <1>2 DEF OnWire, Other
<1> HIDE DEF c, d
<1>4. /\ Tail(c) \in Seq(Units) /\ <<Head(c)>> \in Seq(Units)
      /\ Cat(<<Head(c)>>, Tail(c)) = c
  BY <1>1, HeadFirst
<1>5. Unread(p) = Cat(c, d)
  <2>1. Unread(p) = Cat(<<>>, Cat(c, d))
    BY <1>1, <1>3 DEF Unread
  <2> QED
    BY <1>1, <2>1, CatTyped, CatEmpty
<1>6. Unread(p)' = Cat(<<Head(c)>>, Cat(Tail(c), d))
  BY <1>1, <1>3 DEF Unread
<1>7. Unread(p)' = Unread(p)
  <2> DEFINE h == <<Head(c)>>
             r == Tail(c)
  <2>1. h \in Seq(Units) /\ r \in Seq(Units) /\ Cat(h, r) = c
    BY <1>4
  <2>2. Unread(p)' = Cat(h, Cat(r, d))
    BY <1>6
  <2> HIDE DEF h, r
  <2> QED
    BY <1>1, <1>5, <2>1, <2>2, CatAssociative
<1>8. Line(p)' = Line(p)
  BY <1>1, <1>7 DEF Line
<1>9. Joined(p)' => Joined(p)
  BY <1>1 DEF Joined, Other
<1> QED
  BY <1>8, <1>9 DEF SameLine

\* The reader puts the unit into the buffer; it may be its last.
LEMMA LineReadPush ==
  ASSUME TypeInv, ReaderInv, NEW p \in Sides, ReadPush(p)
  PROVE  SameLine(p) \/ CutLine(p)
<1> DEFINE b == buf[p]
           h == held[p]
           w == OnWire(p)
<1>1. /\ b \in Seq(Units) /\ h \in Seq(Units) /\ w \in Seq(Units)
      /\ p \in Streamed /\ reader[p] = "push"
      /\ reader'[p] = IF done[p] THEN "end" ELSE "read"
      /\ held'[p] = <<>> /\ buf'[p] = Cat(b, h)
      /\ pipe' = pipe /\ out' = out /\ shuted' = shuted /\ cut' = cut
      /\ sender' = sender
  <2>1. w \in Seq(Units)
    BY LineTyped DEF LinesTyped
  <2> HIDE DEF w
  <2> QED
    BY <2>1 DEF ReadPush, ReaderInv, TypeInv, StreamTypes, Streams, sendVars,
                Again, Cat
<1>2. w' = w
  BY <1>1 DEF OnWire, Written, Other
<1>3. Line(p) = Cat(b, Cat(h, w))
  BY <1>1 DEF Line, Unread
<1>4. CASE ~done[p]
  <2>1. Line(p)' = Cat(Cat(b, h), Cat(<<>>, w))
    BY <1>1, <1>2, <1>4 DEF Line, Unread
  <2> HIDE DEF b, h, w
  <2>2. Line(p)' = Line(p)
    BY <1>1, <1>3, <2>1, CatEmpty, CatAssociative
  <2>3. Joined(p)' => Joined(p)
    BY <1>1 DEF Joined, Other
  <2> QED
    BY <2>2, <2>3 DEF SameLine
<1>5. CASE done[p]
  <2>1. Line(p)' = Cat(Cat(b, h), <<>>)
    BY <1>1, <1>5 DEF Line, Unread
  <2>2. ~Joined(p)'
    BY <1>1, <1>5 DEF Joined
  <2> HIDE DEF b, h, w
  <2>3. Line(p) = Cat(Line(p)', w)
    BY <1>1, <1>3, <2>1, CatTyped, CatEmpty, CatAssociative
  <2> QED
    BY <1>1, <2>2, <2>3 DEF CutLine
<1> QED
  BY <1>4, <1>5

\* The reader ends, and with it the line.
LEMMA LineReadFail ==
  ASSUME TypeInv, ReaderInv, NEW p \in Sides, ReadFail(p) PROVE CutLine(p)
<1>1. /\ p \in Streamed /\ reader[p] # "end" /\ reader'[p] = "end"
      /\ buf' = buf /\ buf[p] \in Seq(Units)
  BY DEF ReadFail, ReaderInv, TypeInv, StreamTypes, Streams
<1>2. Unread(p) \in Seq(Units)
  BY LineTyped DEF LinesTyped
<1>3. Line(p) = Cat(buf[p], Unread(p)) /\ Line(p)' = Cat(buf[p], <<>>)
  BY <1>1 DEF Line, Unread
<1>4. Line(p) = Cat(Line(p)', Unread(p))
  BY <1>1, <1>3, CatEmpty
<1>5. ~Joined(p)'
  BY <1>1 DEF Joined
<1> QED
  BY <1>2, <1>4, <1>5 DEF CutLine

\* The parser takes the first unit of the line.
LEMMA LineConsume ==
  ASSUME TypeInv, NEW p \in Sides, Source(p) # <<>>, Consume(p),
         UNCHANGED <<shuted, cut, sendVars, reader, held>>
  PROVE  /\ Line(p) # <<>> /\ Head(Line(p)) = Head(Source(p))
         /\ Line(p)' = Tail(Line(p)) /\ (Joined(p)' => Joined(p))
<1>1. /\ pipe[Other(p)] \in Seq(Units) /\ buf[p] \in Seq(Units)
      /\ held[p] \in Seq(Units) /\ Written(Other(p)) \in Seq(Units)
      /\ Other(p) \in Sides /\ pipe \in Streams /\ buf \in Streams
  BY TwoSides DEF TypeInv, SenderTypes, StreamTypes, Streams, Written
<1>2. /\ reader' = reader /\ held' = held /\ sender' = sender
      /\ shuted' = shuted /\ cut' = cut
      /\ Written(Other(p))' = Written(Other(p))
  BY DEF Written, Other, sendVars
<1>3. Joined(p)' => Joined(p)
  BY <1>2 DEF Joined, Other
<1>4. CASE p \in Streamed
  <2>1. /\ buf[p] # <<>> /\ buf'[p] = Tail(buf[p]) /\ pipe' = pipe
        /\ Source(p) = buf[p]
    BY <1>1, <1>4 DEF Source, Consume, Streams
  <2>2. Unread(p)' = Unread(p)
    BY <1>2, <2>1 DEF Unread, OnWire, Other
  <2>3. Unread(p) \in Seq(Units)
    BY <1>1, CatTyped DEF Unread, OnWire
  <2>4. Line(p) = Cat(buf[p], Unread(p)) /\ Line(p)' = Cat(Tail(buf[p]), Unread(p))
    BY <1>4, <2>1, <2>2 DEF Line
  <2> QED
    BY <1>1, <1>3, <2>1, <2>3, <2>4, TailOfCat
<1>5. CASE p \notin Streamed
  <2>1. /\ pipe[Other(p)] # <<>> /\ pipe'[Other(p)] = Tail(pipe[Other(p)])
        /\ Source(p) = pipe[Other(p)]
    BY <1>1, <1>5 DEF Source, Consume, Streams
  <2>2. /\ Line(p) = Cat(pipe[Other(p)], Written(Other(p)))
        /\ Line(p)' = Cat(Tail(pipe[Other(p)]), Written(Other(p)))
    BY <1>2, <1>5, <2>1 DEF Line, OnWire, Other
  <2> QED
    BY <1>1, <1>3, <2>1, <2>2, TailOfCat
<1> QED
  BY <1>4, <1>5

----------------------------------------------------------------------------
(* What the steps do to a direction *)

\* A step that leaves the connection alone and does not move the parsers.
LEMMA ElsewhereRight ==
  ASSUME TypeInv, TypeInv', NEW r \in Sides, DirectionRight(r),
         UNCHANGED <<shuted, cut, pipe, readVars, sender, out, taken, parser,
                     acc, need, got>>
  PROVE  DirectionRight(r)'
<1>1. UNCHANGED LineVars(r)
  BY DEF LineVars, Other, readVars
<1>2. SameParser(r)
  BY DEF SameParser
<1> QED
  BY <1>1, <1>2, Untouched

\* The sender takes a message: its frame joins the line, if there still is one.
LEMMA SendTakeRight ==
  ASSUME TypeInv, TypeInv', NEW q \in Sides, SendTake(q),
         NEW r \in Sides, DirectionRight(r)
  PROVE  DirectionRight(r)'
<1> DEFINE m == Head(queue[q])
           t == taken[q]
<1>1. /\ m \in Msgs /\ t \in Seq(Msgs) /\ taken \in [Sides -> Seq(Msgs)]
      /\ out \in Streams /\ sender \in [Sides -> {"recv", "write", "end"}]
      /\ sender[q] = "recv" /\ out[q] = <<>> /\ done[q] \in BOOLEAN
  BY DEF SendTake, TypeInv, FlagTypes, Flags, QueueTypes, SenderTypes
<1>2. /\ taken' = [taken EXCEPT ![q] = Append(t, m)]
      /\ sender' = [sender EXCEPT ![q] = IF done[q] THEN "end" ELSE "write"]
      /\ out' = [out EXCEPT ![q] = IF done[q] THEN <<>> ELSE Frame(m)]
      /\ shuted' = shuted /\ cut' = cut /\ pipe' = pipe
      /\ buf' = buf /\ held' = held /\ reader' = reader
      /\ parser' = parser /\ acc' = acc /\ need' = need /\ got' = got
  BY DEF SendTake, Again, recvVars, readVars
<1>3. CASE q # Other(r)
  <2>1. Other(r) \in Sides
    BY TwoSides
  <2>2. /\ taken'[Other(r)] = taken[Other(r)] /\ out'[Other(r)] = out[Other(r)]
        /\ sender'[Other(r)] = sender[Other(r)]
    BY <1>1, <1>2, <1>3, <2>1 DEF Streams
  <2>3. UNCHANGED LineVars(r) /\ SameParser(r)
    BY <1>2, <2>2 DEF LineVars, SameParser, Other
  <2> QED
    BY <2>3, Untouched
<1>4. CASE q = Other(r)
  <2> SUFFICES ASSUME parser'[r] = "read", Clean(r)'
               PROVE  LineRight(r)' /\ PartRight(r)'
    BY DEF DirectionRight
  <2>1. /\ taken'[q] = Append(t, m) /\ Len(Append(t, m)) = Len(t) + 1
        /\ Len(t) \in Nat /\ \A n \in 1..Len(t) : Append(t, m)[n] = t[n]
    BY <1>1, <1>2
  <2>2. Here(r)' = Here(r)
    BY <1>2 DEF Here
  <2>3. parser[r] = "read" /\ Clean(r)
    <3>1. DOMAIN t = 1..Len(t) /\ DOMAIN Append(t, m) = 1..(Len(t) + 1)
      BY <1>1
    <3>2. /\ taken'[Other(r)] = Append(t, m) /\ taken[Other(r)] = t
          /\ got'[r] = got[r] /\ parser'[r] = parser[r]
      BY <1>2, <1>4, <2>1
    <3> HIDE DEF t, m
    <3> QED
      BY <2>1, <3>1, <3>2 DEF Clean, Other, Fits
  <2>4. LineRight(r) /\ PartRight(r)
    BY <2>3 DEF DirectionRight
  <2>5. PartRight(r)'
    <3>1. DOMAIN t = 1..Len(t) /\ DOMAIN Append(t, m) = 1..(Len(t) + 1)
      BY <1>1
    <3>2. acc[r] \in Seq(Units) /\ Len(acc[r]) \in Nat
      BY DEF TypeInv, ParserTypes, Streams
    <3>3. acc[r] # <<>> => Len(got[r]) + 1 \in 1..Len(t)
      BY <1>4, <2>4, <3>1 DEF PartRight
    <3>4. /\ taken'[Other(r)] = Append(t, m) /\ taken[Other(r)] = t
          /\ acc'[r] = acc[r] /\ need'[r] = need[r] /\ got'[r] = got[r]
      BY <1>2, <1>4, <2>1
    <3> HIDE DEF t, m
    <3>5. CASE acc[r] = <<>>
      BY <2>4, <3>2, <3>4, <3>5 DEF PartRight, Other, FrameLen
    <3>6. CASE acc[r] # <<>>
      <4>1. Append(t, m)[Len(got[r]) + 1] = t[Len(got[r]) + 1]
        BY <2>1, <3>3, <3>6
      <4> QED
        BY <2>1, <2>4, <3>1, <3>3, <3>4, <3>6, <4>1 DEF PartRight, Other, FrameLen
    <3> QED
      BY <3>5, <3>6
  <2>6. PICK y \in Places : /\ Leads(Line(r), t, Here(r), y)
                            /\ Joined(r) => y = PlaceAt(Len(t) + 1, 1)
    BY <1>4, <2>4 DEF LineRight
  <2>7. Line(r) \in Seq(Units) /\ OnWire(r) \in Seq(Units)
    BY LineTyped DEF LinesTyped
  <2>8. Leads(Line(r), Append(t, m), Here(r), y)
    BY <1>1, <2>6, <2>7, LeadsGrow
  <2>9. CASE done[q] \/ ~Joined(r)
    <3>1. ~Joined(r)'
      BY <1>1, <1>2, <1>4, <2>9 DEF Joined, Other
    <3>2. Line(r)' = Line(r)
      <4>1. CASE r \in Streamed /\ reader[r] = "end"
        BY <1>2, <4>1 DEF Line, Unread
      <4>2. CASE ~(r \in Streamed /\ reader[r] = "end")
        <5>1. shuted[q] \/ cut \/ done[q]
          BY <1>1, <1>4, <2>9, <4>2 DEF Joined
        <5>2. Written(q)' = Written(q)
          BY <1>1, <1>2, <5>1 DEF Written, Streams
        <5> QED
          BY <1>2, <1>4, <5>2 DEF Line, Unread, OnWire, Other
      <4> QED
        BY <4>1, <4>2
    <3> QED
      BY <1>4, <2>1, <2>2, <2>5, <2>8, <3>1, <3>2, LineRightNext
  <2>10. CASE ~done[q] /\ Joined(r)
    <3> DEFINE f == Frame(m)
    <3>1. f \in Seq(Units)
      BY <1>1, FrameTyped
    <3>2. Written(q) = <<>> /\ Written(q)' = f
      BY <1>1, <1>2, <1>4, <2>10 DEF Written, Joined, Streams
    <3> HIDE DEF f
    <3>3. /\ pipe[q] \in Seq(Units) /\ held[r] \in Seq(Units)
          /\ buf[r] \in Seq(Units)
      BY DEF TypeInv, StreamTypes, Streams
    <3>4. OnWire(r) = pipe[q] /\ OnWire(r)' = Cat(pipe[q], f)
      BY <1>2, <1>4, <3>2, <3>3, CatEmpty DEF OnWire, Other
    <3>5. Line(r)' = Cat(Line(r), f)
      <4>1. CASE r \in Streamed
        <5>1. reader[r] # "end"
          BY <2>10, <4>1 DEF Joined
        <5>2. /\ Line(r) = Cat(buf[r], Cat(held[r], pipe[q]))
              /\ Line(r)' = Cat(buf[r], Cat(held[r], Cat(pipe[q], f)))
          BY <1>2, <3>4, <4>1, <5>1 DEF Line, Unread
        <5> QED
          BY <3>1, <3>3, <5>2, CutOff
      <4>2. CASE r \notin Streamed
        BY <3>4, <4>2 DEF Line
      <4> QED
        BY <4>1, <4>2
    <3>6. y = PlaceAt(Len(t) + 1, 1)
      BY <2>6, <2>10
    <3>7. Leads(f, Append(t, m), y, PlaceAt(Len(t) + 2, 1))
      BY <1>1, <3>6, LeadsFrame DEF f
    <3>8. Leads(Cat(Line(r), f), Append(t, m), Here(r), PlaceAt(Len(t) + 2, 1))
      BY <2>7, <2>8, <3>1, <3>7, LeadsJoin
    <3>9. /\ PlaceAt(Len(t) + 2, 1) \in Places
          /\ PlaceAt(Len(t) + 2, 1) = PlaceAt(Len(taken'[Other(r)]) + 1, 1)
      <4>1. Len(taken'[Other(r)]) + 1 = Len(t) + 2 /\ Len(t) + 2 \in Nat
        BY <1>4, <2>1
      <4> QED
        BY <4>1 DEF Places, PlaceAt
    <3> QED
      BY <1>4, <2>1, <2>2, <2>5, <3>5, <3>8, <3>9, LineRightNext
  <2> QED
    BY <2>9, <2>10
<1> QED
  BY <1>3, <1>4

\* What the parser finds when it reads the first unit of its line: the next
\* unit of the message that is next, which fits.
LEMMA NextUnit ==
  ASSUME TypeInv, NEW p \in Sides, DirectionRight(p), Clean(p),
         parser[p] = "read", Source(p) # <<>>, Consume(p),
         UNCHANGED <<shuted, cut, sendVars, reader, held>>,
         NEW t, t = taken[Other(p)], NEW n, n = Len(got[p]) + 1,
         NEW k, k = Len(acc[p]) + 1, NEW u, u = Head(Source(p))
  PROVE  /\ t \in Seq(Msgs) /\ n \in 1..Len(t) /\ t[n] \in Msgs /\ Fits(t[n])
         /\ k \in 1..FrameLen(t[n]) /\ u = [msg |-> t[n], at |-> k]
         /\ \E y \in Places :
              /\ Leads(Line(p)', t, After(t, PlaceAt(n, k)), y)
              /\ Joined(p)' => y = PlaceAt(Len(t) + 1, 1)
<1>1. LineRight(p) /\ t \in Seq(Msgs)
  BY TwoSides DEF DirectionRight, TypeInv, QueueTypes
<1>2. PICK y \in Places : /\ Leads(Line(p), t, Here(p), y)
                          /\ Joined(p) => y = PlaceAt(Len(t) + 1, 1)
  BY <1>1 DEF LineRight
<1>3. /\ Line(p) # <<>> /\ Head(Line(p)) = u /\ Line(p)' = Tail(Line(p))
      /\ Joined(p)' => Joined(p) /\ Line(p) \in Seq(Units)
  BY LineConsume, LineTyped DEF LinesTyped
<1>4. Here(p) = PlaceAt(n, k) /\ Here(p).num = n /\ Here(p).at = k
  BY DEF Here, PlaceAt
<1>5. /\ Inside(t, Here(p)) /\ u = UnitAt(t, Here(p))
      /\ Leads(Line(p)', t, After(t, Here(p)), y)
  <2> DEFINE s == Line(p)
  <2>1. s \in Seq(Units) /\ s # <<>>
    <3>1. Line(p) \in Seq(Units)
      BY LineTyped DEF LinesTyped
    <3>2. Line(p) # <<>>
      BY <1>3, Zenon
    <3> QED
      BY <3>1, <3>2
  <2>2. Leads(s, t, Here(p), y)
    BY <1>2
  <2> HIDE DEF s
  <2>3. /\ Inside(t, Here(p)) /\ Head(s) = UnitAt(t, Here(p))
        /\ Leads(Tail(s), t, After(t, Here(p)), y)
    BY <2>1, <2>2, LeadsTail
  <2> QED
    BY <1>3, <2>3 DEF s
<1>6. n \in 1..Len(t) /\ k \in 1..FrameLen(t[n]) /\ u = [msg |-> t[n], at |-> k]
  BY <1>4, <1>5 DEF Inside, UnitAt
<1>7. n \in DOMAIN t /\ t[n] \in Msgs
  BY <1>1, <1>6
<1>8. Fits(t[n])
  BY <1>7, <1>6 DEF Clean
<1> QED
  BY <1>1, <1>2, <1>3, <1>4, <1>5, <1>6, <1>7, <1>8

\* The parser reads on within a frame.
LEMMA ParseUnitRight ==
  ASSUME TypeInv, TypeInv', NEW p \in Sides, ParseUnit(p), DirectionRight(p)
  PROVE  DirectionRight(p)'
<1> SUFFICES ASSUME parser'[p] = "read", Clean(p)'
             PROVE  LineRight(p)' /\ PartRight(p)'
  BY DEF DirectionRight
<1> DEFINE t == taken[Other(p)]
           n == Len(got[p]) + 1
           k == Len(acc[p]) + 1
           u == Head(Source(p))
<1>1. /\ parser \in [Sides -> {"read", "end"}] /\ acc \in Streams
      /\ need \in Counts /\ acc[p] \in Seq(Units) /\ Len(acc[p]) \in Nat
  BY DEF TypeInv, ParserTypes, Streams
<1>2. /\ Source(p) # <<>> /\ Consume(p) /\ parser[p] = "read"
      /\ k # need[p] /\ UNCHANGED <<shuted, cut, sendVars, reader, held, got>>
  BY DEF ParseUnit
<1>3. ~ParseEnd(p)
  BY <1>1 DEF ParseEnd
<1>4. /\ acc' = [acc EXCEPT ![p] = Append(@, u)]
      /\ \E l \in (IF k = 2 THEN Lengths(u) ELSE {need[p]}) :
           need' = [need EXCEPT ![p] = l]
  BY <1>3 DEF ParseUnit
<1>5. /\ taken' = taken /\ got' = got
  BY <1>2 DEF sendVars
<1>6. Clean(p)
  BY <1>5 DEF Clean, Other, Fits
<1>7. PartRight(p)
  BY <1>2, <1>6 DEF DirectionRight
<1>8. /\ t \in Seq(Msgs) /\ n \in 1..Len(t) /\ t[n] \in Msgs /\ Fits(t[n])
      /\ k \in 1..FrameLen(t[n]) /\ u = [msg |-> t[n], at |-> k]
      /\ \E y \in Places :
           /\ Leads(Line(p)', t, After(t, PlaceAt(n, k)), y)
           /\ Joined(p)' => y = PlaceAt(Len(t) + 1, 1)
  BY <1>2, <1>6, NextUnit, SMTT(30)
<1>9. /\ FrameLen(t[n]) \in Nat /\ FrameLen(t[n]) >= 3
      /\ Declared(t[n]) = FrameLen(t[n])
  BY <1>8, FrameLength
<1>10. /\ need[p] = IF Len(acc[p]) < 2 THEN 0 ELSE FrameLen(t[n])
       /\ \A i \in 1..Len(acc[p]) : acc[p][i] = [msg |-> t[n], at |-> i]
  BY <1>7 DEF PartRight
<1> HIDE DEF u
<1>11. k < FrameLen(t[n])
  BY <1>1, <1>2, <1>8, <1>9, <1>10
<1>12. /\ acc'[p] = Append(acc[p], u) /\ Len(acc'[p]) = k
       /\ \A i \in 1..k : acc'[p][i] = [msg |-> t[n], at |-> i]
  <2>1. acc'[p] = Append(acc[p], u)
    BY <1>1, <1>4 DEF Streams
  <2>2. /\ Len(Append(acc[p], u)) = Len(acc[p]) + 1
        /\ \A i \in 1..(Len(acc[p]) + 1) :
             Append(acc[p], u)[i] = IF i <= Len(acc[p]) THEN acc[p][i] ELSE u
    BY <1>1
  <2> QED
    BY <1>1, <1>8, <1>10, <2>1, <2>2
<1>13. need'[p] = IF k < 2 THEN 0 ELSE FrameLen(t[n])
  <2>1. CASE k = 2
    <3>1. u.at = 2 /\ u.msg = t[n]
      BY <1>8, <2>1
    <3>2. Lengths(u) = {FrameLen(t[n])}
      BY <1>9, <3>1 DEF Lengths
    <3> QED
      BY <1>1, <1>4, <2>1, <3>2 DEF Counts
  <2>2. CASE k # 2
    <3>1. need'[p] = need[p]
      BY <1>1, <1>4, <2>2 DEF Counts
    <3> QED
      BY <1>1, <1>10, <2>2, <3>1
  <2> QED
    BY <2>1, <2>2
<1>14. /\ Here(p)' = PlaceAt(n, k + 1)
       /\ After(t, PlaceAt(n, k)) = PlaceAt(n, k + 1)
  <2>1. PlaceAt(n, k).num = n /\ PlaceAt(n, k).at = k
    BY DEF PlaceAt
  <2>2. After(t, PlaceAt(n, k)) = PlaceAt(n, k + 1)
    BY <1>1, <1>9, <1>11, <2>1 DEF After
  <2> QED
    BY <1>5, <1>12, <2>2 DEF Here
<1>15. taken'[Other(p)] = t /\ got'[p] = got[p]
  BY <1>5
<1>16. LineRight(p)'
  BY <1>8, <1>14, <1>15, LineRightNext
<1>17. PartRight(p)'
  <2>1. n \in DOMAIN t
    BY <1>8
  <2> HIDE DEF t, n, k
  <2> QED
    BY <1>11, <1>12, <1>13, <1>15, <2>1 DEF PartRight, Other, n, FrameLen
<1> QED
  BY <1>16, <1>17

\* The parser hands a frame over: it is that of the next message.
LEMMA ParseMsgExact ==
  ASSUME TypeInv, NEW p \in Sides, ParseMsg(p), DirectionRight(p), Clean(p),
         NEW t, t = taken[Other(p)], NEW n, n = Len(got[p]) + 1
  PROVE  /\ n \in DOMAIN t /\ t \in Seq(Msgs) /\ got'[p] = Append(got[p], Frame(t[n]))
         /\ \E y \in Places :
              /\ Leads(Line(p)', t, PlaceAt(n + 1, 1), y)
              /\ Joined(p)' => y = PlaceAt(Len(t) + 1, 1)
<1> DEFINE k == Len(acc[p]) + 1
           u == Head(Source(p))
<1>1. /\ acc[p] \in Seq(Units) /\ Len(acc[p]) \in Nat
      /\ got \in [Sides -> Seq(Seq(Units))]
  BY DEF TypeInv, ParserTypes, Streams
<1>2. /\ Source(p) # <<>> /\ Consume(p) /\ parser[p] = "read"
      /\ k = need[p] /\ UNCHANGED <<shuted, cut, sendVars, reader, held>>
      /\ got' = [got EXCEPT ![p] = Append(@, Append(acc[p], u))]
  BY DEF ParseMsg
<1>3. /\ t \in Seq(Msgs) /\ n \in 1..Len(t) /\ t[n] \in Msgs
      /\ k \in 1..FrameLen(t[n]) /\ u = [msg |-> t[n], at |-> k]
      /\ \E y \in Places :
           /\ Leads(Line(p)', t, After(t, PlaceAt(n, k)), y)
           /\ Joined(p)' => y = PlaceAt(Len(t) + 1, 1)
  BY <1>2, NextUnit, SMTT(30)
<1>4. FrameLen(t[n]) \in Nat /\ FrameLen(t[n]) >= 3
  BY <1>3, FrameLength
<1>5. /\ need[p] = IF Len(acc[p]) < 2 THEN 0 ELSE FrameLen(t[n])
      /\ \A i \in 1..Len(acc[p]) : acc[p][i] = [msg |-> t[n], at |-> i]
  BY <1>2 DEF DirectionRight, PartRight
<1> HIDE DEF u
<1>6. k = FrameLen(t[n])
  BY <1>1, <1>2, <1>4, <1>5
<1>7. After(t, PlaceAt(n, k)) = PlaceAt(n + 1, 1)
  <2>1. PlaceAt(n, k).num = n /\ PlaceAt(n, k).at = k
    BY DEF PlaceAt
  <2> QED
    BY <1>6, <2>1 DEF After
<1>8. Append(acc[p], u) = Frame(t[n])
  <2>1. /\ Append(acc[p], u) \in Seq(Units) /\ Len(Append(acc[p], u)) = k
        /\ \A i \in 1..k : Append(acc[p], u)[i] = [msg |-> t[n], at |-> i]
    <3> DEFINE s == acc[p]
    <3>1. u \in Units
      BY <1>1, <1>3 DEF Units
    <3>2. s \in Seq(Units) /\ Len(s) \in Nat /\ k = Len(s) + 1
      BY <1>1
    <3>3. u = [msg |-> t[n], at |-> k]
      BY <1>3
    <3>4. \A i \in 1..Len(s) : s[i] = [msg |-> t[n], at |-> i]
      BY <1>5
    <3> HIDE DEF s, k
    <3>5. /\ Append(s, u) \in Seq(Units) /\ Len(Append(s, u)) = k
          /\ \A i \in 1..Len(s) : Append(s, u)[i] = s[i]
          /\ Append(s, u)[k] = u
      BY <3>1, <3>2, AppendProperties
    <3>6. \A i \in 1..k : i \in 1..Len(s) \/ i = k
      BY <3>2
    <3>7. ASSUME NEW i \in 1..k
          PROVE  Append(s, u)[i] = [msg |-> t[n], at |-> i]
      <4> DEFINE e == Append(s, u)
                 c == [msg |-> t[n], at |-> i]
      <4>1. \/ e[i] = s[i] /\ s[i] = c
            \/ i = k /\ e[k] = u /\ u = [msg |-> t[n], at |-> k]
        BY <3>3, <3>4, <3>5, <3>6
      <4> QED
        BY <4>1
    <3> QED
      BY <3>5, <3>7 DEF s
  <2>2. /\ Frame(t[n]) \in Seq(Units) /\ Len(Frame(t[n])) = k
        /\ \A i \in 1..k : Frame(t[n])[i] = [msg |-> t[n], at |-> i]
    <3>1. Frame(t[n]) \in Seq(Units)
      BY <1>3, FrameTyped
    <3> HIDE DEF k
    <3>2. Frame(t[n]) = [i \in 1..k |-> [msg |-> t[n], at |-> i]] /\ k \in Nat
      BY <1>4, <1>6 DEF Frame
    <3> QED
      BY <3>1, <3>2
  <2> DEFINE a == Append(acc[p], u)
             b == Frame(t[n])
  <2>3. /\ a \in Seq(Units) /\ b \in Seq(Units) /\ Len(a) = k /\ Len(b) = k
        /\ \A i \in 1..k : a[i] = b[i]
    BY <2>1, <2>2
  <2> HIDE DEF a, b, k
  <2>4. a = b
    BY <2>3, SeqEqual
  <2> QED
    BY <2>4 DEF a, b
<1>9. got'[p] = Append(got[p], Frame(t[n]))
  BY <1>1, <1>2, <1>8
<1> QED
  BY <1>3, <1>7, <1>9

\* After a message the parser stands at the start of the next frame.
LEMMA ParseMsgRight ==
  ASSUME TypeInv, TypeInv', NEW p \in Sides, ParseMsg(p), DirectionRight(p)
  PROVE  DirectionRight(p)'
<1> SUFFICES ASSUME parser'[p] = "read", Clean(p)'
             PROVE  LineRight(p)' /\ PartRight(p)'
  BY DEF DirectionRight
<1> DEFINE t == taken[Other(p)]
           n == Len(got[p]) + 1
           f == Append(acc[p], Head(Source(p)))
<1>1. /\ got \in [Sides -> Seq(Seq(Units))] /\ acc \in Streams /\ need \in Counts
      /\ got'[p] \in Seq(Seq(Units)) /\ got[p] \in Seq(Seq(Units))
  BY DEF TypeInv, ParserTypes
<1>2. /\ got' = [got EXCEPT ![p] = Append(@, f)]
      /\ acc' = [acc EXCEPT ![p] = <<>>] /\ need' = [need EXCEPT ![p] = 0]
      /\ taken' = taken
  BY DEF ParseMsg, sendVars
<1>3. /\ acc'[p] = <<>> /\ need'[p] = 0 /\ taken'[Other(p)] = t
      /\ got'[p] = Append(got[p], f)
  BY <1>1, <1>2 DEF Streams, Counts
<1> HIDE DEF f
<1>4. Len(got'[p]) = n /\ n \in Nat
  BY <1>1, <1>3
<1>5. Clean(p)
  <2>1. taken'[Other(p)] = t
    BY <1>3
  <2>2. \A i \in 1..n : i \in 1..(Len(got'[p]) + 1)
    BY <1>4
  <2> QED
    BY <2>1, <2>2 DEF Clean, Other, Fits
<1>6. \E y \in Places :
        /\ Leads(Line(p)', t, PlaceAt(n + 1, 1), y)
        /\ Joined(p)' => y = PlaceAt(Len(t) + 1, 1)
  BY <1>5, ParseMsgExact
<1>7. Here(p)' = PlaceAt(n + 1, 1)
  <2>1. Len(acc'[p]) + 1 = 1
    BY <1>3
  <2> QED
    BY <1>4, <2>1 DEF Here
<1>8. LineRight(p)'
  BY <1>3, <1>6, <1>7, LineRightNext
<1>9. PartRight(p)'
  BY <1>3 DEF PartRight
<1> QED
  BY <1>8, <1>9

\* Every step keeps both directions right.
LEMMA LineStep ==
  ASSUME TypeInv, TypeInv', ReaderInv, LineInv, [Next]_vars PROVE LineInv'
<1> SUFFICES ASSUME NEW r \in Sides PROVE DirectionRight(r)'
  BY DEF LineInv
<1>1. DirectionRight(r)
  BY DEF LineInv
<1>2. /\ pipe \in [Sides -> Seq(Units)] /\ out \in [Sides -> Seq(Units)]
      /\ held \in [Sides -> Seq(Units)] /\ buf \in [Sides -> Seq(Units)]
      /\ acc \in [Sides -> Seq(Units)] /\ need \in [Sides -> Nat]
      /\ got \in [Sides -> Seq(Seq(Units))]
      /\ shuted \in [Sides -> BOOLEAN]
      /\ sender \in [Sides -> {"recv", "write", "end"}]
      /\ reader \in [Sides -> {"read", "push", "end"}]
      /\ parser \in [Sides -> {"read", "end"}]
  BY DEF TypeInv, FlagTypes, Flags, SenderTypes, StreamTypes, ParserTypes,
         Streams, Counts
<1>3. /\ Other(r) \in Sides /\ Other(r) # r
      /\ \A p \in Sides : p # r => p = Other(r) /\ Other(p) = r
  BY TwoSides
<1>4. ASSUME NEW p \in Sides, NEW m \in Sends[p], Send(p, m)
      PROVE  DirectionRight(r)'
  BY <1>1, <1>4, ElsewhereRight DEF Send, recvVars
<1>5. ASSUME NEW p \in Sides, SendTake(p) PROVE DirectionRight(r)'
  BY <1>1, <1>5, SendTakeRight
<1>6. ASSUME NEW p \in Sides, SendIdle(p) \/ SendUnit(p) \/ SendFail(p)
      PROVE  DirectionRight(r)'
  <2>1. SameParser(r) /\ UNCHANGED <<shuted, cut, buf, held, reader>>
    BY <1>6 DEF SendIdle, SendUnit, SendFail, SameParser, recvVars, readVars
  <2>2. CASE p = r
    <3>1. /\ pipe'[Other(r)] = pipe[Other(r)] /\ out'[Other(r)] = out[Other(r)]
          /\ sender'[Other(r)] = sender[Other(r)]
      BY <1>2, <1>3, <1>6, <2>2 DEF SendIdle, SendUnit, SendFail
    <3>2. UNCHANGED LineVars(r)
      BY <2>1, <3>1 DEF LineVars, Other
    <3> QED
      BY <1>1, <2>1, <3>2, Untouched
  <2>3. CASE p # r
    <3>1. p = Other(r) /\ Other(p) = r
      BY <1>3, <2>3
    <3>2. CASE SendUnit(p)
      <4>1. SameLine(r) \/ CutLine(r)
        BY <3>1, <3>2, LineSendUnit
      <4> QED
        BY <1>1, <2>1, <4>1, LineKept
    <3>3. CASE SendIdle(p) \/ SendFail(p)
      <4>1. OnWire(r)' = OnWire(r)
        BY <2>1, <3>1, <3>3
        DEF SendIdle, SendFail, OnWire, Written, Other
      <4>2. Line(r)' = Line(r)
        BY <2>1, <4>1 DEF Line, Unread
      <4>3. ~Joined(r)'
        <5>1. CASE SendIdle(p)
          BY <1>2, <3>1, <5>1 DEF SendIdle, Joined, Other
        <5>2. CASE SendFail(p)
          BY <2>1, <3>1, <5>2 DEF SendFail, Joined, Other
        <5> QED
          BY <3>3, <5>1, <5>2
      <4> QED
        BY <1>1, <2>1, <4>2, <4>3, LineKept DEF SameLine
    <3> QED
      BY <1>6, <3>2, <3>3
  <2> QED
    BY <2>2, <2>3
<1>7. ASSUME NEW p \in Sides, ReadStep(p) PROVE DirectionRight(r)'
  <2>1. SameParser(r) /\ UNCHANGED <<shuted, cut, sender, out>>
    BY <1>7 DEF ReadStep, ReadFill, ReadPush, ReadFail, SameParser, recvVars,
                sendVars
  <2>2. CASE p # r
    <3>1. /\ pipe'[Other(r)] = pipe[Other(r)] /\ buf'[r] = buf[r]
          /\ held'[r] = held[r] /\ reader'[r] = reader[r]
      BY <1>2, <1>3, <1>7, <2>2 DEF ReadStep, ReadFill, ReadPush, ReadFail
    <3>2. UNCHANGED LineVars(r)
      BY <2>1, <3>1 DEF LineVars, Other
    <3> QED
      BY <1>1, <2>1, <3>2, Untouched
  <2>3. CASE p = r
    <3>1. SameLine(r) \/ CutLine(r)
      BY <1>7, <2>3, LineReadFill, LineReadPush, LineReadFail DEF ReadStep
    <3> QED
      BY <1>1, <2>1, <3>1, LineKept
  <2> QED
    BY <2>2, <2>3
<1>8. ASSUME NEW p \in Sides, ParseStep(p) PROVE DirectionRight(r)'
  <2>1. UNCHANGED <<shuted, cut, sender, out, held, reader, taken>>
    BY <1>8 DEF ParseStep, ParseUnit, ParseMsg, ParseReject, ParseFail, sendVars,
                readVars
  <2>2. CASE p # r
    <3>1. pipe'[Other(r)] = pipe[Other(r)] /\ buf'[r] = buf[r]
      BY <1>2, <1>3, <1>8, <2>2
      DEF ParseStep, ParseUnit, ParseMsg, ParseReject, ParseFail, Consume, readVars
    <3>2. UNCHANGED LineVars(r)
      BY <2>1, <3>1 DEF LineVars, Other
    <3>3. /\ parser'[r] = parser[r] /\ acc'[r] = acc[r] /\ need'[r] = need[r]
          /\ got'[r] = got[r]
      BY <1>2, <1>8, <2>2
      DEF ParseStep, ParseUnit, ParseMsg, ParseReject, ParseFail, ParseEnd
    <3>4. SameParser(r)
      BY <2>1, <3>3 DEF SameParser
    <3> QED
      BY <1>1, <3>2, <3>4, Untouched
  <2>3. CASE p = r
    <3>1. CASE ParseUnit(p)
      BY <1>1, <2>3, <3>1, ParseUnitRight
    <3>2. CASE ParseMsg(p)
      BY <1>1, <2>3, <3>2, ParseMsgRight
    <3>3. CASE ParseReject(p) \/ ParseFail(p)
      <4>1. parser'[r] = "end"
        BY <1>2, <2>3, <3>3 DEF ParseReject, ParseFail, ParseEnd
      <4> QED
        BY <4>1 DEF DirectionRight
    <3> QED
      BY <1>8, <3>1, <3>2, <3>3 DEF ParseStep
  <2> QED
    BY <2>2, <2>3
<1>9. ASSUME NEW p \in Sides, NEW i \in handling[p], HandlerEnd(p, i)
      PROVE  DirectionRight(r)'
  BY <1>1, <1>9, ElsewhereRight DEF HandlerEnd, sendVars
<1>10. ASSUME NEW p \in Sides, HeartSend(p) \/ HeartTimeout(p) \/ HeartTick(p)
       PROVE  DirectionRight(r)'
  BY <1>1, <1>10, ElsewhereRight
  DEF HeartSend, HeartTimeout, HeartTick, sendVars, recvVars
<1>11. ASSUME NEW p \in Sides, RunEnd(p) \/ UserStop(p)
       PROVE  DirectionRight(r)'
  <2>1. /\ SameParser(r) /\ UNCHANGED <<cut, pipe, readVars, sender, out>>
        /\ shuted' = [shuted EXCEPT ![p] = TRUE]
    BY <1>11 DEF RunEnd, UserStop, SameParser, sendVars, recvVars
  <2>2. CASE p = r
    <3>1. shuted'[Other(r)] = shuted[Other(r)]
      BY <1>2, <1>3, <2>1, <2>2
    <3>2. UNCHANGED LineVars(r)
      BY <2>1, <3>1 DEF LineVars, Other, readVars
    <3> QED
      BY <1>1, <2>1, <3>2, Untouched
  <2>3. CASE p # r
    <3>1. shuted'[Other(r)]
      BY <1>2, <1>3, <2>1, <2>3
    <3>2. CutLine(r)
      BY <2>1, <3>1, LineShut
    <3> QED
      BY <1>1, <2>1, <3>2, LineKept
  <2> QED
    BY <2>2, <2>3
<1>12. CASE Break
  <2>1. SameParser(r) /\ UNCHANGED <<shuted, pipe, readVars>> /\ cut'
    BY <1>12 DEF Break, SameParser, sendVars, recvVars
  <2>2. CutLine(r)
    BY <2>1, LineShut
  <2> QED
    BY <1>1, <2>1, <2>2, LineKept
<1>13. CASE UNCHANGED vars
  BY <1>1, <1>13, ElsewhereRight DEF vars, sendVars, recvVars
<1> QED
  BY <1>4, <1>5, <1>6, <1>7, <1>8, <1>9, <1>10, <1>11, <1>12, <1>13
  DEF Next, SendStep, LoopStep

----------------------------------------------------------------------------
(* What arrives is what was sent *)

\* What the steps do to the histories: a message is taken, or one is handed
\* over.
LEMMA HistoryStep ==
  ASSUME TypeInv, [Next]_vars, NEW p \in Sides
  PROVE  /\ \/ taken'[p] = taken[p]
            \/ \E m \in Msgs : taken'[p] = Append(taken[p], m)
         /\ \/ got'[p] = got[p]
            \/ ParseMsg(p) /\ taken' = taken
<1>1. ASSUME UNCHANGED <<taken, got>> PROVE got'[p] = got[p] /\ taken'[p] = taken[p]
  BY <1>1
<1>2. ASSUME NEW r \in Sides, NEW m \in Sends[r], Send(r, m)
      PROVE  UNCHANGED <<taken, got>>
  BY <1>2 DEF Send, recvVars
<1>3. ASSUME NEW r \in Sides, SendTake(r)
      PROVE  /\ \/ taken'[p] = taken[p]
                \/ \E m \in Msgs : taken'[p] = Append(taken[p], m)
             /\ got' = got
  <2>1. /\ taken' = [taken EXCEPT ![r] = Append(taken[r], Head(queue[r]))]
        /\ Head(queue[r]) \in Msgs /\ taken \in [Sides -> Seq(Msgs)] /\ got' = got
    BY <1>3 DEF SendTake, TypeInv, QueueTypes, recvVars
  <2> QED
    BY <2>1
<1>4. ASSUME NEW r \in Sides,
             SendIdle(r) \/ SendUnit(r) \/ SendFail(r) \/ ReadStep(r)
      PROVE  UNCHANGED <<taken, got>>
  BY <1>4 DEF SendIdle, SendUnit, SendFail, ReadStep, ReadFill, ReadPush,
              ReadFail, recvVars, sendVars
<1>5. ASSUME NEW r \in Sides, ParseUnit(r) \/ ParseReject(r) \/ ParseFail(r)
      PROVE  UNCHANGED <<taken, got>>
  BY <1>5 DEF ParseUnit, ParseReject, ParseFail, sendVars
<1>6. ASSUME NEW r \in Sides, ParseMsg(r)
      PROVE  taken' = taken /\ (got'[p] = got[p] \/ r = p)
  <2>1. taken' = taken /\ got \in [Sides -> Seq(Seq(Units))]
    BY <1>6 DEF ParseMsg, sendVars, TypeInv, ParserTypes
  <2>2. got' = [got EXCEPT ![r] = Append(@, Append(acc[r], Head(Source(r))))]
    BY <1>6 DEF ParseMsg
  <2> QED
    BY <2>1, <2>2
<1>7. ASSUME NEW r \in Sides, NEW i \in handling[r], HandlerEnd(r, i)
      PROVE  UNCHANGED <<taken, got>>
  BY <1>7 DEF HandlerEnd, sendVars
<1>8. ASSUME NEW r \in Sides,
             LoopStep(r) \/ HeartTimeout(r) \/ HeartTick(r) \/ UserStop(r)
      PROVE  UNCHANGED <<taken, got>>
  BY <1>8 DEF LoopStep, HeartSend, RunEnd, HeartTimeout, HeartTick, UserStop,
              sendVars, recvVars
<1>9. CASE Break \/ UNCHANGED vars
  BY <1>1, <1>9 DEF Break, vars, sendVars, recvVars
<1> QED
  BY <1>1, <1>2, <1>3, <1>4, <1>5, <1>6, <1>7, <1>8, <1>9
  DEF Next, SendStep, ParseStep

\* A frame that was handed over stays what it is; a new one is the next one.
LEMMA ExactStep ==
  ASSUME TypeInv, LineInv, ExactFrames, [Next]_vars PROVE ExactFrames'
<1> SUFFICES ASSUME NEW p \in Sides, NEW k \in Sound(p)'
             PROVE  /\ k \in DOMAIN taken'[Other(p)]
                    /\ got'[p][k] = Frame(taken'[Other(p)][k])
  BY DEF ExactFrames, Other, Frame, FrameLen
<1> DEFINE t == taken[Other(p)]
           s == taken'[Other(p)]
           n == Len(got[p]) + 1
<1>1. /\ t \in Seq(Msgs) /\ Len(t) \in Nat /\ DOMAIN t = 1..Len(t)
      /\ got[p] \in Seq(Seq(Units)) /\ Len(got[p]) \in Nat
      /\ DOMAIN got[p] = 1..Len(got[p])
  BY TwoSides DEF TypeInv, QueueTypes, ParserTypes
<1>2. \A i \in DOMAIN t : i \in DOMAIN s /\ s[i] = t[i]
  <2>1. s = t \/ \E m \in Msgs : s = Append(t, m)
    BY TwoSides, HistoryStep
  <2> QED
    BY <1>1, <2>1
<1>3. /\ k \in DOMAIN got'[p]
      /\ \A i \in 1..k : i \in DOMAIN s => Fits(s[i])
  BY DEF Sound, Other, Fits
<1>4. \A i \in 1..k : i \in DOMAIN t => Fits(t[i])
  BY <1>2, <1>3
<1>5. CASE k \in DOMAIN got[p]
  <2>1. k \in Sound(p)
    BY <1>4, <1>5 DEF Sound
  <2>2. k \in DOMAIN t /\ got[p][k] = Frame(t[k])
    BY <2>1 DEF ExactFrames
  <2>3. got'[p][k] = got[p][k]
    <3>1. got'[p] = got[p] \/ ParseMsg(p)
      BY HistoryStep
    <3>2. CASE ParseMsg(p)
      <4>1. \E f : got'[p] = Append(got[p], f)
        BY <3>2 DEF ParseMsg, TypeInv, ParserTypes
      <4> QED
        BY <1>1, <1>5, <4>1
    <3> QED
      BY <3>1, <3>2
  <2> QED
    BY <1>2, <2>2, <2>3
<1>6. CASE k \notin DOMAIN got[p]
  <2>1. ParseMsg(p) /\ taken' = taken
    BY <1>3, <1>6, HistoryStep
  <2>2. \E f : got'[p] = Append(got[p], f)
    BY <2>1 DEF ParseMsg, TypeInv, ParserTypes
  <2>3. k = n
    BY <1>1, <1>3, <1>6, <2>2
  <2>4. Clean(p)
    BY <1>4, <2>3 DEF Clean
  <2>5. n \in DOMAIN t /\ got'[p] = Append(got[p], Frame(t[n]))
    BY <2>1, <2>4, ParseMsgExact DEF LineInv
  <2>6. got'[p][n] = Frame(t[n])
    BY <1>1, <2>5
  <2> QED
    BY <2>1, <2>3, <2>5, <2>6
<1> QED
  BY <1>5, <1>6

\* Nobody else fills the buffer.
LEMMA ReaderStep == ASSUME TypeInv, ReaderInv, [Next]_vars PROVE ReaderInv'
<1>1. ASSUME UNCHANGED reader PROVE ReaderInv'
  BY <1>1 DEF ReaderInv
<1>2. ASSUME NEW p \in Sides, ReadStep(p) PROVE ReaderInv'
  <2>1. /\ reader \in [Sides -> {"read", "push", "end"}]
        /\ reader[p] # "end" /\ \E e : reader' = [reader EXCEPT ![p] = e]
    BY <1>2 DEF ReadStep, ReadFill, ReadPush, ReadFail, TypeInv, StreamTypes
  <2> QED
    BY <2>1 DEF ReaderInv
<1>3. ASSUME NEW p \in Sides, NEW m \in Sends[p], Send(p, m) PROVE ReaderInv'
  BY <1>1, <1>3 DEF Send, readVars
<1>4. ASSUME NEW p \in Sides, SendStep(p) \/ ParseStep(p) PROVE ReaderInv'
  BY <1>1, <1>4 DEF SendStep, SendTake, SendIdle, SendUnit, SendFail, ParseStep,
                    ParseUnit, ParseMsg, ParseReject, ParseFail, readVars
<1>5. ASSUME NEW p \in Sides, NEW i \in handling[p], HandlerEnd(p, i)
      PROVE  ReaderInv'
  BY <1>1, <1>5 DEF HandlerEnd, readVars
<1>6. ASSUME NEW p \in Sides,
             LoopStep(p) \/ HeartTimeout(p) \/ HeartTick(p) \/ UserStop(p)
      PROVE  ReaderInv'
  BY <1>1, <1>6 DEF LoopStep, HeartSend, RunEnd, HeartTimeout, HeartTick,
                    UserStop, readVars
<1>7. CASE Break \/ UNCHANGED vars
  BY <1>1, <1>7 DEF Break, vars, readVars
<1> QED
  BY <1>2, <1>3, <1>4, <1>5, <1>6, <1>7 DEF Next

\* Initially the lines are empty.
LEMMA LinkInit == Init => LinkInv
<1> SUFFICES ASSUME Init PROVE LinkInv
  OBVIOUS
<1>1. ReaderInv
  BY DEF Init, ReaderInv
<1>2. ExactFrames
  BY DEF Init, Empty, ExactFrames, Sound
<1>3. ASSUME NEW p \in Sides PROVE LineRight(p) /\ PartRight(p)
  <2>1. /\ got[p] = <<>> /\ acc[p] = <<>> /\ need[p] = 0
        /\ taken[Other(p)] = <<>> /\ pipe[Other(p)] = <<>>
        /\ out[Other(p)] = <<>> /\ held[p] = <<>> /\ buf[p] = <<>>
        /\ <<>> \in Seq(Units) /\ Len(<<>>) = 0
    BY TwoSides DEF Init, Empty, Zero
  <2>2. Written(Other(p)) = <<>>
    BY <2>1 DEF Written
  <2>3. OnWire(p) = <<>>
    BY <2>1, <2>2, CatEmpty DEF OnWire
  <2>4. Unread(p) = <<>>
    BY <2>1, <2>3, CatEmpty DEF Unread
  <2>5. Line(p) = <<>>
    BY <2>1, <2>3, <2>4, CatEmpty DEF Line
  <2>6. /\ Here(p) = PlaceAt(1, 1) /\ PlaceAt(1, 1) \in Places
        /\ PlaceAt(Len(taken[Other(p)]) + 1, 1) = PlaceAt(1, 1)
    BY <2>1 DEF Here, PlaceAt, Places
  <2>7. Leads(<<>>, taken[Other(p)], PlaceAt(1, 1), PlaceAt(1, 1))
    BY <2>6, LeadsNowhere
  <2>8. LineRight(p)
    BY <2>5, <2>6, <2>7 DEF LineRight
  <2> QED
    BY <2>1, <2>8 DEF PartRight
<1> QED
  BY <1>1, <1>2, <1>3 DEF LinkInv, LineInv, DirectionRight

LEMMA LinkCorrect == Spec => [](TypeInv /\ LinkInv)
<1>1. TypeInv /\ LinkInv /\ [Next]_vars => (TypeInv /\ LinkInv)'
  BY TypeStep, LineStep, ReaderStep, ExactStep DEF LinkInv
<1> QED
  BY <1>1, TypeInit, LinkInit, PTL DEF Spec

\* Whatever fails, for any messages and buffers: the frames an end hands to
\* on_msg are those of the messages the other end took, in order, none
\* skipped, mixed or repeated, up to the first command that does not fit.
THEOREM FramesAreExact == Spec => []ExactFrames
<1>1. LinkInv => ExactFrames
  BY DEF LinkInv
<1> QED
  BY <1>1, LinkCorrect, PTL

----------------------------------------------------------------------------
(* The pair is a FifoLink *)

Accepted == [p \in Sides |-> taken[p] \o queue[p]]
Passed ==
  [p \in Sides |-> [k \in Sound(Other(p)) |-> got[Other(p)][k][2].msg]]

\* One more message at the end of the channel, or from its head to those taken.
LEMMA AcceptedMore ==
  ASSUME TypeInv, NEW p \in Sides, NEW m \in Msgs, Enqueue(p, m), taken' = taken
  PROVE  Accepted' = [Accepted EXCEPT ![p] = Append(@, m)]
<1>1. /\ queue \in [Sides -> Seq(Msgs)] /\ taken \in [Sides -> Seq(Msgs)]
      /\ queue' = [queue EXCEPT ![p] = Append(@, m)]
  BY DEF TypeInv, QueueTypes, Enqueue
<1>2. taken[p] \o Append(queue[p], m) = Append(taken[p] \o queue[p], m)
  BY <1>1, AppendCat
<1>3. /\ queue'[p] = Append(queue[p], m)
      /\ \A q \in Sides \ {p} : queue'[q] = queue[q]
  BY <1>1
<1> DEFINE a == [Accepted EXCEPT ![p] = Append(@, m)]
<1>4. \A q \in Sides : Accepted'[q] = a[q]
  <2>1. Accepted'[p] = a[p]
    BY <1>2, <1>3 DEF Accepted
  <2>2. \A q \in Sides \ {p} : Accepted'[q] = a[q]
    BY <1>3 DEF Accepted
  <2> QED
    BY <2>1, <2>2
<1>5. Accepted' = [q \in Sides |-> Accepted'[q]] /\ a = [q \in Sides |-> a[q]]
  BY DEF Accepted
<1> QED
  BY <1>4, <1>5

LEMMA AcceptedTaken ==
  ASSUME TypeInv, NEW p \in Sides, SendTake(p) PROVE Accepted' = Accepted
<1> DEFINE t == taken[p]
           q == queue[p]
<1>1. /\ t \in Seq(Msgs) /\ q \in Seq(Msgs) /\ q # <<>>
      /\ taken \in [Sides -> Seq(Msgs)] /\ queue \in [Sides -> Seq(Msgs)]
      /\ taken' = [taken EXCEPT ![p] = Append(t, Head(q))]
      /\ queue' = [queue EXCEPT ![p] = Tail(q)]
  BY DEF SendTake, TypeInv, QueueTypes
<1>2. Append(t, Head(q)) \o Tail(q) = t \o q
  BY <1>1, MoveUnit DEF Cat
<1>3. /\ taken'[p] = Append(t, Head(q)) /\ queue'[p] = Tail(q)
      /\ \A r \in Sides \ {p} : taken'[r] = taken[r] /\ queue'[r] = queue[r]
  BY <1>1
<1>4. taken'[p] \o queue'[p] = taken[p] \o queue[p]
  BY <1>2, <1>3
<1>5. \A r \in Sides : taken'[r] \o queue'[r] = taken[r] \o queue[r]
  BY <1>3, <1>4
<1> QED
  BY <1>5 DEF Accepted

\* Sound frames are a prefix of what was taken; one taken later changes nothing.
LEMMA PassedKept ==
  ASSUME TypeInv, ExactFrames, [Next]_vars, got' = got PROVE Passed' = Passed
<1>1. ASSUME NEW p \in Sides PROVE Sound(p)' = Sound(p)
  <2> DEFINE t == taken[Other(p)]
             s == taken'[Other(p)]
  <2>1. /\ t \in Seq(Msgs) /\ Len(t) \in Nat /\ DOMAIN t = 1..Len(t)
        /\ got[p] \in Seq(Seq(Units)) /\ Len(got[p]) \in Nat
        /\ DOMAIN got[p] = 1..Len(got[p])
    BY <1>1, TwoSides DEF TypeInv, QueueTypes, ParserTypes
  <2>2. s = t \/ \E m \in Msgs : s = Append(t, m)
    BY <1>1, TwoSides, HistoryStep
  <2>3. /\ \A i \in DOMAIN t : i \in DOMAIN s /\ s[i] = t[i]
        /\ \A i \in 1..Len(t) : i \in DOMAIN s => s[i] = t[i]
    <3>1. CASE s = t
      BY <2>1, <3>1
    <3>2. ASSUME NEW m \in Msgs, s = Append(t, m)
          PROVE  /\ DOMAIN s = 1..(Len(t) + 1)
                 /\ \A i \in 1..Len(t) : s[i] = t[i]
      <4> HIDE DEF s, t
      <4> QED
        BY <2>1, <3>2
    <3>3. \A i \in 1..Len(t) : i \in 1..(Len(t) + 1)
      BY <2>1
    <3> HIDE DEF s, t
    <3> QED
      BY <2>1, <2>2, <3>1, <3>2, <3>3
  <2>4. \A k \in DOMAIN got[p] :
          k \in Sound(p)' <=> \A i \in 1..k : i \in DOMAIN s => Fits(s[i])
    BY DEF Sound, Other, Fits
  <2>5. \A k \in DOMAIN got[p] :
          k \in Sound(p) <=> \A i \in 1..k : i \in DOMAIN t => Fits(t[i])
    BY DEF Sound
  <2>6. \A k \in Sound(p) : k \in DOMAIN t
    BY <1>1 DEF ExactFrames
  <2>7. Sound(p) \subseteq DOMAIN got[p] /\ Sound(p)' \subseteq DOMAIN got[p]
    BY DEF Sound, Other
  <2> HIDE DEF t, s
  <2>8. ASSUME NEW k \in Sound(p)' PROVE k \in Sound(p)
    BY <2>3, <2>4, <2>5, <2>7, <2>8
  <2>9. ASSUME NEW k \in Sound(p) PROVE k \in Sound(p)'
    <3>1. k \in 1..Len(t) /\ k \in Nat
      BY <2>1, <2>6, <2>9
    <3>2. \A i \in 1..k : i \in DOMAIN t
      BY <2>1, <3>1
    <3> QED
      BY <2>3, <2>4, <2>5, <2>7, <2>9, <3>2
  <2> QED
    BY <2>8, <2>9
<1> QED
  BY <1>1, TwoSides DEF Passed, Other

\* A message that is handed over is the next of those taken; one behind a
\* message that does not fit does not count.
LEMMA PassedMore ==
  ASSUME TypeInv, LinkInv, NEW p \in Sides, ParseMsg(p),
         NEW q, q = Other(p)
  PROVE  \/ Passed' = Passed
         \/ /\ Len(Passed[q]) < Len(Accepted[q])
            /\ Passed' = [Passed EXCEPT ![q] =
                            Append(@, Accepted[q][Len(@) + 1])]
<1> DEFINE t == taken[q]
           n == Len(got[p]) + 1
           f == Append(acc[p], Head(Source(p)))
<1>1. /\ q \in Sides /\ q # p /\ Other(q) = p
      /\ \A r \in Sides : r # q => Other(r) # p
  BY TwoSides
<1>2. /\ t \in Seq(Msgs) /\ Len(t) \in Nat /\ DOMAIN t = 1..Len(t)
      /\ got \in [Sides -> Seq(Seq(Units))]
      /\ Len(got[p]) \in Nat /\ DOMAIN got[p] = 1..Len(got[p])
      /\ queue[q] \in Seq(Msgs)
  BY <1>1 DEF TypeInv, QueueTypes, ParserTypes
<1>3. taken' = taken /\ got' = [got EXCEPT ![p] = Append(@, f)]
  BY DEF ParseMsg, sendVars
<1> HIDE DEF f
<1>4. /\ got'[p] = Append(got[p], f) /\ DOMAIN got'[p] = 1..n
      /\ \A k \in 1..Len(got[p]) : got'[p][k] = got[p][k]
  BY <1>2, <1>3
<1>5. \A r \in Sides : r # p => got'[r] = got[r]
  BY <1>2, <1>3
<1>6. ASSUME NEW r \in Sides, r # q PROVE Passed'[r] = Passed[r]
  <2>1. Other(r) \in Sides /\ got'[Other(r)] = got[Other(r)]
    BY <1>1, <1>5, <1>6, TwoSides
  <2>2. Sound(Other(r))' = Sound(Other(r))
    BY <1>3, <2>1 DEF Sound, Other, Fits
  <2>3. /\ Passed[r] = [k \in Sound(Other(r)) |-> got[Other(r)][k][2].msg]
        /\ Passed'[r] = [k \in Sound(Other(r))' |-> got'[Other(r)][k][2].msg]
    BY DEF Passed, Other
  <2> QED
    BY <2>1, <2>2, <2>3
<1>7. /\ \A k \in 1..n :
           k \in Sound(p)' <=> \A i \in 1..k : i \in DOMAIN t => Fits(t[i])
      /\ Sound(p)' \subseteq 1..n
  BY <1>3, <1>4 DEF Sound, Other, Fits
<1>8. /\ \A k \in 1..Len(got[p]) :
           k \in Sound(p) <=> \A i \in 1..k : i \in DOMAIN t => Fits(t[i])
      /\ Sound(p) \subseteq 1..Len(got[p])
  BY <1>2 DEF Sound
<1>9. /\ Passed[q] = [k \in Sound(p) |-> got[p][k][2].msg]
      /\ Passed'[q] = [k \in Sound(p)' |-> got'[p][k][2].msg]
  BY <1>1 DEF Passed, Other
<1>10. CASE ~Clean(p)
  <2>1. Sound(p)' = Sound(p)
    <3>1. n \notin Sound(p)'
      <4>1. n \in 1..n
        BY <1>2
      <4> QED
        BY <1>7, <1>10, <4>1 DEF Clean
    <3>2. \A k \in 1..n : k # n => k \in 1..Len(got[p])
      BY <1>2
    <3>3. \A k \in 1..Len(got[p]) : k \in 1..n
      BY <1>2
    <3> QED
      BY <1>7, <1>8, <3>1, <3>2, <3>3
  <2>2. Passed'[q] = Passed[q]
    BY <1>4, <1>8, <1>9, <2>1
  <2>3. Passed' = [r \in Sides |-> Passed'[r]] /\ Passed = [r \in Sides |-> Passed[r]]
    BY DEF Passed
  <2> QED
    BY <1>6, <2>2, <2>3
<1>11. CASE Clean(p)
  <2>1. \A i \in 1..n : i \in DOMAIN t => Fits(t[i])
    BY <1>11 DEF Clean
  <2>2. Sound(p)' = 1..n /\ Sound(p) = 1..Len(got[p])
    <3>1. \A k \in 1..n : \A i \in 1..k : i \in 1..n
      BY <1>2
    <3>2. \A k \in 1..Len(got[p]) : k \in 1..n
      BY <1>2
    <3>3. \A k \in 1..n : k \in Sound(p)'
      BY <1>7, <2>1, <3>1
    <3>4. \A k \in 1..Len(got[p]) : k \in Sound(p)
      BY <1>8, <2>1, <3>1, <3>2
    <3> QED
      BY <1>7, <1>8, <3>3, <3>4
  <2>3. n \in DOMAIN t /\ got'[p] = Append(got[p], Frame(t[n]))
    BY <1>11, ParseMsgExact DEF LinkInv, LineInv
  <2>4. t[n] \in Msgs /\ n \in 1..Len(t)
    BY <1>2, <2>3
  <2>5. got'[p][n] = Frame(t[n])
    BY <1>2, <2>3
  <2>6. \A m \in Msgs : Frame(m)[2].msg = m
    <3> SUFFICES ASSUME NEW m \in Msgs PROVE Frame(m)[2].msg = m
      OBVIOUS
    <3>1. 2 \in 1..FrameLen(m)
      BY FrameLength
    <3> QED
      BY <3>1 DEF Frame
  <2>7. \A k \in 1..Len(got[p]) : k \in DOMAIN t /\ got[p][k] = Frame(t[k])
    BY <2>2 DEF LinkInv, ExactFrames
  <2> DEFINE a == [k \in 1..Len(got[p]) |-> got[p][k][2].msg]
             b == [k \in 1..n |-> got'[p][k][2].msg]
  <2>8. a \in Seq(Msgs) /\ Len(a) = Len(got[p])
    <3>1. ASSUME NEW k \in 1..Len(got[p]) PROVE got[p][k][2].msg \in Msgs
      <4>1. k \in 1..Len(t) /\ got[p][k] = Frame(t[k])
        BY <1>2, <2>7
      <4>2. t[k] \in Msgs
        BY <1>2, <4>1, ElementOfSeq
      <4> QED
        BY <2>6, <4>1, <4>2
    <3> DEFINE l == Len(got[p])
    <3>2. a \in [1..l -> Msgs] /\ l \in Nat
      BY <1>2, <3>1
    <3> HIDE DEF a, l
    <3>3. a \in Seq(Msgs) /\ Len(a) = l
      BY <3>2
    <3> QED
      BY <3>3 DEF l
  <2>9. b[n] = t[n] /\ n \in Nat
    BY <1>2, <2>4, <2>5, <2>6
  <2>10. \A k \in 1..Len(got[p]) : b[k] = a[k]
    BY <1>2, <1>4
  <2>11. b = Append(a, t[n])
    <3>1. /\ Append(a, t[n]) \in Seq(Msgs) /\ Len(Append(a, t[n])) = n
          /\ \A k \in 1..n : Append(a, t[n])[k] = IF k = n THEN t[n] ELSE a[k]
      BY <1>2, <2>4, <2>8
    <3>2. \A k \in 1..n : b[k] = Append(a, t[n])[k]
      <4>1. \A k \in 1..n : k = n \/ k \in 1..Len(got[p])
        BY <1>2
      <4> QED
        BY <2>9, <2>10, <3>1, <4>1
    <3>3. ASSUME NEW k \in 1..n PROVE b[k] \in Msgs
      <4> DEFINE d == Append(a, t[n])
      <4>1. d \in Seq(Msgs) /\ Len(d) = n /\ b[k] = d[k]
        BY <3>1, <3>2
      <4> HIDE DEF b, d
      <4>2. d[k] \in Msgs
        BY <4>1, ElementOfSeq
      <4> QED
        BY <4>1, <4>2
    <3>4. b \in Seq(Msgs) /\ Len(b) = n
      <4>1. b \in [1..n -> Msgs]
        BY <3>3
      <4> HIDE DEF b
      <4> QED
        BY <2>9, <4>1
    <3> DEFINE c == Append(a, t[n])
    <3>5. c \in Seq(Msgs) /\ Len(c) = n /\ \A k \in 1..n : b[k] = c[k]
      BY <3>1, <3>2
    <3> HIDE DEF b, c
    <3>6. b = c
      BY <3>4, <3>5, SeqEqual
    <3> QED
      BY <3>6 DEF c
  <2>12. Passed[q] = a /\ Passed'[q] = b
    BY <1>9, <2>2
  <2>13. /\ Accepted[q][n] = t[n] /\ Len(Accepted[q]) >= n
    <3>1. Accepted[q] = t \o queue[q]
      BY <1>1 DEF Accepted
    <3> DEFINE c == t \o queue[q]
    <3>2. /\ Len(c) = Len(t) + Len(queue[q])
          /\ c[n] = t[n] /\ Len(queue[q]) \in Nat
      BY <1>2, <2>4
    <3>3. Accepted[q] = c
      BY <3>1
    <3> HIDE DEF c, t
    <3>4. Len(c) >= n
      BY <1>2, <2>4, <3>2
    <3> QED
      BY <3>2, <3>3, <3>4
  <2> HIDE DEF a, b, t
  <2>14. Len(Passed[q]) = Len(got[p]) /\ Len(Passed[q]) + 1 = n
    BY <2>8, <2>12
  <2>15. Len(Passed[q]) < Len(Accepted[q])
    <3>1. Len(Accepted[q]) \in Nat
      BY <1>1, ConcatProperties DEF Accepted, TypeInv, QueueTypes
    <3> QED
      BY <1>2, <2>13, <2>14, <3>1
  <2>16. Passed'[q] = Append(Passed[q], Accepted[q][Len(Passed[q]) + 1])
    BY <2>11, <2>12, <2>13, <2>14
  <2>17. Passed' = [r \in Sides |-> Passed'[r]] /\ Passed = [r \in Sides |-> Passed[r]]
    BY DEF Passed
  <2>18. Passed' = [Passed EXCEPT ![q] = Append(@, Accepted[q][Len(@) + 1])]
    <3> DEFINE e == Append(Passed[q], Accepted[q][Len(Passed[q]) + 1])
    <3>1. Passed'[q] = e
      BY <2>16
    <3> HIDE DEF e
    <3>2. Passed' = [Passed EXCEPT ![q] = e]
      BY <1>1, <1>6, <2>17, <3>1
    <3> QED
      BY <3>2 DEF e
  <2> QED
    BY <2>15, <2>18
<1> QED
  BY <1>10, <1>11

----------------------------------------------------------------------------
\* Initially nothing was accepted.
LEMMA LinkStart == Init => Link!Init
<1> SUFFICES ASSUME Init PROVE Link!Init
  OBVIOUS
<1>1. \A p \in Sides : /\ taken[p] = <<>> /\ queue[p] = <<>>
                       /\ got[p] = <<>> /\ Other(p) \in Sides
  BY TwoSides DEF Init, Empty
<1>2. ASSUME NEW p \in Sides PROVE taken[p] \o queue[p] = <<>>
  <2>1. <<>> \in Seq(Msgs)
    OBVIOUS
  <2>2. <<>> \o <<>> = <<>>
    BY <2>1, ConcatEmptySeq
  <2> QED
    BY <1>1, <2>2
<1>3. ASSUME NEW p \in Sides
      PROVE  [k \in Sound(Other(p)) |-> got[Other(p)][k][2].msg] = <<>>
  <2>1. Sound(Other(p)) = {}
    <3>1. got[Other(p)] = <<>>
      BY <1>1
    <3>2. DOMAIN got[Other(p)] = {}
      BY <3>1
    <3> QED
      BY <3>2 DEF Sound
  <2> DEFINE a == [k \in Sound(Other(p)) |-> got[Other(p)][k][2].msg]
  <2>2. a \in [1..0 -> Msgs]
    BY <2>1
  <2> HIDE DEF a
  <2>3. a \in Seq(Msgs) /\ Len(a) = 0
    BY <2>2
  <2>4. a = <<>>
    BY <2>3, EmptySeq
  <2> QED
    BY <2>4 DEF a
<1> QED
  BY <1>2, <1>3 DEF Link!Init

\* Every step is one of FifoLink, or none.
LEMMA LinkStep ==
  ASSUME TypeInv, LinkInv, [Next]_vars PROVE [Link!Next]_Link!vars
<1> USE DEF LinkInv
<1>1. /\ Link!vars = <<Accepted, Passed>> /\ Link!vars' = <<Accepted', Passed'>>
  BY DEF Link!vars, Accepted, Passed
<1>2. ASSUME NEW p \in Sides, NEW m \in Msgs, Enqueue(p, m),
             UNCHANGED <<taken, got>>
      PROVE  Link!Accept(p)
  <2>1. Accepted' = [Accepted EXCEPT ![p] = Append(@, m)] /\ Passed' = Passed
    BY <1>2, AcceptedMore, PassedKept
  <2> QED
    BY <2>1 DEF Link!Accept, Link!Take, Accepted, Passed
<1>3. ASSUME UNCHANGED <<queue, taken, got>> PROVE UNCHANGED Link!vars
  <2>1. Accepted' = Accepted /\ Passed' = Passed
    BY <1>3, PassedKept DEF Accepted
  <2> QED
    BY <1>1, <2>1
<1>4. ASSUME NEW p \in Sides, SendTake(p) PROVE UNCHANGED Link!vars
  <2>1. got' = got
    BY <1>4 DEF SendTake, recvVars
  <2>2. Accepted' = Accepted /\ Passed' = Passed
    BY <1>4, <2>1, AcceptedTaken, PassedKept
  <2> QED
    BY <1>1, <2>2
<1>5. ASSUME NEW p \in Sides, ParseMsg(p) PROVE Link!Next \/ UNCHANGED Link!vars
  <2>1. /\ Other(p) \in Sides /\ Other(p) # p /\ taken' = taken
        /\ UNCHANGED queue \/ Enqueue(p, Heart)
    BY <1>5, TwoSides DEF ParseMsg, OnMsg, sendVars
  <2>2. \/ Accepted' = Accepted
        \/ Accepted' = [Accepted EXCEPT ![p] = Append(@, Heart)]
    <3>1. Heart \in Msgs
      BY DEF Msgs
    <3> QED
      BY <2>1, <3>1, AcceptedMore DEF Accepted
  <2>3. CASE Passed' = Passed
    <3>1. CASE Accepted' = Accepted
      BY <1>1, <2>3, <3>1
    <3>2. CASE Accepted' = [Accepted EXCEPT ![p] = Append(@, Heart)]
      BY <2>3, <3>2 DEF Link!Next, Link!Accept, Link!Take, Accepted, Passed, Msgs
    <3> QED
      BY <2>2, <3>1, <3>2
  <2>4. CASE Passed' # Passed
    <3>1. /\ Len(Passed[Other(p)]) < Len(Accepted[Other(p)])
          /\ Passed' = [Passed EXCEPT ![Other(p)] =
                          Append(@, Accepted[Other(p)][Len(@) + 1])]
      BY <1>5, <2>4, PassedMore
    <3>2. \/ Accepted' = Accepted
          \/ \E q \in Sides \ {Other(p)} : Link!Take(q)
      BY <2>1, <2>2 DEF Link!Take, Accepted, Msgs
    <3>3. Link!Pass(Other(p))
      BY <3>1, <3>2 DEF Link!Pass, Accepted, Passed
    <3> QED
      BY <2>1, <3>3 DEF Link!Next
  <2> QED
    BY <2>3, <2>4
<1>6. ASSUME NEW p \in Sides, NEW m \in Sends[p], Send(p, m) PROVE Link!Next
  <2>1. m \in Msgs
    BY MessagerAssumption DEF Msgs
  <2>2. Link!Accept(p)
    BY <1>2, <1>6, <2>1 DEF Send, recvVars
  <2> QED
    BY <2>2 DEF Link!Next
<1>7. ASSUME NEW p \in Sides, HeartSend(p) PROVE Link!Next \/ UNCHANGED Link!vars
  <2>1. Heart \in Msgs
    BY DEF Msgs
  <2>2. UNCHANGED <<taken, got>> /\ (UNCHANGED queue \/ Enqueue(p, Heart))
    BY <1>7 DEF HeartSend, sendVars, recvVars
  <2> QED
    BY <1>2, <1>3, <2>1, <2>2 DEF Link!Next
<1>8. ASSUME NEW p \in Sides,
             \/ SendIdle(p) \/ SendUnit(p) \/ SendFail(p) \/ ReadStep(p)
             \/ ParseUnit(p) \/ ParseReject(p) \/ ParseFail(p)
      PROVE  UNCHANGED Link!vars
  BY <1>3, <1>8
  DEF SendIdle, SendUnit, SendFail, ReadStep, ReadFill, ReadPush, ReadFail,
      ParseUnit, ParseReject, ParseFail, sendVars, recvVars
<1>9. ASSUME NEW p \in Sides, NEW i \in handling[p], HandlerEnd(p, i)
      PROVE  UNCHANGED Link!vars
  BY <1>3, <1>9 DEF HandlerEnd, sendVars
<1>10. ASSUME NEW p \in Sides,
              RunEnd(p) \/ HeartTimeout(p) \/ HeartTick(p) \/ UserStop(p)
       PROVE  UNCHANGED Link!vars
  BY <1>3, <1>10
  DEF RunEnd, HeartTimeout, HeartTick, UserStop, sendVars, recvVars
<1>11. CASE Break \/ UNCHANGED vars
  BY <1>3, <1>11 DEF Break, vars, sendVars, recvVars
<1> QED
  BY <1>4, <1>5, <1>6, <1>7, <1>8, <1>9, <1>10, <1>11
  DEF Next, SendStep, ParseStep, LoopStep

\* A pair of Messagers implements FifoLink, for any messages, buffers and
\* failures: each direction hands over the messages its channel accepted one
\* by one and in order, up to the first command that does not fit.
THEOREM PairIsFifoLink == Spec => LinkKept
<1>1. TypeInv /\ LinkInv /\ [Next]_vars => [Link!Next]_Link!vars
  BY LinkStep
<1> QED
  BY <1>1, LinkStart, LinkCorrect, PTL DEF Spec, LinkKept, Link!Spec
----------------------------------------------------------------------------
(* What is left when no task can go on *)

\* A task ends only at an end that is done.
EndInv ==
  \A p \in Sides : /\ sender[p] = "end" => done[p]
                   /\ parser[p] = "end" => done[p]
                   /\ p \in Streamed /\ reader[p] = "end" => done[p]

\* Once an end is done it stays done.
LEMMA DoneStays ==
  ASSUME TypeInv, [Next]_vars, NEW p \in Sides, done[p] PROVE done'[p]
<1> USE DEF TypeInv, FlagTypes, Flags
<1>1. ASSUME UNCHANGED done \/ \E q \in Sides : Stop(q) PROVE done'[p]
  BY <1>1 DEF Stop
<1>2. ASSUME NEW q \in Sides, NEW m \in Sends[q], Send(q, m) PROVE done'[p]
  BY <1>1, <1>2 DEF Send
<1>3. ASSUME NEW q \in Sides, SendStep(q) \/ ReadStep(q) PROVE done'[p]
  BY <1>1, <1>3 DEF SendStep, SendTake, SendIdle, SendUnit, SendFail, ReadStep,
                    ReadFill, ReadPush, ReadFail
<1>4. ASSUME NEW q \in Sides, ParseStep(q) PROVE done'[p]
  <2>1. UNCHANGED done \/ Stop(q)
    BY <1>4 DEF ParseStep, ParseUnit, ParseMsg, ParseReject, ParseFail, ParseEnd
  <2> QED
    BY <1>1, <2>1
<1>5. ASSUME NEW q \in Sides, NEW i \in handling[q], HandlerEnd(q, i)
      PROVE  done'[p]
  BY <1>1, <1>5 DEF HandlerEnd
<1>6. ASSUME NEW q \in Sides,
             LoopStep(q) \/ HeartTimeout(q) \/ HeartTick(q) \/ UserStop(q)
      PROVE  done'[p]
  BY <1>1, <1>6 DEF LoopStep, HeartSend, RunEnd, HeartTimeout, HeartTick, UserStop
<1>7. CASE Break \/ UNCHANGED vars
  BY <1>1, <1>7 DEF Break, vars
<1> QED
  BY <1>2, <1>3, <1>4, <1>5, <1>6, <1>7 DEF Next

\* Every step keeps EndInv.
LEMMA EndStep ==
  ASSUME TypeInv, EndInv, [Next]_vars PROVE EndInv'
<1>0. /\ done \in Flags
      /\ sender \in [Sides -> {"recv", "write", "end"}]
      /\ reader \in [Sides -> {"read", "push", "end"}]
      /\ parser \in [Sides -> {"read", "end"}]
      /\ \A p \in Sides : shuted[p] => done[p]
  BY DEF TypeInv, FlagTypes, SenderTypes, StreamTypes, ParserTypes
<1>1. ASSUME UNCHANGED <<sender, reader, parser>> PROVE EndInv'
  BY <1>1, DoneStays DEF EndInv
<1>2. ASSUME NEW p \in Sides, SendStep(p) PROVE EndInv'
  <2>1. /\ UNCHANGED <<done, reader, parser>>
        /\ \E e : sender' = [sender EXCEPT ![p] = e] /\ (e = "end" => done[p])
    BY <1>2 DEF SendStep, SendTake, SendIdle, SendUnit, SendFail, Again,
                recvVars, readVars
  <2> QED
    BY <1>0, <2>1 DEF EndInv
<1>3. ASSUME NEW p \in Sides, ReadStep(p) PROVE EndInv'
  <2>1. /\ UNCHANGED <<sender, parser>>
        /\ \E e : reader' = [reader EXCEPT ![p] = e] /\ (e = "end" => done'[p])
    <3>1. CASE ReadFill(p)
      <4>1. /\ UNCHANGED <<sender, parser>>
            /\ reader' = [reader EXCEPT ![p] = "push"]
        BY <3>1 DEF ReadFill, recvVars, sendVars
      <4>2. "push" = "end" => done'[p]
        OBVIOUS
      <4> QED
        BY <4>1, <4>2
    <3>2. CASE ReadPush(p)
      <4>1. done' = done
        BY <3>2 DEF ReadPush
      <4>2. /\ UNCHANGED <<sender, parser>>
            /\ reader' = [reader EXCEPT ![p] = Again(p, "read")]
        BY <3>2 DEF ReadPush, recvVars, sendVars
      <4>3. Again(p, "read") = "end" => done[p]
        BY DEF Again
      <4> QED
        BY <4>1, <4>2, <4>3
    <3>3. CASE ReadFail(p)
      <4>1. /\ UNCHANGED <<sender, parser>>
            /\ reader' = [reader EXCEPT ![p] = "end"]
        BY <3>3 DEF ReadFail, recvVars, sendVars
      <4>2. done'[p]
        BY <1>0, <3>3 DEF ReadFail, Stop, Flags
      <4> QED
        BY <4>1, <4>2
    <3> QED
      BY <1>3, <3>1, <3>2, <3>3 DEF ReadStep
  <2> QED
    BY <1>0, <2>1, DoneStays DEF EndInv
<1>4. ASSUME NEW p \in Sides, ParseStep(p) PROVE EndInv'
  <2>1. /\ UNCHANGED <<sender, reader>>
        /\ \/ UNCHANGED parser
           \/ \E e : parser' = [parser EXCEPT ![p] = e] /\ (e = "end" => done'[p])
    <3>1. CASE ParseMsg(p)
      <4>1. done' = done
        BY <3>1 DEF ParseMsg
      <4> QED
        BY <3>1, <4>1 DEF ParseMsg, AfterMsg, Again, sendVars
    <3>2. CASE ParseUnit(p)
      BY <1>0, <3>2 DEF ParseUnit, ParseEnd, Stop, Flags, sendVars
    <3>3. CASE ParseReject(p) \/ ParseFail(p)
      BY <1>0, <3>3 DEF ParseReject, ParseFail, ParseEnd, Stop, Flags, sendVars,
                        readVars
    <3> QED
      BY <1>4, <3>1, <3>2, <3>3 DEF ParseStep
  <2> QED
    BY <1>0, <2>1, DoneStays DEF EndInv
<1>5. ASSUME NEW p \in Sides, NEW m \in Sends[p], Send(p, m) PROVE EndInv'
  BY <1>1, <1>5 DEF Send, sendVars, readVars, recvVars
<1>6. ASSUME NEW p \in Sides, NEW i \in handling[p], HandlerEnd(p, i)
      PROVE  EndInv'
  BY <1>1, <1>6 DEF HandlerEnd, sendVars, readVars
<1>7. ASSUME NEW p \in Sides,
             LoopStep(p) \/ HeartTimeout(p) \/ HeartTick(p) \/ UserStop(p)
      PROVE  EndInv'
  BY <1>1, <1>7 DEF LoopStep, HeartSend, RunEnd, HeartTimeout, HeartTick,
                    UserStop, sendVars, readVars, recvVars
<1>8. CASE Break \/ UNCHANGED vars
  BY <1>1, <1>8 DEF Break, vars, sendVars, readVars, recvVars
<1> QED
  BY <1>2, <1>3, <1>4, <1>5, <1>6, <1>7, <1>8 DEF Next

LEMMA EndCorrect == Spec => []EndInv
<1>1. Init => EndInv
  BY DEF Init, EndInv
<1>2. TypeInv /\ EndInv /\ [Next]_vars => EndInv'
  BY EndStep
<1> QED
  BY <1>1, <1>2, LinkCorrect, PTL DEF Spec

\* What it takes for no task of an end to be able to go on.
LEMMA AtRest ==
  ASSUME TypeInv, Standstill, NEW p \in Sides
  PROVE  /\ sender[p] = "recv" => queue[p] = <<>> /\ ~done[p]
         /\ sender[p] = "write" => ~shuted[p] /\ ~cut /\ pipe[p] # <<>>
         /\ reader[p] = "read" => pipe[Other(p)] = <<>> /\ ~EndOfFile(p)
         /\ reader[p] = "push" => ~shuted[p] /\ buf[p] # <<>>
         /\ parser[p] = "read" => Source(p) = <<>>
         /\ parser[p] = "read" /\ p \in Streamed => ~shuted[p]
         /\ parser[p] = "read" /\ p \notin Streamed => ~EndOfFile(p)
         /\ \/ loop[p] = "check" /\ ~done[p]
            \/ loop[p] = "end" /\ shuted[p] /\ done[p]
<1>1. ~CanSend(p) /\ ~CanRead(p) /\ ~CanParse(p) /\ ~CanLoop(p)
  BY DEF Standstill
<1>2. /\ pipe[p] \in Seq(Units) /\ buf[p] \in Seq(Units)
      /\ PipeCap \in Nat \ {0} /\ BufCap \in Nat \ {0}
      /\ loop[p] \in {"check", "heart", "end"}
      /\ loop[p] = "end" => shuted[p]
      /\ shuted[p] => done[p]
  BY MessagerAssumption DEF TypeInv, FlagTypes, StreamTypes, Streams
<1>3. ~(Len(pipe[p]) < PipeCap) => pipe[p] # <<>>
  BY <1>2
<1>4. ~(Len(buf[p]) < BufCap) => buf[p] # <<>>
  BY <1>2
<1> QED
  BY <1>1, <1>2, <1>3, <1>4 DEF CanSend, CanRead, CanParse, CanLoop

\* The parsers empty what the senders fill, whatever the capacities: no task
\* of a pair that is up is left waiting for one that waits for it, and what was
\* accepted has all arrived.
THEOREM AllArrives == Spec => []NothingLeft
<1>1. ASSUME TypeInv, LinkInv, EndInv, Up, AllFit, Standstill, NEW p \in Sides
      PROVE  queue[p] = <<>> /\ Len(got[Other(p)]) = Len(taken[p])
  <2> DEFINE q == Other(p)
  <2>0. /\ q \in Sides /\ Other(q) = p
        /\ \A r \in Sides : ~done[r] /\ ~shuted[r]
        /\ ~cut
    BY <1>1, TwoSides DEF Up, TypeInv, FlagTypes
  <2>1. /\ sender[p] \in {"recv", "write"} /\ parser[q] = "read"
        /\ q \in Streamed => reader[q] \in {"read", "push"}
    BY <1>1, <2>0 DEF EndInv, TypeInv, SenderTypes, StreamTypes, ParserTypes
  <2> HIDE DEF q
  <2>2. Source(q) = <<>>
    BY <1>1, <2>0, <2>1, AtRest
  <2>3. /\ q \in Streamed => buf[q] = <<>> /\ reader[q] = "read"
        /\ pipe[p] = <<>>
    BY <1>1, <2>0, <2>1, <2>2, AtRest DEF Source
  <2>4. sender[p] = "recv" /\ queue[p] = <<>>
    BY <1>1, <2>1, <2>3, AtRest
  <2>5. /\ out[p] = <<>>
        /\ q \in Streamed => held[q] = <<>>
    BY <1>1, <2>0, <2>3, <2>4 DEF TypeInv, SenderTypes, StreamTypes
  <2>6. Line(q) = <<>>
    <3>1. <<>> \in Seq(Units)
      OBVIOUS
    <3>2. OnWire(q) = <<>>
      BY <2>0, <2>3, <2>5, <3>1, CatEmpty DEF OnWire, Written
    <3>3. q \in Streamed => Unread(q) = <<>>
      BY <2>3, <2>5, <3>1, <3>2, CatEmpty DEF Unread
    <3> QED
      BY <2>3, <3>1, <3>2, <3>3, CatEmpty DEF Line
  <2>7. Clean(q) /\ Joined(q)
    BY <1>1, <2>0, <2>3, <2>4 DEF Clean, AllFit, Joined
  <2>8. PICK y \in Places :
          /\ Leads(<<>>, taken[p], Here(q), y)
          /\ y = PlaceAt(Len(taken[p]) + 1, 1)
    BY <1>1, <2>0, <2>1, <2>6, <2>7 DEF LinkInv, LineInv, DirectionRight, LineRight
  <2>9. Here(q) = y
    <3>1. Len(<<>>) = 0
      OBVIOUS
    <3> QED
      BY <2>8, <3>1 DEF Leads, Walk
  <2>10. Len(got[q]) + 1 = Len(taken[p]) + 1
    BY <2>8, <2>9 DEF Here, PlaceAt
  <2>11. Len(got[q]) \in Nat /\ Len(taken[p]) \in Nat
    BY <1>1, <2>0 DEF TypeInv, QueueTypes, ParserTypes
  <2> QED
    BY <2>4, <2>10, <2>11 DEF q
<1>2. TypeInv /\ LinkInv /\ EndInv => NothingLeft
  BY <1>1 DEF NothingLeft
<1> QED
  BY <1>2, LinkCorrect, EndCorrect, PTL

\* A stop reaches everybody: the end that is stopped closes its buffer and its
\* direction of the connection, the other end reads the end of file, and no
\* task of either waits for more.
THEOREM StopReachesAll == Spec => []StopSpreads
<1>1. ASSUME TypeInv, ReaderInv, EndInv, Standstill, NEW p \in Sides, done[p]
      PROVE  AllEnd
  <2> DEFINE q == Other(p)
  <2>0. /\ q \in Sides /\ Other(q) = p /\ \A r \in Sides : r \in {p, q}
    BY TwoSides
  <2> HIDE DEF q
  <2>1. \A r \in Sides : done[r] => shuted[r] /\ loop[r] = "end"
    BY <1>1, AtRest
  <2>2. \A r \in Sides : /\ reader[r] = "end" => done[r] \/ r \notin Streamed
                         /\ parser[r] = "end" => done[r]
    BY <1>1 DEF EndInv
  <2>3. reader[q] # "read" /\ (parser[q] = "read" => q \in Streamed /\ buf[q] = <<>>)
    <3>1. pipe[p] = <<>> => EndOfFile(q)
      BY <1>1, <2>0, <2>1 DEF EndOfFile
    <3> QED
      BY <1>1, <2>0, <3>1, AtRest DEF Source
  <2>4. done[q]
    <3>1. CASE parser[q] = "end"
      BY <2>0, <2>2, <3>1
    <3>2. CASE parser[q] = "read"
      <4>1. reader[q] # "push"
        BY <1>1, <2>0, <2>3, <3>2, AtRest
      <4>2. reader[q] = "end"
        BY <1>1, <2>0, <2>3, <4>1 DEF TypeInv, StreamTypes
      <4> QED
        BY <2>0, <2>2, <2>3, <3>2, <4>2
    <3> QED
      BY <1>1, <2>0, <3>1, <3>2 DEF TypeInv, ParserTypes
  <2>5. \A r \in Sides : done[r] /\ shuted[r] /\ loop[r] = "end"
    BY <1>1, <2>0, <2>1, <2>4
  <2>6. ASSUME NEW r \in Sides
        PROVE  sender[r] = "end" /\ reader[r] = "end" /\ parser[r] = "end"
    <3>1. Other(r) \in Sides
      BY OtherSide
    <3>2. pipe[Other(r)] = <<>> => EndOfFile(r)
      BY <2>5, <3>1 DEF EndOfFile
    <3>3. sender[r] \notin {"recv", "write"}
      BY <1>1, <2>5, AtRest
    <3>4. reader[r] \notin {"read", "push"}
      BY <1>1, <2>5, <3>2, AtRest
    <3>5. parser[r] # "read"
      BY <1>1, <2>5, <3>2, AtRest DEF Source
    <3> QED
      BY <1>1, <3>3, <3>4, <3>5 DEF TypeInv, SenderTypes, StreamTypes, ParserTypes
  <2> QED
    BY <2>5, <2>6 DEF AllEnd
<1>2. TypeInv /\ ReaderInv /\ EndInv => StopSpreads
  BY <1>1 DEF StopSpreads
<1>3. LinkInv => ReaderInv
  BY DEF LinkInv
<1> QED
  BY <1>2, <1>3, LinkCorrect, EndCorrect, PTL

\* Freedom from deadlock: where no task of the pair can go on, its work is done
\* or a stop has reached every task.
THEOREM PairRestsRight == Spec => []RestsRight
BY AllArrives, StopReachesAll, PTL DEF RestsRight
----------------------------------------------------------------------------
(* Hearts are answered, answers are not *)

\* Hearts among messages, and among the frames p got.
HeartsIn(s) == Cardinality({i \in DOMAIN s : s[i] = Heart})
HeartFrames(p) == {k \in DOMAIN got[p] : got[p][k][2].msg = Heart}
Due(p) == IF loop[p] = "heart" THEN 1 ELSE 0

\* Only clients have a timer, only servers answer.  Every heart an end accepted
\* for sending is one of a tick or an answer, every answer is one to a heart
\* that came; and where nobody has a timer there are no hearts.
EchoRight(p) ==
  /\ p \notin Servs => replies[p] = 0
  /\ p \in Servs => ticks[p] = 0 /\ loop[p] # "heart"
  /\ HeartsIn(Accepted[p]) + Due(p) <= ticks[p] + replies[p]
  /\ replies[p] <= Cardinality(HeartFrames(p))
  /\ AllFit /\ Sides \subseteq Servs => replies[p] = 0
EchoInv == \A p \in Sides : EchoRight(p)

\* One more member of a set of positions.
LEMMA CountMore ==
  ASSUME NEW n \in Nat, NEW A \in SUBSET (1..n)
  PROVE  /\ IsFiniteSet(A) /\ Cardinality(A) \in Nat
         /\ IsFiniteSet(A \union {n + 1})
         /\ Cardinality(A \union {n + 1}) = Cardinality(A) + 1
<1>0. IsFiniteSet(1..n)
  BY FS_Interval
<1>1. IsFiniteSet(A)
  BY <1>0, FS_Subset
<1>2. n + 1 \notin A
  OBVIOUS
<1> QED
  BY <1>1, <1>2, FS_AddElement, FS_CardinalityType

\* The hearts in a sequence that grows by one.
LEMMA HeartsMore ==
  ASSUME NEW s \in Seq(Msgs), NEW m \in Msgs
  PROVE  /\ HeartsIn(s) \in Nat
         /\ m = Heart => HeartsIn(Append(s, m)) = HeartsIn(s) + 1
         /\ m # Heart => HeartsIn(Append(s, m)) = HeartsIn(s)
<1>0. PICK n \in Nat : n = Len(s)
  OBVIOUS
<1> DEFINE A == {i \in DOMAIN s : s[i] = Heart}
           B == {i \in DOMAIN Append(s, m) : Append(s, m)[i] = Heart}
<1>1. A \in SUBSET (1..n)
  BY <1>0
<1>2. /\ DOMAIN s = 1..n /\ DOMAIN Append(s, m) = 1..(n + 1)
      /\ \A i \in 1..n : Append(s, m)[i] = s[i]
      /\ Append(s, m)[n + 1] = m
  BY <1>0
<1>3. m = Heart => B = A \union {n + 1}
  BY <1>2
<1>4. m # Heart => B = A
  BY <1>2
<1> HIDE DEF A, B
<1> QED
  BY <1>1, <1>3, <1>4, CountMore DEF HeartsIn, A, B

\* What the other end accepted is, at its start, what it took.
LEMMA TakenAccepted ==
  ASSUME TypeInv, NEW q \in Sides, NEW i \in DOMAIN taken[q]
  PROVE  i \in DOMAIN Accepted[q] /\ Accepted[q][i] = taken[q][i]
<1>1. taken[q] \in Seq(Msgs) /\ queue[q] \in Seq(Msgs)
  BY DEF TypeInv, QueueTypes
<1>2. i \in 1..Len(taken[q]) /\ Len(taken[q]) \in Nat /\ Len(queue[q]) \in Nat
  BY <1>1
<1> DEFINE s == taken[q]
           t == queue[q]
           a == s \o t
<1>3. Accepted[q] = a
  BY DEF Accepted
<1>4. /\ a \in Seq(Msgs) /\ Len(a) = Len(s) + Len(t)
      /\ \A j \in 1..(Len(s) + Len(t)) :
           a[j] = IF j <= Len(s) THEN s[j] ELSE t[j - Len(s)]
  BY <1>1, ConcatProperties
<1>6. Len(s) \in Nat /\ Len(t) \in Nat /\ i \in 1..Len(s)
  BY <1>2
<1>7. DOMAIN a = 1..Len(a)
  BY <1>4
<1> HIDE DEF s, t, a
<1>8. i \in 1..(Len(s) + Len(t)) /\ i <= Len(s)
  BY <1>6
<1>5. i \in DOMAIN a /\ a[i] = s[i]
  BY <1>4, <1>7, <1>8
<1> QED
  BY <1>3, <1>5 DEF s

\* Hearts that came were sent.
HeartsCame ==
  \A p \in Sides : Cardinality(HeartFrames(p)) <= HeartsIn(Accepted[Other(p)])
LEMMA HeartsSent == TypeInv /\ ExactFrames /\ AllFit => HeartsCame
<1> SUFFICES ASSUME TypeInv, ExactFrames, AllFit, NEW p \in Sides
             PROVE  Cardinality(HeartFrames(p)) <= HeartsIn(Accepted[Other(p)])
  BY DEF HeartsCame
<1> DEFINE q == Other(p)
           a == Accepted[q]
           H == {i \in DOMAIN a : a[i] = Heart}
<1>1. /\ q \in Sides /\ taken[q] \in Seq(Msgs) /\ a \in Seq(Msgs)
      /\ Len(a) \in Nat /\ DOMAIN a = 1..Len(a)
  BY OtherSide, ConcatProperties DEF TypeInv, QueueTypes, Accepted
<1>2. ASSUME NEW k \in HeartFrames(p) PROVE k \in H
  <2>1. k \in Sound(p)
    BY <1>1 DEF HeartFrames, Sound, AllFit
  <2>2. k \in DOMAIN taken[q] /\ got[p][k] = Frame(taken[q][k])
    BY <2>1 DEF ExactFrames
  <2>3. taken[q][k] \in Msgs
    BY <1>1, <2>2
  <2>4. FrameLen(taken[q][k]) \in Nat /\ FrameLen(taken[q][k]) >= 3
    BY <2>3, FrameLength
  <2>5. got[p][k][2].msg = taken[q][k]
    BY <2>2, <2>4 DEF Frame
  <2>6. taken[q][k] = Heart
    BY <2>5 DEF HeartFrames
  <2> QED
    BY <1>1, <2>2, <2>6, TakenAccepted
<1>3. H \subseteq 1..Len(a) /\ HeartsIn(a) = Cardinality(H)
  BY <1>1 DEF HeartsIn
<1> HIDE DEF H, a, q
<1>4. IsFiniteSet(H)
  BY <1>1, <1>3, CountMore
<1>5. Cardinality(HeartFrames(p)) <= Cardinality(H)
  BY <1>2, <1>4, FS_Subset
<1> QED
  BY <1>3, <1>5 DEF a, q
LEMMA HeartsSentNext == TypeInv' /\ ExactFrames' /\ AllFit' => HeartsCame'
BY HeartsSent, PTL

\* The numbers EchoRight compares are numbers.
LEMMA EchoTyped ==
  ASSUME TypeInv, NEW p \in Sides
  PROVE  /\ Accepted[p] \in Seq(Msgs) /\ HeartsIn(Accepted[p]) \in Nat
         /\ HeartFrames(p) \in SUBSET (1..Len(got[p])) /\ Len(got[p]) \in Nat
         /\ Cardinality(HeartFrames(p)) \in Nat
         /\ ticks[p] \in Nat /\ replies[p] \in Nat
<1>1. Accepted[p] \in Seq(Msgs)
  BY ConcatProperties DEF TypeInv, QueueTypes, Accepted
<1>2. Heart \in Msgs
  BY DEF Msgs
<1>3. HeartFrames(p) \in SUBSET (1..Len(got[p])) /\ Len(got[p]) \in Nat
  BY DEF TypeInv, ParserTypes, HeartFrames
<1>4. ticks[p] \in Nat /\ replies[p] \in Nat
  BY DEF TypeInv, FlagTypes, ParserTypes, Counts
<1> QED
  BY <1>1, <1>2, <1>3, <1>4, HeartsMore, CountMore

\* Commands that all fit after a step did so before.
LEMMA FitBefore ==
  ASSUME TypeInv, [Next]_vars, AllFit' PROVE AllFit
<1> SUFFICES ASSUME NEW p \in Sides, NEW i \in DOMAIN taken[p]
             PROVE  Fits(taken[p][i])
  BY DEF AllFit
<1>1. taken[p] \in Seq(Msgs)
  BY DEF TypeInv, QueueTypes
<1>2. taken'[p] = taken[p] \/ \E m \in Msgs : taken'[p] = Append(taken[p], m)
  BY HistoryStep
<1>3. i \in DOMAIN taken'[p] /\ taken'[p][i] = taken[p][i]
  BY <1>1, <1>2
<1> QED
  BY <1>3 DEF AllFit, Fits

\* A step that sends no heart, answers none and gets no frame.
LEMMA EchoSame ==
  ASSUME TypeInv, [Next]_vars, NEW p \in Sides, EchoRight(p),
         HeartsIn(Accepted'[p]) = HeartsIn(Accepted[p]),
         UNCHANGED <<got, replies, ticks>>, Due(p)' = Due(p),
         loop'[p] = loop[p] \/ loop'[p] # "heart"
  PROVE  EchoRight(p)'
<1>1. HeartFrames(p)' = HeartFrames(p)
  BY DEF HeartFrames
<1>2. AllFit' => AllFit
  BY FitBefore
<1>3. HeartsIn(Accepted[p])' = HeartsIn(Accepted'[p])
  BY DEF HeartsIn
<1> QED
  BY <1>1, <1>2, <1>3 DEF EchoRight

\* A frame that arrives: a heart is answered by a server that has room.
LEMMA EchoParse ==
  ASSUME TypeInv, TypeInv', EchoInv, ExactFrames', NEW r \in Sides, ParseMsg(r),
         [Next]_vars, NEW p \in Sides
  PROVE  EchoRight(p)'
<1> DEFINE f == Append(acc[r], Head(Source(r)))
<1>0. EchoRight(p)
  BY DEF EchoInv
<1>t. /\ replies \in [Sides -> Nat] /\ got \in [Sides -> Seq(Seq(Units))]
      /\ queue \in [Sides -> Seq(Msgs)] /\ Heart \in Msgs
      /\ Len(got[r]) \in Nat
  <2>1. TypeInv
    OBVIOUS
  <2>2. replies \in [Sides -> Nat] /\ got \in [Sides -> Seq(Seq(Units))]
    BY <2>1 DEF TypeInv, ParserTypes, Counts
  <2>3. queue \in [Sides -> Seq(Msgs)] /\ Heart \in Msgs
    BY <2>1 DEF TypeInv, QueueTypes, Msgs
  <2> QED
    BY <2>2, <2>3
<1>1. /\ got' = [got EXCEPT ![r] = Append(@, f)] /\ OnMsg(r, f)
      /\ UNCHANGED <<taken, ticks, loop>>
  BY DEF ParseMsg, sendVars, loopVars
<1> HIDE DEF f
<1>2. HeartsIn(Accepted[p])' = HeartsIn(Accepted'[p]) /\ Due(p)' = Due(p)
  BY <1>1 DEF HeartsIn, Due
<1>3. Cardinality(HeartFrames(p)) <= Cardinality(HeartFrames(p)')
  <2>1. /\ got'[p] \in Seq(Seq(Units)) /\ Len(got'[p]) \in Nat
        /\ HeartFrames(p)' \subseteq 1..Len(got'[p])
    BY DEF TypeInv, ParserTypes, HeartFrames
  <2>2. HeartFrames(p) \subseteq HeartFrames(p)'
    <3>1. CASE p = r
      <4>1. got'[p] = Append(got[p], f)
        BY <1>t, <1>1, <3>1
      <4>2. \A k \in DOMAIN got[p] : k \in DOMAIN got'[p] /\ got'[p][k] = got[p][k]
        BY <1>t, <4>1
      <4> QED
        BY <4>2 DEF HeartFrames
    <3>2. CASE p # r
      BY <1>t, <1>1, <3>2 DEF HeartFrames
    <3> QED
      BY <3>1, <3>2
  <2>3. IsFiniteSet(HeartFrames(p)')
    BY <2>1, CountMore
  <2> QED
    BY <2>2, <2>3, FS_Subset
<1>4. CASE UNCHANGED <<queue, replies>>
  <2>1. Accepted' = Accepted /\ (AllFit' => AllFit)
    BY <1>1, <1>4, FitBefore DEF Accepted
  <2>2. /\ Cardinality(HeartFrames(p)) \in Nat
        /\ Cardinality(HeartFrames(p)') \in Nat /\ replies[p] \in Nat
    <3>1. Cardinality(HeartFrames(p)) \in Nat /\ replies[p] \in Nat
      BY EchoTyped
    <3>2. /\ HeartFrames(p)' \in SUBSET (1..Len(got'[p])) /\ Len(got'[p]) \in Nat
      BY DEF TypeInv, ParserTypes, HeartFrames
    <3> QED
      BY <3>1, <3>2, CountMore
  <2> QED
    BY <1>0, <1>1, <1>2, <1>3, <1>4, <2>1, <2>2 DEF EchoRight
<1>5. CASE /\ f[2].msg = Heart /\ r \in Servs /\ Enqueue(r, Heart)
           /\ replies' = [replies EXCEPT ![r] = @ + 1]
  <2>1. Accepted' = [Accepted EXCEPT ![r] = Append(@, Heart)]
    BY <1>t, <1>1, <1>5, AcceptedMore
  <2>2. CASE p # r
    <3>1. Accepted'[p] = Accepted[p] /\ replies'[p] = replies[p] /\ got'[p] = got[p]
      BY <1>t, <1>1, <1>5, <2>1, <2>2 DEF Accepted
    <3>2. HeartFrames(p)' = HeartFrames(p) /\ (AllFit' => AllFit)
      BY <3>1, FitBefore DEF HeartFrames
    <3> QED
      BY <1>0, <1>1, <1>2, <3>1, <3>2 DEF EchoRight
  <2>3. CASE p = r
    <3>1. /\ Accepted'[p] = Append(Accepted[p], Heart)
          /\ replies'[p] = replies[p] + 1
          /\ got'[p] = Append(got[p], f)
      BY <1>t, <1>1, <1>5, <2>1, <2>3 DEF Accepted
    <3>2. HeartsIn(Accepted[p])' = HeartsIn(Accepted[p]) + 1
      BY <1>t, <1>2, <3>1, EchoTyped, HeartsMore
    <3>3. /\ HeartFrames(p)' = HeartFrames(p) \union {Len(got[p]) + 1}
      <4>1. /\ DOMAIN got'[p] = 1..(Len(got[p]) + 1) /\ DOMAIN got[p] = 1..Len(got[p])
            /\ \A k \in 1..Len(got[p]) : got'[p][k] = got[p][k]
            /\ got'[p][Len(got[p]) + 1] = f
        BY <1>t, <2>3, <3>1
      <4> QED
        BY <1>t, <1>5, <2>3, <4>1, SMTT(30) DEF HeartFrames
    <3>4. Cardinality(HeartFrames(p)') = Cardinality(HeartFrames(p)) + 1
      BY <3>3, EchoTyped, CountMore
    <3>5. /\ HeartsIn(Accepted[p])' + Due(p)' <= ticks'[p] + replies'[p]
          /\ replies'[p] <= Cardinality(HeartFrames(p)')
      <4>1. /\ HeartsIn(Accepted[p]) \in Nat /\ ticks[p] \in Nat /\ replies[p] \in Nat
            /\ Cardinality(HeartFrames(p)) \in Nat /\ Due(p) \in {0, 1}
        BY EchoTyped DEF Due
      <4>2. /\ HeartsIn(Accepted[p]) + Due(p) <= ticks[p] + replies[p]
            /\ replies[p] <= Cardinality(HeartFrames(p))
        BY <1>0 DEF EchoRight
      <4>3. ticks' = ticks /\ Due(p)' = Due(p)
        BY <1>1, <1>2
      <4>4. ticks'[p] = ticks[p] /\ replies'[p] = replies[p] + 1
        BY <3>1, <4>3
      <4>5. HeartsIn(Accepted[p])' + Due(p)' <= ticks'[p] + replies'[p]
        BY <3>2, <4>1, <4>2, <4>3, <4>4, SMTT(20)
      <4>6. replies'[p] <= Cardinality(HeartFrames(p)')
        BY <3>4, <4>1, <4>2, <4>4, SMTT(20)
      <4> QED
        BY <4>5, <4>6
    <3>6. ASSUME AllFit', Sides \subseteq Servs PROVE FALSE
      <4> DEFINE q == Other(p)
      <4>1. q \in Sides /\ q # p
        BY TwoSides
      <4>2. HeartsCame' /\ AllFit
        BY <3>6, HeartsSentNext, FitBefore
      <4>3. Cardinality(HeartFrames(p)') <= HeartsIn(Accepted'[q])
        BY <4>2 DEF HeartsCame, HeartsIn, Other
      <4> HIDE DEF q
      <4>4. Accepted'[q] = Accepted[q]
        BY <2>1, <2>3, <4>1 DEF Accepted
      <4>5. HeartsIn(Accepted[q]) <= 0
        <5>1. /\ ticks[q] = 0 /\ replies[q] = 0
              /\ HeartsIn(Accepted[q]) + Due(q) <= ticks[q] + replies[q]
          BY <3>6, <4>1, <4>2 DEF EchoInv, EchoRight
        <5>2. HeartsIn(Accepted[q]) \in Nat /\ Due(q) \in {0, 1}
          BY <4>1, EchoTyped DEF Due
        <5> QED
          BY <5>1, <5>2
      <4>6. Cardinality(HeartFrames(p)) \in Nat /\ HeartsIn(Accepted[q]) \in Nat
        BY <4>1, EchoTyped
      <4> QED
        BY <3>4, <4>3, <4>4, <4>5, <4>6
    <3> QED
      BY <1>0, <1>1, <1>5, <2>3, <3>5, <3>6 DEF EchoRight
  <2> QED
    BY <2>2, <2>3
<1> QED
  BY <1>1, <1>4, <1>5 DEF OnMsg

\* Every step keeps EchoInv.
LEMMA EchoStep ==
  ASSUME TypeInv, TypeInv', EchoInv, ExactFrames', [Next]_vars PROVE EchoInv'
<1> SUFFICES ASSUME NEW p \in Sides PROVE EchoRight(p)'
  BY DEF EchoInv
<1>0. EchoRight(p)
  BY DEF EchoInv
<1>t. /\ loop \in [Sides -> {"check", "heart", "end"}] /\ ticks \in [Sides -> Nat]
      /\ queue \in [Sides -> Seq(Msgs)] /\ Heart \in Msgs
  <2>1. TypeInv
    OBVIOUS
  <2> QED
    BY <2>1 DEF TypeInv, FlagTypes, QueueTypes, Counts, Msgs
<1>1. ASSUME UNCHANGED <<queue, taken, got, replies, ticks, loop>>
      PROVE  EchoRight(p)'
  BY <1>0, <1>1, EchoSame DEF Accepted, Due
<1>2. ASSUME NEW r \in Sides, NEW m \in Sends[r], Send(r, m) PROVE EchoRight(p)'
  <2>1. m \in Msgs /\ m # Heart
    BY MessagerAssumption DEF Msgs
  <2>2. /\ Accepted' = [Accepted EXCEPT ![r] = Append(@, m)]
        /\ UNCHANGED <<got, replies, ticks, loop>>
    BY <1>2, <2>1, AcceptedMore DEF Send, recvVars, loopVars
  <2>3. HeartsIn(Accepted'[p]) = HeartsIn(Accepted[p])
    <3>1. Accepted'[p] = IF p = r THEN Append(Accepted[p], m) ELSE Accepted[p]
      BY <2>2 DEF Accepted
    <3> QED
      BY <2>1, <3>1, EchoTyped, HeartsMore
  <2> QED
    BY <1>0, <2>2, <2>3, EchoSame DEF Due
<1>3. ASSUME NEW r \in Sides, SendTake(r) PROVE EchoRight(p)'
  <2>1. Accepted' = Accepted
    BY <1>3, AcceptedTaken
  <2>2. UNCHANGED <<got, replies, ticks, loop>>
    BY <1>3 DEF SendTake, recvVars, loopVars
  <2> QED
    BY <1>0, <2>1, <2>2, EchoSame DEF Due
<1>4. ASSUME NEW r \in Sides, ParseMsg(r) PROVE EchoRight(p)'
  BY <1>4, EchoParse
<1>5. ASSUME NEW r \in Sides,
             \/ SendIdle(r) \/ SendUnit(r) \/ SendFail(r) \/ ReadStep(r)
             \/ ParseUnit(r) \/ ParseReject(r) \/ ParseFail(r)
      PROVE  EchoRight(p)'
  BY <1>1, <1>5
  DEF SendIdle, SendUnit, SendFail, ReadStep, ReadFill, ReadPush, ReadFail,
      ParseUnit, ParseReject, ParseFail, sendVars, recvVars, loopVars
<1>6. ASSUME NEW r \in Sides, NEW i \in handling[r], HandlerEnd(r, i)
      PROVE  EchoRight(p)'
  BY <1>1, <1>6 DEF HandlerEnd, sendVars, loopVars
<1>7. ASSUME NEW r \in Sides, HeartTimeout(r) \/ UserStop(r) PROVE EchoRight(p)'
  BY <1>1, <1>7 DEF HeartTimeout, UserStop, sendVars, recvVars, loopVars
<1>8. ASSUME NEW r \in Sides, RunEnd(r) PROVE EchoRight(p)'
  <2>1. /\ UNCHANGED <<queue, taken, got, replies, ticks>>
        /\ loop[r] = "check" /\ loop' = [loop EXCEPT ![r] = "end"]
    BY <1>8 DEF RunEnd, sendVars, recvVars
  <2>2. loop'[p] = loop[p] \/ (loop'[p] # "heart" /\ loop[p] # "heart")
    BY <1>t, <2>1
  <2> QED
    BY <1>0, <2>1, <2>2, EchoSame DEF Accepted, Due
<1>9. ASSUME NEW r \in Sides, HeartTick(r) PROVE EchoRight(p)'
  <2>1. /\ UNCHANGED <<queue, taken, got, replies>> /\ r \notin Servs
        /\ loop[r] = "check" /\ loop' = [loop EXCEPT ![r] = "heart"]
        /\ ticks' = [ticks EXCEPT ![r] = @ + 1]
    BY <1>9 DEF HeartTick, StillUp, sendVars, recvVars
  <2>2. CASE p # r
    <3>1. loop'[p] = loop[p] /\ ticks'[p] = ticks[p]
      BY <1>t, <2>1, <2>2
    <3>2. HeartFrames(p)' = HeartFrames(p) /\ Accepted' = Accepted
      BY <2>1 DEF HeartFrames, Accepted
    <3>3. (AllFit' => AllFit) /\ HeartsIn(Accepted[p])' = HeartsIn(Accepted'[p])
      BY FitBefore DEF HeartsIn
    <3> QED
      BY <1>0, <2>1, <3>1, <3>2, <3>3 DEF EchoRight, Due
  <2>3. CASE p = r
    <3>1. loop[p] = "check" /\ loop'[p] = "heart" /\ ticks'[p] = ticks[p] + 1
      BY <1>t, <2>1, <2>3
    <3>2. HeartFrames(p)' = HeartFrames(p) /\ Accepted' = Accepted
      BY <2>1 DEF HeartFrames, Accepted
    <3>3. (AllFit' => AllFit) /\ HeartsIn(Accepted[p])' = HeartsIn(Accepted'[p])
      BY FitBefore DEF HeartsIn
    <3>4. Due(p) = 0 /\ Due(p)' = 1
      BY <3>1 DEF Due
    <3>5. HeartsIn(Accepted[p]) \in Nat /\ ticks[p] \in Nat /\ replies[p] \in Nat
      BY EchoTyped
    <3>6. HeartsIn(Accepted[p])' + Due(p)' <= ticks'[p] + replies'[p]
      BY <1>0, <2>1, <3>1, <3>2, <3>3, <3>4, <3>5 DEF EchoRight
    <3> QED
      BY <1>0, <2>1, <2>3, <3>2, <3>3, <3>6 DEF EchoRight
  <2> QED
    BY <2>2, <2>3
<1>10. ASSUME NEW r \in Sides, HeartSend(r) PROVE EchoRight(p)'
  <2>1. /\ UNCHANGED <<taken, got, replies, ticks>>
        /\ UNCHANGED queue \/ Enqueue(r, Heart)
        /\ loop[r] = "heart" /\ loop' = [loop EXCEPT ![r] = "check"]
    BY <1>10 DEF HeartSend, sendVars, recvVars
  <2>2. Accepted' = Accepted \/ Accepted' = [Accepted EXCEPT ![r] = Append(@, Heart)]
    BY <1>t, <2>1, AcceptedMore DEF Accepted
  <2>3. CASE p # r
    <3>1. Accepted'[p] = Accepted[p] /\ loop'[p] = loop[p]
      BY <1>t, <2>1, <2>2, <2>3 DEF Accepted
    <3> QED
      BY <1>0, <2>1, <3>1, EchoSame DEF Due
  <2>4. CASE p = r
    <3>1. /\ Accepted'[p] = Accepted[p] \/ Accepted'[p] = Append(Accepted[p], Heart)
          /\ Due(p) = 1 /\ Due(p)' = 0 /\ loop'[p] = "check"
      BY <1>t, <2>1, <2>2, <2>4 DEF Accepted, Due
    <3>2. HeartFrames(p)' = HeartFrames(p)
      BY <2>1 DEF HeartFrames
    <3>3. (AllFit' => AllFit) /\ HeartsIn(Accepted[p])' = HeartsIn(Accepted'[p])
      BY FitBefore DEF HeartsIn
    <3>4. HeartsIn(Accepted[p]) \in Nat /\ ticks[p] \in Nat /\ replies[p] \in Nat
      BY EchoTyped
    <3>5. \/ HeartsIn(Accepted'[p]) = HeartsIn(Accepted[p])
          \/ HeartsIn(Accepted'[p]) = HeartsIn(Accepted[p]) + 1
      BY <1>t, <3>1, EchoTyped, HeartsMore
    <3>6. HeartsIn(Accepted[p])' + Due(p)' <= ticks'[p] + replies'[p]
      BY <1>0, <2>1, <3>1, <3>3, <3>4, <3>5 DEF EchoRight
    <3> QED
      BY <1>0, <2>1, <3>1, <3>2, <3>3, <3>6 DEF EchoRight
  <2> QED
    BY <2>3, <2>4
<1>11. CASE Break \/ UNCHANGED vars
  BY <1>1, <1>11 DEF Break, vars, sendVars, recvVars, loopVars
<1> QED
  BY <1>2, <1>3, <1>4, <1>5, <1>6, <1>7, <1>8, <1>9, <1>10, <1>11
  DEF Next, SendStep, ParseStep, LoopStep

LEMMA EchoCorrect == Spec => []EchoInv
<1>1. ASSUME Init, NEW p \in Sides PROVE EchoRight(p)
  <2>1. /\ taken[p] = <<>> /\ queue[p] = <<>> /\ got[p] = <<>>
        /\ ticks[p] = 0 /\ replies[p] = 0 /\ loop[p] = "check"
    BY <1>1 DEF Init, Empty, Zero
  <2>2. Accepted[p] = <<>>
    BY <1>1, LinkStart DEF Link!Init, Accepted
  <2>3. {i \in DOMAIN <<>> : <<>>[i] = Heart} = {} /\ HeartFrames(p) = {}
    BY <2>1 DEF HeartFrames
  <2>4. HeartsIn(Accepted[p]) = 0 /\ Cardinality(HeartFrames(p)) = 0 /\ Due(p) = 0
    BY <2>1, <2>2, <2>3, FS_EmptySet DEF HeartsIn, Due
  <2> QED
    BY <2>1, <2>4 DEF EchoRight
<1>2. Init => EchoInv
  BY <1>1 DEF EchoInv
<1>3. /\ TypeInv /\ TypeInv' /\ EchoInv /\ ExactFrames' /\ [Next]_vars => EchoInv'
  BY EchoStep
<1> QED
  BY <1>2, <1>3, LinkCorrect, FramesAreExact, PTL DEF Spec

\* Hearts do not multiply: an answer is never answered, whatever fails and
\* whoever is a server, as long as commands fit their length field (data of a
\* misfit may be read as a heart).
THEOREM HeartsDoNotMultiply == Spec => [](AllFit => NoHeartEcho)
<1>1. ASSUME TypeInv, EchoInv, HeartsCame, AllFit, NEW p \in Sides
      PROVE  replies[p] <= ticks[Other(p)]
  <2> DEFINE q == Other(p)
  <2>1. q \in Sides /\ \A r \in Sides : r = p \/ r = q
    BY TwoSides
  <2>2. Cardinality(HeartFrames(p)) <= HeartsIn(Accepted[q])
    BY <1>1 DEF HeartsCame
  <2> HIDE DEF q
  <2>3. /\ replies[p] \in Nat /\ replies[q] \in Nat /\ ticks[q] \in Nat
        /\ Cardinality(HeartFrames(p)) \in Nat /\ HeartsIn(Accepted[q]) \in Nat
        /\ Due(q) \in {0, 1}
    BY <1>1, <2>1, EchoTyped DEF Due
  <2>4. EchoRight(p) /\ EchoRight(q)
    BY <1>1, <2>1 DEF EchoInv
  <2>5. replies[p] <= ticks[q] + replies[q]
    BY <2>2, <2>3, <2>4 DEF EchoRight
  <2>6. q \notin Servs => replies[p] <= ticks[q]
    BY <2>3, <2>4, <2>5 DEF EchoRight
  <2>7. p \notin Servs => replies[p] <= ticks[q]
    BY <2>3, <2>4 DEF EchoRight
  <2>8. p \in Servs /\ q \in Servs => replies[p] <= ticks[q]
    <3>1. p \in Servs /\ q \in Servs => Sides \subseteq Servs
      BY <2>1
    <3> QED
      BY <1>1, <2>3, <2>4, <3>1 DEF EchoRight
  <2> QED
    BY <2>6, <2>7, <2>8 DEF q
<1>2. TypeInv /\ EchoInv /\ ExactFrames /\ AllFit => NoHeartEcho
  BY <1>1, HeartsSent DEF NoHeartEcho
<1> QED
  BY <1>2, LinkCorrect, FramesAreExact, EchoCorrect, PTL
=============================================================================
