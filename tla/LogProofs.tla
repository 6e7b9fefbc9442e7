------------------------------ MODULE LogProofs ------------------------------
(***************************************************************************)
(* Theorems about Log for every set of loggers, all lengths of messages    *)
(* and all limits, as long as the logger that is opened first is closed    *)
(* last with no other call meanwhile (~Overlap).                           *)
(***************************************************************************)
EXTENDS Log, SequenceLemmas

(***************************************************************************)
(* The messages of a buffer, and their length.                             *)
(***************************************************************************)
\* The messages of a logger, and what of them a buffer may hold.
Msg(l)  == DOMAIN Lens[l]
Held(l) == {msgs \in Seq(Msg(l)) : LengthOf(l, msgs) <= BufSize}

\* The buffers that may wait for the writer.
Buf == {b \in [log : Logger, msgs : Seq(Nat)] :
          b.msgs \in Seq(Msg(b.log)) /\ LengthOf(b.log, b.msgs) \in 1 .. BufSize}
-----------------------------------------------------------------------------
\* The length of a line is positive, and fits.
LEMMA Lengths ==
  ASSUME NEW l \in Logger, NEW m \in Msg(l)
  PROVE  m \in Nat /\ Line(Lens[l][m]) \in 1 .. LineMax - 1 /\ Line(Lens[l][m]) \in Nat
<1>1. Lens[l] \in Seq(Nat \ {0})
  BY LogAssumption
<1>2. m \in Nat /\ Lens[l][m] \in Nat \ {0}
  BY <1>1 DEF Msg
<1>3. LineMax \in Nat /\ LineMax > 1
  BY LogAssumption
<1>4. QED
  BY <1>2, <1>3 DEF Line

\* The lines of some messages.
LinesOf(l, msgs) == [i \in DOMAIN msgs |-> Line(Lens[l][msgs[i]])]

\* The lengths of the messages of a buffer are a sequence of numbers.
LEMMA LinesType ==
  ASSUME NEW l \in Logger, NEW msgs \in Seq(Msg(l))
  PROVE  /\ LinesOf(l, msgs) \in Seq(Nat)
         /\ Len(LinesOf(l, msgs)) = Len(msgs)
         /\ \A i \in 1 .. Len(msgs) : LinesOf(l, msgs)[i] = Line(Lens[l][msgs[i]])
<1>1. \A i \in 1 .. Len(msgs) : msgs[i] \in Msg(l)
  OBVIOUS
<1>2. \A i \in 1 .. Len(msgs) : Line(Lens[l][msgs[i]]) \in Nat
  BY <1>1, Lengths
<1>3. DOMAIN msgs = 1 .. Len(msgs) /\ Len(msgs) \in Nat
  OBVIOUS
<1>4. QED
  BY <1>2, <1>3 DEF LinesOf

\* The length of a buffer is the sum of its lines.
LEMMA LengthIsSum ==
  ASSUME NEW l, NEW msgs
  PROVE  LengthOf(l, msgs) = SumOf(LinesOf(l, msgs))
BY Zenon DEF LengthOf, SumOf, LinesOf

\* The length of nothing.
LEMMA LengthNone ==
  ASSUME NEW l
  PROVE  LengthOf(l, << >>) = 0
<1>1. LinesOf(l, << >>) = << >>
  BY DEF LinesOf
<1>2. QED
  BY <1>1, LengthIsSum, SumNone

\* Lengths add up.
LEMMA LengthCat ==
  ASSUME NEW l \in Logger, NEW p \in Seq(Msg(l)), NEW q \in Seq(Msg(l))
  PROVE  LengthOf(l, p \o q) = LengthOf(l, p) + LengthOf(l, q)
<1>1. /\ LinesOf(l, p) \in Seq(Nat) /\ Len(LinesOf(l, p)) = Len(p)
      /\ LinesOf(l, q) \in Seq(Nat) /\ Len(LinesOf(l, q)) = Len(q)
      /\ \A i \in 1 .. Len(p) : LinesOf(l, p)[i] = Line(Lens[l][p[i]])
      /\ \A i \in 1 .. Len(q) : LinesOf(l, q)[i] = Line(Lens[l][q[i]])
  BY LinesType
<1>2. p \o q \in Seq(Msg(l)) /\ Len(p \o q) = Len(p) + Len(q)
  OBVIOUS
<1>3. /\ LinesOf(l, p \o q) \in Seq(Nat) /\ Len(LinesOf(l, p \o q)) = Len(p) + Len(q)
      /\ \A i \in 1 .. Len(p) + Len(q) : LinesOf(l, p \o q)[i] = Line(Lens[l][(p \o q)[i]])
  BY <1>2, LinesType
<1>4. LinesOf(l, p \o q) = LinesOf(l, p) \o LinesOf(l, q)
  <2> DEFINE s == LinesOf(l, p)
             t == LinesOf(l, q)
             u == LinesOf(l, p \o q)
  <2>1. \A i \in 1 .. Len(p) : u[i] = s[i]
    <3>1. \A i \in 1 .. Len(p) : (p \o q)[i] = p[i] /\ i \in 1 .. Len(p) + Len(q)
      OBVIOUS
    <3>2. QED
      BY <1>1, <1>3, <3>1
  <2>2. \A i \in 1 .. Len(q) : u[Len(p) + i] = t[i]
    <3>1. \A i \in 1 .. Len(q) : (p \o q)[Len(p) + i] = q[i] /\ Len(p) + i \in 1 .. Len(p) + Len(q)
      OBVIOUS
    <3>2. QED
      BY <1>1, <1>3, <3>1
  <2>3. /\ s \in Seq(Nat) /\ t \in Seq(Nat) /\ u \in Seq(Nat)
        /\ Len(s) = Len(p) /\ Len(t) = Len(q) /\ Len(u) = Len(s) + Len(t)
    BY <1>1, <1>3
  <2> HIDE DEF s, t, u
  <2>4. /\ \A i \in 1 .. Len(s) : u[i] = s[i]
        /\ \A i \in 1 .. Len(t) : u[Len(s) + i] = t[i]
    BY <2>1, <2>2, <2>3
  <2>5. u = s \o t
    BY <2>3, <2>4, IsCat
  <2>6. QED
    BY <2>5 DEF s, t, u
<1>5. QED
  BY <1>1, <1>4, LengthIsSum, SumCat

\* A length is a number.
LEMMA LengthType ==
  ASSUME NEW l \in Logger, NEW msgs \in Seq(Msg(l))
  PROVE  LengthOf(l, msgs) \in Nat
BY LinesType, LengthIsSum, SumType

\* The length of one message.
LEMMA LengthOne ==
  ASSUME NEW l \in Logger, NEW m \in Msg(l)
  PROVE  LengthOf(l, <<m>>) = Line(Lens[l][m])
<1>1. LinesOf(l, <<m>>) = <<Line(Lens[l][m])>>
  BY DEF LinesOf
<1>2. <<Line(Lens[l][m])>> = Append(<< >>, Line(Lens[l][m]))
  OBVIOUS
<1>3. Line(Lens[l][m]) \in Nat /\ << >> \in Seq(Nat)
  BY Lengths
<1>4. SumOf(Append(<< >>, Line(Lens[l][m]))) = SumOf(<< >>) + Line(Lens[l][m])
  BY <1>3, SumAppend
<1>5. QED
  BY <1>1, <1>2, <1>3, <1>4, LengthIsSum, SumNone

\* The length with one message more.
LEMMA LengthAppend ==
  ASSUME NEW l \in Logger, NEW msgs \in Seq(Msg(l)), NEW m \in Msg(l)
  PROVE  LengthOf(l, Append(msgs, m)) = LengthOf(l, msgs) + Line(Lens[l][m])
<1>1. Append(msgs, m) = msgs \o <<m>> /\ <<m>> \in Seq(Msg(l))
  OBVIOUS
<1>2. QED
  BY <1>1, LengthCat, LengthOne

\* Only a buffer with nothing in it has no length.
LEMMA LengthPositive ==
  ASSUME NEW l \in Logger, NEW msgs \in Seq(Msg(l)), msgs # << >>
  PROVE  LengthOf(l, msgs) >= 1
<1>1. PICK front \in Seq(Msg(l)), m \in Msg(l) : msgs = Append(front, m)
  BY SequenceEmptyOrAppend
<1>2. LengthOf(l, msgs) = LengthOf(l, front) + Line(Lens[l][m])
  BY <1>1, LengthAppend
<1>3. LengthOf(l, front) \in Nat /\ Line(Lens[l][m]) \in Nat /\ Line(Lens[l][m]) >= 1
  BY Lengths, LengthType
<1>4. QED
  BY <1>2, <1>3

(***************************************************************************)
(* The messages of one logger in a list of buffers, and how many of the    *)
(* buffers are its own.                                                    *)
(***************************************************************************)
\* What a sequence of buffers has for a logger, buffer by buffer.
PickedFrom(queue, l) == [i \in DOMAIN queue |-> IF queue[i].log = l THEN queue[i].msgs ELSE << >>]

\* What one logger has in each place of a list.
LEMMA PickedType ==
  ASSUME NEW l, NEW q \in Seq(Buf)
  PROVE  /\ PickedFrom(q, l) \in Seq(Seq(Nat))
         /\ Len(PickedFrom(q, l)) = Len(q)
         /\ \A i \in 1 .. Len(q) :
              PickedFrom(q, l)[i] = IF q[i].log = l THEN q[i].msgs ELSE << >>
<1>1. \A i \in 1 .. Len(q) : q[i] \in Buf
  OBVIOUS
<1>2. \A i \in 1 .. Len(q) : q[i].msgs \in Seq(Nat)
  BY <1>1 DEF Buf
<1>3. DOMAIN q = 1 .. Len(q) /\ Len(q) \in Nat
  OBVIOUS
<1>4. \A i \in 1 .. Len(q) : (IF q[i].log = l THEN q[i].msgs ELSE << >>) \in Seq(Nat)
  BY <1>2
<1>5. QED
  BY <1>3, <1>4 DEF PickedFrom

\* An empty list has no messages.
LEMMA MsgsNone ==
  ASSUME NEW l
  PROVE  MsgsIn(<< >>, l) = << >>
<1>1. PickedFrom(<< >>, l) = << >>
  BY DEF PickedFrom
<1>2. QED
  BY <1>1, FlattenNone DEF MsgsIn, PickedFrom

\* The messages of a logger are numbers.
LEMMA MsgsType ==
  ASSUME NEW l, NEW q \in Seq(Buf)
  PROVE  MsgsIn(q, l) \in Seq(Nat)
<1>1. PickedFrom(q, l) \in Seq(Seq(Nat))
  BY PickedType
<1>2. QED
  BY <1>1, FlattenType DEF MsgsIn, PickedFrom

\* Two lists in a row have the messages of both.
LEMMA MsgsCat ==
  ASSUME NEW l, NEW p \in Seq(Buf), NEW q \in Seq(Buf)
  PROVE  MsgsIn(p \o q, l) = MsgsIn(p, l) \o MsgsIn(q, l)
<1> DEFINE s == PickedFrom(p, l)
           t == PickedFrom(q, l)
           u == PickedFrom(p \o q, l)
<1>1. p \o q \in Seq(Buf) /\ Len(p \o q) = Len(p) + Len(q)
  OBVIOUS
<1>2. /\ s \in Seq(Seq(Nat)) /\ Len(s) = Len(p)
      /\ t \in Seq(Seq(Nat)) /\ Len(t) = Len(q)
      /\ u \in Seq(Seq(Nat)) /\ Len(u) = Len(s) + Len(t)
  BY <1>1, PickedType
<1>3. \A i \in 1 .. Len(s) : u[i] = s[i]
  <2>1. \A i \in 1 .. Len(p) : (p \o q)[i] = p[i] /\ i \in DOMAIN p /\ i \in DOMAIN (p \o q)
    OBVIOUS
  <2>2. QED
    BY <1>2, <2>1 DEF PickedFrom
<1>4. \A i \in 1 .. Len(t) : u[Len(s) + i] = t[i]
  <2>1. \A i \in 1 .. Len(q) : /\ (p \o q)[Len(p) + i] = q[i]
                                /\ i \in DOMAIN q /\ Len(p) + i \in DOMAIN (p \o q)
    OBVIOUS
  <2>2. QED
    BY <1>2, <2>1 DEF PickedFrom
<1> HIDE DEF s, t, u
<1>5. u = s \o t
  BY <1>2, <1>3, <1>4, IsCat
<1>6. FlattenSeq(u) = FlattenSeq(s) \o FlattenSeq(t)
  BY <1>2, <1>5, FlattenCat
<1>7. QED
  BY <1>6 DEF s, t, u, MsgsIn, PickedFrom

\* The messages in a list of one.
LEMMA MsgsOne ==
  ASSUME NEW l, NEW b \in Buf
  PROVE  MsgsIn(<<b>>, l) = IF b.log = l THEN b.msgs ELSE << >>
<1> DEFINE s == IF b.log = l THEN b.msgs ELSE << >>
<1>1. PickedFrom(<<b>>, l) = <<s>>
  BY DEF PickedFrom
<1>2. s \in Seq(Nat)
  BY DEF Buf
<1> HIDE DEF s
<1>3. FlattenSeq(<<s>>) = s
  BY <1>2, FlattenOne
<1>4. QED
  BY <1>1, <1>3 DEF s, MsgsIn, PickedFrom

\* The first buffer, and the others.
LEMMA HeadApart ==
  ASSUME NEW S, NEW q \in Seq(S), q # << >>
  PROVE  /\ Head(q) \in S /\ Tail(q) \in Seq(S) /\ <<Head(q)>> \in Seq(S)
         /\ q = <<Head(q)>> \o Tail(q)
         /\ Len(q) = Len(Tail(q)) + 1
OBVIOUS

\* The messages of the first buffer come first.
LEMMA MsgsHead ==
  ASSUME NEW l, NEW q \in Seq(Buf), q # << >>
  PROVE  MsgsIn(q, l) = (IF Head(q).log = l THEN Head(q).msgs ELSE << >>) \o MsgsIn(Tail(q), l)
<1>1. /\ Head(q) \in Buf /\ Tail(q) \in Seq(Buf) /\ <<Head(q)>> \in Seq(Buf)
      /\ q = <<Head(q)>> \o Tail(q)
  BY HeadApart
<1>2. MsgsIn(<<Head(q)>> \o Tail(q), l) = MsgsIn(<<Head(q)>>, l) \o MsgsIn(Tail(q), l)
  BY <1>1, MsgsCat
<1>3. MsgsIn(<<Head(q)>>, l) = IF Head(q).log = l THEN Head(q).msgs ELSE << >>
  BY <1>1, MsgsOne
<1>4. QED
  BY <1>1, <1>2, <1>3
-----------------------------------------------------------------------------
\* How many buffers of a sequence are of a logger.
Places(q, l) == {i \in DOMAIN q : q[i].log = l}
Count(q, l)  == Cardinality(Places(q, l))
One(b, l)    == IF b.log = l THEN 1 ELSE 0

\* The buffers of a logger can be counted.
LEMMA CountType ==
  ASSUME NEW S, NEW l, NEW q \in Seq(S)
  PROVE  /\ IsFiniteSet(Places(q, l)) /\ Count(q, l) \in Nat
         /\ Count(q, l) = 0 <=> \A i \in DOMAIN q : q[i].log # l
<1>1. IsFiniteSet(1 .. Len(q)) /\ Places(q, l) \subseteq 1 .. Len(q)
  BY FS_Interval DEF Places
<1>2. IsFiniteSet(Places(q, l))
  BY <1>1, FS_Subset
<1>3. QED
  BY <1>2, FS_CardinalityType, FS_EmptySet DEF Count, Places

\* There are none in an empty list.
LEMMA CountNone ==
  ASSUME NEW l
  PROVE  Count(<< >>, l) = 0
<1>1. Places(<< >>, l) = {}
  BY DEF Places
<1>2. QED
  BY <1>1, FS_EmptySet DEF Count

\* One buffer more.
LEMMA CountAppend ==
  ASSUME NEW S, NEW l, NEW q \in Seq(S), NEW b \in S
  PROVE  Count(Append(q, b), l) = Count(q, l) + One(b, l)
<1> DEFINE n == Len(q)
<1>1. /\ n \in Nat /\ DOMAIN q = 1 .. n /\ DOMAIN Append(q, b) = 1 .. n + 1
      /\ Append(q, b)[n + 1] = b /\ \A i \in 1 .. n : Append(q, b)[i] = q[i]
  OBVIOUS
<1> HIDE DEF n
<1>2. \A i : i \in 1 .. n + 1 <=> i \in 1 .. n \/ i = n + 1
  BY <1>1
<1>3. n + 1 \notin Places(q, l)
  BY <1>1 DEF Places
<1>4. Places(Append(q, b), l) = IF b.log = l THEN Places(q, l) \cup {n + 1} ELSE Places(q, l)
  BY <1>1, <1>2 DEF Places
<1>5. IsFiniteSet(Places(q, l)) /\ Count(q, l) \in Nat
  BY CountType
<1>6. Cardinality(Places(q, l) \cup {n + 1}) = Cardinality(Places(q, l)) + 1
  BY <1>3, <1>5, FS_AddElement
<1>7. QED
  BY <1>4, <1>5, <1>6 DEF Count, One

\* Counts add up.
LEMMA CountCat ==
  ASSUME NEW S, NEW l, NEW p \in Seq(S), NEW q \in Seq(S)
  PROVE  Count(p \o q, l) = Count(p, l) + Count(q, l)
<1> DEFINE T == {n \in Nat : \A r \in Seq(S) : Len(r) = n =>
                   Count(p \o r, l) = Count(p, l) + Count(r, l)}
<1>0. Count(p, l) \in Nat
  BY CountType
<1>1. 0 \in T
  <2> SUFFICES ASSUME NEW r \in Seq(S), Len(r) = 0
               PROVE  Count(p \o r, l) = Count(p, l) + Count(r, l)
    OBVIOUS
  <2>1. r = << >> /\ p \o r = p
    OBVIOUS
  <2>2. Count(r, l) = 0
    BY <2>1, CountNone
  <2>3. QED
    BY <1>0, <2>1, <2>2
<1>2. ASSUME NEW n \in Nat, n \in T
      PROVE  n + 1 \in T
  <2> SUFFICES ASSUME NEW r \in Seq(S), Len(r) = n + 1
               PROVE  Count(p \o r, l) = Count(p, l) + Count(r, l)
    OBVIOUS
  <2> DEFINE t == SubSeq(r, 1, n)
             e == r[n + 1]
             c == One(e, l)
  <2>1. t \in Seq(S) /\ Len(t) = n /\ e \in S /\ r = Append(t, e)
    BY LastApart
  <2> HIDE DEF t, e
  <2>2. Count(p \o t, l) = Count(p, l) + Count(t, l)
    BY <1>2, <2>1
  <2>3. p \o Append(t, e) = Append(p \o t, e) /\ p \o t \in Seq(S)
    BY <2>1
  <2>4. Count(Append(p \o t, e), l) = Count(p \o t, l) + c
    BY <2>1, <2>3, CountAppend
  <2>5. Count(Append(t, e), l) = Count(t, l) + c
    BY <2>1, CountAppend
  <2>5a. c \in Nat
    BY DEF One
  <2>5b. Count(t, l) \in Nat
    BY <2>1, CountType
  <2> HIDE DEF c
  <2>6. QED
    BY <1>0, <2>1, <2>2, <2>3, <2>4, <2>5, <2>5a, <2>5b
<1> HIDE DEF T
<1>3. \A n \in Nat : n \in T
  BY <1>1, <1>2, SetInduction
<1>4. QED
  BY <1>3 DEF T

\* One buffer less.
LEMMA CountHead ==
  ASSUME NEW S, NEW l, NEW q \in Seq(S), q # << >>
  PROVE  Count(q, l) = Count(Tail(q), l) + One(Head(q), l)
<1> DEFINE c == One(Head(q), l)
<1>1. /\ Head(q) \in S /\ Tail(q) \in Seq(S) /\ <<Head(q)>> \in Seq(S)
      /\ q = <<Head(q)>> \o Tail(q)
  BY HeadApart
<1>2. Count(<<Head(q)>> \o Tail(q), l) = Count(<<Head(q)>>, l) + Count(Tail(q), l)
  BY <1>1, CountCat
<1>3. Append(<< >>, Head(q)) = <<Head(q)>> /\ << >> \in Seq(S)
  BY <1>1
<1>4. Count(<<Head(q)>>, l) = Count(<< >>, l) + c
  BY <1>1, <1>3, CountAppend
<1>5. Count(Tail(q), l) \in Nat /\ c \in Nat /\ Count(<< >>, l) = 0
  BY <1>1, CountType, CountNone DEF One
<1> HIDE DEF c
<1>6. Count(q, l) = Count(<<Head(q)>>, l) + Count(Tail(q), l)
  BY <1>1, <1>2, Zenon
<1>7. Count(q, l) = Count(Tail(q), l) + c
  BY <1>4, <1>5, <1>6
<1>8. QED
  BY <1>7 DEF c

\* Where no buffer is of a logger there are no messages of it.
LEMMA NoPlaceNoMsgs ==
  ASSUME NEW l, NEW q \in Seq(Buf), Count(q, l) = 0
  PROVE  MsgsIn(q, l) = << >>
<1> DEFINE T == {n \in Nat : \A r \in Seq(Buf) : Len(r) = n /\ Count(r, l) = 0 =>
                   MsgsIn(r, l) = << >>}
<1>1. 0 \in T
  <2> SUFFICES ASSUME NEW r \in Seq(Buf), Len(r) = 0
               PROVE  MsgsIn(r, l) = << >>
    OBVIOUS
  <2>1. r = << >>
    OBVIOUS
  <2>2. QED
    BY <2>1, MsgsNone
<1>2. ASSUME NEW n \in Nat, n \in T
      PROVE  n + 1 \in T
  <2> SUFFICES ASSUME NEW r \in Seq(Buf), Len(r) = n + 1, Count(r, l) = 0
               PROVE  MsgsIn(r, l) = << >>
    OBVIOUS
  <2>1. r # << >> /\ Tail(r) \in Seq(Buf) /\ Len(Tail(r)) = n
    OBVIOUS
  <2>2. Count(r, l) = Count(Tail(r), l) + One(Head(r), l)
    BY <2>1, CountHead
  <2>3. Count(Tail(r), l) \in Nat
    BY <2>1, CountType
  <2>4. Count(Tail(r), l) = 0 /\ Head(r).log # l
    BY <2>2, <2>3 DEF One
  <2>5. MsgsIn(Tail(r), l) = << >>
    BY <1>2, <2>1, <2>4
  <2>6. MsgsIn(r, l) = (IF Head(r).log = l THEN Head(r).msgs ELSE << >>) \o MsgsIn(Tail(r), l)
    BY <2>1, MsgsHead
  <2>7. QED
    BY <2>4, <2>5, <2>6
<1> HIDE DEF T
<1>3. Len(q) \in T
  BY <1>1, <1>2, SetInduction
<1>4. QED
  BY <1>3 DEF T

(***************************************************************************)
(* What the buffers of some loggers add to a list.                         *)
(***************************************************************************)
\* A sequence in which one buffer is of the logger.
LEMMA OnlyPlace ==
  ASSUME NEW l, NEW q \in Seq(Buf), NEW k \in 1 .. Len(q), q[k].log = l,
         \A i \in 1 .. Len(q) : i # k => q[i].log # l
  PROVE  MsgsIn(q, l) = q[k].msgs /\ Count(q, l) = 1
<1> DEFINE p == SubSeq(q, 1, k - 1)
           r == SubSeq(q, k + 1, Len(q))
           b == q[k]
<1>1. /\ p \in Seq(Buf) /\ r \in Seq(Buf) /\ b \in Buf /\ <<b>> \in Seq(Buf)
      /\ Len(p) = k - 1 /\ Len(r) = Len(q) - k
      /\ \A i \in 1 .. Len(p) : p[i] = q[i] /\ i \in 1 .. Len(q) /\ i # k
      /\ \A i \in 1 .. Len(r) : r[i] = q[k + i] /\ k + i \in 1 .. Len(q) /\ k + i # k
  OBVIOUS
<1>2. Count(p, l) = 0
  <2>1. DOMAIN p = 1 .. Len(p)
    BY <1>1
  <2>2. \A i \in DOMAIN p : p[i].log # l
    BY <1>1, <2>1
  <2>3. QED
    BY <1>1, <2>2, CountType
<1>3. Count(r, l) = 0
  <2>1. DOMAIN r = 1 .. Len(r)
    BY <1>1
  <2>2. \A i \in DOMAIN r : r[i].log # l
    BY <1>1, <2>1
  <2>3. QED
    BY <1>1, <2>2, CountType
<1> HIDE DEF p, r
<1> DEFINE u == Append(p, b)
<1>5. /\ u \in Seq(Buf) /\ u = p \o <<b>> /\ Len(u) = k
      /\ \A i \in 1 .. k - 1 : u[i] = q[i]
      /\ u[k] = q[k]
  BY <1>1
<1>5a. Count(u, l) = Count(p, l) + One(b, l)
  BY <1>1, CountAppend
<1> HIDE DEF u
<1>5b. r \in Seq(Buf) /\ u \in Seq(Buf) /\ p \in Seq(Buf) /\ <<b>> \in Seq(Buf)
  BY <1>1, <1>5
<1>5c. Len(u) = k /\ Len(r) = Len(q) - k /\ k \in Int /\ Len(q) \in Int
  BY <1>1, <1>5
<1>4. q = u \o r
  <2>1. k \in Nat /\ Len(q) \in Nat
    OBVIOUS
  <2>2. \A i \in 1 .. Len(u) : q[i] = u[i]
    BY <1>5, <2>1
  <2>3. \A i \in 1 .. Len(r) : q[Len(u) + i] = r[i]
    BY <1>1, <1>5
  <2>4. Len(q) = Len(u) + Len(r)
    BY <1>5c
  <2>5. QED
    BY <1>1, <1>5, <2>2, <2>3, <2>4, IsCat
<1>6. MsgsIn(q, l) = b.msgs
  <2>1. MsgsIn(p, l) = << >> /\ MsgsIn(r, l) = << >>
    BY <1>1, <1>2, <1>3, NoPlaceNoMsgs
  <2>2. MsgsIn(<<b>>, l) = b.msgs
    BY <1>1, MsgsOne
  <2>3. MsgsIn(u, l) = << >> \o b.msgs
    BY <1>5, <1>5b, <2>1, <2>2, MsgsCat, Zenon
  <2>3a. MsgsIn(u \o r, l) = MsgsIn(u, l) \o MsgsIn(r, l)
    BY <1>1, <1>5, MsgsCat
  <2>4. MsgsIn(u \o r, l) = (<< >> \o b.msgs) \o << >>
    BY <2>1, <2>3, <2>3a
  <2>5. b.msgs \in Seq(Nat)
    BY <1>1 DEF Buf
  <2>6. (<< >> \o b.msgs) \o << >> = b.msgs
    BY <2>5
  <2>7. QED
    BY <1>4, <2>4, <2>6
<1>7. Count(q, l) = 1
  <2>1. One(b, l) = 1
    BY DEF One
  <2>2. Count(u \o r, l) = Count(u, l) + Count(r, l)
    BY <1>5b, CountCat, Zenon
  <2>3. Count(u \o r, l) = 1
    BY <1>2, <1>3, <1>5a, <2>1, <2>2
  <2>4. QED
    BY <1>4, <2>3
<1>8. QED
  BY <1>6, <1>7
-----------------------------------------------------------------------------
\* No logger asks twice.
Once(asking) == \A i, j \in 1 .. Len(asking) : asking[i] = asking[j] => i = j

\* What a logger must have for its buffer to be queued.
Full(l) == buffer[l] \in Seq(Msg(l)) /\ LengthOf(l, buffer[l]) \in 1 .. BufSize

\* Messages are numbers.
LEMMA MsgIsNat ==
  ASSUME NEW l \in Logger, NEW s \in Seq(Msg(l))
  PROVE  s \in Seq(Nat)
<1>1. \A i \in 1 .. Len(s) : s[i] \in Nat
  BY Lengths
<1>2. QED
  BY <1>1

\* Buffers that hold something can go to a list.
LEMMA FilledType ==
  ASSUME NEW asking \in Seq(Logger), \A l \in ToSet(asking) : Full(l)
  PROVE  /\ Filled(asking) \in Seq(Buf) /\ Len(Filled(asking)) = Len(asking)
         /\ \A i \in 1 .. Len(asking) :
              Filled(asking)[i].log = asking[i] /\ Filled(asking)[i].msgs = buffer[asking[i]]
<1>1. DOMAIN asking = 1 .. Len(asking) /\ Len(asking) \in Nat
  OBVIOUS
<1>2. ASSUME NEW i \in 1 .. Len(asking)
      PROVE  [log |-> asking[i], msgs |-> buffer[asking[i]]] \in Buf
  <2>1. asking[i] \in Logger /\ Full(asking[i])
    BY <1>1 DEF ToSet
  <2>2. buffer[asking[i]] \in Seq(Nat)
    BY <2>1, MsgIsNat DEF Full
  <2>3. QED
    BY <2>1, <2>2 DEF Full, Buf
<1>3. QED
  BY <1>1, <1>2 DEF Filled

\* The buffers that are queued: one of each logger that asks.
LEMMA FilledIs ==
  ASSUME NEW asking \in Seq(Logger), Once(asking), \A k \in ToSet(asking) : Full(k),
         NEW l
  PROVE  /\ l \in ToSet(asking) => MsgsIn(Filled(asking), l) = buffer[l] /\ Count(Filled(asking), l) = 1
         /\ l \notin ToSet(asking) => MsgsIn(Filled(asking), l) = << >> /\ Count(Filled(asking), l) = 0
<1> DEFINE q == Filled(asking)
<1>1. /\ q \in Seq(Buf) /\ Len(q) = Len(asking)
      /\ \A i \in 1 .. Len(q) : q[i].log = asking[i] /\ q[i].msgs = buffer[asking[i]]
  BY FilledType
<1>2. DOMAIN asking = 1 .. Len(asking) /\ DOMAIN q = 1 .. Len(asking)
  BY <1>1
<1> HIDE DEF q
<1>3. ASSUME l \in ToSet(asking)
      PROVE  MsgsIn(q, l) = buffer[l] /\ Count(q, l) = 1
  <2>1. PICK k \in 1 .. Len(asking) : asking[k] = l
    BY <1>2, <1>3 DEF ToSet
  <2>2. \A i \in 1 .. Len(q) : i # k => q[i].log # l
    BY <1>1, <2>1 DEF Once
  <2>3. k \in 1 .. Len(q) /\ q[k].log = l /\ q[k].msgs = buffer[l]
    BY <1>1, <2>1
  <2>4. QED
    BY <1>1, <2>2, <2>3, OnlyPlace
<1>4. ASSUME l \notin ToSet(asking)
      PROVE  MsgsIn(q, l) = << >> /\ Count(q, l) = 0
  <2>1. \A i \in DOMAIN q : q[i].log # l
    BY <1>1, <1>2, <1>4 DEF ToSet
  <2>2. Count(q, l) = 0
    BY <1>1, <2>1, CountType
  <2>3. QED
    BY <1>1, <2>2, NoPlaceNoMsgs
<1>5. QED
  BY <1>3, <1>4 DEF q

\* A list of one logger.
LEMMA OneAsks ==
  ASSUME NEW l \in Logger
  PROVE  <<l>> \in Seq(Logger) /\ Once(<<l>>) /\ ToSet(<<l>>) = {l} /\ Len(<<l>>) = 1
BY DEF Once, ToSet

\* A list of none.
LEMMA NoneAsks ==
  << >> \in Seq(Logger) /\ Once(<< >>) /\ ToSet(<< >>) = {} /\ Len(<< >>) = 0
BY DEF Once, ToSet
-----------------------------------------------------------------------------
\* Of a sequence of loggers, those whose buffer holds something.
Keeps(l) == IF buffer[l] \in {NoBuf, << >>} THEN << >> ELSE <<l>>
KeptOf(p) == [i \in DOMAIN p |-> Keeps(p[i])]
HoldingIn(p) == FlattenSeq(KeptOf(p))

\* What one logger more adds.
LEMMA KeptType ==
  ASSUME NEW p \in Seq(Logger), NEW l \in Logger
  PROVE  /\ KeptOf(p) \in Seq(Seq(Logger)) /\ Keeps(l) \in Seq(Logger)
         /\ KeptOf(Append(p, l)) = Append(KeptOf(p), Keeps(l))
<1>1. /\ DOMAIN p = 1 .. Len(p) /\ Len(p) \in Nat /\ \A i \in 1 .. Len(p) : p[i] \in Logger
      /\ DOMAIN Append(p, l) = 1 .. Len(p) + 1 /\ Append(p, l)[Len(p) + 1] = l
      /\ \A i \in 1 .. Len(p) : Append(p, l)[i] = p[i]
  OBVIOUS
<1>2. \A k \in Logger : Keeps(k) \in Seq(Logger)
  BY DEF Keeps
<1>3. /\ KeptOf(p) \in Seq(Seq(Logger)) /\ Len(KeptOf(p)) = Len(p)
      /\ \A i \in 1 .. Len(p) : KeptOf(p)[i] = Keeps(p[i])
  BY <1>1, <1>2 DEF KeptOf
<1> DEFINE k == Keeps(l)
           s == KeptOf(p)
           u == KeptOf(Append(p, l))
<1>4. /\ u \in Seq(Seq(Logger)) /\ Len(u) = Len(p) + 1 /\ u[Len(p) + 1] = k
      /\ \A i \in 1 .. Len(p) : u[i] = s[i]
  BY <1>1, <1>2 DEF KeptOf
<1>5. k \in Seq(Logger) /\ s \in Seq(Seq(Logger)) /\ Len(s) = Len(p)
  BY <1>2, <1>3
<1> HIDE DEF k, s, u
<1>6. u = Append(s, k)
  BY <1>1, <1>4, <1>5
<1>7. QED
  BY <1>5, <1>6 DEF k, s, u

\* So it is with the loggers that hold something.
LEMMA HoldingAppend ==
  ASSUME NEW p \in Seq(Logger), NEW l \in Logger
  PROVE  HoldingIn(Append(p, l)) = HoldingIn(p) \o Keeps(l)
BY KeptType, FlattenAppend DEF HoldingIn

\* What the induction shows of them.
Sifted(p) ==
  Once(p) => /\ HoldingIn(p) \in Seq(Logger) /\ Once(HoldingIn(p))
             /\ ToSet(HoldingIn(p)) = {l \in ToSet(p) : buffer[l] \notin {NoBuf, << >>}}

\* One step of the induction over the list.
LEMMA SiftedOn ==
  ASSUME NEW p \in Seq(Logger), NEW l \in Logger, Sifted(p)
  PROVE  Sifted(Append(p, l))
<1> SUFFICES ASSUME Once(Append(p, l))
             PROVE  /\ HoldingIn(Append(p, l)) \in Seq(Logger)
                    /\ Once(HoldingIn(Append(p, l)))
                    /\ ToSet(HoldingIn(Append(p, l)))
                         = {k \in ToSet(Append(p, l)) : buffer[k] \notin {NoBuf, << >>}}
  BY DEF Sifted
<1>1. /\ DOMAIN p = 1 .. Len(p) /\ Len(p) \in Nat /\ \A i \in 1 .. Len(p) : p[i] \in Logger
      /\ Len(Append(p, l)) = Len(p) + 1 /\ Append(p, l)[Len(p) + 1] = l
      /\ \A i \in 1 .. Len(p) : Append(p, l)[i] = p[i]
      /\ DOMAIN Append(p, l) = 1 .. Len(p) + 1
  OBVIOUS
<1>2. Once(p) /\ l \notin ToSet(p)
  BY <1>1 DEF Once, ToSet
<1>3. ToSet(Append(p, l)) = ToSet(p) \cup {l}
  BY <1>1 DEF ToSet
<1> DEFINE h == HoldingIn(p)
<1>4. /\ h \in Seq(Logger) /\ Once(h)
      /\ ToSet(h) = {k \in ToSet(p) : buffer[k] \notin {NoBuf, << >>}}
  BY <1>2 DEF Sifted
<1>5. HoldingIn(Append(p, l)) = h \o Keeps(l)
  BY HoldingAppend
<1> HIDE DEF h
<1>6. CASE buffer[l] \in {NoBuf, << >>}
  <2>1. HoldingIn(Append(p, l)) = h
    BY <1>4, <1>5, <1>6 DEF Keeps
  <2>2. {k \in ToSet(Append(p, l)) : buffer[k] \notin {NoBuf, << >>}} = ToSet(h)
    BY <1>3, <1>4, <1>6
  <2>3. QED
    BY <1>4, <2>1, <2>2
<1>7. CASE buffer[l] \notin {NoBuf, << >>}
  <2>1. HoldingIn(Append(p, l)) = Append(h, l)
    BY <1>4, <1>5, <1>7 DEF Keeps
  <2>2. l \notin ToSet(h)
    BY <1>2, <1>4
  <2>3. /\ DOMAIN h = 1 .. Len(h) /\ Len(h) \in Nat
        /\ Append(h, l) \in Seq(Logger)
        /\ Len(Append(h, l)) = Len(h) + 1 /\ Append(h, l)[Len(h) + 1] = l
        /\ \A i \in 1 .. Len(h) : Append(h, l)[i] = h[i]
        /\ DOMAIN Append(h, l) = 1 .. Len(h) + 1
    BY <1>4
  <2>4. Once(Append(h, l))
    BY <1>4, <2>2, <2>3, SMTT(30) DEF Once, ToSet
  <2>5. ToSet(Append(h, l)) = ToSet(h) \cup {l}
    BY <2>3 DEF ToSet
  <2>6. ToSet(Append(h, l)) = {k \in ToSet(Append(p, l)) : buffer[k] \notin {NoBuf, << >>}}
    BY <1>3, <1>4, <1>7, <2>5
  <2>7. QED
    BY <2>1, <2>3, <2>4, <2>6
<1>8. QED
  BY <1>6, <1>7

\* Who holds something, each once.
LEMMA HoldingIs ==
  ASSUME loggers \in Seq(Logger), Once(loggers)
  PROVE  /\ Holding \in Seq(Logger) /\ Once(Holding)
         /\ ToSet(Holding) = {l \in ToSet(loggers) : buffer[l] \notin {NoBuf, << >>}}
<1> DEFINE T == {n \in Nat : \A p \in Seq(Logger) : Len(p) = n => Sifted(p)}
<1>1. 0 \in T
  <2> SUFFICES ASSUME NEW p \in Seq(Logger), Len(p) = 0
               PROVE  Sifted(p)
    OBVIOUS
  <2>1. p = << >> /\ KeptOf(<< >>) = << >>
    BY DEF KeptOf
  <2>2. HoldingIn(p) = << >>
    BY <2>1, FlattenNone DEF HoldingIn
  <2>3. QED
    BY <2>1, <2>2, NoneAsks DEF Sifted
<1>2. ASSUME NEW n \in Nat, n \in T
      PROVE  n + 1 \in T
  <2> SUFFICES ASSUME NEW p \in Seq(Logger), Len(p) = n + 1
               PROVE  Sifted(p)
    OBVIOUS
  <2>1. /\ SubSeq(p, 1, n) \in Seq(Logger) /\ Len(SubSeq(p, 1, n)) = n
        /\ p[n + 1] \in Logger /\ p = Append(SubSeq(p, 1, n), p[n + 1])
    BY LastApart
  <2>2. Sifted(SubSeq(p, 1, n))
    BY <1>2, <2>1
  <2>3. Sifted(Append(SubSeq(p, 1, n), p[n + 1]))
    BY <2>1, <2>2, SiftedOn
  <2>4. QED
    BY <2>1, <2>3, Zenon
<1> HIDE DEF T
<1>3. Len(loggers) \in T
  BY <1>1, <1>2, SetInduction
<1>4. Sifted(loggers)
  BY <1>3 DEF T
<1>5. Holding = HoldingIn(loggers)
  BY Zenon DEF Holding, HoldingIn, KeptOf, Keeps
<1>6. QED
  BY <1>4, <1>5 DEF Sifted

(***************************************************************************)
(* Serving a new buffer, and the writer's record of a file.                *)
(***************************************************************************)
LEMMA AskingFinite ==
  ASSUME NEW asking \in Seq(Logger)
  PROVE  /\ IsFiniteSet(ToSet(asking)) /\ Cardinality(ToSet(asking)) \in Nat
         /\ Cardinality(ToSet(asking)) <= Len(asking)
<1>1. /\ IsFiniteSet(1 .. Len(asking)) /\ Cardinality(1 .. Len(asking)) = Len(asking)
      /\ Len(asking) \in Nat /\ DOMAIN asking = 1 .. Len(asking)
  BY FS_Interval
<1>2. asking \in Surjection(1 .. Len(asking), ToSet(asking))
  BY <1>1 DEF Surjection, ToSet
<1>3. IsFiniteSet(ToSet(asking)) /\ Cardinality(ToSet(asking)) <= Cardinality(1 .. Len(asking))
  BY <1>1, <1>2, FS_Surjection
<1>4. QED
  BY <1>1, <1>3, FS_CardinalityType

\* The smaller of two numbers.
LEMMA LeastOfTwo ==
  ASSUME NEW m \in Nat, NEW n \in Nat
  PROVE  /\ Min({m, n}) = IF m <= n THEN m ELSE n
         /\ Min({m, n}) \in Nat
<1>1. \A x \in {m, n} : (\A y \in {m, n} : x <= y) <=> x = IF m <= n THEN m ELSE n
  OBVIOUS
<1>2. Min({m, n}) \in {m, n} /\ \A y \in {m, n} : Min({m, n}) <= y
  BY <1>1 DEF Min
<1>3. QED
  BY <1>1, <1>2

\* What serving a sequence of loggers does to the counts.
LEMMA Gives ==
  ASSUME NEW asking \in Seq(Logger), NEW given \in Served(asking), Give(asking, given),
         buf_pool \in Nat, alloc_buf_cnt \in Nat, buf_pool <= alloc_buf_cnt,
         alloc_buf_cnt <= BufMaxCnt
  PROVE  /\ given \subseteq ToSet(asking) /\ IsFiniteSet(given) /\ Cardinality(given) \in Nat
         /\ buf_pool' \in Nat /\ alloc_buf_cnt' \in Nat
         /\ alloc_buf_cnt' = alloc_buf_cnt + (buf_pool' - buf_pool) + Cardinality(given)
         /\ alloc_buf_cnt' <= BufMaxCnt
         /\ freed' = freed
<1> DEFINE pooled == Min({Len(asking), buf_pool})
           c == Cardinality(given)
<1>1. given \subseteq ToSet(asking) /\ c <= buf_pool + BufMaxCnt - alloc_buf_cnt
  BY DEF Served
<1>2. IsFiniteSet(given) /\ c \in Nat /\ c <= Len(asking)
  BY <1>1, AskingFinite, FS_Subset, FS_CardinalityType
<1>3. Len(asking) \in Nat /\ BufMaxCnt \in Nat
  BY LogAssumption
<1>4. pooled \in Nat /\ pooled = IF Len(asking) <= buf_pool THEN Len(asking) ELSE buf_pool
  BY <1>3, LeastOfTwo
<1>5. /\ buf_pool' = buf_pool - pooled
      /\ alloc_buf_cnt' = alloc_buf_cnt + c - pooled
      /\ freed' = freed
  BY DEF Give
<1> HIDE DEF pooled, c
<1>6. /\ buf_pool' \in Nat /\ alloc_buf_cnt' \in Nat
      /\ alloc_buf_cnt' = alloc_buf_cnt + (buf_pool' - buf_pool) + c
      /\ alloc_buf_cnt' <= BufMaxCnt
  BY <1>1, <1>2, <1>3, <1>4, <1>5
<1>7. QED
  BY <1>1, <1>2, <1>5, <1>6 DEF c
-----------------------------------------------------------------------------
\* The parts of a file, and what the writer's record of a file must be.
Part == [lost : BOOLEAN, msgs : Seq(Nat)]
MsgsOf(parts) == [i \in DOMAIN parts |-> parts[i].msgs]
DealtIn(f) == FlattenSeq(MsgsOf(f.parts))

GoodPart(l, part) == part.msgs \in Seq(Msg(l)) /\ LengthOf(l, part.msgs) < FileMax + BufSize

OpenFile(l, f) ==
  /\ f.parts # << >> /\ ~f.parts[Len(f.parts)].lost
  /\ f.cur = LengthOf(l, f.parts[Len(f.parts)].msgs)

GoodFile(l, f) ==
  /\ f \in [fp : BOOLEAN, cur : Nat, parts : Seq(Part)]
  /\ \A i \in 1 .. Len(f.parts) : GoodPart(l, f.parts[i])
  /\ f.fp => OpenFile(l, f) /\ f.cur < FileMax

\* The limits, as assumed.
LEMMA Limits ==
  /\ BufSize \in Nat /\ BufSize >= 1 /\ FileMax \in Nat /\ BufSize <= FileMax
  /\ LineMax \in Nat /\ LineMax - 1 <= BufSize
BY LogAssumption

\* One more part.
LEMMA DealtMore ==
  ASSUME NEW parts \in Seq(Part), NEW part \in Part
  PROVE  FlattenSeq(MsgsOf(Append(parts, part))) = FlattenSeq(MsgsOf(parts)) \o part.msgs
<1> DEFINE s == MsgsOf(parts)
           u == MsgsOf(Append(parts, part))
           m == part.msgs
<1>1. /\ DOMAIN parts = 1 .. Len(parts) /\ Len(parts) \in Nat
      /\ \A i \in 1 .. Len(parts) : parts[i] \in Part /\ Append(parts, part)[i] = parts[i]
      /\ DOMAIN Append(parts, part) = 1 .. Len(parts) + 1
      /\ Append(parts, part)[Len(parts) + 1] = part
  OBVIOUS
<1>2. /\ s \in Seq(Seq(Nat)) /\ Len(s) = Len(parts)
      /\ \A i \in 1 .. Len(parts) : s[i] = parts[i].msgs
  BY <1>1 DEF MsgsOf, Part
<1>3. /\ u \in Seq(Seq(Nat)) /\ Len(u) = Len(parts) + 1 /\ u[Len(parts) + 1] = m
      /\ \A i \in 1 .. Len(parts) : u[i] = s[i]
  BY <1>1 DEF MsgsOf, Part
<1>4. m \in Seq(Nat)
  BY DEF Part
<1> HIDE DEF s, u, m
<1>5. u = Append(s, m)
  BY <1>1, <1>2, <1>3, <1>4
<1>6. FlattenSeq(Append(s, m)) = FlattenSeq(s) \o m
  BY <1>2, <1>4, FlattenAppend
<1>7. QED
  BY <1>5, <1>6 DEF s, u, m

\* What was dealt with are messages.
LEMMA DealtType ==
  ASSUME NEW parts \in Seq(Part)
  PROVE  FlattenSeq(MsgsOf(parts)) \in Seq(Nat)
<1>1. MsgsOf(parts) \in Seq(Seq(Nat))
  <2>1. /\ DOMAIN parts = 1 .. Len(parts) /\ Len(parts) \in Nat
        /\ \A i \in 1 .. Len(parts) : parts[i] \in Part
    OBVIOUS
  <2>2. \A i \in 1 .. Len(parts) : parts[i].msgs \in Seq(Nat)
    BY <2>1 DEF Part
  <2>3. QED
    BY <2>1, <2>2 DEF MsgsOf
<1>2. QED
  BY <1>1, FlattenType

\* One more part leaves the others good.
LEMMA GoodMore ==
  ASSUME NEW l, NEW parts \in Seq(Part), NEW part \in Part,
         \A i \in 1 .. Len(parts) : GoodPart(l, parts[i]), GoodPart(l, part)
  PROVE  /\ Append(parts, part) \in Seq(Part) /\ Append(parts, part) # << >>
         /\ Append(parts, part)[Len(Append(parts, part))] = part
         /\ \A i \in 1 .. Len(Append(parts, part)) : GoodPart(l, Append(parts, part)[i])
<1>1. /\ Len(parts) \in Nat /\ Append(parts, part) \in Seq(Part)
      /\ Len(Append(parts, part)) = Len(parts) + 1
      /\ \A i \in 1 .. Len(parts) : Append(parts, part)[i] = parts[i]
      /\ Append(parts, part)[Len(parts) + 1] = part
  OBVIOUS
<1>2. QED
  BY <1>1

\* A file that is closed, and another that may be opened.
LEMMA Rolls ==
  ASSUME NEW l \in Logger, NEW opens \in BOOLEAN,
         NEW f \in [fp : BOOLEAN, cur : Nat, parts : Seq(Part)],
         \A i \in 1 .. Len(f.parts) : GoodPart(l, f.parts[i])
  PROVE  GoodFile(l, Rolled(f, opens)) /\ DealtIn(Rolled(f, opens)) = DealtIn(f)
<1> DEFINE e == [lost |-> FALSE, msgs |-> << >>]
           g == [fp |-> TRUE, cur |-> 0, parts |-> Append(f.parts, e)]
           h == [f EXCEPT !.fp = FALSE]
<1>1. f.parts \in Seq(Part) /\ e \in Part
  BY DEF Part
<1>2. GoodPart(l, e) /\ LengthOf(l, e.msgs) = 0
  BY Limits, LengthNone DEF GoodPart
<1>3. GoodFile(l, g) /\ DealtIn(g) = DealtIn(f)
  <2>1. /\ g.parts \in Seq(Part) /\ g.parts # << >>
        /\ g.parts[Len(g.parts)] = e
        /\ \A i \in 1 .. Len(g.parts) : GoodPart(l, g.parts[i])
    BY <1>1, <1>2, GoodMore
  <2>2. GoodFile(l, g)
    BY <1>2, <2>1, Limits DEF GoodFile, OpenFile
  <2>3. FlattenSeq(MsgsOf(Append(f.parts, e))) = FlattenSeq(MsgsOf(f.parts)) \o << >>
    BY <1>1, DealtMore
  <2>4. FlattenSeq(MsgsOf(f.parts)) \in Seq(Nat)
    BY <1>1, DealtType
  <2>5. FlattenSeq(MsgsOf(f.parts)) \o << >> = FlattenSeq(MsgsOf(f.parts))
    BY <2>4
  <2>6. QED
    BY <2>2, <2>3, <2>5 DEF DealtIn
<1>4. GoodFile(l, h) /\ DealtIn(h) = DealtIn(f)
  BY DEF GoodFile, DealtIn
<1>5. Rolled(f, opens) = IF opens THEN g ELSE h
  BY DEF Rolled
<1>6. QED
  BY <1>3, <1>4, <1>5

\* A write at the end of the file that is open.
LEMMA Extends ==
  ASSUME NEW l \in Logger, NEW f, GoodFile(l, f), f.fp,
         NEW msgs \in Seq(Msg(l)), LengthOf(l, msgs) \in 1 .. BufSize
  PROVE  LET g == [f EXCEPT !.cur = @ + LengthOf(l, msgs),
                            !.parts[Len(f.parts)].msgs = @ \o msgs]
         IN  /\ g \in [fp : BOOLEAN, cur : Nat, parts : Seq(Part)]
             /\ \A i \in 1 .. Len(g.parts) : GoodPart(l, g.parts[i])
             /\ OpenFile(l, g)
             /\ DealtIn(g) = DealtIn(f) \o msgs
<1> DEFINE len == LengthOf(l, msgs)
           parts == f.parts
           n == Len(f.parts)
           q == [parts EXCEPT ![n].msgs = @ \o msgs]
           g == [f EXCEPT !.cur = @ + len, !.parts[n].msgs = @ \o msgs]
           front == SubSeq(parts, 1, n - 1)
           last == parts[n]
           more == [last EXCEPT !.msgs = @ \o msgs]
<1>1. /\ f \in [fp : BOOLEAN, cur : Nat, parts : Seq(Part)]
      /\ parts \in Seq(Part) /\ n \in Nat /\ n # 0 /\ ~last.lost /\ f.cur = LengthOf(l, last.msgs)
      /\ f.cur < FileMax /\ f.cur \in Nat
      /\ \A i \in 1 .. n : GoodPart(l, parts[i])
  BY DEF GoodFile, OpenFile
<1>2. /\ front \in Seq(Part) /\ Len(front) = n - 1 /\ last \in Part
      /\ \A i \in 1 .. n - 1 : front[i] = parts[i]
  <2> HIDE DEF n, parts
  <2>1. n = Len(parts)
    BY DEF n, parts
  <2>2. QED
    BY <1>1, <2>1
<1>3. parts = Append(front, last)
  <2>1. n = Len(parts) /\ last = parts[n]
    OBVIOUS
  <2> HIDE DEF n, parts, front, last
  <2>2. /\ Append(front, last) \in Seq(Part) /\ Len(Append(front, last)) = n
        /\ Append(front, last)[n] = parts[n]
        /\ \A i \in 1 .. n - 1 : Append(front, last)[i] = parts[i]
    BY <1>1, <1>2, <2>1
  <2>3. /\ parts \in Seq(Part) /\ Append(front, last) \in Seq(Part)
        /\ Len(parts) = Len(Append(front, last))
        /\ \A i \in 1 .. Len(parts) : parts[i] = Append(front, last)[i]
    BY <1>1, <2>1, <2>2
  <2>4. QED
    BY ONLY <2>3, SeqEqual
<1>4. more \in Part /\ last.msgs \in Seq(Msg(l)) /\ msgs \in Seq(Nat) /\ last.msgs \in Seq(Nat)
  <2>1. last.msgs \in Seq(Msg(l))
    BY <1>1 DEF GoodPart
  <2>2. last.msgs \in Seq(Nat) /\ msgs \in Seq(Nat)
    BY <2>1, MsgIsNat
  <2>3. last.msgs \o msgs \in Seq(Nat)
    BY <2>2
  <2>4. more \in Part
    BY <1>2, <2>3 DEF Part
  <2>5. QED
    BY <2>1, <2>2, <2>4
<1>4a. more.msgs = last.msgs \o msgs /\ ~more.lost
  BY <1>1, <1>2 DEF Part
<1>5. LengthOf(l, more.msgs) = f.cur + len
  BY <1>1, <1>4, <1>4a, LengthCat
<1>6. len \in Nat /\ len <= BufSize
  BY Limits
<1>7. GoodPart(l, more)
  BY <1>1, <1>4, <1>4a, <1>5, <1>6, Limits DEF GoodPart
<1>8. q = Append(front, more)
  <2>1. /\ q \in Seq(Part) /\ Len(q) = n /\ q[n] = more
        /\ \A i \in 1 .. n - 1 : q[i] = parts[i]
    <3>1. n = Len(parts)
      OBVIOUS
    <3>2. q = [parts EXCEPT ![n] = more]
      OBVIOUS
    <3> HIDE DEF n, parts, more, q
    <3>3. n \in 1 .. Len(parts)
      BY <1>1, <3>1
    <3>5. QED
      BY <1>1, <1>4, <3>1, <3>2, <3>3
  <2> HIDE DEF q, more
  <2>2. /\ Append(front, more) \in Seq(Part) /\ Len(Append(front, more)) = n
        /\ Append(front, more)[n] = more
        /\ \A i \in 1 .. n - 1 : Append(front, more)[i] = parts[i]
    BY <1>1, <1>2, <1>4
  <2>3. QED
    BY <1>1, <2>1, <2>2
<1>9. \A i \in 1 .. Len(front) : GoodPart(l, front[i])
  BY <1>1, <1>2
<1>10. /\ q \in Seq(Part) /\ q # << >> /\ q[Len(q)] = more
       /\ \A i \in 1 .. Len(q) : GoodPart(l, q[i])
  <2> HIDE DEF more, front, q
  <2>1. QED
    BY <1>2, <1>4, <1>7, <1>8, <1>9, GoodMore
<1>11. FlattenSeq(MsgsOf(q)) = FlattenSeq(MsgsOf(parts)) \o msgs
  <2> DEFINE d == FlattenSeq(MsgsOf(front))
  <2>1. d \in Seq(Nat)
    BY <1>2, DealtType
  <2>2. FlattenSeq(MsgsOf(parts)) = d \o last.msgs
    BY <1>2, <1>3, DealtMore
  <2>3. FlattenSeq(MsgsOf(q)) = d \o (last.msgs \o msgs)
    <3>1. more.msgs = last.msgs \o msgs
      BY <1>4a
    <3> HIDE DEF more, front, q, d
    <3>2. FlattenSeq(MsgsOf(Append(front, more))) = FlattenSeq(MsgsOf(front)) \o more.msgs
      BY <1>2, <1>4, DealtMore
    <3>3. QED
      BY <1>8, <3>1, <3>2 DEF d
  <2> DEFINE m == last.msgs
  <2> HIDE DEF d, m
  <2>4. d \in Seq(Nat) /\ m \in Seq(Nat) /\ msgs \in Seq(Nat)
    BY <1>4, <2>1 DEF m
  <2>5. (d \o m) \o msgs = d \o (m \o msgs)
    BY <2>4
  <2>6. QED
    BY <2>2, <2>3, <2>5 DEF m
<1>12. /\ g \in [fp : BOOLEAN, cur : Nat, parts : Seq(Part)]
       /\ g.parts = q /\ g.cur = f.cur + len
  <2>1. g = [f EXCEPT !.cur = f.cur + len, !.parts = q]
    BY <1>1
  <2>2. f.cur + len \in Nat
    BY <1>1, <1>6
  <2> DEFINE c == f.cur + len
  <2>3. g = [f EXCEPT !.cur = c, !.parts = q]
    BY <2>1
  <2> HIDE DEF q, len, g, c
  <2>4. c \in Nat
    BY <2>2 DEF c
  <2>5. f \in [fp : BOOLEAN, cur : Nat, parts : Seq(Part)] /\ q \in Seq(Part)
    BY <1>1, <1>10
  <2>6. g \in [fp : BOOLEAN, cur : Nat, parts : Seq(Part)] /\ g.parts = q /\ g.cur = c
    BY <2>3, <2>4, <2>5
  <2>7. QED
    BY <2>6 DEF c
<1> HIDE DEF q, more, g
<1>14. OpenFile(l, g)
  BY <1>5, <1>10, <1>12, <1>4a DEF OpenFile
<1>15. DealtIn(g) = DealtIn(f) \o msgs
  BY <1>11, <1>12 DEF DealtIn
<1>16. QED
  BY <1>10, <1>12, <1>14, <1>15 DEF g

\* What the writer does with a buffer.
LEMMA Writes ==
  ASSUME NEW l \in Logger, NEW f, GoodFile(l, f),
         NEW msgs \in Seq(Msg(l)), LengthOf(l, msgs) \in 1 .. BufSize,
         NEW newDay \in BOOLEAN, NEW opens \in BOOLEAN, NEW opensNext \in BOOLEAN
  PROVE  /\ GoodFile(l, WrittenTo(f, msgs, LengthOf(l, msgs), newDay, opens, opensNext))
         /\ DealtIn(WrittenTo(f, msgs, LengthOf(l, msgs), newDay, opens, opensNext)) = DealtIn(f) \o msgs
<1> DEFINE len == LengthOf(l, msgs)
           now == IF ~f.fp \/ newDay THEN Rolled(f, opens) ELSE f
           more == [now EXCEPT !.cur = @ + len, !.parts[Len(now.parts)].msgs = @ \o msgs]
           lose == [now EXCEPT !.parts = Append(@, [lost |-> TRUE, msgs |-> msgs])]
           g == WrittenTo(f, msgs, len, newDay, opens, opensNext)
<1>1. GoodFile(l, now) /\ DealtIn(now) = DealtIn(f)
  BY Rolls DEF GoodFile
<1>2. g = CASE ~now.fp -> lose
            [] now.fp /\ more.cur + len > FileMax -> Rolled(more, opensNext)
            [] OTHER -> more
  BY DEF WrittenTo
<1>3. len \in Nat /\ len >= 1 /\ len <= BufSize /\ msgs \in Seq(Nat)
  BY Limits, MsgIsNat
<1> HIDE DEF now, g
<1>4. ASSUME ~now.fp
      PROVE  GoodFile(l, g) /\ DealtIn(g) = DealtIn(f) \o msgs
  <2>1. g = lose
    BY <1>2, <1>4
  <2> DEFINE e == [lost |-> TRUE, msgs |-> msgs]
  <2>2. e \in Part /\ GoodPart(l, e)
    BY <1>3, Limits DEF Part, GoodPart
  <2>3. now.parts \in Seq(Part) /\ \A i \in 1 .. Len(now.parts) : GoodPart(l, now.parts[i])
    BY <1>1 DEF GoodFile
  <2>4. /\ Append(now.parts, e) \in Seq(Part)
        /\ \A i \in 1 .. Len(Append(now.parts, e)) : GoodPart(l, Append(now.parts, e)[i])
    BY <2>2, <2>3, GoodMore
  <2>5. GoodFile(l, lose)
    BY <1>1, <1>4, <2>4 DEF GoodFile
  <2>6. lose.parts = Append(now.parts, e)
    BY <1>1 DEF GoodFile
  <2>7. FlattenSeq(MsgsOf(Append(now.parts, e))) = FlattenSeq(MsgsOf(now.parts)) \o msgs
    BY <2>2, <2>3, DealtMore
  <2>8. QED
    BY <1>1, <2>1, <2>5, <2>6, <2>7 DEF DealtIn
<1>5. ASSUME now.fp
      PROVE  GoodFile(l, g) /\ DealtIn(g) = DealtIn(f) \o msgs
  <2>1. /\ more \in [fp : BOOLEAN, cur : Nat, parts : Seq(Part)]
        /\ \A i \in 1 .. Len(more.parts) : GoodPart(l, more.parts[i])
        /\ OpenFile(l, more)
        /\ DealtIn(more) = DealtIn(now) \o msgs
    BY <1>1, <1>5, Extends
  <2> HIDE DEF more, len
  <2>2. CASE more.cur + len > FileMax
    <3>1. g = Rolled(more, opensNext)
      BY <1>2, <1>5, <2>2
    <3>2. GoodFile(l, Rolled(more, opensNext)) /\ DealtIn(Rolled(more, opensNext)) = DealtIn(more)
      BY <2>1, Rolls
    <3>3. QED
      BY <1>1, <2>1, <3>1, <3>2
  <2>3. CASE ~(more.cur + len > FileMax)
    <3>1. g = more
      BY <1>2, <1>5, <2>3
    <3>2. more.cur \in Nat /\ more.cur < FileMax
      BY <1>3, <2>1, <2>3, Limits
    <3>3. QED
      BY <1>1, <2>1, <3>1, <3>2 DEF GoodFile
  <2>4. QED
    BY <2>2, <2>3
<1>6. QED
  BY <1>1, <1>4, <1>5 DEF GoodFile, g, len

(***************************************************************************)
(* The inductive invariant.                                                *)
(***************************************************************************)
Steps   == {"closed", "init", "setup", "add", "open", "joining", "deleted", "closing"}
Writing == {"none", "check", "lock", "waiting", "drain", "put", "stopping", "done"}

\* What the variables hold; a buffer holds no more than it has room for.
LoggerTypes ==
  /\ pc \in [Logger -> Steps] /\ refcnt \in [Logger -> Int] /\ index \in [Logger -> Nat]
  /\ said \in [Logger -> Nat] /\ \A l \in Logger : said[l] <= Len(Lens[l])
  /\ accepted \in [Logger -> Seq(Nat)]
BufferTypes ==
  /\ buffer \in [Logger -> Seq(Nat) \cup {NoBuf}]
  /\ \A l \in Logger : buffer[l] # NoBuf => buffer[l] \in Held(l)
FileTypes ==
  /\ file \in [Logger -> [fp : BOOLEAN, cur : Nat, parts : Seq(Part)]]
  /\ \A l \in Logger : GoodFile(l, file[l])
FlagTypes  == running \in BOOLEAN /\ initialized \in BOOLEAN /\ writer \in Writing
CountTypes == alloc_buf_cnt \in Nat /\ buf_pool \in Nat /\ freed \in Nat
ListTypes  == loggers \in Seq(Logger) /\ buffers1 \in Seq(Buf) /\ buffers2 \in Seq(Buf)

Types == LoggerTypes /\ BufferTypes /\ FileTypes /\ FlagTypes /\ CountTypes /\ ListTypes

ListsEmpty == loggers = << >> /\ buffers1 = << >> /\ buffers2 = << >>

\* How far the logger that is opened first and closed last is, and what that
\* says of the flags, the lists and the writer.
Phases ==
  /\ \A l \in Logger \ {Main} : /\ pc[l] \in {"closed", "add", "open", "deleted", "closing"}
                                /\ pc[l] # "closed" => pc[Main] = "open"
  /\ pc[Main] \in {"closed", "init", "deleted", "closing"} =>
       ~initialized /\ ~running /\ writer = "none" /\ ListsEmpty
  /\ pc[Main] = "setup" => initialized /\ running /\ writer = "none" /\ ListsEmpty
  /\ pc[Main] \in {"add", "open"} =>
       initialized /\ running /\ writer \in {"check", "lock", "waiting", "drain", "put"}
  /\ pc[Main] = "joining" => initialized /\ ~running /\ writer # "none" /\ loggers = << >>
  /\ writer \notin {"drain", "put"} => buffers2 = << >>
  /\ writer = "done" => buffers1 = << >>

\* The list of the loggers.
Listing ==
  /\ ToSet(loggers) = {l \in Logger : pc[l] = "open"}
  /\ \A i \in 1 .. Len(loggers) : index[loggers[i]] = i - 1
  /\ \A l \in Logger : index[l] < Cardinality(Logger)

\* The loggers that have a buffer, and what became of every buffer.
HaveOne == {l \in Logger : buffer[l] # NoBuf}
Putting == IF writer = "put" THEN 1 ELSE 0

Accounting ==
  /\ Ready => alloc_buf_cnt = buf_pool + Cardinality(HaveOne) + Len(buffers1) + Len(buffers2)
                              + freed + Putting
  /\ alloc_buf_cnt <= BufMaxCnt

Messages == \A l \in Logger : Dealt(l) \o OnTheWay(l) = accepted[l]

LogInv == Types /\ Phases /\ Listing /\ RefsCount /\ Accounting /\ Messages
-----------------------------------------------------------------------------
\* There are finitely many loggers, and one of them is opened first.
LEMMA LoggerFacts == IsFiniteSet(Logger) /\ Main \in Logger /\ Cardinality(Logger) \in Nat
BY LogAssumption, FS_CardinalityType

\* A logger that is on the list, or goes there, finds the mutex.
LEMMA MainIsUp ==
  ASSUME Types, Phases, NEW l \in Logger, pc[l] \in {"add", "open"}
  PROVE  /\ pc[Main] \in {"add", "open"} /\ initialized /\ running /\ Ready
         /\ l # Main => pc[Main] = "open"
         /\ writer \in {"check", "lock", "waiting", "drain", "put"}
BY LoggerFacts DEF Phases, Ready

\* Each open logger is on the list once.
LEMMA ListedOnce ==
  ASSUME Types, Listing
  PROVE  Once(loggers) /\ Len(loggers) \in Nat /\ DOMAIN loggers = 1 .. Len(loggers)
<1>1. loggers \in Seq(Logger)
  BY DEF Types, ListTypes
<1>2. \A i \in 1 .. Len(loggers) : i \in Int /\ index[loggers[i]] = i - 1
  BY DEF Listing
<1>3. QED
  BY <1>1, <1>2 DEF Once

\* The list has room for a logger that is not open.
LEMMA ListIsShort ==
  ASSUME Types, Listing, NEW l \in Logger, pc[l] # "open"
  PROVE  Len(loggers) < Cardinality(Logger)
<1> DEFINE S == ToSet(loggers)
           n == Len(loggers)
           p == loggers
<1>1. loggers \in Seq(Logger) /\ Once(loggers) /\ n \in Nat /\ DOMAIN p = 1 .. n
  BY ListedOnce DEF Types, ListTypes
<1>2. p \in Injection(1 .. n, S)
  <2>1. \A i \in 1 .. n : p[i] \in S
    BY <1>1 DEF ToSet
  <2>2. p \in [1 .. n -> S]
    BY <1>1, <2>1
  <2>3. QED
    BY <1>1, <2>2 DEF Injection, IsInjective, Once
<1>3. /\ IsFiniteSet(Logger) /\ IsFiniteSet(Logger \ {l}) /\ S \subseteq Logger \ {l}
      /\ Cardinality(Logger \ {l}) = Cardinality(Logger) - 1
  BY LoggerFacts, FS_RemoveElement DEF Listing
<1>4. IsFiniteSet(S) /\ Cardinality(S) <= Cardinality(Logger) - 1
  BY <1>3, FS_Subset
<1>5. Cardinality(1 .. n) <= Cardinality(S)
  BY <1>2, <1>4, FS_Injection
<1>6. Cardinality(1 .. n) = n
  BY <1>1, FS_Interval
<1>7. Cardinality(S) \in Nat
  BY <1>4, FS_CardinalityType
<1>8. QED
  BY <1>1, <1>4, <1>5, <1>6, <1>7, LoggerFacts

\* What a logger leaves behind in the list, and the one that takes its place.
LEMMA UnlistIs ==
  ASSUME Types, Listing, NEW l \in Logger, pc[l] = "open", Unlist(l)
  PROVE  /\ loggers' \in Seq(Logger) /\ ToSet(loggers') = ToSet(loggers) \ {l}
         /\ index' \in [Logger -> Nat] /\ \A k \in Logger : index'[k] < Cardinality(Logger)
         /\ \A i \in 1 .. Len(loggers') : index'[loggers'[i]] = i - 1
<1> DEFINE p == loggers
           n == Len(loggers)
           f == SubSeq(loggers, 1, n - 1)
           last == loggers[n]
           j == index[l] + 1
<1>1. /\ p \in Seq(Logger) /\ Once(p) /\ n \in Nat /\ DOMAIN p = 1 .. n
      /\ index \in [Logger -> Nat]
  BY ListedOnce DEF Types, ListTypes, LoggerTypes
<1>2. PICK i \in 1 .. n : p[i] = l
  BY <1>1 DEF Listing, ToSet
<1>3. j = i /\ j \in 1 .. n /\ p[j] = l
  BY <1>1, <1>2 DEF Listing
<1>4. /\ n >= 1 /\ f \in Seq(Logger) /\ Len(f) = n - 1 /\ DOMAIN f = 1 .. n - 1
      /\ \A m \in 1 .. n - 1 : f[m] = p[m]
      /\ last \in Logger /\ last = p[n]
  BY <1>1, <1>3
<1>5. Front(loggers) = f /\ Last(loggers) = last
  BY DEF Front, Last
<1>6. /\ loggers' = IF last = l THEN f ELSE [f EXCEPT ![j] = last]
      /\ index' = [index EXCEPT ![last] = index[l]]
  BY <1>5 DEF Unlist
<1>7. \A m \in 1 .. n : index[p[m]] = m - 1 /\ p[m] \in Logger
  BY <1>1 DEF Listing
<1>8. ToSet(p) = {p[m] : m \in 1 .. n}
  BY <1>1 DEF ToSet
<1> HIDE DEF p, n, f, last, j
<1>9. index' \in [Logger -> Nat] /\ \A k \in Logger : index'[k] < Cardinality(Logger)
  <2>1. index[l] \in Nat /\ index[l] < Cardinality(Logger)
    BY <1>1 DEF Listing
  <2>2. last \in Logger /\ index' = [index EXCEPT ![last] = index[l]]
    BY <1>4, <1>6
  <2>3. QED
    BY <1>1, <2>1, <2>2 DEF Listing
<1>10. CASE last = l
  <2>1. j = n
    <3>1. n \in 1 .. n /\ n \in Int /\ j \in Int
      BY <1>1, <1>3, <1>4
    <3>2. index[p[j]] = j - 1 /\ index[p[n]] = n - 1
      BY <1>3, <1>7, <3>1
    <3>3. p[j] = p[n]
      BY <1>3, <1>4, <1>10
    <3>4. QED
      BY <3>1, <3>2, <3>3
  <2>2. loggers' = f
    BY <1>6, <1>10
  <2>3. \A m \in 1 .. n - 1 : f[m] # l /\ index'[f[m]] = m - 1
    BY <1>1, <1>3, <1>4, <1>6, <1>7, <1>10, <2>1
  <2>4. \A m \in 1 .. n : m # n => m \in 1 .. n - 1
    BY <1>1
  <2>5. ToSet(f) = {f[m] : m \in 1 .. n - 1}
    BY <1>4 DEF ToSet
  <2>6. ToSet(f) = ToSet(p) \ {l}
    BY <1>1, <1>3, <1>4, <1>8, <2>1, <2>3, <2>4, <2>5
  <2>7. QED
    BY <1>4, <1>9, <2>2, <2>3, <2>6 DEF p
<1>11. CASE last # l
  <2> DEFINE q == [f EXCEPT ![j] = last]
  <2>1. j # n /\ j \in 1 .. n - 1
    BY <1>1, <1>3, <1>4, <1>11
  <2>2. /\ q \in Seq(Logger) /\ Len(q) = n - 1 /\ DOMAIN q = 1 .. n - 1
        /\ q[j] = last /\ \A m \in 1 .. n - 1 : m # j => q[m] = p[m]
    BY <1>4, <2>1
  <2> HIDE DEF q
  <2>3. loggers' = q
    BY <1>6, <1>11 DEF q
  <2>4. \A m \in 1 .. n - 1 : m \in 1 .. n /\ p[m] # last
    BY <1>1, <1>4, <1>7
  <2>5. index'[last] = j - 1
    BY <1>1, <1>3, <1>4, <1>6, <1>7
  <2>6. \A m \in 1 .. n - 1 : index'[q[m]] = m - 1
    BY <1>1, <1>6, <1>7, <2>2, <2>4, <2>5
  <2>7. \A m \in 1 .. n - 1 : q[m] # l
    BY <1>3, <1>7, <1>11, <2>2, <2>4
  <2>8. ToSet(q) = {q[m] : m \in 1 .. n - 1}
    BY <2>2 DEF ToSet
  <2>9. \A m \in 1 .. n : p[m] # l => \E k \in 1 .. n - 1 : q[k] = p[m]
    <3>1. SUFFICES ASSUME NEW m \in 1 .. n, p[m] # l
                   PROVE  \E k \in 1 .. n - 1 : q[k] = p[m]
      OBVIOUS
    <3>2. CASE m = n
      BY <1>4, <2>1, <2>2, <3>2
    <3>3. CASE m # n
      <4>1. m \in 1 .. n - 1 /\ m # j
        BY <1>1, <1>3, <3>1, <3>3
      <4>2. QED
        BY <2>2, <4>1
    <3>4. QED
      BY <3>2, <3>3
  <2>10. \A k \in 1 .. n - 1 : \E m \in 1 .. n : q[k] = p[m]
    <3>1. n \in 1 .. n
      BY <1>1, <1>4
    <3>2. QED
      BY <1>4, <2>2, <2>4, <3>1
  <2>11. ToSet(q) = ToSet(p) \ {l}
    BY <1>8, <2>7, <2>8, <2>9, <2>10
  <2>12. QED
    BY <1>9, <2>2, <2>3, <2>6, <2>11 DEF p
<1>12. QED
  BY <1>10, <1>11

-----------------------------------------------------------------------------
\* What every action but the named ones leaves alone.
LEMMA TypesSame ==
  /\ LoggerTypes /\ UNCHANGED <<pc, refcnt, index, said, accepted>> => LoggerTypes'
  /\ BufferTypes /\ UNCHANGED buffer => BufferTypes'
  /\ FileTypes /\ UNCHANGED file => FileTypes'
  /\ FlagTypes /\ UNCHANGED <<running, initialized, writer>> => FlagTypes'
  /\ CountTypes /\ UNCHANGED <<alloc_buf_cnt, buf_pool, freed>> => CountTypes'
  /\ ListTypes /\ UNCHANGED <<loggers, buffers1, buffers2>> => ListTypes'
<1>1. LoggerTypes /\ UNCHANGED <<pc, refcnt, index, said, accepted>> => LoggerTypes'
  BY DEF LoggerTypes
<1>2. BufferTypes /\ UNCHANGED buffer => BufferTypes'
  BY DEF BufferTypes
<1>3. FileTypes /\ UNCHANGED file => FileTypes'
  BY DEF FileTypes
<1>4. FlagTypes /\ UNCHANGED <<running, initialized, writer>> => FlagTypes'
  BY DEF FlagTypes
<1>5. CountTypes /\ UNCHANGED <<alloc_buf_cnt, buf_pool, freed>> => CountTypes'
  BY DEF CountTypes
<1>6. ListTypes /\ UNCHANGED <<loggers, buffers1, buffers2>> => ListTypes'
  BY DEF ListTypes
<1>7. QED
  BY <1>1, <1>2, <1>3, <1>4, <1>5, <1>6

\* A buffer that holds something can be queued.
LEMMA FullWhen ==
  ASSUME BufferTypes, NEW l \in Logger, buffer[l] # NoBuf
  PROVE  /\ buffer[l] \in Seq(Msg(l)) /\ buffer[l] \in Seq(Nat)
         /\ LengthOf(l, buffer[l]) \in Nat /\ LengthOf(l, buffer[l]) <= BufSize
         /\ buffer[l] # << >> => Full(l)
<1>1. buffer[l] \in Seq(Msg(l)) /\ LengthOf(l, buffer[l]) <= BufSize
  BY DEF BufferTypes, Held
<1>2. LengthOf(l, buffer[l]) \in Nat /\ buffer[l] \in Seq(Nat)
  BY <1>1, LengthType, MsgIsNat
<1>3. buffer[l] # << >> => LengthOf(l, buffer[l]) >= 1
  BY <1>1, LengthPositive
<1>4. QED
  BY <1>1, <1>2, <1>3, Limits DEF Full

\* What is added to a sequence of buffers.
Mine(asking, l) == IF l \in ToSet(asking) THEN buffer[l] ELSE << >>
OneOf(asking, l) == IF l \in ToSet(asking) THEN 1 ELSE 0

\* What a list holds once some buffers have joined it.
LEMMA QueuedIs ==
  ASSUME NEW q \in Seq(Buf), NEW asking \in Seq(Logger), Once(asking),
         \A k \in ToSet(asking) : Full(k)
  PROVE  /\ q \o Filled(asking) \in Seq(Buf)
         /\ Len(q \o Filled(asking)) = Len(q) + Len(asking)
         /\ \A l \in Logger : /\ MsgsIn(q \o Filled(asking), l) = MsgsIn(q, l) \o Mine(asking, l)
                              /\ Count(q \o Filled(asking), l) = Count(q, l) + OneOf(asking, l)
<1> DEFINE r == Filled(asking)
<1>1. r \in Seq(Buf) /\ Len(r) = Len(asking)
  BY FilledType
<1>2. ASSUME NEW l \in Logger
      PROVE  MsgsIn(r, l) = Mine(asking, l) /\ Count(r, l) = OneOf(asking, l)
  BY FilledIs DEF Mine, OneOf
<1> HIDE DEF r
<1>3. q \o r \in Seq(Buf) /\ Len(q \o r) = Len(q) + Len(asking)
  BY <1>1
<1>4. ASSUME NEW l \in Logger
      PROVE  /\ MsgsIn(q \o r, l) = MsgsIn(q, l) \o Mine(asking, l)
             /\ Count(q \o r, l) = Count(q, l) + OneOf(asking, l)
  <2>1. MsgsIn(q \o r, l) = MsgsIn(q, l) \o MsgsIn(r, l)
    BY <1>1, MsgsCat
  <2>2. Count(q \o r, l) = Count(q, l) + Count(r, l)
    BY <1>1, CountCat
  <2>3. QED
    BY <1>2, <2>1, <2>2
<1>5. QED
  BY <1>3, <1>4 DEF r

\* Those who ask when the writer wakes, and those whose buffer a close gives up.
LEMMA WakersAsk ==
  ASSUME Types, Listing
  PROVE  /\ Holding \in Seq(Logger) /\ Once(Holding)
         /\ \A l \in ToSet(Holding) : l \in Logger /\ pc[l] = "open" /\ buffer[l] # NoBuf /\ Full(l)
         /\ \A l \in Logger : pc[l] = "open" /\ l \notin ToSet(Holding) => buffer[l] \in {NoBuf, << >>}
<1>1. Once(loggers) /\ loggers \in Seq(Logger) /\ ToSet(loggers) = {l \in Logger : pc[l] = "open"}
  BY ListedOnce DEF Types, ListTypes, Listing
<1>2. /\ Holding \in Seq(Logger) /\ Once(Holding)
      /\ ToSet(Holding) = {l \in ToSet(loggers) : buffer[l] \notin {NoBuf, << >>}}
  BY <1>1, HoldingIs
<1>3. \A l \in ToSet(Holding) : l \in Logger /\ pc[l] = "open" /\ buffer[l] \notin {NoBuf, << >>}
  BY <1>1, <1>2
<1>4. \A l \in ToSet(Holding) : Full(l)
  BY <1>3, FullWhen DEF Types
<1>5. QED
  BY <1>1, <1>2, <1>3, <1>4

GivenUp(l) == IF buffer[l] = NoBuf \/ buffer[l] = << >> THEN << >> ELSE <<l>>

\* The logger that closes queues its buffer, or nothing.
LEMMA CloserAsks ==
  ASSUME Types, NEW l \in Logger
  PROVE  /\ GivenUp(l) \in Seq(Logger) /\ Once(GivenUp(l)) /\ Len(GivenUp(l)) \in Nat
         /\ \A k \in ToSet(GivenUp(l)) : k \in Logger /\ Full(k)
         /\ ToSet(GivenUp(l)) = IF buffer[l] = NoBuf \/ buffer[l] = << >> THEN {} ELSE {l}
<1>1. CASE buffer[l] = NoBuf \/ buffer[l] = << >>
  BY <1>1, NoneAsks DEF GivenUp
<1>2. CASE ~(buffer[l] = NoBuf \/ buffer[l] = << >>)
  <2>1. Full(l)
    BY <1>2, FullWhen DEF Types
  <2>2. GivenUp(l) = <<l>>
    BY <1>2 DEF GivenUp
  <2>3. QED
    BY <1>2, <2>1, <2>2, OneAsks
<1>3. QED
  BY <1>1, <1>2

\* A message of the logger, and the buffers that take it.
LEMMA Takes ==
  ASSUME Types, NEW l \in Logger, NEW m, m = said[l] + 1, m \in DOMAIN Lens[l]
  PROVE  /\ m \in Nat /\ m <= Len(Lens[l]) /\ <<m>> \in Held(l) /\ <<m>> \in Seq(Nat)
         /\ buffer[l] # NoBuf /\ Fits(l, m) => Append(buffer[l], m) \in Held(l)
         /\ buffer[l] # NoBuf /\ ~Fits(l, m) => Full(l)
<1>1. m \in Msg(l) /\ m \in Nat /\ Line(Lens[l][m]) \in 1 .. LineMax - 1
  BY Lengths DEF Msg
<1>2. m <= Len(Lens[l])
  BY LogAssumption, <1>1
<1>3. <<m>> \in Seq(Msg(l)) /\ <<m>> \in Seq(Nat) /\ LengthOf(l, <<m>>) = Line(Lens[l][m])
  BY <1>1, LengthOne
<1>4. Line(Lens[l][m]) \in Nat /\ Line(Lens[l][m]) <= BufSize
  BY <1>1, Limits
<1>5. <<m>> \in Held(l)
  BY <1>3, <1>4 DEF Held
<1>6. ASSUME buffer[l] # NoBuf
      PROVE  /\ Fits(l, m) => Append(buffer[l], m) \in Held(l)
             /\ ~Fits(l, m) => Full(l)
  <2>1. /\ buffer[l] \in Seq(Msg(l)) /\ LengthOf(l, buffer[l]) \in Nat
        /\ buffer[l] # << >> => Full(l)
    BY <1>6, FullWhen DEF Types
  <2>2. /\ LengthOf(l, Append(buffer[l], m)) = LengthOf(l, buffer[l]) + Line(Lens[l][m])
        /\ Append(buffer[l], m) \in Seq(Msg(l))
    BY <1>1, <2>1, LengthAppend
  <2>3. Fits(l, m) => Append(buffer[l], m) \in Held(l)
    BY <2>2 DEF Fits, Held
  <2>4. buffer[l] = << >> => Fits(l, m)
    BY <1>4, LengthNone DEF Fits
  <2>5. QED
    BY <2>1, <2>3, <2>4
<1>7. QED
  BY <1>1, <1>2, <1>3, <1>5, <1>6

\* Before anything is served the pool has no more than was allocated.
LEMMA PoolBounded ==
  ASSUME Types, Accounting, Ready
  PROVE  /\ buf_pool \in Nat /\ alloc_buf_cnt \in Nat /\ buf_pool <= alloc_buf_cnt
         /\ alloc_buf_cnt <= BufMaxCnt
<1>1. IsFiniteSet(HaveOne) /\ Cardinality(HaveOne) \in Nat
  BY LoggerFacts, FS_Subset, FS_CardinalityType DEF HaveOne
<1>2. Len(buffers1) \in Nat /\ Len(buffers2) \in Nat /\ freed \in Nat /\ Putting \in Nat
  BY DEF Types, ListTypes, CountTypes, Putting
<1>3. buf_pool \in Nat /\ alloc_buf_cnt \in Nat
  BY DEF Types, CountTypes
<1>4. QED
  BY <1>1, <1>2, <1>3 DEF Accounting

\* The buffer the writer writes: it is of a logger, whose file takes it.
LEMMA WriteOutIs ==
  ASSUME FileTypes, NEW b \in Buf, WriteOut(b), refcnt \in [Logger -> Int]
  PROVE  /\ b.log \in Logger /\ FileTypes'
         /\ refcnt' = [refcnt EXCEPT ![b.log] = @ - 1]
         /\ DealtIn(file'[b.log]) = DealtIn(file[b.log]) \o b.msgs
         /\ \A l \in Logger : l # b.log => file'[l] = file[l]
<1> DEFINE k == b.log
           msgs == b.msgs
<1>1. k \in Logger /\ msgs \in Seq(Msg(k)) /\ LengthOf(k, msgs) \in 1 .. BufSize
  BY DEF Buf
<1>2. PICK newDay \in BOOLEAN, opens \in BOOLEAN, opensNext \in BOOLEAN :
        file' = [file EXCEPT ![k] = WrittenTo(file[k], msgs, LengthOf(k, msgs), newDay, opens, opensNext)]
  BY DEF WriteOut
<1>3. /\ file \in [Logger -> [fp : BOOLEAN, cur : Nat, parts : Seq(Part)]]
      /\ \A l \in Logger : GoodFile(l, file[l])
  BY DEF FileTypes
<1> DEFINE g == WrittenTo(file[k], msgs, LengthOf(k, msgs), newDay, opens, opensNext)
<1>4. GoodFile(k, g) /\ DealtIn(g) = DealtIn(file[k]) \o msgs
  <2> HIDE DEF k, msgs
  <2>1. GoodFile(k, file[k])
    BY <1>1, <1>3
  <2>2. QED
    BY <1>1, <2>1, Writes
<1>5. file' = [file EXCEPT ![k] = g]
  BY <1>2
<1> HIDE DEF g
<1>6. g \in [fp : BOOLEAN, cur : Nat, parts : Seq(Part)]
  BY <1>4 DEF GoodFile
<1>7. /\ file' \in [Logger -> [fp : BOOLEAN, cur : Nat, parts : Seq(Part)]]
      /\ file'[k] = g /\ \A l \in Logger : l # k => file'[l] = file[l]
  BY <1>1, <1>3, <1>5, <1>6
<1>8. FileTypes'
  BY <1>3, <1>4, <1>7 DEF FileTypes
<1>9. QED
  BY <1>1, <1>4, <1>7, <1>8 DEF WriteOut

(***************************************************************************)
(* The lists: some buffers join, or the first one leaves.                  *)
(***************************************************************************)
-----------------------------------------------------------------------------
\* Messages in a row.
LEMMA InARow ==
  ASSUME NEW s \in Seq(Nat), NEW t \in Seq(Nat), NEW u \in Seq(Nat)
  PROVE  (s \o t) \o u = s \o (t \o u) /\ s \o t \in Seq(Nat)
BY CatAssoc, SMTT(30)

\* What waits for the writer, in both lists.
AllMsgs(l) == MsgsIn(buffers2, l) \o MsgsIn(buffers1, l)
AllLen == Len(buffers1) + Len(buffers2)

\* What is written from a buffer to the file of a logger.
Share(b, l) == IF b.log = l THEN b.msgs ELSE << >>

\* What waits of a logger, and how much.
LEMMA WaitingIs ==
  ASSUME ListTypes, NEW l
  PROVE  /\ Waiting(l) = Count(buffers1, l) + Count(buffers2, l)
         /\ Count(buffers1, l) \in Nat /\ Count(buffers2, l) \in Nat /\ Waiting(l) \in Nat
         /\ MsgsIn(buffers1, l) \in Seq(Nat) /\ MsgsIn(buffers2, l) \in Seq(Nat)
         /\ AllMsgs(l) \in Seq(Nat)
         /\ Waiting(l) = 0 => AllMsgs(l) = << >>
<1>1. buffers1 \in Seq(Buf) /\ buffers2 \in Seq(Buf)
  BY DEF ListTypes
<1>2. Count(buffers1, l) \in Nat /\ Count(buffers2, l) \in Nat
  BY <1>1, CountType
<1>3. Waiting(l) = Count(buffers1, l) + Count(buffers2, l)
  BY DEF Waiting, Count, Places
<1>4. MsgsIn(buffers1, l) \in Seq(Nat) /\ MsgsIn(buffers2, l) \in Seq(Nat)
  BY <1>1, MsgsType
<1>5. AllMsgs(l) \in Seq(Nat)
  BY <1>4 DEF AllMsgs
<1>6. ASSUME Waiting(l) = 0
      PROVE  AllMsgs(l) = << >>
  <2>1. Count(buffers1, l) = 0 /\ Count(buffers2, l) = 0
    BY <1>2, <1>3, <1>6
  <2>2. MsgsIn(buffers1, l) = << >> /\ MsgsIn(buffers2, l) = << >>
    BY <1>1, <2>1, NoPlaceNoMsgs
  <2>3. QED
    BY <2>2 DEF AllMsgs
<1>7. QED
  BY <1>2, <1>3, <1>4, <1>5, <1>6

\* The buffers of some loggers join the lists, each with a reference.
Queues(asking) ==
  /\ ListTypes' /\ AllLen' = AllLen + Len(asking) /\ refcnt' \in [Logger -> Int]
  /\ \A l \in Logger : /\ AllMsgs(l)' = AllMsgs(l) \o Mine(asking, l)
                       /\ Waiting(l)' = Waiting(l) + OneOf(asking, l)
                       /\ refcnt'[l] = refcnt[l] + OneOf(asking, l)

\* A buffer leaves the lists for the file of its logger, with its reference.
Leaves(b) ==
  /\ ListTypes' /\ FileTypes' /\ AllLen' = AllLen - 1 /\ refcnt' \in [Logger -> Int]
  /\ \A l \in Logger : /\ AllMsgs(l) = Share(b, l) \o AllMsgs(l)'
                       /\ Waiting(l)' = Waiting(l) - One(b, l)
                       /\ refcnt'[l] = refcnt[l] - One(b, l)
                       /\ DealtIn(file'[l]) = DealtIn(file[l]) \o Share(b, l)

\* The lists stay, or the writer takes the first over.
LEMMA NothingQueued ==
  ASSUME Types, UNCHANGED refcnt, loggers' \in Seq(Logger),
         buffers1' \in Seq(Buf), buffers2' \in Seq(Buf),
         \/ UNCHANGED <<buffers1, buffers2>>
         \/ buffers2 = << >> /\ buffers1' = << >> /\ buffers2' = buffers1
  PROVE  Queues(<< >>)
<1>1. ListTypes /\ ListTypes' /\ refcnt \in [Logger -> Int]
  BY DEF Types, LoggerTypes, ListTypes
<1>2. Len(<< >>) = 0 /\ ToSet(<< >>) = {}
  BY NoneAsks
<1>3. AllLen' = AllLen /\ AllLen \in Nat
  <2>1. Len(buffers1) \in Nat /\ Len(buffers2) \in Nat /\ Len(<< >>) = 0
    BY <1>1 DEF ListTypes
  <2>2. QED
    BY <2>1 DEF AllLen
<1>4. ASSUME NEW l \in Logger
      PROVE  /\ AllMsgs(l)' = AllMsgs(l) \o Mine(<< >>, l)
             /\ Waiting(l)' = Waiting(l) + OneOf(<< >>, l)
             /\ refcnt'[l] = refcnt[l] + OneOf(<< >>, l)
  <2>1. Mine(<< >>, l) = << >> /\ OneOf(<< >>, l) = 0
    BY <1>2 DEF Mine, OneOf
  <2>2. /\ AllMsgs(l) \in Seq(Nat) /\ Waiting(l) \in Nat
        /\ MsgsIn(buffers1, l) \in Seq(Nat) /\ MsgsIn(buffers2, l) \in Seq(Nat)
        /\ Waiting(l) = Count(buffers1, l) + Count(buffers2, l)
        /\ Count(buffers1, l) \in Nat /\ Count(buffers2, l) \in Nat
    BY <1>1, WaitingIs
  <2>3. Waiting(l)' = Count(buffers1', l) + Count(buffers2', l)
    BY DEF Waiting, Count, Places
  <2>4. AllMsgs(l)' = MsgsIn(buffers2', l) \o MsgsIn(buffers1', l)
    BY DEF AllMsgs, MsgsIn
  <2>5. MsgsIn(<< >>, l) = << >> /\ Count(<< >>, l) = 0
    BY MsgsNone, CountNone
  <2>6. AllMsgs(l)' = AllMsgs(l)
    <3>1. CASE UNCHANGED <<buffers1, buffers2>>
      BY <2>4, <3>1 DEF AllMsgs
    <3>2. CASE buffers2 = << >> /\ buffers1' = << >> /\ buffers2' = buffers1
      <4>1. AllMsgs(l)' = MsgsIn(buffers1, l) \o << >> /\ AllMsgs(l) = << >> \o MsgsIn(buffers1, l)
        BY <2>4, <2>5, <3>2 DEF AllMsgs
      <4>2. QED
        BY <2>2, <4>1, CatNone
    <3>3. QED
      BY <3>1, <3>2
  <2>7. Waiting(l)' = Waiting(l)
    BY <2>2, <2>3, <2>5
  <2>8. AllMsgs(l) \o << >> = AllMsgs(l)
    BY <2>2, CatNone
  <2>9. refcnt[l] \in Int
    BY <1>1
  <2>10. Waiting(l) + 0 = Waiting(l) /\ refcnt[l] + 0 = refcnt[l]
    BY ONLY <2>2, <2>9
  <2>11. refcnt'[l] = refcnt[l]
    OBVIOUS
  <2>12. QED
    BY ONLY <2>1, <2>6, <2>7, <2>8, <2>10, <2>11, Zenon
<1>5. QED
  BY <1>1, <1>2, <1>3, <1>4 DEF Queues

\* Queueing at the end of buffers1, which the writer may then take over.
LEMMA SomeQueued ==
  ASSUME Types, NEW asking \in Seq(Logger), Once(asking), \A k \in ToSet(asking) : Full(k),
         loggers' \in Seq(Logger), Ref(asking),
         \/ buffers1' = buffers1 \o Filled(asking) /\ buffers2' = buffers2
         \/ buffers2 = << >> /\ buffers1' = << >> /\ buffers2' = buffers1 \o Filled(asking)
  PROVE  Queues(asking)
<1> DEFINE q == buffers1 \o Filled(asking)
<1>1. ListTypes /\ buffers1 \in Seq(Buf) /\ buffers2 \in Seq(Buf) /\ refcnt \in [Logger -> Int]
  BY DEF Types, LoggerTypes, ListTypes
<1>2. /\ q \in Seq(Buf) /\ Len(q) = Len(buffers1) + Len(asking)
      /\ \A l \in Logger : /\ MsgsIn(q, l) = MsgsIn(buffers1, l) \o Mine(asking, l)
                           /\ Count(q, l) = Count(buffers1, l) + OneOf(asking, l)
  BY <1>1, QueuedIs
<1>3. \/ buffers1' = q /\ buffers2' = buffers2
      \/ buffers2 = << >> /\ buffers1' = << >> /\ buffers2' = q
  OBVIOUS
<1> HIDE DEF q
<1>4. ListTypes'
  BY <1>1, <1>2, <1>3 DEF ListTypes
<1>5. AllLen' = AllLen + Len(asking)
  <2>1. Len(buffers1) \in Nat /\ Len(buffers2) \in Nat /\ Len(asking) \in Nat
    BY <1>1
  <2>2. Len(<< >>) = 0
    OBVIOUS
  <2>3. CASE buffers1' = q /\ buffers2' = buffers2
    <3>1. AllLen = Len(buffers1) + Len(buffers2) /\ AllLen' = Len(q) + Len(buffers2)
      BY <2>3, Zenon DEF AllLen
    <3>2. Len(q) = Len(buffers1) + Len(asking)
      BY <1>2
    <3>3. QED
      BY <2>1, <3>1, <3>2
  <2>4. CASE buffers2 = << >> /\ buffers1' = << >> /\ buffers2' = q
    <3>1. AllLen = Len(buffers1) + 0 /\ AllLen' = 0 + Len(q)
      BY <2>2, <2>4, Zenon DEF AllLen
    <3>2. QED
      BY <1>2, <2>1, <3>1
  <2>5. QED
    BY <1>3, <2>3, <2>4
<1>6. /\ refcnt' \in [Logger -> Int]
      /\ \A l \in Logger : refcnt'[l] = refcnt[l] + OneOf(asking, l)
  BY <1>1 DEF Ref, OneOf
<1>7. ASSUME NEW l \in Logger
      PROVE  /\ AllMsgs(l)' = AllMsgs(l) \o Mine(asking, l)
             /\ Waiting(l)' = Waiting(l) + OneOf(asking, l)
  <2>1. /\ MsgsIn(buffers1, l) \in Seq(Nat) /\ MsgsIn(buffers2, l) \in Seq(Nat)
        /\ Waiting(l) = Count(buffers1, l) + Count(buffers2, l)
        /\ Count(buffers1, l) \in Nat /\ Count(buffers2, l) \in Nat
    BY <1>1, WaitingIs
  <2>2. OneOf(asking, l) \in Nat
    BY DEF OneOf
  <2>3. Mine(asking, l) \in Seq(Nat)
    BY MsgIsNat DEF Mine, Full
  <2>4. Waiting(l)' = Count(buffers1', l) + Count(buffers2', l)
    BY DEF Waiting, Count, Places
  <2>5. AllMsgs(l)' = MsgsIn(buffers2', l) \o MsgsIn(buffers1', l)
    BY DEF AllMsgs, MsgsIn
  <2>6. MsgsIn(<< >>, l) = << >> /\ Count(<< >>, l) = 0
    BY MsgsNone, CountNone
  <2>7. /\ MsgsIn(q, l) = MsgsIn(buffers1, l) \o Mine(asking, l)
        /\ Count(q, l) = Count(buffers1, l) + OneOf(asking, l)
    BY <1>2
  <2>8. Waiting(l)' = Waiting(l) + OneOf(asking, l)
    <3>1. CASE buffers1' = q /\ buffers2' = buffers2
      BY <2>1, <2>2, <2>4, <2>7, <3>1
    <3>2. CASE buffers2 = << >> /\ buffers1' = << >> /\ buffers2' = q
      <4>1. Waiting(l) = Count(buffers1, l) + 0 /\ Waiting(l)' = 0 + Count(q, l)
        BY <2>1, <2>4, <2>6, <3>2, Zenon
      <4>2. QED
        BY <2>1, <2>2, <2>7, <4>1
    <3>3. QED
      BY <1>3, <3>1, <3>2
  <2> DEFINE x == MsgsIn(buffers1, l)
             y == MsgsIn(buffers2, l)
             z == Mine(asking, l)
             u == MsgsIn(q, l)
  <2>9. AllMsgs(l) = y \o x
    BY DEF AllMsgs
  <2>10. x \in Seq(Nat) /\ y \in Seq(Nat) /\ z \in Seq(Nat) /\ u = x \o z
    BY <2>1, <2>3, <2>7
  <2>11. \/ AllMsgs(l)' = y \o u
         \/ y = << >> /\ AllMsgs(l)' = u \o << >>
    BY <1>3, <2>5, <2>6
  <2> HIDE DEF x, y, z, u
  <2>12. AllMsgs(l)' = (y \o x) \o z
    <3>1. (y \o x) \o z = y \o (x \o z) /\ x \o z \in Seq(Nat)
      BY ONLY <2>10, InARow, Zenon
    <3>2. u \o << >> = u /\ << >> \o u = u
      BY <2>10, <3>1, CatNone
    <3>3. QED
      BY <2>10, <2>11, <3>1, <3>2
  <2>13. QED
    BY <2>8, <2>9, <2>12 DEF z
<1>8. QED
  BY <1>4, <1>5, <1>6, <1>7 DEF Queues

\* The writer takes the first buffer of buffers2, or of buffers1 if there is none.
LEMMA FirstLeaves ==
  ASSUME Types, NEW q \in Seq(Buf), q # << >>, WriteOut(Head(q)), loggers' \in Seq(Logger),
         \/ buffers2 = q /\ buffers2' = Tail(q) /\ buffers1' = buffers1
         \/ buffers2 = << >> /\ buffers1 = q /\ buffers1' = Tail(q) /\ buffers2' = buffers2
  PROVE  Leaves(Head(q)) /\ Head(q) \in Buf
<1> DEFINE b == Head(q)
           t == Tail(q)
<1>1. ListTypes /\ buffers1 \in Seq(Buf) /\ buffers2 \in Seq(Buf) /\ refcnt \in [Logger -> Int] /\ FileTypes
  BY DEF Types, LoggerTypes, ListTypes
<1>2. b \in Buf /\ t \in Seq(Buf) /\ Len(q) = Len(t) + 1 /\ Len(t) \in Nat
  BY HeadApart
<1>3. /\ b.log \in Logger /\ FileTypes'
      /\ refcnt' = [refcnt EXCEPT ![b.log] = @ - 1]
      /\ DealtIn(file'[b.log]) = DealtIn(file[b.log]) \o b.msgs
      /\ \A l \in Logger : l # b.log => file'[l] = file[l]
  BY <1>1, <1>2, WriteOutIs
<1>4. \A l : MsgsIn(q, l) = Share(b, l) \o MsgsIn(t, l)
  BY MsgsHead DEF Share
<1>5. \A l : Count(q, l) = Count(t, l) + One(b, l)
  BY CountHead
<1>6. \/ buffers2 = q /\ buffers2' = t /\ buffers1' = buffers1
      \/ buffers2 = << >> /\ buffers1 = q /\ buffers1' = t /\ buffers2' = buffers2
  OBVIOUS
<1> HIDE DEF b, t
<1>7. ListTypes'
  BY <1>1, <1>2, <1>6 DEF ListTypes
<1>8. AllLen' = AllLen - 1
  <2>1. Len(buffers1) \in Nat /\ Len(buffers2) \in Nat
    BY <1>1
  <2>2. CASE buffers2 = q /\ buffers2' = t /\ buffers1' = buffers1
    BY ONLY <1>2, <2>1, <2>2 DEF AllLen
  <2>3. CASE buffers2 = << >> /\ buffers1 = q /\ buffers1' = t /\ buffers2' = buffers2
    BY ONLY <1>2, <2>1, <2>3 DEF AllLen
  <2>4. QED
    BY ONLY <1>6, <2>2, <2>3
<1>9. /\ refcnt' \in [Logger -> Int]
      /\ \A l \in Logger : refcnt'[l] = refcnt[l] - One(b, l)
  BY <1>1, <1>3 DEF One
<1>10. ASSUME NEW l \in Logger
       PROVE  DealtIn(file'[l]) = DealtIn(file[l]) \o Share(b, l)
  <2>1. CASE b.log = l
    BY <1>3, <2>1 DEF Share
  <2>2. CASE b.log # l
    <3>1. file[l].parts \in Seq(Part)
      BY <1>1 DEF FileTypes
    <3>2. DealtIn(file[l]) \in Seq(Nat)
      BY <3>1, DealtType DEF DealtIn
    <3>3. QED
      BY <1>3, <2>2, <3>2, CatNone DEF Share
  <2>3. QED
    BY <2>1, <2>2
<1>11. ASSUME NEW l \in Logger
       PROVE  /\ AllMsgs(l) = Share(b, l) \o AllMsgs(l)'
              /\ Waiting(l)' = Waiting(l) - One(b, l)
  <2>1. /\ MsgsIn(buffers1, l) \in Seq(Nat) /\ MsgsIn(buffers2, l) \in Seq(Nat)
        /\ Waiting(l) = Count(buffers1, l) + Count(buffers2, l)
        /\ Count(buffers1, l) \in Nat /\ Count(buffers2, l) \in Nat
    BY <1>1, WaitingIs
  <2>2. One(b, l) \in Nat
    BY DEF One
  <2>3. Share(b, l) \in Seq(Nat) /\ MsgsIn(t, l) \in Seq(Nat)
    BY <1>2, MsgsType DEF Share, Buf
  <2>4. Waiting(l)' = Count(buffers1', l) + Count(buffers2', l)
    BY DEF Waiting, Count, Places
  <2>5. AllMsgs(l)' = MsgsIn(buffers2', l) \o MsgsIn(buffers1', l)
    BY DEF AllMsgs, MsgsIn
  <2>6. Count(t, l) \in Nat /\ Count(q, l) = Count(t, l) + One(b, l)
    BY <1>2, <1>5, CountType
  <2>7. Waiting(l)' = Waiting(l) - One(b, l)
    BY <1>6, <2>1, <2>2, <2>4, <2>6
  <2> DEFINE x == MsgsIn(buffers1, l)
             y == MsgsIn(t, l)
             z == Share(b, l)
  <2>8. x \in Seq(Nat) /\ y \in Seq(Nat) /\ z \in Seq(Nat)
    BY <2>1, <2>3
  <2>9. \/ AllMsgs(l) = (z \o y) \o x /\ AllMsgs(l)' = y \o x
        \/ AllMsgs(l) = << >> \o (z \o y) /\ AllMsgs(l)' = << >> \o y
    BY <1>4, <1>6, <2>5, MsgsNone DEF AllMsgs
  <2> HIDE DEF x, y, z
  <2>10. /\ (z \o y) \o x = z \o (y \o x) /\ << >> \o y = y
         /\ << >> \o (z \o y) = z \o y
    <3>1. (z \o y) \o x = z \o (y \o x) /\ z \o y \in Seq(Nat)
      BY ONLY <2>8, InARow, Zenon
    <3>2. << >> \o y = y /\ << >> \o (z \o y) = z \o y
      BY ONLY <2>8, <3>1, CatNone
    <3>3. QED
      BY <3>1, <3>2
  <2>11. AllMsgs(l) = z \o AllMsgs(l)'
    BY <2>9, <2>10
  <2>12. QED
    BY <2>7, <2>11 DEF z
<1>12. QED
  BY <1>2, <1>3, <1>7, <1>8, <1>9, <1>10, <1>11 DEF Leaves, b

(***************************************************************************)
(* How a step that does so keeps each part of the invariant.               *)
(***************************************************************************)
LEMMA ListingSame ==
  ASSUME Listing, UNCHANGED <<loggers, index>>,
         \A l \in Logger : pc'[l] = "open" <=> pc[l] = "open"
  PROVE  Listing'
BY DEF Listing, ToSet

\* What a logger has, and what it has with what waits.
Here(l) == IF buffer[l] = NoBuf THEN << >> ELSE buffer[l]

\* A buffer holds messages.
LEMMA HereType ==
  ASSUME BufferTypes, NEW l \in Logger
  PROVE  Here(l) \in Seq(Nat)
BY FullWhen DEF Here

\* What is on the way is in the lists or in the buffer.
LEMMA WayIs ==
  ASSUME ListTypes, NEW l
  PROVE  OnTheWay(l) = AllMsgs(l) \o Here(l)
<1>1. buffers1 \in Seq(Buf) /\ buffers2 \in Seq(Buf)
  BY DEF ListTypes
<1>2. MsgsIn(buffers2 \o buffers1, l) = AllMsgs(l)
  BY <1>1, MsgsCat DEF AllMsgs
<1>3. QED
  BY <1>2 DEF OnTheWay, Here

\* So it is after a step.
LEMMA WayWillBe ==
  ASSUME ListTypes', NEW l
  PROVE  OnTheWay(l)' = AllMsgs(l)' \o Here(l)'
<1>1. buffers1' \in Seq(Buf) /\ buffers2' \in Seq(Buf)
  BY DEF ListTypes
<1>2. MsgsIn(buffers2' \o buffers1', l) = MsgsIn(buffers2', l) \o MsgsIn(buffers1', l)
  BY <1>1, MsgsCat
<1>3. AllMsgs(l)' = MsgsIn(buffers2', l) \o MsgsIn(buffers1', l)
  BY DEF AllMsgs, MsgsIn
<1>4. OnTheWay(l)' = MsgsIn(buffers2' \o buffers1', l) \o Here(l)'
  BY DEF OnTheWay, MsgsIn, Here
<1>5. QED
  BY <1>2, <1>3, <1>4

\* What was dealt with is in the parts of the file.
LEMMA DealtIs ==
  ASSUME NEW l
  PROVE  Dealt(l) = DealtIn(file[l]) /\ Dealt(l)' = DealtIn(file'[l])
BY DEF Dealt, DealtIn, MsgsOf

\* It is a sequence of messages.
LEMMA DealtHereType ==
  ASSUME FileTypes, NEW l \in Logger
  PROVE  DealtIn(file[l]) \in Seq(Nat)
<1>1. file[l].parts \in Seq(Part)
  BY DEF FileTypes
<1>2. QED
  BY <1>1, DealtType DEF DealtIn
-----------------------------------------------------------------------------
\* References that come and go with the place of the thread.
LEMMA RefsSame ==
  ASSUME Types, RefsCount, UNCHANGED <<buffers1, buffers2, buffer>>, refcnt' \in [Logger -> Int],
         \A l \in Logger : refcnt'[l] - refcnt[l] = OwnRefs(l)' - OwnRefs(l),
         \A l \in Logger : pc[l] = "open" => pc'[l] = "open"
  PROVE  RefsCount'
<1> SUFFICES ASSUME NEW l \in Logger
             PROVE  /\ refcnt'[l] = OwnRefs(l)' + Waiting(l)'
                    /\ buffer'[l] # NoBuf => pc'[l] = "open"
  BY DEF RefsCount, At
<1>1. refcnt[l] = OwnRefs(l) + Waiting(l) /\ (buffer[l] # NoBuf => pc[l] = "open")
  BY DEF RefsCount, At
<1>2. Waiting(l)' = Waiting(l)
  BY DEF Waiting
<1>3. Waiting(l) \in Nat /\ refcnt[l] \in Int /\ refcnt'[l] \in Int
  BY WaitingIs DEF Types, LoggerTypes
<1>4. OwnRefs(l) \in Int /\ OwnRefs(l)' \in Int
  BY DEF OwnRefs
<1>5. QED
  BY <1>1, <1>2, <1>3, <1>4

\* References that come with the buffers that are queued.
LEMMA RefsQueued ==
  ASSUME Types, RefsCount, NEW asking, Queues(asking),
         \A l \in Logger : OwnRefs(l)' = OwnRefs(l),
         \A l \in Logger : buffer'[l] # NoBuf => pc'[l] = "open"
  PROVE  RefsCount'
<1> SUFFICES ASSUME NEW l \in Logger
             PROVE  refcnt'[l] = OwnRefs(l)' + Waiting(l)'
  BY DEF RefsCount, At
<1>1. refcnt[l] = OwnRefs(l) + Waiting(l)
  BY DEF RefsCount
<1>2. Waiting(l)' = Waiting(l) + OneOf(asking, l) /\ refcnt'[l] = refcnt[l] + OneOf(asking, l)
  BY DEF Queues
<1>3. Waiting(l) \in Nat /\ OwnRefs(l) \in Int /\ OneOf(asking, l) \in Int
  BY WaitingIs DEF Types, OwnRefs, OneOf
<1>4. QED
  BY <1>1, <1>2, <1>3

\* The reference that goes with a buffer that is written.
LEMMA RefsLeft ==
  ASSUME Types, RefsCount, NEW b, Leaves(b), UNCHANGED <<pc, buffer>>
  PROVE  RefsCount'
<1> SUFFICES ASSUME NEW l \in Logger
             PROVE  /\ refcnt'[l] = OwnRefs(l)' + Waiting(l)'
                    /\ buffer'[l] # NoBuf => pc'[l] = "open"
  BY DEF RefsCount, At
<1>1. refcnt[l] = OwnRefs(l) + Waiting(l) /\ (buffer[l] # NoBuf => pc[l] = "open")
  BY DEF RefsCount, At
<1>2. Waiting(l)' = Waiting(l) - One(b, l) /\ refcnt'[l] = refcnt[l] - One(b, l)
  BY DEF Leaves
<1>3. Waiting(l) \in Nat /\ OwnRefs(l) \in Int /\ One(b, l) \in Int /\ OwnRefs(l)' = OwnRefs(l)
  BY WaitingIs DEF Types, OwnRefs, One
<1>4. QED
  BY <1>1, <1>2, <1>3
-----------------------------------------------------------------------------
\* Steps that no message takes part in.
LEMMA MessagesSame ==
  ASSUME Messages, UNCHANGED <<buffers1, buffers2, buffer, file, accepted>>
  PROVE  Messages'
BY DEF Messages, Dealt, OnTheWay, MsgsIn

\* What is queued moves from the logger's own buffer to the lists.
LEMMA MessagesQueued ==
  ASSUME Types, Messages, NEW asking, Queues(asking), UNCHANGED file, BufferTypes',
         \A l \in Logger : \E new \in Seq(Nat) : /\ accepted'[l] = accepted[l] \o new
                                                 /\ Mine(asking, l) \in Seq(Nat)
                                                 /\ Mine(asking, l) \o Here(l)' = Here(l) \o new
  PROVE  Messages'
<1> SUFFICES ASSUME NEW l \in Logger
             PROVE  Dealt(l)' \o OnTheWay(l)' = accepted'[l]
  BY DEF Messages
<1>1. PICK new \in Seq(Nat) : /\ accepted'[l] = accepted[l] \o new
                              /\ Mine(asking, l) \in Seq(Nat)
                              /\ Mine(asking, l) \o Here(l)' = Here(l) \o new
  OBVIOUS
<1> DEFINE d == DealtIn(file[l])
           a == AllMsgs(l)
           m == Mine(asking, l)
           h == Here(l)
           h2 == Here(l)'
<1>2. d \in Seq(Nat) /\ a \in Seq(Nat) /\ h \in Seq(Nat) /\ m \in Seq(Nat)
  BY <1>1, DealtHereType, WaitingIs, HereType DEF Types
<1>3. h2 \in Seq(Nat)
  BY DEF BufferTypes, Here
<1>4. d \o (a \o h) = accepted[l]
  BY DealtIs, WayIs DEF Types, Messages
<1>5. Dealt(l)' = d /\ OnTheWay(l)' = AllMsgs(l)' \o h2 /\ AllMsgs(l)' = a \o m
  BY DealtIs, WayWillBe DEF Queues
<1> HIDE DEF d, a, m, h, h2
<1>6. (a \o m) \o h2 = a \o (m \o h2)
  <2>1. \A x, y, z \in Seq(Nat) : (x \o y) \o z = x \o (y \o z)
    BY InARow, ZenonT(60)
  <2>2. a \in Seq(Nat) /\ m \in Seq(Nat)
    BY <1>2
  <2>3. QED
    BY ONLY <1>3, <2>1, <2>2, Zenon
<1>6a. (a \o h) \o new = a \o (h \o new)
  <2>1. a \in Seq(Nat) /\ h \in Seq(Nat) /\ new \in Seq(Nat)
    BY <1>2
  <2>2. QED
    BY ONLY <2>1, InARow, Zenon
<1>6b. a \o h \in Seq(Nat)
  BY ONLY <1>2, InARow, Zenon
<1>7. (d \o (a \o h)) \o new = d \o ((a \o h) \o new)
  <2> DEFINE x == a \o h
  <2>1. x \in Seq(Nat)
    BY <1>6b
  <2> HIDE DEF x
  <2>2. (d \o x) \o new = d \o (x \o new)
    <3>1. d \in Seq(Nat) /\ new \in Seq(Nat)
      BY <1>2
    <3>2. QED
      BY ONLY <2>1, <3>1, InARow, Zenon
  <2>3. QED
    BY <2>2, Zenon DEF x
<1>8. m \o h2 = h \o new
  BY <1>1 DEF m, h, h2
<1>9. QED
  BY <1>1, <1>4, <1>5, <1>6, <1>6a, <1>7, <1>8

\* What leaves the lists comes to the file.
LEMMA MessagesLeft ==
  ASSUME Types, Messages, NEW b \in Buf, Leaves(b), UNCHANGED <<buffer, accepted>>
  PROVE  Messages'
<1> SUFFICES ASSUME NEW l \in Logger
             PROVE  Dealt(l)' \o OnTheWay(l)' = accepted'[l]
  BY DEF Messages
<1> DEFINE d == DealtIn(file[l])
           a == AllMsgs(l)
           a2 == AllMsgs(l)'
           s == Share(b, l)
           h == Here(l)
<1>1. d \in Seq(Nat) /\ h \in Seq(Nat) /\ s \in Seq(Nat)
  BY DealtHereType, HereType DEF Types, Share, Buf
<1>2. a2 \in Seq(Nat)
  <2>1. buffers1' \in Seq(Buf) /\ buffers2' \in Seq(Buf)
    BY DEF Leaves, ListTypes
  <2>2. MsgsIn(buffers1', l) \in Seq(Nat) /\ MsgsIn(buffers2', l) \in Seq(Nat)
    BY <2>1, MsgsType
  <2>3. a2 = MsgsIn(buffers2', l) \o MsgsIn(buffers1', l)
    BY DEF AllMsgs, MsgsIn
  <2> HIDE DEF a2
  <2>4. QED
    BY ONLY <2>2, <2>3, InARow, Zenon
<1>3. a = s \o a2 /\ DealtIn(file'[l]) = d \o s
  BY DEF Leaves
<1>4. d \o (a \o h) = accepted[l]
  BY DealtIs, WayIs DEF Types, Messages
<1>5. Dealt(l)' = d \o s /\ OnTheWay(l)' = a2 \o h
  BY <1>3, DealtIs, WayWillBe DEF Leaves, Here
<1> HIDE DEF d, a, a2, s, h
<1>6. (s \o a2) \o h = s \o (a2 \o h)
  BY ONLY <1>1, <1>2, InARow, Zenon
<1>6a. a2 \o h \in Seq(Nat)
  BY ONLY <1>1, <1>2, InARow, Zenon
<1>7. (d \o s) \o (a2 \o h) = d \o (s \o (a2 \o h))
  <2> DEFINE x == a2 \o h
  <2>1. x \in Seq(Nat)
    BY <1>6a
  <2> HIDE DEF x
  <2>2. d \in Seq(Nat) /\ s \in Seq(Nat)
    BY <1>1
  <2>3. (d \o s) \o x = d \o (s \o x)
    BY ONLY <2>1, <2>2, InARow, Zenon
  <2>4. QED
    BY <2>3, Zenon DEF x
<1>8. QED
  BY <1>3, <1>4, <1>5, <1>6, <1>7
-----------------------------------------------------------------------------
\* Some leave a set, and others join.
LEMMA Cards ==
  ASSUME NEW S, NEW Q, NEW G, IsFiniteSet(S), Q \subseteq S, IsFiniteSet(G),
         G \cap (S \ Q) = {}
  PROVE  /\ Cardinality((S \ Q) \cup G) = Cardinality(S) - Cardinality(Q) + Cardinality(G)
         /\ Cardinality(S) \in Nat /\ Cardinality(Q) \in Nat /\ Cardinality(G) \in Nat
<1>1. /\ IsFiniteSet(Q) /\ IsFiniteSet(S \ Q)
      /\ Cardinality(S) \in Nat /\ Cardinality(Q) \in Nat /\ Cardinality(G) \in Nat
      /\ Cardinality(S \ Q) \in Nat
  BY FS_Subset, FS_CardinalityType, FS_Difference
<1>2. (S \ Q) \cup Q = S /\ (S \ Q) \cap Q = {} /\ (S \ Q) \cap G = {}
  OBVIOUS
<1>3. Cardinality((S \ Q) \cup Q) = Cardinality(S \ Q) + Cardinality(Q) - Cardinality((S \ Q) \cap Q)
  BY <1>1, FS_Union
<1>4. Cardinality((S \ Q) \cup G) = Cardinality(S \ Q) + Cardinality(G) - Cardinality((S \ Q) \cap G)
  BY <1>1, FS_Union
<1>5. Cardinality({}) = 0
  BY FS_EmptySet
<1>6. QED
  BY <1>1, <1>2, <1>3, <1>4, <1>5

\* What changes hands adds up: some loggers give up their buffer, others get
\* one, and the lists change by a number.
Balance(Q, G, n) ==
  alloc_buf_cnt' = alloc_buf_cnt + (buf_pool' - buf_pool) + (freed' - freed)
                   + (Putting' - Putting) + Cardinality(G) - Cardinality(Q) + n

\* A step that balances keeps the account.
LEMMA BooksKept ==
  ASSUME Types, Accounting, Ready' => Ready,
         NEW Q \in SUBSET HaveOne, NEW G, IsFiniteSet(G), G \cap (HaveOne \ Q) = {},
         HaveOne' = (HaveOne \ Q) \cup G,
         NEW n \in Int, AllLen' = AllLen + n, ListTypes', CountTypes', Putting' \in Int,
         Balance(Q, G, n),
         alloc_buf_cnt' <= BufMaxCnt
  PROVE  Accounting'
<1>1. IsFiniteSet(HaveOne)
  BY LoggerFacts, FS_Subset DEF HaveOne
<1>2. /\ Cardinality(HaveOne') = Cardinality(HaveOne) - Cardinality(Q) + Cardinality(G)
      /\ Cardinality(HaveOne) \in Nat /\ Cardinality(Q) \in Nat /\ Cardinality(G) \in Nat
  <2>1. Q \subseteq HaveOne
    OBVIOUS
  <2>2. Cardinality((HaveOne \ Q) \cup G) = Cardinality(HaveOne) - Cardinality(Q) + Cardinality(G)
    BY <1>1, <2>1, Cards
  <2>3. Cardinality(HaveOne) \in Nat /\ Cardinality(Q) \in Nat /\ Cardinality(G) \in Nat
    BY <1>1, <2>1, Cards
  <2>4. QED
    BY <2>2, <2>3
<1>3. /\ AllLen \in Nat /\ Putting \in Nat
      /\ Len(buffers1) \in Nat /\ Len(buffers2) \in Nat /\ AllLen = Len(buffers1) + Len(buffers2)
  BY DEF AllLen, Putting, Types, ListTypes
<1>4. /\ alloc_buf_cnt \in Nat /\ buf_pool \in Nat /\ freed \in Nat
      /\ alloc_buf_cnt' \in Nat /\ buf_pool' \in Nat /\ freed' \in Nat
  BY DEF Types, CountTypes
<1>5. AllLen' = Len(buffers1') + Len(buffers2') /\ Len(buffers1') \in Nat /\ Len(buffers2') \in Nat
  BY DEF AllLen, ListTypes
<1>6. ASSUME Ready'
      PROVE  alloc_buf_cnt' = buf_pool' + Cardinality(HaveOne') + Len(buffers1') + Len(buffers2')
                              + freed' + Putting'
  <2>1. Ready
    BY <1>6, Zenon
  <2>2. alloc_buf_cnt = buf_pool + Cardinality(HaveOne) + Len(buffers1) + Len(buffers2) + freed + Putting
    BY <2>1, Zenon DEF Accounting
  <2>3. alloc_buf_cnt = buf_pool + Cardinality(HaveOne) + AllLen + freed + Putting
    <3>1. Cardinality(HaveOne) \in Nat
      BY <1>2
    <3>2. /\ Len(buffers1) \in Nat /\ Len(buffers2) \in Nat /\ AllLen = Len(buffers1) + Len(buffers2)
          /\ Putting \in Nat
      BY <1>3
    <3>3. alloc_buf_cnt \in Nat /\ buf_pool \in Nat /\ freed \in Nat
      BY <1>4
    <3>4. QED
      BY <2>2, <3>1, <3>2, <3>3
  <2>4. alloc_buf_cnt' = buf_pool' + (Cardinality(HaveOne) - Cardinality(Q) + Cardinality(G))
                         + (AllLen + n) + freed' + Putting'
    <3>1. alloc_buf_cnt + (buf_pool' - buf_pool) + (freed' - freed)
            + (Putting' - Putting) + Cardinality(G) - Cardinality(Q) + n
          = buf_pool' + (Cardinality(HaveOne) - Cardinality(Q) + Cardinality(G))
            + (AllLen + n) + freed' + Putting'
      <4>1. Cardinality(HaveOne) \in Int /\ Cardinality(Q) \in Int /\ Cardinality(G) \in Int
        BY <1>2
      <4>2. AllLen \in Int /\ Putting \in Int /\ Putting' \in Int
        BY <1>3
      <4>3. /\ alloc_buf_cnt \in Int /\ buf_pool \in Int /\ freed \in Int
            /\ buf_pool' \in Int /\ freed' \in Int
        BY <1>4
      <4>4. QED
        BY <2>3, <4>1, <4>2, <4>3, SMTT(30)
    <3>2. QED
      BY <3>1, Zenon DEF Balance
  <2>5. alloc_buf_cnt' = buf_pool' + Cardinality(HaveOne') + AllLen' + freed' + Putting'
    BY <1>2, <2>4, Zenon
  <2>6. Cardinality(HaveOne') \in Int
    BY <1>2
  <2>7. QED
    BY <1>4, <1>5, <2>5, <2>6
<1>7. QED
  BY <1>6, Zenon DEF Accounting

\* So does one that moves no buffer.
LEMMA BooksSame ==
  ASSUME Types, Accounting, Ready' => Ready,
         UNCHANGED <<alloc_buf_cnt, buf_pool, freed, buffer, buffers1, buffers2>>,
         Putting' = Putting
  PROVE  Accounting'
BY DEF Accounting, HaveOne

(***************************************************************************)
(* The actions, one by one.                                                *)
(***************************************************************************)
LEMMA InvType == LogInv => /\ Types /\ Phases /\ Listing /\ RefsCount /\ Accounting /\ Messages
                           /\ LoggerTypes /\ BufferTypes /\ FileTypes /\ FlagTypes /\ CountTypes /\ ListTypes
BY DEF LogInv, Types

\* No logger is listed, or has a buffer, that is not open.
LEMMA NoBuffer ==
  ASSUME RefsCount, NEW l \in Logger, pc[l] # "open"
  PROVE  buffer[l] = NoBuf
BY DEF RefsCount, At

\* A logger that was freed has nothing on the way.
LEMMA FreedHasNothing ==
  ASSUME Types, RefsCount, NEW l \in Logger, pc[l] = "closed", refcnt[l] = 0
  PROVE  AllMsgs(l) = << >> /\ Here(l) = << >> /\ buffer[l] = NoBuf /\ Waiting(l) = 0
<1>1. refcnt[l] = OwnRefs(l) + Waiting(l) /\ OwnRefs(l) = 0
  BY DEF RefsCount, OwnRefs
<1>2. Waiting(l) \in Nat /\ (Waiting(l) = 0 => AllMsgs(l) = << >>)
  BY WaitingIs DEF Types
<1>3. buffer[l] = NoBuf
  BY NoBuffer
<1>4. QED
  BY <1>1, <1>2, <1>3 DEF Here

\* A logger without a file has nothing written.
LEMMA NoFileIsGood ==
  ASSUME NEW l
  PROVE  /\ GoodFile(l, NoFile) /\ NoFile \in [fp : BOOLEAN, cur : Nat, parts : Seq(Part)]
         /\ DealtIn(NoFile) = << >>
<1>1. MsgsOf(<< >>) = << >>
  BY DEF MsgsOf
<1>2. QED
  BY <1>1, FlattenNone DEF NoFile, GoodFile, DealtIn
-----------------------------------------------------------------------------
\* A logger is opened: it is new, or was freed.
LEMMA OpenKeeps ==
  ASSUME LogInv, ~Overlap, NEW l \in Logger, Open(l)
  PROVE  LogInv'
<1>1. /\ pc[l] = "closed" /\ refcnt[l] = 0
      /\ pc' = [pc EXCEPT ![l] = IF initialized THEN "add" ELSE "init"]
      /\ refcnt' = [refcnt EXCEPT ![l] = 1] /\ index' = [index EXCEPT ![l] = 0]
      /\ said' = [said EXCEPT ![l] = 0] /\ accepted' = [accepted EXCEPT ![l] = << >>]
      /\ file' = [file EXCEPT ![l] = NoFile]
      /\ UNCHANGED <<buffer, alloc_buf_cnt, buf_pool, freed, running, initialized>>
      /\ UNCHANGED <<loggers, buffers1, buffers2, writer>>
  BY DEF Open, At, Goto, bufs, flags, lists
<1>2. IF l = Main THEN \A k \in Logger : pc[k] = "closed" ELSE pc[Main] = "open"
  BY DEF Open, At
<1>3. /\ LoggerTypes /\ BufferTypes /\ FileTypes /\ FlagTypes /\ CountTypes /\ ListTypes
      /\ Types /\ Phases /\ Listing /\ RefsCount /\ Accounting /\ Messages
  BY InvType
<1>4. Types'
  <2>1. LoggerTypes'
    <3>1. Lens[l] \in Seq(Nat \ {0})
      BY LogAssumption
    <3>2. Len(Lens[l]) >= 0 /\ << >> \in Seq(Nat)
      BY <3>1
    <3>3. QED
      BY <1>1, <1>3, <3>2 DEF LoggerTypes, Steps
  <2>2. FileTypes'
    BY <1>1, <1>3, NoFileIsGood DEF FileTypes
  <2>3. QED
    BY <1>1, <1>3, <2>1, <2>2, TypesSame DEF Types
<1>5. Phases'
  BY <1>1, <1>2, <1>3, LoggerFacts DEF Phases, ListsEmpty, LoggerTypes
<1>6. Listing'
  <2>1. \A i \in 1 .. Len(loggers) : loggers[i] # l
    BY <1>1, <1>3, ListedOnce DEF Listing, ToSet
  <2>2. \A k \in Logger : pc'[k] = "open" <=> pc[k] = "open"
    BY <1>1, <1>3 DEF LoggerTypes
  <2>3. loggers \in Seq(Logger)
    BY <1>3 DEF ListTypes
  <2>4. \A i \in 1 .. Len(loggers) : index'[loggers[i]] = i - 1
    BY <1>1, <1>3, <2>1, <2>3, SMTT(30) DEF Listing, LoggerTypes
  <2>5. \A k \in Logger : index'[k] < Cardinality(Logger)
    <3>1. index[l] \in Nat /\ index[l] < Cardinality(Logger)
      BY <1>3 DEF Listing, LoggerTypes
    <3>2. 0 < Cardinality(Logger)
      BY <3>1, LoggerFacts
    <3>3. QED
      BY <1>1, <1>3, <3>2 DEF Listing, LoggerTypes
  <2>6. ToSet(loggers') = {k \in Logger : pc'[k] = "open"}
    BY <1>1, <1>3, <2>2 DEF Listing, ToSet
  <2>7. QED
    BY <1>1, <2>4, <2>5, <2>6 DEF Listing
<1>7. RefsCount'
  <2> SUFFICES ASSUME NEW k \in Logger
               PROVE  /\ refcnt'[k] = OwnRefs(k)' + Waiting(k)'
                      /\ buffer'[k] # NoBuf => pc'[k] = "open"
    BY DEF RefsCount, At
  <2>1. Waiting(k)' = Waiting(k)
    BY <1>1 DEF Waiting
  <2>2. CASE k = l
    <3>1. Waiting(l) = 0 /\ buffer[l] = NoBuf
      BY <1>1, <1>3, FreedHasNothing
    <3>2. OwnRefs(l)' = 1
      BY <1>1, <1>3 DEF OwnRefs, LoggerTypes
    <3>3. QED
      BY <1>1, <1>3, <2>1, <2>2, <3>1, <3>2 DEF LoggerTypes
  <2>3. CASE k # l
    <3>1. OwnRefs(k)' = OwnRefs(k) /\ refcnt'[k] = refcnt[k] /\ pc'[k] = pc[k] /\ buffer'[k] = buffer[k]
      BY <1>1, <1>3, <2>3 DEF OwnRefs, LoggerTypes
    <3>2. QED
      BY <1>3, <2>1, <3>1 DEF RefsCount, At
  <2>4. QED
    BY <2>2, <2>3
<1>8. Accounting'
  <2>1. Ready' => Ready
    BY <1>1, <1>3 DEF Ready, LoggerTypes
  <2>2. Putting' = Putting
    BY <1>1 DEF Putting
  <2>3. QED
    BY <1>1, <1>3, <2>1, <2>2, BooksSame
<1>9. Messages'
  <2> SUFFICES ASSUME NEW k \in Logger
               PROVE  Dealt(k)' \o OnTheWay(k)' = accepted'[k]
    BY DEF Messages
  <2>1. OnTheWay(k)' = OnTheWay(k)
    BY <1>1 DEF OnTheWay, MsgsIn
  <2>2. CASE k = l
    <3>1. OnTheWay(l) = << >> \o << >>
      BY <1>1, <1>3, FreedHasNothing, WayIs
    <3>2. Dealt(l)' = DealtIn(file'[l]) /\ file'[l] = NoFile
      BY <1>1, <1>3, DealtIs DEF FileTypes
    <3>3. Dealt(l)' = << >> /\ accepted'[l] = << >>
      BY <1>1, <1>3, <3>2, NoFileIsGood DEF LoggerTypes
    <3>4. << >> \o (<< >> \o << >>) = << >>
      OBVIOUS
    <3>5. QED
      BY <2>1, <2>2, <3>1, <3>3, <3>4
  <2>3. CASE k # l
    <3>1. Dealt(k)' = Dealt(k) /\ accepted'[k] = accepted[k]
      BY <1>1, <1>3, <2>3 DEF Dealt, FileTypes, LoggerTypes
    <3>2. QED
      BY <1>3, <2>1, <3>1 DEF Messages
  <2>4. QED
    BY <2>2, <2>3
<1>10. QED
  BY <1>4, <1>5, <1>6, <1>7, <1>8, <1>9 DEF LogInv

-----------------------------------------------------------------------------
\* The first one sets the flags.
LEMMA InitFlagsKeeps ==
  ASSUME LogInv, NEW l \in Logger, InitFlags(l)
  PROVE  LogInv'
<1>1. /\ LoggerTypes /\ BufferTypes /\ FileTypes /\ FlagTypes /\ CountTypes /\ ListTypes
      /\ Types /\ Phases /\ Listing /\ RefsCount /\ Accounting /\ Messages
  BY InvType
<1>2. l = Main /\ pc[l] = "init" /\ ~initialized
  BY <1>1 DEF InitFlags, At, Phases
<1>3. /\ pc' = [pc EXCEPT ![l] = "setup"]
      /\ running' = TRUE /\ initialized' = TRUE /\ alloc_buf_cnt' = BufInitCnt
      /\ UNCHANGED <<refcnt, index, buffer, said, accepted, file, buf_pool, freed>>
      /\ UNCHANGED <<loggers, buffers1, buffers2, writer>>
  BY <1>2 DEF InitFlags, Goto, lists
<1>4. pc' \in [Logger -> Steps] /\ pc'[l] = "setup" /\ \A k \in Logger : k # l => pc'[k] = pc[k]
  BY <1>1, <1>3 DEF LoggerTypes, Steps
<1>5. Types'
  <2>1. LoggerTypes'
    BY <1>1, <1>3, <1>4 DEF LoggerTypes
  <2>2. FlagTypes' /\ CountTypes'
    BY <1>1, <1>3, LogAssumption DEF FlagTypes, CountTypes
  <2>3. QED
    BY <1>1, <1>3, <2>1, <2>2, TypesSame DEF Types
<1>6. Phases'
  BY <1>1, <1>2, <1>3, <1>4, LoggerFacts DEF Phases, ListsEmpty
<1>7. Listing'
  BY <1>1, <1>2, <1>3, <1>4, ListingSame
<1>8. RefsCount'
  <2>1. \A k \in Logger : OwnRefs(k)' = OwnRefs(k) /\ refcnt'[k] = refcnt[k]
    BY <1>2, <1>3, <1>4 DEF OwnRefs
  <2>2. \A k \in Logger : refcnt'[k] - refcnt[k] = OwnRefs(k)' - OwnRefs(k)
    BY <1>1, <2>1 DEF LoggerTypes, OwnRefs
  <2>3. QED
    BY <1>1, <1>2, <1>3, <1>4, <2>2, RefsSame DEF LoggerTypes
<1>9. Accounting'
  BY <1>3, <1>4, LogAssumption DEF Accounting, Ready
<1>10. Messages'
  BY <1>1, <1>3, MessagesSame
<1>11. QED
  BY <1>5, <1>6, <1>7, <1>8, <1>9, <1>10 DEF LogInv

\* It makes the lists and the writer.
LEMMA InitRestKeeps ==
  ASSUME LogInv, NEW l \in Logger, InitRest(l)
  PROVE  LogInv'
<1>1. /\ LoggerTypes /\ BufferTypes /\ FileTypes /\ FlagTypes /\ CountTypes /\ ListTypes
      /\ Types /\ Phases /\ Listing /\ RefsCount /\ Accounting /\ Messages
  BY InvType
<1>2. l = Main /\ pc[l] = "setup" /\ initialized /\ running /\ ListsEmpty
  BY <1>1 DEF InitRest, At, Phases
<1>3. /\ pc' = [pc EXCEPT ![l] = "add"]
      /\ loggers' = << >> /\ buffers1' = << >> /\ buffers2' = << >>
      /\ buf_pool' = alloc_buf_cnt /\ freed' = 0 /\ writer' = "check"
      /\ UNCHANGED <<refcnt, index, buffer, said, accepted, file, alloc_buf_cnt, running, initialized>>
  BY DEF InitRest, Goto, flags
<1>4. pc' \in [Logger -> Steps] /\ pc'[l] = "add" /\ \A k \in Logger : k # l => pc'[k] = pc[k]
  BY <1>1, <1>3 DEF LoggerTypes, Steps
<1>5. UNCHANGED <<loggers, buffers1, buffers2>>
  BY <1>2, <1>3 DEF ListsEmpty
<1>6. \A k \in Logger : pc[k] # "open"
  BY <1>1, <1>2 DEF Phases
<1>7. Types'
  <2>1. LoggerTypes'
    BY <1>1, <1>3, <1>4 DEF LoggerTypes
  <2>2. FlagTypes' /\ CountTypes'
    BY <1>1, <1>3 DEF FlagTypes, CountTypes, Writing
  <2>3. QED
    BY <1>1, <1>3, <1>5, <2>1, <2>2, TypesSame DEF Types
<1>8. Phases'
  BY <1>1, <1>2, <1>3, <1>4, LoggerFacts DEF Phases
<1>9. Listing'
  BY <1>1, <1>2, <1>3, <1>4, <1>5, ListingSame
<1>10. RefsCount'
  <2>1. \A k \in Logger : OwnRefs(k)' = OwnRefs(k) /\ refcnt'[k] = refcnt[k]
    BY <1>2, <1>3, <1>4 DEF OwnRefs
  <2>2. \A k \in Logger : refcnt'[k] - refcnt[k] = OwnRefs(k)' - OwnRefs(k)
    BY <1>1, <2>1 DEF LoggerTypes, OwnRefs
  <2>3. QED
    BY <1>1, <1>2, <1>3, <1>4, <1>5, <2>2, RefsSame DEF LoggerTypes
<1>11. Accounting'
  <2>1. \A k \in Logger : buffer'[k] = NoBuf
    BY <1>1, <1>3, <1>6, NoBuffer
  <2>2. HaveOne' = {} /\ Putting' = 0
    BY <1>3, <2>1 DEF HaveOne, Putting
  <2>3. Cardinality(HaveOne') = 0
    BY <2>2, FS_EmptySet
  <2>4. Len(buffers1') = 0 /\ Len(buffers2') = 0
    BY <1>3
  <2>5. alloc_buf_cnt \in Nat /\ alloc_buf_cnt <= BufMaxCnt
    BY <1>1 DEF CountTypes, Accounting
  <2>6. QED
    BY <1>3, <2>2, <2>3, <2>4, <2>5 DEF Accounting
<1>12. Messages'
  BY <1>1, <1>3, <1>5, MessagesSame
<1>13. QED
  BY <1>7, <1>8, <1>9, <1>10, <1>11, <1>12 DEF LogInv

\* A reference of the thread is given up.
LEMMA UnrefKeeps ==
  ASSUME LogInv, NEW l \in Logger, Unref(l)
  PROVE  LogInv'
<1>1. /\ LoggerTypes /\ BufferTypes /\ FileTypes /\ FlagTypes /\ CountTypes /\ ListTypes
      /\ Types /\ Phases /\ Listing /\ RefsCount /\ Accounting /\ Messages
  BY InvType
<1>2. /\ \/ pc[l] = "deleted" /\ pc' = [pc EXCEPT ![l] = "closing"]
         \/ pc[l] = "closing" /\ pc' = [pc EXCEPT ![l] = "closed"]
      /\ refcnt' = [refcnt EXCEPT ![l] = @ - 1]
      /\ UNCHANGED <<index, buffer, said, accepted, file, alloc_buf_cnt, buf_pool, freed>>
      /\ UNCHANGED <<running, initialized, loggers, buffers1, buffers2, writer>>
  BY DEF Unref, At, Goto, bufs, flags, lists
<1>3. /\ pc' \in [Logger -> Steps] /\ \A k \in Logger : k # l => pc'[k] = pc[k]
      /\ (pc[l] = "deleted" /\ pc'[l] = "closing") \/ (pc[l] = "closing" /\ pc'[l] = "closed")
  BY <1>1, <1>2 DEF LoggerTypes, Steps
<1>4. Types'
  <2>1. LoggerTypes'
    BY <1>1, <1>2, <1>3 DEF LoggerTypes
  <2>2. QED
    BY <1>1, <1>2, <2>1, TypesSame DEF Types
<1>5. Phases'
  BY <1>1, <1>2, <1>3, LoggerFacts DEF Phases, ListsEmpty
<1>6. Listing'
  <2>1. \A k \in Logger : pc'[k] = "open" <=> pc[k] = "open"
    BY <1>3
  <2>2. QED
    BY <1>1, <1>2, <2>1, ListingSame
<1>7. RefsCount'
  <2>1. refcnt' \in [Logger -> Int]
    BY <1>1, <1>2 DEF LoggerTypes
  <2>2. ASSUME NEW k \in Logger
        PROVE  refcnt'[k] - refcnt[k] = OwnRefs(k)' - OwnRefs(k)
    <3>1. CASE k = l
      <4>1. OwnRefs(l)' = OwnRefs(l) - 1 /\ OwnRefs(l) \in Int
        BY <1>3 DEF OwnRefs
      <4>2. refcnt'[l] = refcnt[l] - 1 /\ refcnt[l] \in Int
        BY <1>1, <1>2 DEF LoggerTypes
      <4>3. QED
        BY <3>1, <4>1, <4>2
    <3>2. CASE k # l
      <4>1. OwnRefs(k)' = OwnRefs(k) /\ OwnRefs(k) \in Int
        BY <1>3, <3>2 DEF OwnRefs
      <4>2. refcnt'[k] = refcnt[k] /\ refcnt[k] \in Int
        BY <1>1, <1>2, <3>2 DEF LoggerTypes
      <4>3. QED
        BY <4>1, <4>2
    <3>3. QED
      BY <3>1, <3>2
  <2>3. \A k \in Logger : pc[k] = "open" => pc'[k] = "open"
    BY <1>3
  <2>4. QED
    BY <1>1, <1>2, <2>1, <2>2, <2>3, RefsSame
<1>8. Accounting'
  <2>1. Ready' => Ready
    BY <1>2, <1>3 DEF Ready
  <2>2. Putting' = Putting
    BY <1>2 DEF Putting
  <2>3. QED
    BY <1>1, <1>2, <2>1, <2>2, BooksSame
<1>9. Messages'
  BY <1>1, <1>2, MessagesSame
<1>10. QED
  BY <1>4, <1>5, <1>6, <1>7, <1>8, <1>9 DEF LogInv

\* Everything is taken down.
LEMMA UninitKeeps ==
  ASSUME LogInv, NEW l \in Logger, JoinAndUninit(l)
  PROVE  LogInv'
<1>1. /\ LoggerTypes /\ BufferTypes /\ FileTypes /\ FlagTypes /\ CountTypes /\ ListTypes
      /\ Types /\ Phases /\ Listing /\ RefsCount /\ Accounting /\ Messages
  BY InvType
<1>2. l = Main /\ pc[l] = "joining" /\ writer = "done"
  BY <1>1 DEF JoinAndUninit, At, Phases
<1>3. NothingLeft /\ ListsEmpty /\ ~running
  BY <1>1, <1>2 DEF Phases, NothingLeft, ListsEmpty
<1>4. /\ pc' = [pc EXCEPT ![l] = "deleted"]
      /\ initialized' = FALSE /\ alloc_buf_cnt' = 0 /\ buf_pool' = 0 /\ freed' = 0
      /\ writer' = "none"
      /\ UNCHANGED <<refcnt, index, buffer, said, accepted, file, running>>
      /\ UNCHANGED <<loggers, buffers1, buffers2>>
  BY <1>3 DEF JoinAndUninit, Goto, lists
<1>5. pc' \in [Logger -> Steps] /\ pc'[l] = "deleted" /\ \A k \in Logger : k # l => pc'[k] = pc[k]
  BY <1>1, <1>4 DEF LoggerTypes, Steps
<1>6. Types'
  <2>1. LoggerTypes'
    BY <1>1, <1>4, <1>5 DEF LoggerTypes
  <2>2. FlagTypes' /\ CountTypes'
    BY <1>1, <1>4 DEF FlagTypes, CountTypes, Writing
  <2>3. QED
    BY <1>1, <1>4, <2>1, <2>2, TypesSame DEF Types
<1>7. Phases'
  BY <1>1, <1>2, <1>3, <1>4, <1>5, LoggerFacts DEF Phases, ListsEmpty
<1>8. Listing'
  BY <1>1, <1>2, <1>4, <1>5, ListingSame
<1>9. RefsCount'
  <2>1. \A k \in Logger : OwnRefs(k)' = OwnRefs(k) /\ refcnt'[k] = refcnt[k]
    BY <1>2, <1>4, <1>5 DEF OwnRefs
  <2>2. \A k \in Logger : refcnt'[k] - refcnt[k] = OwnRefs(k)' - OwnRefs(k)
    BY <1>1, <2>1 DEF LoggerTypes, OwnRefs
  <2>3. QED
    BY <1>1, <1>2, <1>4, <1>5, <2>2, RefsSame DEF LoggerTypes
<1>10. Accounting'
  BY <1>4, LogAssumption DEF Accounting, Ready
<1>11. Messages'
  BY <1>1, <1>4, MessagesSame
<1>12. QED
  BY <1>6, <1>7, <1>8, <1>9, <1>10, <1>11 DEF LogInv
-----------------------------------------------------------------------------
\* A step of the writer by which only its place, and perhaps the pool, changes.
LEMMA WriterMoves ==
  ASSUME LogInv, writer' \in Writing, Phases', Accounting', CountTypes',
         UNCHANGED <<pc, refcnt, index, buffer, said, accepted, file>>,
         UNCHANGED <<running, initialized, loggers, buffers1, buffers2>>
  PROVE  LogInv'
<1>1. /\ LoggerTypes /\ BufferTypes /\ FileTypes /\ FlagTypes /\ CountTypes /\ ListTypes
      /\ Types /\ Phases /\ Listing /\ RefsCount /\ Accounting /\ Messages
  BY InvType
<1>2. FlagTypes'
  BY <1>1 DEF FlagTypes
<1>3. Types'
  BY <1>1, <1>2, TypesSame DEF Types
<1>4. Listing'
  BY <1>1, ListingSame
<1>5. RefsCount'
  BY <1>1 DEF RefsCount, OwnRefs, Waiting, At
<1>6. Messages'
  BY <1>1, MessagesSame
<1>7. QED
  BY <1>3, <1>4, <1>5, <1>6 DEF LogInv

\* The writer looks at the flag.
LEMMA ChecksKeeps ==
  ASSUME LogInv, WriterChecks
  PROVE  LogInv'
<1>1. /\ Types /\ Phases /\ Accounting /\ FlagTypes /\ CountTypes
  BY InvType
<1>2. /\ writer = "check" /\ writer' = IF running THEN "lock" ELSE "stopping"
      /\ UNCHANGED <<pc, refcnt, index, buffer, said, accepted, file>>
      /\ UNCHANGED <<running, initialized, loggers, buffers1, buffers2>>
      /\ UNCHANGED <<alloc_buf_cnt, buf_pool, freed>>
  BY DEF WriterChecks, logger, bufs, flags, lists
<1>3. Phases'
  BY <1>1, <1>2 DEF Phases, ListsEmpty
<1>4. Putting' = Putting /\ (Ready' => Ready)
  BY <1>2 DEF Putting, Ready
<1>5. Accounting' /\ CountTypes' /\ writer' \in Writing
  BY <1>1, <1>2, <1>4, BooksSame DEF CountTypes, Writing
<1>6. QED
  BY <1>2, <1>3, <1>5, WriterMoves

\* It has written all it took.
LEMMA DrainedKeeps ==
  ASSUME LogInv, WriterDrained
  PROVE  LogInv'
<1>1. /\ Types /\ Phases /\ Accounting /\ FlagTypes /\ CountTypes
  BY InvType
<1>2. /\ writer = "drain" /\ writer' = "check" /\ buffers2 = << >>
      /\ UNCHANGED <<pc, refcnt, index, buffer, said, accepted, file>>
      /\ UNCHANGED <<running, initialized, loggers, buffers1, buffers2>>
      /\ UNCHANGED <<alloc_buf_cnt, buf_pool, freed>>
  BY DEF WriterDrained, logger, bufs, flags, lists
<1>3. Phases'
  BY <1>1, <1>2 DEF Phases, ListsEmpty
<1>4. Putting' = Putting /\ (Ready' => Ready)
  BY <1>2 DEF Putting, Ready
<1>5. Accounting' /\ CountTypes' /\ writer' \in Writing
  BY <1>1, <1>2, <1>4, BooksSame DEF CountTypes, Writing
<1>6. QED
  BY <1>2, <1>3, <1>5, WriterMoves

\* It gives a buffer back.
LEMMA PutsKeeps ==
  ASSUME LogInv, WriterPuts
  PROVE  LogInv'
<1>1. /\ Types /\ Phases /\ Accounting /\ FlagTypes /\ CountTypes /\ ListTypes
  BY InvType
<1>2. /\ writer = "put" /\ writer' = "drain" /\ buf_pool' = buf_pool + 1
      /\ UNCHANGED <<pc, refcnt, index, buffer, said, accepted, file>>
      /\ UNCHANGED <<running, initialized, loggers, buffers1, buffers2>>
      /\ UNCHANGED <<alloc_buf_cnt, freed>>
  BY DEF WriterPuts, logger, flags, lists
<1>3. Phases'
  BY <1>1, <1>2 DEF Phases, ListsEmpty
<1>4. CountTypes' /\ writer' \in Writing
  BY <1>1, <1>2 DEF CountTypes, Writing
<1>5. Accounting'
  <2>1. Putting = 1 /\ Putting' = 0 /\ (Ready' => Ready)
    BY <1>2 DEF Putting, Ready
  <2>2. HaveOne' = HaveOne /\ AllLen' = AllLen /\ AllLen \in Nat
    BY <1>1, <1>2 DEF HaveOne, AllLen, ListTypes
  <2>3. HaveOne' = (HaveOne \ {}) \cup {} /\ {} \cap (HaveOne \ {}) = {} /\ {} \in SUBSET HaveOne
    BY <2>2
  <2>4. IsFiniteSet({}) /\ Cardinality({}) = 0
    BY FS_EmptySet
  <2>5. alloc_buf_cnt \in Nat /\ buf_pool \in Nat /\ freed \in Nat
    BY <1>1 DEF CountTypes
  <2>6. Balance({}, {}, 0)
    BY <1>2, <2>1, <2>4, <2>5 DEF Balance
  <2>7. alloc_buf_cnt' <= BufMaxCnt
    BY <1>1, <1>2 DEF Accounting
  <2>8. AllLen' = AllLen + 0 /\ Putting' \in Int /\ ListTypes'
    BY <1>1, <1>2, <2>1, <2>2, TypesSame
  <2>9. QED
    BY <1>1, <1>4, <2>1, <2>3, <2>4, <2>6, <2>7, <2>8, BooksKept
<1>6. QED
  BY <1>2, <1>3, <1>4, <1>5, WriterMoves

-----------------------------------------------------------------------------
\* A logger goes on the list.
LEMMA AddKeeps ==
  ASSUME LogInv, NEW l \in Logger, AddLogger(l)
  PROVE  LogInv'
<1>1. /\ LoggerTypes /\ BufferTypes /\ FileTypes /\ FlagTypes /\ CountTypes /\ ListTypes
      /\ Types /\ Phases /\ Listing /\ RefsCount /\ Accounting /\ Messages
  BY InvType
<1>2. pc[l] = "add"
  BY DEF AddLogger, At
<1>3. Ready /\ running /\ initialized /\ writer \in {"check", "lock", "waiting", "drain", "put"}
  BY <1>1, <1>2, MainIsUp
<1>3a. pc[Main] \in {"add", "open"} /\ (l # Main => pc[Main] = "open")
  BY <1>1, <1>2, MainIsUp
<1>4. PICK given \in Served(<<l>>) :
        /\ Give(<<l>>, given)
        /\ buffer' = [buffer EXCEPT ![l] = IF l \in given THEN << >> ELSE NoBuf]
  BY DEF AddLogger
<1>5. /\ pc' = [pc EXCEPT ![l] = "open"] /\ refcnt' = [refcnt EXCEPT ![l] = @ + 1]
      /\ index' = [index EXCEPT ![l] = Len(loggers)] /\ loggers' = Append(loggers, l)
      /\ UNCHANGED <<said, accepted, file, running, initialized, buffers1, buffers2, writer>>
  BY <1>3 DEF AddLogger, Goto, flags
<1>6. /\ <<l>> \in Seq(Logger) /\ ToSet(<<l>>) = {l}
      /\ buf_pool \in Nat /\ alloc_buf_cnt \in Nat /\ buf_pool <= alloc_buf_cnt
      /\ alloc_buf_cnt <= BufMaxCnt
  BY <1>1, <1>3, OneAsks, PoolBounded
<1>7. /\ given \subseteq {l} /\ IsFiniteSet(given) /\ Cardinality(given) \in Nat
      /\ buf_pool' \in Nat /\ alloc_buf_cnt' \in Nat
      /\ alloc_buf_cnt' = alloc_buf_cnt + (buf_pool' - buf_pool) + Cardinality(given)
      /\ alloc_buf_cnt' <= BufMaxCnt
      /\ freed' = freed
  BY <1>4, <1>6, Gives
<1>8. buffer[l] = NoBuf
  BY <1>1, <1>2, NoBuffer
<1>9. pc' \in [Logger -> Steps] /\ pc'[l] = "open" /\ \A k \in Logger : k # l => pc'[k] = pc[k]
  BY <1>1, <1>5 DEF LoggerTypes, Steps
<1>10. Len(loggers) \in Nat /\ loggers \in Seq(Logger)
  BY <1>1 DEF ListTypes
<1>11. Types'
  <2>1. LoggerTypes'
    BY <1>1, <1>5, <1>9, <1>10 DEF LoggerTypes
  <2>2. BufferTypes'
    <3>1. << >> \in Seq(Nat) /\ << >> \in Held(l)
      BY LengthNone, Limits DEF Held
    <3>2. QED
      BY <1>1, <1>4, <3>1 DEF BufferTypes
  <2>3. CountTypes'
    BY <1>1, <1>7 DEF CountTypes
  <2>4. ListTypes'
    BY <1>1, <1>5 DEF ListTypes
  <2>5. QED
    BY <1>1, <1>5, <2>1, <2>2, <2>3, <2>4, TypesSame DEF Types
<1>12. Phases'
  BY <1>1, <1>2, <1>3, <1>3a, <1>5, <1>9, LoggerFacts DEF Phases, ListsEmpty
<1>13. Listing'
  <2> DEFINE n == Len(loggers)
             p == loggers
             q == Append(loggers, l)
  <2>1. /\ n \in Nat /\ DOMAIN p = 1 .. n /\ Len(q) = n + 1 /\ DOMAIN q = 1 .. n + 1
        /\ q[n + 1] = l /\ \A i \in 1 .. n : q[i] = p[i] /\ p[i] \in Logger
    BY <1>10
  <2>2. \A i \in 1 .. n : p[i] # l
    BY <1>1, <1>2, <2>1 DEF Listing, ToSet
  <2>3. n < Cardinality(Logger)
    BY <1>1, <1>2, ListIsShort
  <2>4. \A i \in 1 .. n : index[p[i]] = i - 1
    BY <1>1 DEF Listing
  <2>5. ToSet(q) = ToSet(p) \cup {l}
    BY <2>1 DEF ToSet
  <2>6. index' = [index EXCEPT ![l] = n] /\ index \in [Logger -> Nat] /\ loggers' = q
    BY <1>1, <1>5 DEF LoggerTypes
  <2>7. ToSet(p) = {k \in Logger : pc[k] = "open"}
    BY <1>1 DEF Listing
  <2> HIDE DEF n, p, q
  <2>8. \A i \in 1 .. n + 1 : index'[q[i]] = i - 1
    <3>1. \A i \in 1 .. n : index'[q[i]] = i - 1
      BY <2>1, <2>2, <2>4, <2>6
    <3>2. index'[q[n + 1]] = (n + 1) - 1
      BY <2>1, <2>6
    <3>3. \A i \in 1 .. n + 1 : i \in 1 .. n \/ i = n + 1
      BY <2>1
    <3>4. QED
      BY <3>1, <3>2, <3>3
  <2>9. \A k \in Logger : index'[k] < Cardinality(Logger)
    BY <1>1, <2>3, <2>6 DEF Listing
  <2>10. ToSet(q) = {k \in Logger : pc'[k] = "open"}
    BY <1>9, <2>5, <2>7
  <2>11. QED
    BY <2>1, <2>6, <2>8, <2>9, <2>10 DEF Listing
<1>14. RefsCount'
  <2> SUFFICES ASSUME NEW k \in Logger
               PROVE  /\ refcnt'[k] = OwnRefs(k)' + Waiting(k)'
                      /\ buffer'[k] # NoBuf => pc'[k] = "open"
    BY DEF RefsCount, At
  <2>1. Waiting(k)' = Waiting(k)
    BY <1>5 DEF Waiting
  <2>2. CASE k = l
    <3>1. OwnRefs(l)' = 2 /\ OwnRefs(l) = 1
      BY <1>2, <1>9 DEF OwnRefs
    <3>2. refcnt[l] = 1 + Waiting(l) /\ Waiting(l) \in Nat
      BY <1>1, <3>1, WaitingIs DEF RefsCount
    <3>3. refcnt'[l] = refcnt[l] + 1
      BY <1>1, <1>5 DEF LoggerTypes
    <3>4. QED
      BY <1>9, <2>1, <2>2, <3>1, <3>2, <3>3
  <2>3. CASE k # l
    <3>1. OwnRefs(k)' = OwnRefs(k) /\ refcnt'[k] = refcnt[k] /\ pc'[k] = pc[k] /\ buffer'[k] = buffer[k]
      BY <1>1, <1>4, <1>5, <1>9, <2>3 DEF OwnRefs, LoggerTypes, BufferTypes
    <3>2. QED
      BY <1>1, <2>1, <3>1 DEF RefsCount, At
  <2>4. QED
    BY <2>2, <2>3
<1>15. Accounting'
  <2>1. HaveOne' = (HaveOne \ {}) \cup given /\ given \cap (HaveOne \ {}) = {}
    <3>1. \A k \in Logger : buffer'[k] # NoBuf <=> buffer[k] # NoBuf \/ k \in given
      <4>1. << >> # NoBuf
        <5>1. << >> \in Seq(Nat)
          OBVIOUS
        <5>2. QED
          BY <5>1, LogAssumption
      <4>2. QED
        BY <1>1, <1>4, <1>7, <1>8, <4>1 DEF BufferTypes
    <3>2. QED
      BY <1>7, <1>8, <3>1 DEF HaveOne
  <2>2. Cardinality({}) = 0 /\ {} \in SUBSET HaveOne
    BY FS_EmptySet
  <2>3. Putting' = Putting /\ Putting \in Int
    BY <1>5 DEF Putting
  <2>4. Balance({}, given, 0)
    BY <1>7, <1>6, <2>2, <2>3, <1>1 DEF Balance, CountTypes
  <2>5. AllLen' = AllLen + 0
    BY <1>1, <1>5 DEF AllLen, ListTypes
  <2>6. Ready' => Ready
    BY <1>3
  <2>7. ListTypes' /\ CountTypes'
    BY <1>11 DEF Types
  <2>8. QED
    BY <1>1, <1>7, <2>1, <2>2, <2>3, <2>4, <2>5, <2>6, <2>7, BooksKept
<1>16. Messages'
  <2> SUFFICES ASSUME NEW k \in Logger
               PROVE  Dealt(k)' \o OnTheWay(k)' = accepted'[k]
    BY DEF Messages
  <2>1. (IF buffer'[k] = NoBuf THEN << >> ELSE buffer'[k]) = (IF buffer[k] = NoBuf THEN << >> ELSE buffer[k])
    BY <1>1, <1>4, <1>8 DEF BufferTypes
  <2>2. OnTheWay(k)' = OnTheWay(k) /\ Dealt(k)' = Dealt(k)
    BY <1>5, <2>1 DEF OnTheWay, MsgsIn, Dealt
  <2>3. QED
    BY <1>1, <1>5, <2>2 DEF Messages
<1>17. QED
  BY <1>11, <1>12, <1>13, <1>14, <1>15, <1>16 DEF LogInv
-----------------------------------------------------------------------------
\* What any message leaves alone.
LEMMA AppendFrame ==
  ASSUME LogInv, NEW l \in Logger, AppendMsg(l)
  PROVE  /\ pc[l] = "open" /\ Ready /\ running /\ said[l] + 1 \in DOMAIN Lens[l]
         /\ said' = [said EXCEPT ![l] = said[l] + 1]
         /\ UNCHANGED <<pc, index, file, running, initialized, loggers, buffers2, writer>>
         /\ Phases' /\ Listing'
<1>1. LoggerTypes /\ Types /\ Phases /\ Listing
  BY InvType
<1>2. /\ pc[l] = "open" /\ said[l] + 1 \in DOMAIN Lens[l] /\ said' = [said EXCEPT ![l] = said[l] + 1]
      /\ UNCHANGED <<pc, index, file, running, initialized, loggers, buffers2, writer>>
  BY DEF AppendMsg, At, flags
<1>3. /\ Ready /\ running /\ initialized /\ pc[Main] \in {"add", "open"}
      /\ writer \in {"check", "lock", "waiting", "drain", "put"}
  BY <1>1, <1>2, MainIsUp
<1>4. Phases'
  BY <1>1, <1>2, <1>3 DEF Phases
<1>5. Listing'
  BY <1>1, <1>2, ListingSame
<1>6. QED
  BY <1>2, <1>3, <1>4, <1>5

\* A new buffer that is asked for comes with the message or not at all.
LEMMA NewBufferIs ==
  ASSUME LogInv, NEW l \in Logger, NEW m, Ready, ToNewBuffer(l, m)
  PROVE  \E given \in SUBSET {l} :
           /\ IsFiniteSet(given) /\ Cardinality(given) \in Nat /\ CountTypes'
           /\ alloc_buf_cnt' = alloc_buf_cnt + (buf_pool' - buf_pool) + Cardinality(given)
           /\ alloc_buf_cnt' <= BufMaxCnt /\ freed' = freed
           /\ buffer' = [buffer EXCEPT ![l] = IF l \in given THEN <<m>> ELSE NoBuf]
           /\ accepted' = [accepted EXCEPT ![l] = IF l \in given THEN Append(@, m) ELSE @]
<1>1. Types /\ Accounting /\ CountTypes
  BY InvType
<1>2. PICK given \in Served(<<l>>) :
        /\ Give(<<l>>, given)
        /\ buffer' = [buffer EXCEPT ![l] = IF l \in given THEN <<m>> ELSE NoBuf]
        /\ accepted' = [accepted EXCEPT ![l] = IF l \in given THEN Append(@, m) ELSE @]
  BY DEF ToNewBuffer
<1>3. /\ <<l>> \in Seq(Logger) /\ ToSet(<<l>>) = {l}
      /\ buf_pool \in Nat /\ alloc_buf_cnt \in Nat /\ buf_pool <= alloc_buf_cnt
      /\ alloc_buf_cnt <= BufMaxCnt
  BY <1>1, OneAsks, PoolBounded
<1>4. /\ given \subseteq {l} /\ IsFiniteSet(given) /\ Cardinality(given) \in Nat
      /\ buf_pool' \in Nat /\ alloc_buf_cnt' \in Nat
      /\ alloc_buf_cnt' = alloc_buf_cnt + (buf_pool' - buf_pool) + Cardinality(given)
      /\ alloc_buf_cnt' <= BufMaxCnt
      /\ freed' = freed
  BY <1>2, <1>3, Gives
<1>5. CountTypes'
  BY <1>1, <1>4 DEF CountTypes
<1>6. QED
  BY <1>2, <1>4, <1>5

\* The message goes to a buffer that was there, or to a new one, once the old
\* one is queued if there was one.
LEMMA AppendInvs ==
  ASSUME LogInv, NEW l \in Logger, AppendMsg(l), NEW asking \in Seq(Logger), Queues(asking),
         NEW x \in Held(l) \cup {NoBuf}, buffer' = [buffer EXCEPT ![l] = x],
         NEW new \in Seq(Nat), accepted' = [accepted EXCEPT ![l] = @ \o new],
         ToSet(asking) \subseteq {l}, l \in ToSet(asking) => buffer[l] # NoBuf,
         Mine(asking, l) \o Here(l)' = Here(l) \o new,
         CountTypes', Accounting'
  PROVE  LogInv'
<1>1. /\ LoggerTypes /\ BufferTypes /\ FileTypes /\ FlagTypes /\ CountTypes /\ ListTypes
      /\ Types /\ Phases /\ Listing /\ RefsCount /\ Accounting /\ Messages
  BY InvType
<1>2. /\ pc[l] = "open" /\ said[l] + 1 \in DOMAIN Lens[l]
      /\ said' = [said EXCEPT ![l] = said[l] + 1]
      /\ UNCHANGED <<pc, index, file, running, initialized, loggers, buffers2, writer>>
      /\ Phases' /\ Listing'
  BY AppendFrame
<1>3. Held(l) \subseteq Seq(Nat)
  BY MsgIsNat DEF Held
<1>4. BufferTypes'
  <2>1. buffer \in [Logger -> Seq(Nat) \cup {NoBuf}] /\ \A k \in Logger : buffer[k] # NoBuf => buffer[k] \in Held(k)
    BY <1>1 DEF BufferTypes
  <2>2. buffer' \in [Logger -> Seq(Nat) \cup {NoBuf}]
    BY <1>3, <2>1
  <2>3. \A k \in Logger : buffer'[k] # NoBuf => buffer'[k] \in Held(k)
    BY <2>1
  <2>4. QED
    BY <2>2, <2>3 DEF BufferTypes, Held
<1>5. LoggerTypes'
  <2>1. said[l] + 1 \in Nat /\ said[l] + 1 <= Len(Lens[l])
    <3>1. Lens[l] \in Seq(Nat \ {0})
      BY LogAssumption
    <3>2. DOMAIN Lens[l] = 1 .. Len(Lens[l]) /\ Len(Lens[l]) \in Nat
      BY <3>1
    <3>3. QED
      BY <1>2, <3>2
  <2>2. accepted' \in [Logger -> Seq(Nat)]
    BY <1>1 DEF LoggerTypes
  <2>3. refcnt' \in [Logger -> Int]
    BY DEF Queues
  <2>4. QED
    BY <1>1, <1>2, <2>1, <2>2, <2>3 DEF LoggerTypes
<1>6. Types'
  BY <1>1, <1>2, <1>4, <1>5, TypesSame DEF Types, Queues
<1>7. RefsCount'
  <2>1. \A k \in Logger : OwnRefs(k)' = OwnRefs(k)
    BY <1>2 DEF OwnRefs
  <2>2. \A k \in Logger : buffer'[k] # NoBuf => pc'[k] = "open"
    BY <1>1, <1>2 DEF RefsCount, At, BufferTypes
  <2>3. QED
    BY <1>1, <2>1, <2>2, RefsQueued
<1>8. Messages'
  <2>1. ASSUME NEW k \in Logger
        PROVE  \E n \in Seq(Nat) : /\ accepted'[k] = accepted[k] \o n
                                   /\ Mine(asking, k) \in Seq(Nat)
                                   /\ Mine(asking, k) \o Here(k)' = Here(k) \o n
    <3>1. CASE k = l
      <4>1. accepted'[l] = accepted[l] \o new
        BY <1>1 DEF LoggerTypes
      <4>2. Mine(asking, l) \in Seq(Nat)
        BY <1>1, FullWhen, CatNone DEF Mine
      <4>3. QED
        BY <3>1, <4>1, <4>2
    <3>2. CASE k # l
      <4>1. Mine(asking, k) = << >> /\ Here(k)' = Here(k) /\ accepted'[k] = accepted[k]
        BY <1>1, <3>2 DEF Mine, Here, LoggerTypes, BufferTypes
      <4>2. Here(k) \in Seq(Nat) /\ accepted[k] \in Seq(Nat) /\ << >> \in Seq(Nat)
        BY <1>1, HereType DEF LoggerTypes
      <4>3. << >> \o Here(k) = Here(k) \o << >> /\ accepted[k] = accepted[k] \o << >>
        BY <4>2
      <4>4. QED
        BY <4>1, <4>2, <4>3
    <3>3. QED
      BY <3>1, <3>2
  <2>2. QED
    BY <1>1, <1>2, <1>4, <2>1, MessagesQueued
<1>9. QED
  BY <1>2, <1>6, <1>7, <1>8 DEF LogInv

-----------------------------------------------------------------------------
\* An empty buffer is a buffer.
LEMMA EmptyIsNoNoBuf == << >> # NoBuf
<1>1. << >> \in Seq(Nat)
  OBVIOUS
<1>2. QED
  BY <1>1, LogAssumption

\* The three ways of a message.
LEMMA AppendWays ==
  ASSUME LogInv, NEW l \in Logger, AppendMsg(l), NEW m, m = said[l] + 1
  PROVE  \/ buffer[l] = NoBuf /\ ToNewBuffer(l, m) /\ UNCHANGED <<refcnt, buffers1, buffers2, loggers>>
         \/ /\ buffer[l] # NoBuf /\ ~Fits(l, m) /\ Queue(<<l>>) /\ ToNewBuffer(l, m)
            /\ UNCHANGED <<buffers2, loggers>>
         \/ /\ buffer[l] # NoBuf /\ Fits(l, m)
            /\ buffer' = [buffer EXCEPT ![l] = Append(@, m)]
            /\ accepted' = [accepted EXCEPT ![l] = Append(@, m)]
            /\ UNCHANGED <<refcnt, alloc_buf_cnt, buf_pool, freed, buffers1, buffers2, loggers>>
<1>1. running
  BY AppendFrame
<1>2. QED
  BY <1>1 DEF AppendMsg, bufs

\* A message is said.
LEMMA AppendKeeps ==
  ASSUME LogInv, NEW l \in Logger, AppendMsg(l)
  PROVE  LogInv'
<1> DEFINE m == said[l] + 1
<1>1. /\ LoggerTypes /\ BufferTypes /\ CountTypes /\ ListTypes
      /\ Types /\ Phases /\ Listing /\ RefsCount /\ Accounting /\ Messages
  BY InvType
<1>2. /\ pc[l] = "open" /\ Ready /\ m \in DOMAIN Lens[l]
      /\ UNCHANGED <<pc, initialized, loggers, buffers2, writer>>
  BY AppendFrame
<1>3. /\ m \in Nat /\ <<m>> \in Held(l) /\ <<m>> \in Seq(Nat)
      /\ buffer[l] # NoBuf /\ Fits(l, m) => Append(buffer[l], m) \in Held(l)
      /\ buffer[l] # NoBuf /\ ~Fits(l, m) => Full(l)
  BY <1>1, <1>2, Takes
<1>4. buffers1 \in Seq(Buf) /\ buffers2 \in Seq(Buf) /\ loggers \in Seq(Logger)
  BY <1>1 DEF ListTypes
<1>5. /\ buffer \in [Logger -> Seq(Nat) \cup {NoBuf}] /\ accepted \in [Logger -> Seq(Nat)]
      /\ alloc_buf_cnt \in Nat /\ buf_pool \in Nat /\ freed \in Nat
  BY <1>1 DEF BufferTypes, LoggerTypes, CountTypes
<1>6. Putting' = Putting /\ Putting \in Int /\ (Ready' => Ready)
  BY <1>2 DEF Putting, Ready
<1>7. <<m>> # NoBuf /\ << >> # NoBuf
  BY <1>3, LogAssumption, EmptyIsNoNoBuf
<1>8. Here(l)' = IF buffer'[l] = NoBuf THEN << >> ELSE buffer'[l]
  BY DEF Here
<1> HIDE DEF m
<1>9. CASE buffer[l] = NoBuf /\ ToNewBuffer(l, m) /\ UNCHANGED <<refcnt, buffers1, buffers2, loggers>>
  <2>1. PICK given \in SUBSET {l} :
           /\ IsFiniteSet(given) /\ Cardinality(given) \in Nat /\ CountTypes'
           /\ alloc_buf_cnt' = alloc_buf_cnt + (buf_pool' - buf_pool) + Cardinality(given)
           /\ alloc_buf_cnt' <= BufMaxCnt /\ freed' = freed
           /\ buffer' = [buffer EXCEPT ![l] = IF l \in given THEN <<m>> ELSE NoBuf]
           /\ accepted' = [accepted EXCEPT ![l] = IF l \in given THEN Append(@, m) ELSE @]
    BY <1>2, <1>9, NewBufferIs
  <2> DEFINE x == IF l \in given THEN <<m>> ELSE NoBuf
             new == IF l \in given THEN <<m>> ELSE << >>
  <2>2. Queues(<< >>)
    BY <1>1, <1>4, <1>9, NothingQueued
  <2>3. x \in Held(l) \cup {NoBuf} /\ buffer' = [buffer EXCEPT ![l] = x] /\ new \in Seq(Nat)
    BY <1>3, <2>1
  <2>4. accepted' = [accepted EXCEPT ![l] = @ \o new]
    <3>1. accepted[l] \in Seq(Nat)
      BY <1>5
    <3>2. accepted[l] \o <<m>> = Append(accepted[l], m) /\ accepted[l] \o << >> = accepted[l]
      BY <1>3, <3>1
    <3>3. accepted' = [accepted EXCEPT ![l] = accepted[l] \o new]
      BY <2>1, <3>2
    <3>4. QED
      BY <3>3
  <2>5. Mine(<< >>, l) \o Here(l)' = Here(l) \o new
    <3>1. Mine(<< >>, l) = << >> /\ Here(l) = << >>
      BY <1>9, NoneAsks DEF Mine, Here
    <3>2. Here(l)' = new
      BY <1>5, <1>7, <1>8, <2>1
    <3>3. QED
      BY <3>1, <3>2
  <2>6. Accounting'
    <3>1. HaveOne' = (HaveOne \ {}) \cup given /\ given \cap (HaveOne \ {}) = {}
      <4>1. \A k \in Logger : buffer'[k] # NoBuf <=> buffer[k] # NoBuf \/ k \in given
        BY <1>5, <1>7, <1>9, <2>1
      <4>2. QED
        BY <1>9, <2>1, <4>1 DEF HaveOne
    <3>2. Cardinality({}) = 0 /\ {} \in SUBSET HaveOne
      BY FS_EmptySet
    <3>3. buf_pool' \in Nat
      BY <2>1 DEF CountTypes
    <3>4. Balance({}, given, 0)
      BY <1>5, <1>6, <2>1, <3>2, <3>3 DEF Balance
    <3>5. AllLen' = AllLen + 0
      BY <1>1, <1>9 DEF AllLen, ListTypes
    <3>6. ListTypes'
      BY <2>2 DEF Queues
    <3>7. QED
      BY <1>1, <1>6, <2>1, <3>1, <3>2, <3>4, <3>5, <3>6, BooksKept
  <2> HIDE DEF x, new
  <2>7. QED
    BY <2>1, <2>2, <2>3, <2>4, <2>5, <2>6, NoneAsks, AppendInvs
<1>10. CASE /\ buffer[l] # NoBuf /\ ~Fits(l, m) /\ Queue(<<l>>) /\ ToNewBuffer(l, m)
            /\ UNCHANGED <<buffers2, loggers>>
  <2>1. PICK given \in SUBSET {l} :
           /\ IsFiniteSet(given) /\ Cardinality(given) \in Nat /\ CountTypes'
           /\ alloc_buf_cnt' = alloc_buf_cnt + (buf_pool' - buf_pool) + Cardinality(given)
           /\ alloc_buf_cnt' <= BufMaxCnt /\ freed' = freed
           /\ buffer' = [buffer EXCEPT ![l] = IF l \in given THEN <<m>> ELSE NoBuf]
           /\ accepted' = [accepted EXCEPT ![l] = IF l \in given THEN Append(@, m) ELSE @]
    BY <1>2, <1>10, NewBufferIs
  <2> DEFINE x == IF l \in given THEN <<m>> ELSE NoBuf
             new == IF l \in given THEN <<m>> ELSE << >>
  <2>1a. <<l>> \in Seq(Logger) /\ Once(<<l>>) /\ ToSet(<<l>>) = {l} /\ Len(<<l>>) = 1
    BY OneAsks
  <2>1b. /\ Full(l) /\ \A k \in ToSet(<<l>>) : Full(k)
    BY <1>3, <1>10, <2>1a
  <2>1c. buffers1' = buffers1 \o Filled(<<l>>) /\ Ref(<<l>>)
    BY <1>10 DEF Queue
  <2>2. Queues(<<l>>)
    BY <1>1, <1>4, <1>10, <2>1a, <2>1b, <2>1c, SomeQueued
  <2>3. x \in Held(l) \cup {NoBuf} /\ buffer' = [buffer EXCEPT ![l] = x] /\ new \in Seq(Nat)
    BY <1>3, <2>1
  <2>4. accepted' = [accepted EXCEPT ![l] = @ \o new]
    <3>1. accepted[l] \in Seq(Nat)
      BY <1>5
    <3>2. accepted[l] \o <<m>> = Append(accepted[l], m) /\ accepted[l] \o << >> = accepted[l]
      BY <1>3, <3>1
    <3>3. accepted' = [accepted EXCEPT ![l] = accepted[l] \o new]
      BY <2>1, <3>2
    <3>4. QED
      BY <3>3
  <2>5. Mine(<<l>>, l) \o Here(l)' = Here(l) \o new
    <3>1. Mine(<<l>>, l) = buffer[l] /\ Here(l) = buffer[l]
      BY <1>10, <2>1a DEF Mine, Here
    <3>2. Here(l)' = new
      BY <1>5, <1>7, <1>8, <2>1
    <3>3. QED
      BY <3>1, <3>2
  <2>6. Accounting'
    <3>1. HaveOne' = (HaveOne \ {l}) \cup given /\ given \cap (HaveOne \ {l}) = {}
      <4>1. \A k \in Logger : buffer'[k] # NoBuf <=> (buffer[k] # NoBuf /\ k # l) \/ k \in given
        BY <1>5, <1>7, <1>10, <2>1
      <4>2. QED
        BY <1>10, <2>1, <4>1 DEF HaveOne
    <3>2. Cardinality({l}) = 1 /\ {l} \in SUBSET HaveOne
      BY <1>10, FS_Singleton DEF HaveOne
    <3>3. buf_pool' \in Nat
      BY <2>1 DEF CountTypes
    <3>4. Balance({l}, given, 1)
      BY <1>5, <1>6, <2>1, <3>2, <3>3 DEF Balance
    <3>5. AllLen' = AllLen + 1
      BY <2>1a, <2>2 DEF Queues
    <3>6. ListTypes'
      BY <2>2 DEF Queues
    <3>7. QED
      BY <1>1, <1>6, <2>1, <3>1, <3>2, <3>4, <3>5, <3>6, BooksKept
  <2> HIDE DEF x, new
  <2>7. QED
    BY <1>10, <2>1, <2>1a, <2>2, <2>3, <2>4, <2>5, <2>6, AppendInvs
<1>11. CASE /\ buffer[l] # NoBuf /\ Fits(l, m)
            /\ buffer' = [buffer EXCEPT ![l] = Append(@, m)]
            /\ accepted' = [accepted EXCEPT ![l] = Append(@, m)]
            /\ UNCHANGED <<refcnt, alloc_buf_cnt, buf_pool, freed, buffers1, buffers2, loggers>>
  <2> DEFINE x == Append(buffer[l], m)
             new == <<m>>
  <2>1. x \in Held(l) /\ new \in Seq(Nat) /\ buffer[l] \in Seq(Nat) /\ x \in Seq(Nat)
    BY <1>1, <1>3, <1>11, FullWhen
  <2>2. Queues(<< >>)
    BY <1>1, <1>4, <1>11, NothingQueued
  <2>3. buffer' = [buffer EXCEPT ![l] = x] /\ x # NoBuf
    BY <1>11, <2>1, LogAssumption
  <2>4. accepted' = [accepted EXCEPT ![l] = @ \o new]
    <3>1. accepted[l] \in Seq(Nat)
      BY <1>5
    <3>2. accepted[l] \o <<m>> = Append(accepted[l], m)
      BY <1>3, <3>1
    <3>3. accepted' = [accepted EXCEPT ![l] = accepted[l] \o new]
      BY <1>11, <3>2
    <3>4. QED
      BY <3>3
  <2>5. Mine(<< >>, l) \o Here(l)' = Here(l) \o new
    <3>1. Mine(<< >>, l) = << >> /\ Here(l) = buffer[l]
      BY <1>11, NoneAsks DEF Mine, Here
    <3>2. buffer'[l] = x
      BY <1>5, <2>3
    <3>3. Here(l)' = x
      BY <1>8, <2>3, <3>2
    <3>4. << >> \o x = buffer[l] \o new
      BY <1>3, <2>1
    <3>5. QED
      BY <3>1, <3>3, <3>4
  <2>6. Accounting'
    <3>1. \A k \in Logger : buffer'[k] # NoBuf <=> buffer[k] # NoBuf
      BY <1>5, <1>11, <2>3
    <3>2. HaveOne' = (HaveOne \ {}) \cup {} /\ {} \cap (HaveOne \ {}) = {} /\ {} \in SUBSET HaveOne
      BY <3>1 DEF HaveOne
    <3>3. Cardinality({}) = 0 /\ IsFiniteSet({})
      BY FS_EmptySet
    <3>4. Balance({}, {}, 0)
      BY <1>5, <1>6, <1>11, <3>3 DEF Balance
    <3>5. AllLen' = AllLen + 0
      BY <1>1, <1>11 DEF AllLen, ListTypes
    <3>6. ListTypes' /\ CountTypes' /\ alloc_buf_cnt' <= BufMaxCnt
      BY <1>1, <1>11, <2>2 DEF Queues, CountTypes, Accounting
    <3>7. QED
      BY <1>1, <1>6, <3>2, <3>3, <3>4, <3>5, <3>6, BooksKept
  <2>7. CountTypes'
    BY <1>1, <1>11 DEF CountTypes
  <2> HIDE DEF x, new
  <2>8. QED
    BY <2>1, <2>2, <2>3, <2>4, <2>5, <2>6, <2>7, NoneAsks, AppendInvs
<1>12. QED
  BY <1>9, <1>10, <1>11, AppendWays DEF m

-----------------------------------------------------------------------------
\* A step that only queues, and may serve those who queued.
LEMMA QueuedKeeps ==
  ASSUME LogInv, NEW asking, Queues(asking),
         LoggerTypes', BufferTypes', FlagTypes', CountTypes', UNCHANGED <<file, accepted>>,
         Phases', Listing', Accounting',
         \A l \in Logger : OwnRefs(l)' = OwnRefs(l),
         \A l \in Logger : buffer'[l] # NoBuf => pc'[l] = "open",
         \A l \in Logger : Mine(asking, l) \in Seq(Nat) /\ Mine(asking, l) \o Here(l)' = Here(l)
  PROVE  LogInv'
<1>1. /\ LoggerTypes /\ BufferTypes /\ FileTypes /\ Types /\ RefsCount /\ Messages
  BY InvType
<1>2. Types'
  BY <1>1, TypesSame DEF Types, Queues
<1>3. RefsCount'
  BY <1>1, RefsQueued
<1>4. Messages'
  <2>1. ASSUME NEW l \in Logger
        PROVE  \E new \in Seq(Nat) : /\ accepted'[l] = accepted[l] \o new
                                     /\ Mine(asking, l) \in Seq(Nat)
                                     /\ Mine(asking, l) \o Here(l)' = Here(l) \o new
    <3>1. accepted[l] \in Seq(Nat) /\ Here(l) \in Seq(Nat)
      BY <1>1, HereType DEF LoggerTypes
    <3>2. accepted[l] \o << >> = accepted[l] /\ Here(l) \o << >> = Here(l) /\ << >> \in Seq(Nat)
      BY <3>1, CatNone
    <3>3. accepted'[l] = accepted[l]
      OBVIOUS
    <3>4. QED
      BY <3>2, <3>3
  <2>2. QED
    BY <1>1, <2>1, MessagesQueued
<1>5. QED
  BY <1>2, <1>3, <1>4 DEF LogInv

\* A step that writes a buffer, and hands it to the pool later or frees it.
LEMMA LeftKeeps ==
  ASSUME LogInv, NEW b \in Buf, Leaves(b),
         UNCHANGED <<pc, index, buffer, said, accepted, alloc_buf_cnt, buf_pool>>,
         UNCHANGED <<running, initialized, loggers>>,
         writer' \in Writing, freed' \in Nat, Phases',
         (Putting' - Putting) + (freed' - freed) = 1
  PROVE  LogInv'
<1>1. /\ LoggerTypes /\ BufferTypes /\ FlagTypes /\ CountTypes /\ ListTypes
      /\ Types /\ Listing /\ RefsCount /\ Accounting /\ Messages
  BY InvType
<1>2. /\ ListTypes' /\ FileTypes' /\ AllLen' = AllLen - 1 /\ refcnt' \in [Logger -> Int]
  BY DEF Leaves
<1>3. LoggerTypes' /\ FlagTypes' /\ CountTypes'
  BY <1>1, <1>2 DEF LoggerTypes, FlagTypes, CountTypes
<1>4. Types'
  BY <1>1, <1>2, <1>3, TypesSame DEF Types
<1>5. Listing'
  BY <1>1, ListingSame
<1>6. RefsCount'
  BY <1>1, RefsLeft
<1>7. Messages'
  BY <1>1, MessagesLeft
<1>8. Accounting'
  <2>1. HaveOne' = (HaveOne \ {}) \cup {} /\ {} \cap (HaveOne \ {}) = {} /\ {} \in SUBSET HaveOne
    BY DEF HaveOne
  <2>2. IsFiniteSet({}) /\ Cardinality({}) = 0
    BY FS_EmptySet
  <2>3. /\ alloc_buf_cnt \in Int /\ buf_pool \in Int /\ freed \in Int /\ freed' \in Int
        /\ Putting \in Int /\ Putting' \in Int
    BY <1>1 DEF CountTypes, Putting
  <2>4. Balance({}, {}, -1)
    <3>1. alloc_buf_cnt' = alloc_buf_cnt /\ buf_pool' = buf_pool
      OBVIOUS
    <3>2. alloc_buf_cnt' = alloc_buf_cnt + (buf_pool' - buf_pool) + (freed' - freed)
                            + (Putting' - Putting) + 0 - 0 + (-1)
      <4>1. (Putting' - Putting) + (freed' - freed) = 1
        OBVIOUS
      <4>2. alloc_buf_cnt \in Int /\ buf_pool \in Int
        BY <2>3
      <4>3. Putting' - Putting \in Int /\ freed' - freed \in Int
        BY <2>3
      <4>4. QED
        BY <3>1, <4>1, <4>2, <4>3
    <3>3. QED
      BY <2>2, <3>2, Zenon DEF Balance
  <2>5. AllLen \in Int
    BY <1>1 DEF AllLen, ListTypes
  <2>6. AllLen' = AllLen + (-1) /\ -1 \in Int
    BY <1>2, <2>5
  <2>7. alloc_buf_cnt' <= BufMaxCnt /\ (Ready' => Ready)
    BY <1>1 DEF Accounting, Ready
  <2>8. QED
    BY <1>1, <1>2, <1>3, <2>1, <2>2, <2>3, <2>4, <2>6, <2>7, BooksKept
<1>9. QED
  BY <1>4, <1>5, <1>6, <1>7, <1>8 DEF LogInv
-----------------------------------------------------------------------------
\* The writer writes a buffer it took.
LEMMA WritesKeeps ==
  ASSUME LogInv, WriterWrites
  PROVE  LogInv'
<1>1. /\ Types /\ Phases /\ CountTypes /\ ListTypes /\ FlagTypes
  BY InvType
<1>2. /\ writer = "drain" /\ buffers2 # << >> /\ WriteOut(Head(buffers2))
      /\ buffers2' = Tail(buffers2) /\ writer' = "put"
      /\ UNCHANGED <<pc, index, buffer, said, accepted, alloc_buf_cnt, buf_pool, freed>>
      /\ UNCHANGED <<running, initialized, loggers, buffers1>>
  BY DEF WriterWrites, bufs, flags
<1>3. Leaves(Head(buffers2)) /\ Head(buffers2) \in Buf
  <2>1. buffers2 \in Seq(Buf) /\ loggers' \in Seq(Logger)
    BY <1>1, <1>2 DEF ListTypes
  <2>2. QED
    BY <1>1, <1>2, <2>1, FirstLeaves
<1>4. Phases'
  BY <1>1, <1>2 DEF Phases, ListsEmpty
<1>5. (Putting' - Putting) + (freed' - freed) = 1 /\ freed' \in Nat
  BY <1>1, <1>2 DEF CountTypes, Putting
<1>6. writer' \in Writing
  BY <1>2 DEF Writing
<1>7. QED
  BY <1>2, <1>3, <1>4, <1>5, <1>6, LeftKeeps

\* It writes what is left, or ends.
LEMMA StopsKeeps ==
  ASSUME LogInv, WriterStops
  PROVE  LogInv'
<1>1. /\ Types /\ Phases /\ CountTypes /\ ListTypes /\ FlagTypes /\ Accounting
  BY InvType
<1>2. /\ writer = "stopping" /\ buffers2 = << >>
      /\ UNCHANGED <<alloc_buf_cnt, buf_pool, running, initialized, loggers, buffers2>>
  BY <1>1 DEF WriterStops, flags, Phases
<1>3. CASE AllWritten
  <2>1. /\ buffers1 = << >> /\ writer' = "done"
        /\ UNCHANGED <<pc, refcnt, index, buffer, said, accepted, file, freed, buffers1>>
    BY <1>3 DEF WriterStops, AllWritten, logger
  <2>2. Phases'
    BY <1>1, <1>2, <2>1 DEF Phases, ListsEmpty
  <2>3. Putting' = Putting /\ (Ready' => Ready)
    BY <1>2, <2>1 DEF Putting, Ready
  <2>4. Accounting' /\ CountTypes' /\ writer' \in Writing
    BY <1>1, <1>2, <2>1, <2>3, BooksSame DEF CountTypes, Writing
  <2>5. QED
    BY <1>2, <2>1, <2>2, <2>4, WriterMoves
<1>4. CASE ~AllWritten
  <2>1. /\ buffers1 # << >> /\ WriteOut(Head(buffers1)) /\ buffers1' = Tail(buffers1)
        /\ freed' = freed + 1 /\ UNCHANGED <<pc, index, buffer, said, accepted, writer>>
    BY <1>4 DEF WriterStops, AllWritten
  <2>2. Leaves(Head(buffers1)) /\ Head(buffers1) \in Buf
    <3>1. buffers1 \in Seq(Buf) /\ loggers' \in Seq(Logger)
      BY <1>1, <1>2 DEF ListTypes
    <3>2. QED
      BY <1>1, <1>2, <2>1, <3>1, FirstLeaves
  <2>3. Phases'
    BY <1>1, <1>2, <2>1 DEF Phases, ListsEmpty
  <2>4. (Putting' - Putting) + (freed' - freed) = 1 /\ freed' \in Nat
    BY <1>1, <1>2, <2>1 DEF CountTypes, Putting
  <2>5. writer' \in Writing
    BY <1>1, <2>1 DEF FlagTypes
  <2>6. QED
    BY <1>2, <2>1, <2>2, <2>3, <2>4, <2>5, LeftKeeps
<1>5. QED
  BY <1>3, <1>4

\* The writer waits, or takes the list over.
LEMMA SwapPhases ==
  ASSUME Types, Phases, NEW q, WaitOrSwap(q), writer \in {"lock", "waiting"},
         UNCHANGED <<pc, running, initialized, loggers>>
  PROVE  /\ Phases' /\ writer' \in Writing /\ buffers2 = << >> /\ Putting = 0 /\ Putting' = 0 /\ Ready
         /\ \/ buffers1' = q /\ buffers2' = buffers2
            \/ buffers1' = << >> /\ buffers2' = q
<1>1. buffers2 = << >>
  BY DEF Phases
<1>2. \/ writer' = "waiting" /\ buffers1' = q /\ buffers2' = buffers2
      \/ writer' = "drain" /\ buffers1' = << >> /\ buffers2' = q
  BY <1>1 DEF WaitOrSwap
<1>3. pc[Main] \in {"add", "open", "joining"} /\ pc[Main] \in Steps
  BY LoggerFacts DEF Phases, Types, LoggerTypes, Steps
<1>4. Phases'
  BY <1>1, <1>2, <1>3 DEF Phases, ListsEmpty
<1>5. Ready
  BY <1>3, LoggerFacts DEF Phases, Ready
<1>6. writer' \in Writing /\ Putting = 0 /\ Putting' = 0
  BY <1>2 DEF Writing, Putting
<1>7. QED
  BY <1>1, <1>2, <1>4, <1>5, <1>6

\* It takes the list over, or waits.
LEMMA LocksKeeps ==
  ASSUME LogInv, WriterLocks
  PROVE  LogInv'
<1>1. /\ LoggerTypes /\ BufferTypes /\ FileTypes /\ FlagTypes /\ CountTypes /\ ListTypes
      /\ Types /\ Phases /\ Listing /\ RefsCount /\ Accounting /\ Messages
  BY InvType
<1>2. /\ writer = "lock" /\ WaitOrSwap(buffers1)
      /\ UNCHANGED <<pc, refcnt, index, buffer, said, accepted, file>>
      /\ UNCHANGED <<running, initialized, loggers, alloc_buf_cnt, buf_pool, freed>>
  BY DEF WriterLocks, logger, bufs, flags
<1>3. /\ Phases' /\ writer' \in Writing /\ buffers2 = << >> /\ Putting = 0 /\ Putting' = 0 /\ Ready
      /\ \/ buffers1' = buffers1 /\ buffers2' = buffers2
         \/ buffers1' = << >> /\ buffers2' = buffers1
  BY <1>1, <1>2, SwapPhases
<1>4. Queues(<< >>)
  <2>1. buffers1' \in Seq(Buf) /\ buffers2' \in Seq(Buf) /\ loggers' \in Seq(Logger)
    BY <1>1, <1>2, <1>3 DEF ListTypes
  <2>2. QED
    BY <1>1, <1>2, <1>3, <2>1, NothingQueued
<1>5. LoggerTypes' /\ BufferTypes' /\ CountTypes' /\ FlagTypes'
  BY <1>1, <1>2, <1>3, TypesSame DEF FlagTypes
<1>6. Listing'
  BY <1>1, <1>2, ListingSame
<1>7. Accounting'
  <2>1. HaveOne' = (HaveOne \ {}) \cup {} /\ {} \cap (HaveOne \ {}) = {} /\ {} \in SUBSET HaveOne
    BY <1>2 DEF HaveOne
  <2>2. IsFiniteSet({}) /\ Cardinality({}) = 0
    BY FS_EmptySet
  <2>3. alloc_buf_cnt \in Int /\ buf_pool \in Int /\ freed \in Int
    BY <1>1 DEF CountTypes
  <2>4. Balance({}, {}, 0)
    BY <1>2, <1>3, <2>2, <2>3 DEF Balance
  <2>5. AllLen' = AllLen + 0 /\ ListTypes'
    BY <1>4, NoneAsks DEF Queues
  <2>6. alloc_buf_cnt' <= BufMaxCnt
    BY <1>1, <1>2 DEF Accounting
  <2>7. QED
    BY <1>1, <1>3, <1>5, <2>1, <2>2, <2>4, <2>5, <2>6, BooksKept
<1>8. ASSUME NEW l \in Logger
      PROVE  /\ OwnRefs(l)' = OwnRefs(l)
             /\ buffer'[l] # NoBuf => pc'[l] = "open"
             /\ Mine(<< >>, l) \in Seq(Nat) /\ Mine(<< >>, l) \o Here(l)' = Here(l)
  <2>1. OwnRefs(l)' = OwnRefs(l) /\ Here(l)' = Here(l)
    BY <1>2 DEF OwnRefs, Here
  <2>2. buffer'[l] # NoBuf => pc'[l] = "open"
    BY <1>1, <1>2 DEF RefsCount, At
  <2>3. Mine(<< >>, l) = << >> /\ Here(l) \in Seq(Nat)
    BY <1>1, NoneAsks, HereType DEF Mine
  <2>4. QED
    BY <2>1, <2>2, <2>3, CatNone
<1>9. QED
  BY <1>2, <1>3, <1>4, <1>5, <1>6, <1>7, <1>8, QueuedKeeps

-----------------------------------------------------------------------------
\* As many loggers as places, if each is there once.
LEMMA OnceCounts ==
  ASSUME NEW s \in Seq(Logger), Once(s)
  PROVE  IsFiniteSet(ToSet(s)) /\ Cardinality(ToSet(s)) = Len(s) /\ Len(s) \in Nat
<1> DEFINE n == Len(s)
           S == ToSet(s)
<1>1. n \in Nat /\ DOMAIN s = 1 .. n /\ S = {s[i] : i \in 1 .. n}
  BY DEF ToSet
<1>2. IsFiniteSet(1 .. n) /\ Cardinality(1 .. n) = n
  <2>1. n \in Nat /\ 1 \in Int /\ n \in Int
    BY <1>1
  <2> HIDE DEF n
  <2>2. QED
    BY <2>1, FS_Interval
<1>3. s \in [1 .. n -> S]
  BY <1>1
<1>4. s \in Bijection(1 .. n, S)
  BY <1>1, <1>3 DEF Bijection, Injection, Surjection, IsInjective, Once
<1>5. ExistsBijection(1 .. n, S)
  BY <1>4 DEF ExistsBijection
<1>6. QED
  BY <1>1, <1>2, <1>5, FS_Bijection

\* It collects what the loggers hold.
LEMMA WakesKeeps ==
  ASSUME LogInv, WriterWakes
  PROVE  LogInv'
<1> DEFINE Q == ToSet(Holding)
           q == buffers1 \o Filled(Holding)
<1>1. /\ LoggerTypes /\ BufferTypes /\ FileTypes /\ FlagTypes /\ CountTypes /\ ListTypes
      /\ Types /\ Phases /\ Listing /\ RefsCount /\ Accounting /\ Messages
  BY InvType
<1>2. /\ writer = "waiting" /\ WaitOrSwap(q) /\ Ref(Holding)
      /\ UNCHANGED <<pc, index, said, accepted, file, running, initialized, loggers>>
  BY DEF WriterWakes, flags
<1>3. PICK given \in Served(Holding) :
        /\ Give(Holding, given)
        /\ buffer' = [l \in Logger |-> IF l \notin Q THEN buffer[l]
                                       ELSE IF l \in given THEN << >> ELSE NoBuf]
  BY DEF WriterWakes
<1>4. /\ Phases' /\ writer' \in Writing /\ buffers2 = << >> /\ Putting = 0 /\ Putting' = 0 /\ Ready
      /\ \/ buffers1' = q /\ buffers2' = buffers2
         \/ buffers1' = << >> /\ buffers2' = q
  BY <1>1, <1>2, SwapPhases
<1>5. /\ Holding \in Seq(Logger) /\ Once(Holding)
      /\ \A l \in Q : l \in Logger /\ pc[l] = "open" /\ buffer[l] # NoBuf /\ Full(l)
  BY <1>1, WakersAsk
<1>6. /\ buf_pool \in Nat /\ alloc_buf_cnt \in Nat /\ buf_pool <= alloc_buf_cnt
      /\ alloc_buf_cnt <= BufMaxCnt
  BY <1>1, <1>4, PoolBounded
<1>7. /\ given \subseteq Q /\ IsFiniteSet(given) /\ Cardinality(given) \in Nat
      /\ buf_pool' \in Nat /\ alloc_buf_cnt' \in Nat
      /\ alloc_buf_cnt' = alloc_buf_cnt + (buf_pool' - buf_pool) + Cardinality(given)
      /\ alloc_buf_cnt' <= BufMaxCnt
      /\ freed' = freed
  BY <1>3, <1>5, <1>6, Gives
<1>8. Queues(Holding)
  <2>1. loggers' \in Seq(Logger)
    BY <1>1, <1>2 DEF ListTypes
  <2>2. \/ buffers1' = buffers1 \o Filled(Holding) /\ buffers2' = buffers2
        \/ buffers2 = << >> /\ buffers1' = << >> /\ buffers2' = buffers1 \o Filled(Holding)
    BY <1>4
  <2>3. \A k \in ToSet(Holding) : Full(k)
    BY <1>5
  <2>4. QED
    BY <1>1, <1>2, <1>5, <2>1, <2>2, <2>3, SomeQueued
<1> HIDE DEF q
<1>9. << >> # NoBuf /\ << >> \in Seq(Nat) /\ \A l \in Logger : << >> \in Held(l)
  BY EmptyIsNoNoBuf, LengthNone, Limits DEF Held
<1>10. BufferTypes'
  BY <1>1, <1>3, <1>9 DEF BufferTypes
<1>11. LoggerTypes' /\ CountTypes' /\ FlagTypes'
  <2>1. refcnt' \in [Logger -> Int]
    BY <1>8 DEF Queues
  <2>2. LoggerTypes'
    BY <1>1, <1>2, <2>1 DEF LoggerTypes
  <2>3. CountTypes' /\ FlagTypes'
    BY <1>1, <1>2, <1>4, <1>7 DEF CountTypes, FlagTypes
  <2>4. QED
    BY <2>2, <2>3
<1>12. Listing'
  BY <1>1, <1>2, ListingSame
<1>13. Accounting'
  <2>1. \A l \in Logger : buffer'[l] # NoBuf <=> (buffer[l] # NoBuf /\ l \notin Q) \/ l \in given
    BY <1>3, <1>7, <1>9
  <2>2. /\ HaveOne' = (HaveOne \ Q) \cup given /\ given \cap (HaveOne \ Q) = {}
        /\ Q \in SUBSET HaveOne
    BY <1>5, <1>7, <2>1 DEF HaveOne
  <2>3. Cardinality(Q) = Len(Holding) /\ Len(Holding) \in Nat
    BY <1>5, OnceCounts
  <2>4. freed \in Int
    BY <1>1 DEF CountTypes
  <2>5. Balance(Q, given, Len(Holding))
    BY <1>4, <1>6, <1>7, <2>3, <2>4, SMTT(30) DEF Balance
  <2>6. AllLen' = AllLen + Len(Holding) /\ ListTypes'
    BY <1>8 DEF Queues
  <2> HIDE DEF Q
  <2>7. QED
    BY <1>1, <1>4, <1>7, <1>11, <2>2, <2>3, <2>5, <2>6, BooksKept
<1>14. ASSUME NEW l \in Logger
       PROVE  /\ OwnRefs(l)' = OwnRefs(l)
              /\ buffer'[l] # NoBuf => pc'[l] = "open"
              /\ Mine(Holding, l) \in Seq(Nat) /\ Mine(Holding, l) \o Here(l)' = Here(l)
  <2>1. OwnRefs(l)' = OwnRefs(l) /\ pc'[l] = pc[l]
    BY <1>2 DEF OwnRefs
  <2>2. Here(l) \in Seq(Nat) /\ (buffer[l] # NoBuf => pc[l] = "open")
    BY <1>1, HereType DEF RefsCount, At
  <2>3. CASE l \in Q
    <3>1. Here(l)' = << >> /\ Mine(Holding, l) = Here(l) /\ pc[l] = "open"
      BY <1>3, <1>5, <2>3 DEF Here, Mine
    <3>2. QED
      BY <2>1, <2>2, <3>1, CatNone
  <2>4. CASE l \notin Q
    <3>1. Here(l)' = Here(l) /\ Mine(Holding, l) = << >> /\ buffer'[l] = buffer[l]
      BY <1>3, <2>4 DEF Here, Mine
    <3>2. QED
      BY <2>1, <2>2, <3>1, CatNone
  <2>5. QED
    BY <2>3, <2>4
<1>15. QED
  BY <1>2, <1>4, <1>8, <1>10, <1>11, <1>12, <1>13, <1>14, QueuedKeeps
-----------------------------------------------------------------------------
\* A list of nobody is empty.
LEMMA NobodyListed ==
  ASSUME NEW s \in Seq(Logger)
  PROVE  ToSet(s) = {} <=> s = << >>
<1>1. DOMAIN s = 1 .. Len(s) /\ Len(s) \in Nat /\ (s = << >> <=> Len(s) = 0)
  OBVIOUS
<1>2. ToSet(s) = {s[i] : i \in 1 .. Len(s)}
  BY <1>1 DEF ToSet
<1>3. Len(s) # 0 => 1 \in 1 .. Len(s)
  BY <1>1
<1>4. QED
  BY <1>1, <1>2, <1>3

\* The place of the thread that closes, and the flag that stops the writer.
LEMMA CloseMoves ==
  ASSUME LogInv, ~Overlap, NEW l \in Logger, Close(l)
  PROVE  /\ pc[l] = "open" /\ running /\ Ready /\ Unlist(l) /\ GiveUpBuffer(l)
         /\ buffer' = [buffer EXCEPT ![l] = NoBuf]
         /\ UNCHANGED <<said, accepted, file, writer, initialized, buffers2>>
         /\ pc' \in [Logger -> Steps] /\ \A k \in Logger : k # l => pc'[k] = pc[k]
         /\ pc'[l] \in {"deleted", "joining"} /\ running' \in BOOLEAN
         /\ Phases' /\ Listing' /\ loggers' \in Seq(Logger) /\ index' \in [Logger -> Nat]
<1>1. LoggerTypes /\ FlagTypes /\ Types /\ Phases /\ Listing
  BY InvType
<1>2. pc[l] = "open" /\ (l = Main => \A k \in Logger \ {Main} : pc[k] = "closed")
  BY DEF Close, At
<1>3. /\ running /\ Ready /\ initialized /\ pc[Main] \in {"add", "open"}
      /\ l # Main => pc[Main] = "open"
      /\ writer \in {"check", "lock", "waiting", "drain", "put"}
  BY <1>1, <1>2, MainIsUp
<1>4. /\ Unlist(l) /\ GiveUpBuffer(l) /\ buffer' = [buffer EXCEPT ![l] = NoBuf]
      /\ running' = (loggers' # << >>)
      /\ pc' = [pc EXCEPT ![l] = IF running' THEN "deleted" ELSE "joining"]
      /\ UNCHANGED <<said, accepted, file, writer, initialized, buffers2>>
  BY <1>3 DEF Close, Goto
<1>5. /\ loggers' \in Seq(Logger) /\ ToSet(loggers') = ToSet(loggers) \ {l}
      /\ index' \in [Logger -> Nat] /\ \A k \in Logger : index'[k] < Cardinality(Logger)
      /\ \A i \in 1 .. Len(loggers') : index'[loggers'[i]] = i - 1
  BY <1>1, <1>2, <1>4, UnlistIs
<1>6. /\ pc' \in [Logger -> Steps] /\ pc'[l] = (IF running' THEN "deleted" ELSE "joining")
      /\ \A k \in Logger : k # l => pc'[k] = pc[k]
  BY <1>1, <1>4 DEF LoggerTypes, Steps
<1>7. ToSet(loggers') = {k \in Logger : pc'[k] = "open"}
  BY <1>1, <1>5, <1>6 DEF Listing
<1>8. Listing'
  BY <1>5, <1>7 DEF Listing
<1>9. CASE l = Main
  <2>1. ToSet(loggers') = {}
    BY <1>2, <1>6, <1>7, <1>9
  <2>2. loggers' = << >> /\ ~running'
    BY <1>4, <1>5, <2>1, NobodyListed
  <2>3. Phases'
    BY <1>1, <1>2, <1>3, <1>4, <1>6, <1>9, <2>2, LoggerFacts DEF Phases, ListsEmpty
  <2>4. QED
    BY <1>2, <1>3, <1>4, <1>5, <1>6, <1>8, <2>2, <2>3
<1>10. CASE l # Main
  <2>1. Main \in ToSet(loggers')
    BY <1>3, <1>6, <1>7, <1>10, LoggerFacts
  <2>2. loggers' # << >> /\ running'
    BY <1>4, <1>5, <2>1, NobodyListed
  <2>3. Phases'
    BY <1>1, <1>2, <1>3, <1>4, <1>6, <1>10, <2>2, LoggerFacts DEF Phases, ListsEmpty
  <2>4. QED
    BY <1>2, <1>3, <1>4, <1>5, <1>6, <1>8, <2>2, <2>3
<1>11. QED
  BY <1>9, <1>10

\* Where the buffer of the logger that closes goes.
LEMMA CloseQueues ==
  ASSUME LogInv, NEW l \in Logger, GiveUpBuffer(l), loggers' \in Seq(Logger), UNCHANGED buffers2
  PROVE  /\ Queues(GivenUp(l)) /\ UNCHANGED <<alloc_buf_cnt, freed>>
         /\ buf_pool' = buf_pool + (IF buffer[l] = << >> THEN 1 ELSE 0)
<1>1. Types /\ CountTypes /\ ListTypes
  BY InvType
<1>2. << >> # NoBuf /\ buf_pool \in Nat
  BY <1>1, EmptyIsNoNoBuf DEF CountTypes
<1>3. CASE buffer[l] = << >>
  <2>1. buf_pool' = buf_pool + 1 /\ UNCHANGED <<alloc_buf_cnt, freed, buffers1, refcnt>>
    BY <1>3 DEF GiveUpBuffer
  <2>2. buffers1' \in Seq(Buf) /\ buffers2' \in Seq(Buf)
    BY <1>1, <2>1 DEF ListTypes
  <2>3. Queues(<< >>)
    BY <1>1, <2>1, <2>2, NothingQueued
  <2>4. QED
    BY <1>3, <2>1, <2>3 DEF GivenUp
<1>4. CASE buffer[l] # << >>
  <2>1. Queue(GivenUp(l)) /\ UNCHANGED <<alloc_buf_cnt, buf_pool, freed>>
    BY <1>4 DEF GiveUpBuffer, GivenUp, bufs
  <2>2. buffers1' = buffers1 \o Filled(GivenUp(l)) /\ Ref(GivenUp(l))
    BY <2>1 DEF Queue
  <2>3. /\ GivenUp(l) \in Seq(Logger) /\ Once(GivenUp(l))
        /\ \A k \in ToSet(GivenUp(l)) : Full(k)
    BY <1>1, CloserAsks
  <2>4. Queues(GivenUp(l))
    BY <1>1, <2>2, <2>3, SomeQueued
  <2>5. QED
    BY <1>2, <1>4, <2>1, <2>4
<1>5. QED
  BY <1>3, <1>4

\* A logger leaves the list.
LEMMA CloseKeeps ==
  ASSUME LogInv, ~Overlap, NEW l \in Logger, Close(l)
  PROVE  LogInv'
<1> DEFINE Q == IF buffer[l] = NoBuf THEN {} ELSE {l}
           n == Len(GivenUp(l))
<1>1. /\ LoggerTypes /\ BufferTypes /\ FlagTypes /\ CountTypes /\ ListTypes
      /\ Types /\ RefsCount /\ Accounting
  BY InvType
<1>2. /\ pc[l] = "open" /\ running /\ Ready /\ Unlist(l) /\ GiveUpBuffer(l)
      /\ buffer' = [buffer EXCEPT ![l] = NoBuf]
      /\ UNCHANGED <<said, accepted, file, writer, initialized, buffers2>>
      /\ pc' \in [Logger -> Steps] /\ \A k \in Logger : k # l => pc'[k] = pc[k]
      /\ pc'[l] \in {"deleted", "joining"} /\ running' \in BOOLEAN
      /\ Phases' /\ Listing' /\ loggers' \in Seq(Logger) /\ index' \in [Logger -> Nat]
  BY CloseMoves
<1>3. /\ Queues(GivenUp(l)) /\ UNCHANGED <<alloc_buf_cnt, freed>>
      /\ buf_pool' = buf_pool + (IF buffer[l] = << >> THEN 1 ELSE 0)
  BY <1>2, CloseQueues
<1>4. /\ GivenUp(l) \in Seq(Logger) /\ n \in Nat
      /\ ToSet(GivenUp(l)) = IF buffer[l] = NoBuf \/ buffer[l] = << >> THEN {} ELSE {l}
  BY <1>1, CloserAsks
<1>5. n = IF buffer[l] = NoBuf \/ buffer[l] = << >> THEN 0 ELSE 1
  BY NoneAsks, OneAsks DEF GivenUp
<1>6. /\ buffer' \in [Logger -> Seq(Nat) \cup {NoBuf}] /\ buffer'[l] = NoBuf
      /\ \A k \in Logger : k # l => buffer'[k] = buffer[k]
  BY <1>1, <1>2 DEF BufferTypes
<1>7. LoggerTypes' /\ BufferTypes' /\ FlagTypes' /\ CountTypes'
  <2>1. refcnt' \in [Logger -> Int]
    BY <1>3 DEF Queues
  <2>2. LoggerTypes'
    BY <1>1, <1>2, <2>1 DEF LoggerTypes
  <2>3. BufferTypes'
    BY <1>1, <1>6 DEF BufferTypes
  <2>4. buf_pool' \in Nat
    BY <1>1, <1>3 DEF CountTypes
  <2>5. FlagTypes' /\ CountTypes'
    BY <1>1, <1>2, <1>3, <2>4 DEF FlagTypes, CountTypes
  <2>6. QED
    BY <2>2, <2>3, <2>5
<1>8. Accounting'
  <2>1. HaveOne' = (HaveOne \ Q) \cup {} /\ {} \cap (HaveOne \ Q) = {} /\ Q \in SUBSET HaveOne
    BY <1>6 DEF HaveOne
  <2>2. IsFiniteSet({}) /\ Cardinality({}) = 0 /\ Cardinality({l}) = 1
    BY FS_EmptySet, FS_Singleton
  <2>3. Cardinality(Q) = IF buffer[l] = NoBuf THEN 0 ELSE 1
    BY <2>2
  <2>4. << >> # NoBuf
    BY EmptyIsNoNoBuf
  <2>5. Putting' = Putting /\ Putting \in Int
    BY <1>2 DEF Putting
  <2>6. alloc_buf_cnt \in Int /\ buf_pool \in Int /\ freed \in Int
    BY <1>1 DEF CountTypes
  <2> HIDE DEF Q, n
  <2>7. Balance(Q, {}, n)
    BY <1>3, <1>5, <2>2, <2>3, <2>4, <2>5, <2>6 DEF Balance
  <2>8. AllLen' = AllLen + n /\ ListTypes'
    BY <1>3 DEF Queues, n
  <2>9. alloc_buf_cnt' <= BufMaxCnt
    BY <1>1, <1>3 DEF Accounting
  <2>10. n \in Int
    BY <1>4
  <2>11. QED
    BY <1>1, <1>2, <1>7, <2>1, <2>2, <2>5, <2>7, <2>8, <2>9, <2>10, BooksKept
<1>9. ASSUME NEW k \in Logger
      PROVE  /\ OwnRefs(k)' = OwnRefs(k)
             /\ buffer'[k] # NoBuf => pc'[k] = "open"
             /\ Mine(GivenUp(l), k) \in Seq(Nat) /\ Mine(GivenUp(l), k) \o Here(k)' = Here(k)
  <2>1. Here(k) \in Seq(Nat) /\ (buffer[k] # NoBuf => pc[k] = "open")
    BY <1>1, HereType DEF RefsCount, At
  <2>2. CASE k = l
    <3>1. OwnRefs(l)' = 2 /\ OwnRefs(l) = 2
      BY <1>2 DEF OwnRefs
    <3>2. Here(l)' = << >> /\ Mine(GivenUp(l), l) = Here(l)
      BY <1>4, <1>6 DEF Here, Mine
    <3>3. QED
      BY <1>6, <2>1, <2>2, <3>1, <3>2, CatNone
  <2>3. CASE k # l
    <3>1. OwnRefs(k)' = OwnRefs(k) /\ buffer'[k] = buffer[k] /\ pc'[k] = pc[k]
      BY <1>2, <1>6, <2>3 DEF OwnRefs
    <3>2. Here(k)' = Here(k) /\ Mine(GivenUp(l), k) = << >>
      BY <1>4, <2>3, <3>1 DEF Here, Mine
    <3>3. QED
      BY <2>1, <3>1, <3>2, CatNone
  <2>4. QED
    BY <2>2, <2>3
<1>10. QED
  BY <1>2, <1>3, <1>7, <1>8, <1>9, QueuedKeeps

(***************************************************************************)
(* The theorems.                                                           *)
(***************************************************************************)
LEMMA InitHolds == Init => LogInv
<1> SUFFICES ASSUME Init PROVE LogInv
  OBVIOUS
<1>1. /\ pc = [l \in Logger |-> "closed"]
      /\ refcnt = [l \in Logger |-> 0] /\ index = [l \in Logger |-> 0]
      /\ buffer = [l \in Logger |-> NoBuf]
      /\ said = [l \in Logger |-> 0] /\ accepted = [l \in Logger |-> << >>]
      /\ file = [l \in Logger |-> NoFile]
      /\ running = FALSE /\ initialized = FALSE
      /\ alloc_buf_cnt = 0 /\ buf_pool = 0 /\ freed = 0
      /\ loggers = << >> /\ buffers1 = << >> /\ buffers2 = << >>
      /\ writer = "none"
  BY DEF Init
<1>2. Types
  <2>1. \A l \in Logger : Len(Lens[l]) \in Nat
    BY LogAssumption
  <2>2. LoggerTypes
    <3>1. << >> \in Seq(Nat)
      OBVIOUS
    <3>2. QED
      BY <1>1, <2>1, <3>1 DEF LoggerTypes, Steps
  <2>3. BufferTypes
    BY <1>1 DEF BufferTypes
  <2>4. FileTypes
    BY <1>1, NoFileIsGood DEF FileTypes
  <2>5. FlagTypes /\ CountTypes /\ ListTypes
    <3>1. << >> \in Seq(Logger) /\ << >> \in Seq(Buf)
      OBVIOUS
    <3>2. FlagTypes /\ CountTypes
      BY <1>1 DEF FlagTypes, CountTypes, Writing
    <3>3. QED
      BY <1>1, <3>1, <3>2 DEF ListTypes
  <2>6. QED
    BY <2>2, <2>3, <2>4, <2>5 DEF Types
<1>3. Phases
  BY <1>1, LoggerFacts DEF Phases, ListsEmpty
<1>4. Listing
  <2>1. 0 < Cardinality(Logger)
    <3>1. Logger # {} /\ IsFiniteSet(Logger) /\ Cardinality(Logger) \in Nat
      BY LoggerFacts
    <3>2. Cardinality(Logger) # 0
      BY <3>1, FS_EmptySet
    <3>3. QED
      BY <3>1, <3>2
  <2>2. ToSet(loggers) = {} /\ Len(loggers) = 0
    BY <1>1, NoneAsks
  <2>3. QED
    BY <1>1, <2>1, <2>2 DEF Listing
<1>5. RefsCount
  <2> SUFFICES ASSUME NEW l \in Logger
               PROVE  refcnt[l] = OwnRefs(l) + Waiting(l) /\ buffer[l] = NoBuf
    BY DEF RefsCount
  <2>1. Waiting(l) = Count(<< >>, l) + Count(<< >>, l)
    BY <1>1, <1>2, WaitingIs DEF Types
  <2>2. Waiting(l) = 0
    BY <2>1, CountNone
  <2>3. OwnRefs(l) = 0 /\ refcnt[l] = 0 /\ buffer[l] = NoBuf
    BY <1>1 DEF OwnRefs
  <2>4. QED
    BY <2>2, <2>3
<1>6. Accounting
  BY <1>1, LogAssumption DEF Accounting, Ready
<1>7. Messages
  <2> SUFFICES ASSUME NEW l \in Logger
               PROVE  Dealt(l) \o OnTheWay(l) = accepted[l]
    BY DEF Messages
  <2>1. Dealt(l) = << >> /\ accepted[l] = << >>
    BY <1>1, DealtIs, NoFileIsGood
  <2>2. Waiting(l) = Count(<< >>, l) + Count(<< >>, l)
    BY <1>1, <1>2, WaitingIs DEF Types
  <2>3. AllMsgs(l) = << >>
    BY <1>2, <2>2, CountNone, WaitingIs DEF Types
  <2>4. OnTheWay(l) = << >> \o << >>
    BY <1>1, <1>2, <2>3, WayIs DEF Types, Here
  <2>5. QED
    BY <2>1, <2>4
<1>8. QED
  BY <1>2, <1>3, <1>4, <1>5, <1>6, <1>7 DEF LogInv

\* A step that changes nothing keeps the invariant.
LEMMA StutterKeeps ==
  ASSUME LogInv, UNCHANGED vars
  PROVE  LogInv'
<1>1. /\ LoggerTypes /\ BufferTypes /\ FileTypes /\ FlagTypes /\ CountTypes /\ ListTypes
      /\ Types /\ Phases /\ Listing /\ RefsCount /\ Accounting /\ Messages
  BY InvType
<1>2. /\ UNCHANGED <<pc, refcnt, index, buffer, said, accepted, file>>
      /\ UNCHANGED <<running, initialized, loggers, buffers1, buffers2, writer>>
      /\ UNCHANGED <<alloc_buf_cnt, buf_pool, freed>>
  BY DEF vars, logger, bufs, flags, lists
<1>3. Phases'
  BY <1>1, <1>2 DEF Phases, ListsEmpty
<1>4. Putting' = Putting /\ (Ready' => Ready)
  BY <1>2 DEF Putting, Ready
<1>5. Accounting' /\ CountTypes' /\ writer' \in Writing
  BY <1>1, <1>2, <1>4, BooksSame DEF CountTypes, FlagTypes
<1>6. QED
  BY <1>2, <1>3, <1>5, WriterMoves

\* Each step keeps the invariant.
LEMMA StepKeeps ==
  ASSUME LogInv, ~Overlap, Next
  PROVE  LogInv'
<1>1. CASE \E l \in Logger : Open(l) \/ AppendMsg(l) \/ Close(l) \/ GoesOn(l)
  <2>1. PICK l \in Logger : Open(l) \/ AppendMsg(l) \/ Close(l) \/ GoesOn(l)
    BY <1>1
  <2>2. CASE Open(l)
    BY <2>2, OpenKeeps
  <2>3. CASE AppendMsg(l)
    BY <2>3, AppendKeeps
  <2>4. CASE Close(l)
    BY <2>4, CloseKeeps
  <2>5. CASE InitFlags(l)
    BY <2>5, InitFlagsKeeps
  <2>6. CASE InitRest(l)
    BY <2>6, InitRestKeeps
  <2>7. CASE AddLogger(l)
    BY <2>7, AddKeeps
  <2>8. CASE JoinAndUninit(l)
    BY <2>8, UninitKeeps
  <2>9. CASE Unref(l)
    BY <2>9, UnrefKeeps
  <2>10. QED
    BY <2>1, <2>2, <2>3, <2>4, <2>5, <2>6, <2>7, <2>8, <2>9 DEF GoesOn
<1>2. CASE Writer
  <2>1. CASE WriterChecks
    BY <2>1, ChecksKeeps
  <2>2. CASE WriterLocks
    BY <2>2, LocksKeeps
  <2>3. CASE WriterWakes
    BY <2>3, WakesKeeps
  <2>4. CASE WriterWrites
    BY <2>4, WritesKeeps
  <2>5. CASE WriterPuts
    BY <2>5, PutsKeeps
  <2>6. CASE WriterDrained
    BY <2>6, DrainedKeeps
  <2>7. CASE WriterStops
    BY <2>7, StopsKeeps
  <2>8. QED
    BY <1>2, <2>1, <2>2, <2>3, <2>4, <2>5, <2>6, <2>7 DEF Writer
<1>3. QED
  BY <1>1, <1>2 DEF Next

\* The invariant holds throughout, if the logger that is opened first is closed
\* last and nobody calls meanwhile.
THEOREM InvHolds ==
  ASSUME ~Overlap
  PROVE  Spec => []LogInv
<1>1. LogInv /\ [Next]_vars => LogInv'
  BY StepKeeps, StutterKeeps
<1>2. QED
  BY <1>1, InitHolds, PTL DEF Spec
-----------------------------------------------------------------------------
\* What the invariant says of each property.
LEMMA InvTypeOK == LogInv => TypeOK
<1> SUFFICES ASSUME LogInv PROVE TypeOK
  OBVIOUS
<1>1. /\ LoggerTypes /\ BufferTypes /\ FlagTypes /\ ListTypes
      /\ Types /\ Phases /\ Listing /\ RefsCount
  BY InvType
<1>2. refcnt \in [Logger -> Nat]
  <2>1. ASSUME NEW l \in Logger
        PROVE  refcnt[l] \in Nat
    <3>1. refcnt[l] = OwnRefs(l) + Waiting(l) /\ Waiting(l) \in Nat /\ OwnRefs(l) \in Nat
      BY <1>1, WaitingIs DEF RefsCount, OwnRefs
    <3>2. QED
      BY <3>1
  <2>2. QED
    BY <1>1, <2>1 DEF LoggerTypes
<1>3. index \in [Logger -> 0 .. Cardinality(Logger) - 1]
  BY <1>1, LoggerFacts DEF LoggerTypes, Listing
<1>4. \A l \in Logger : said[l] \in 0 .. Len(Lens[l])
  BY <1>1, LogAssumption DEF LoggerTypes
<1>5. running => initialized
  BY <1>1, LoggerFacts DEF Phases, FlagTypes, LoggerTypes, Steps
<1>6. \A b \in ToSet(buffers1 \o buffers2) : b.log \in Logger /\ LengthOf(b.log, b.msgs) \in 1 .. BufSize
  <2>1. buffers1 \o buffers2 \in Seq(Buf)
    BY <1>1 DEF ListTypes
  <2>2. ToSet(buffers1 \o buffers2) \subseteq Buf
    BY <2>1 DEF ToSet
  <2>3. QED
    BY <2>2 DEF Buf
<1>7. \A l \in Logger : buffer[l] # NoBuf => LengthOf(l, buffer[l]) <= BufSize
  BY <1>1 DEF BufferTypes, Held
<1>8. QED
  BY <1>1, <1>2, <1>3, <1>4, <1>5, <1>6, <1>7 DEF TypeOK, LoggerTypes, FlagTypes, Steps, Writing

\* Nothing is on the way of a logger that was freed, or without a writer.
LEMMA InvNothingLost == LogInv => NothingLost
<1> SUFFICES ASSUME LogInv, NEW l \in Logger
             PROVE  /\ Dealt(l) \o OnTheWay(l) = accepted[l]
                    /\ refcnt[l] = 0 \/ writer = "none" => OnTheWay(l) = << >>
                    /\ file[l].fp => ~Last(file[l].parts).lost /\ file[l].cur = LengthOf(l, Last(file[l].parts).msgs)
                    /\ \A i \in DOMAIN file[l].parts : LengthOf(l, file[l].parts[i].msgs) < FileMax + BufSize
  BY DEF NothingLost
<1>1. /\ LoggerTypes /\ BufferTypes /\ FileTypes /\ FlagTypes /\ ListTypes
      /\ Types /\ Phases /\ RefsCount /\ Messages
  BY InvType
<1>2. Dealt(l) \o OnTheWay(l) = accepted[l]
  BY <1>1 DEF Messages
<1>3. ASSUME refcnt[l] = 0 \/ writer = "none"
      PROVE  OnTheWay(l) = << >>
  <2>1. AllMsgs(l) = << >> /\ buffer[l] = NoBuf
    <3>1. CASE refcnt[l] = 0
      <4>1. refcnt[l] = OwnRefs(l) + Waiting(l) /\ Waiting(l) \in Nat /\ OwnRefs(l) \in Nat
        BY <1>1, WaitingIs DEF RefsCount, OwnRefs
      <4>2. Waiting(l) = 0 /\ OwnRefs(l) = 0
        BY <3>1, <4>1
      <4>3. AllMsgs(l) = << >>
        BY <1>1, <4>2, WaitingIs
      <4>4. pc[l] # "open"
        BY <4>2 DEF OwnRefs
      <4>5. QED
        BY <1>1, <4>3, <4>4, NoBuffer
    <3>2. CASE writer = "none"
      <4>1. pc[Main] \in {"closed", "init", "deleted", "closing", "setup"}
        BY <1>1, <3>2, LoggerFacts DEF Phases, LoggerTypes, Steps
      <4>2. ListsEmpty /\ pc[l] # "open"
        BY <1>1, <4>1, LoggerFacts DEF Phases
      <4>3. AllMsgs(l) = << >> \o << >>
        BY <4>2, MsgsNone DEF AllMsgs, ListsEmpty
      <4>4. QED
        BY <1>1, <4>2, <4>3, NoBuffer
    <3>3. QED
      BY <1>3, <3>1, <3>2
  <2>2. OnTheWay(l) = << >> \o << >>
    BY <1>1, <2>1, WayIs DEF Here
  <2>3. QED
    BY <2>2
<1>4. GoodFile(l, file[l]) /\ file[l].parts \in Seq(Part)
  BY <1>1 DEF FileTypes
<1>5. file[l].fp => ~Last(file[l].parts).lost /\ file[l].cur = LengthOf(l, Last(file[l].parts).msgs)
  BY <1>4 DEF GoodFile, OpenFile, Last
<1>6. \A i \in DOMAIN file[l].parts : LengthOf(l, file[l].parts[i].msgs) < FileMax + BufSize
  BY <1>4 DEF GoodFile, GoodPart
<1>7. QED
  BY <1>2, <1>3, <1>5, <1>6

\* The account is a part of the invariant.
LEMMA InvBooks == LogInv => BooksBalance
<1> SUFFICES ASSUME LogInv PROVE BooksBalance
  OBVIOUS
<1>1. Types /\ Listing /\ RefsCount /\ Accounting
  BY InvType
<1>2. DOMAIN loggers = 1 .. Len(loggers)
  BY <1>1, ListedOnce
<1>3. /\ ToSet(loggers) = {l \in Logger : At(l, "open")}
      /\ \A i \in DOMAIN loggers : index[loggers[i]] = i - 1
  BY <1>1, <1>2 DEF Listing, At
<1>4. QED
  BY <1>1, <1>3 DEF BooksBalance, Accounting, HaveOne, Putting

\* The logger that joins the writer is the last.
LEMMA InvAsserts == LogInv => UninitAsserts
<1>1. LogInv => Phases
  BY InvType
<1>2. QED
  BY <1>1, LoggerFacts DEF Phases, UninitAsserts, NothingLeft, At

\* The places, the counts and the buffers are what they should be, and no
\* buffer is overfull, whatever the loggers, the lengths and the limits.
THEOREM LogTypeCorrect ==
  ASSUME ~Overlap
  PROVE  Spec => []TypeOK
BY InvHolds, InvTypeOK, PTL

\* No message that was put into a buffer is lost on the way to its file, comes
\* twice or overtakes another; nothing is on the way once its logger is freed.
THEOREM MessagesReachFiles ==
  ASSUME ~Overlap
  PROVE  Spec => []NothingLost
BY InvHolds, InvNothingLost, PTL

\* The references, the list, its indexes and the buffers are accounted for.
THEOREM LogBooksBalance ==
  ASSUME ~Overlap
  PROVE  Spec => []BooksBalance
BY InvHolds, InvBooks, PTL

\* The assertions of cra_log_output_async_uninit hold when it runs.
THEOREM UninitIsClean ==
  ASSUME ~Overlap
  PROVE  Spec => []UninitAsserts
BY InvHolds, InvAsserts, PTL
=============================================================================
