---------------------------- MODULE DequeProofs ----------------------------
(***************************************************************************)
(* Theorems about the deque, for every size of its blocks, every number of *)
(* them and every set of values: its iterators find its elements, and it   *)
(* is a sequence.                                                          *)
(***************************************************************************)
EXTENDS Deque, SequenceLemmas, SequenceTheorems, TLAPS

(***************************************************************************)
(* Numbers.                                                                *)
(***************************************************************************)
\* Once round backwards.
LEMMA RoundBack ==
  ASSUME NEW n \in Nat \ {0}, NEW x \in 0 .. n - 1
  PROVE  (x - 1) % n = IF x = 0 THEN n - 1 ELSE x - 1
<1>1. CASE x = 0
  BY <1>1
<1>2. CASE x # 0
  <2>1. x - 1 \in 0 .. 2 * n - 1
    BY <1>2
  <2>2. PICK y : y = x - 1
    OBVIOUS
  <2>3. y \in 0 .. 2 * n - 1 /\ y < n
    BY <1>2, <2>2
  <2>4. y % n = y
    BY <2>3, Around
  <2>5. QED
    BY <1>2, <2>2, <2>4
<1>3. QED
  BY <1>1, <1>2

(***************************************************************************)
(* A deque and the places of its elements.                                 *)
(***************************************************************************)
\* What a block may hold, and where there may be none.
BlockSet == [Cells -> Val \cup {NoVal}]
\* The arrays of n places.
Arrays(n) == [0 .. n - 1 -> BlockSet \cup {NoBlock}]

\* A deque, wherever its ends are.
IsDeque(d) ==
  /\ d \in [narray : Nat \ {0}, array : UNION {Arrays(n) : n \in Nat}, count : Nat,
            lindex : Cells, rindex : Cells, front : Nat, rear : Nat]
  /\ d.array \in Arrays(d.narray)
  /\ d.front < d.narray /\ d.rear < d.narray

\* a blocks behind block f in a ring of n.
Turned(f, a, n) == IF f + a < n THEN f + a ELSE f + a - n

\* There is a place for element i.
InRing(d, i) == \E a \in 0 .. d.narray - 1, b \in Cells : i + d.lindex = a * Items + b

\* Where element i is.
PlaceOf(d, i) == <<BlockOf(d, i), CellOf(d, i)>>

\* Element c - 1 is the last one.
EndsFit(d, c) == InRing(d, c - 1) /\ PlaceOf(d, c - 1) = End(d)

\* The numbers of the cells.
LEMMA CellsAre ==
  ASSUME DequeAssumption
  PROVE  Cells \subseteq Nat /\ 0 \in Cells /\ Items - 1 \in Cells /\ Items \in Nat \ {0}
BY DEF DequeAssumption, Cells

\* A record of the right fields is a deque.
LEMMA DequeOf ==
  ASSUME NEW n \in Nat \ {0}, NEW a \in Arrays(n), NEW c \in Nat, NEW l \in Cells, NEW r \in Cells,
         NEW f \in 0 .. n - 1, NEW b \in 0 .. n - 1,
         NEW d, d = [narray |-> n, array |-> a, count |-> c, lindex |-> l, rindex |-> r, front |-> f, rear |-> b]
  PROVE  IsDeque(d)
<1>1. a \in UNION {Arrays(m) : m \in Nat}
  OBVIOUS
<1>2. f \in Nat /\ b \in Nat /\ f < n /\ b < n
  OBVIOUS
<1>3. QED
  BY <1>1, <1>2 DEF IsDeque

\* The fields of a deque.
LEMMA DequeIs ==
  ASSUME DequeAssumption, NEW d, IsDeque(d)
  PROVE  /\ d = [narray |-> d.narray, array |-> d.array, count |-> d.count, lindex |-> d.lindex,
                 rindex |-> d.rindex, front |-> d.front, rear |-> d.rear]
         /\ d.narray \in Nat \ {0} /\ d.array \in Arrays(d.narray) /\ d.count \in Nat
         /\ d.lindex \in Cells /\ d.rindex \in Cells /\ d.lindex \in Nat /\ d.rindex \in Nat
         /\ d.front \in 0 .. d.narray - 1 /\ d.rear \in 0 .. d.narray - 1
BY CellsAre DEF IsDeque

\* The block a blocks behind f, without %.
LEMMA TurnedIs ==
  ASSUME NEW n \in Nat \ {0}, NEW f \in 0 .. n - 1, NEW a \in 0 .. n - 1
  PROVE  (f + a) % n = Turned(f, a, n)
<1>1. PICK x : x = f + a
  OBVIOUS
<1>2. x \in 0 .. 2 * n - 1
  BY <1>1
<1>3. x % n = IF x < n THEN x ELSE x - n
  BY <1>2, Around
<1>4. QED
  BY <1>1, <1>3 DEF Turned

\* Where an element is.
LEMMA PlaceIs ==
  ASSUME DequeAssumption, NEW d, IsDeque(d), NEW i \in Int, NEW a \in 0 .. d.narray - 1, NEW b \in Cells,
         i + d.lindex = a * Items + b
  PROVE  BlockOf(d, i) = Turned(d.front, a, d.narray) /\ CellOf(d, i) = b /\ InRing(d, i)
<1>1. PICK x : x = i + d.lindex
  OBVIOUS
<1>2. b \in 0 .. Items - 1 /\ a \in Nat /\ Items \in Nat \ {0} /\ x \in Int
  BY <1>1, CellsAre, DequeIs DEF Cells
<1>3. x \div Items = a /\ x % Items = b
  BY ONLY <1>1, <1>2, x = a * Items + b, Quotient, i + d.lindex = a * Items + b
<1>4. BlockOf(d, i) = (d.front + a) % d.narray
  BY <1>1, <1>3 DEF BlockOf
<1>5. (d.front + a) % d.narray = Turned(d.front, a, d.narray)
  BY DequeIs, TurnedIs
<1>6. CellOf(d, i) = b
  BY <1>1, <1>3 DEF CellOf
<1>7. QED
  BY <1>4, <1>5, <1>6 DEF InRing

\* Two elements are in two places.
LEMMA PlacesDiffer ==
  ASSUME DequeAssumption, NEW d, IsDeque(d), NEW i \in Int, InRing(d, i), NEW j \in Int, InRing(d, j),
         PlaceOf(d, i) = PlaceOf(d, j)
  PROVE  i = j
<1>1. PICK a \in 0 .. d.narray - 1, b \in Cells : i + d.lindex = a * Items + b
  BY DEF InRing
<1>2. PICK e \in 0 .. d.narray - 1, c \in Cells : j + d.lindex = e * Items + c
  BY DEF InRing
<1>3. BlockOf(d, i) = Turned(d.front, a, d.narray) /\ CellOf(d, i) = b
  BY <1>1, PlaceIs
<1>4. BlockOf(d, j) = Turned(d.front, e, d.narray) /\ CellOf(d, j) = c
  BY <1>2, PlaceIs
<1>5. Turned(d.front, a, d.narray) = Turned(d.front, e, d.narray) /\ b = c
  BY <1>3, <1>4 DEF PlaceOf
<1>6. d.front \in 0 .. d.narray - 1 /\ d.narray \in Nat /\ d.lindex \in Int
  BY DequeIs
<1>7. a = e
  BY <1>5, <1>6 DEF Turned
<1>8. i + d.lindex = j + d.lindex
  BY <1>1, <1>2, <1>5, <1>7
<1>9. QED
  BY <1>6, <1>8

\* A factor more is a block more.
LEMMA Less ==
  ASSUME NEW b \in Nat \ {0}, NEW p \in Nat, NEW q \in Nat, NEW r \in 0 .. b - 1, NEW s \in 0 .. b - 1,
         p * b + r <= q * b + s
  PROVE  p <= q
<1>1. SUFFICES ASSUME p >= q + 1 PROVE FALSE
  OBVIOUS
<1>2. PICK k \in Nat : k = p - q - 1
  BY <1>1
<1>3. p * b = q * b + b + k * b /\ k * b \in Nat /\ q * b \in Nat
  BY <1>2
<1>4. QED
  BY <1>3

\* The elements before one that has a place have one.
LEMMA RingBefore ==
  ASSUME DequeAssumption, NEW d, IsDeque(d), NEW j \in Int, InRing(d, j), NEW i \in Int, i <= j, i + d.lindex >= 0
  PROVE  InRing(d, i)
<1>1. PICK q \in 0 .. d.narray - 1, s \in Cells : j + d.lindex = q * Items + s
  BY DEF InRing
<1>2. PICK x \in Nat : x = i + d.lindex
  BY DequeIs
<1>3. PICK p, r : p = x \div Items /\ r = x % Items
  OBVIOUS
<1>4. x = p * Items + r /\ r \in 0 .. Items - 1 /\ p \in Nat
  BY <1>3, CellsAre, DivMod
<1>5. s \in 0 .. Items - 1 /\ q \in Nat /\ Items \in Nat \ {0}
  BY CellsAre DEF Cells
<1>6. p * Items + r <= q * Items + s
  BY <1>1, <1>2, <1>4, DequeIs
<1>7. p <= q
  BY ONLY <1>4, <1>5, <1>6, Less
<1>8. d.narray \in Nat
  BY DequeIs
<1>9. QED
  BY <1>2, <1>4, <1>7, <1>8 DEF InRing, Cells

\* The ends and the count are the same.
SameEnds(d, e) ==
  /\ e.narray = d.narray /\ e.count = d.count /\ e.lindex = d.lindex /\ e.rindex = d.rindex
  /\ e.front = d.front /\ e.rear = d.rear

\* The elements' cells are there.
BlocksThere(d, c) == \A i \in 0 .. c - 1 : d.array[BlockOf(d, i)] # NoBlock

\* The blocks of d that are there are in e, with their elements k further on.
Carried(d, e, k) ==
  \A i \in 0 .. d.count - 1 : /\ e.array[BlockOf(e, i + k)] = d.array[BlockOf(d, i)]
                              /\ CellOf(e, i + k) = CellOf(d, i)

\* The same ends put the elements in the same places.
LEMMA SameEndsSame ==
  ASSUME NEW d, NEW e, SameEnds(d, e)
  PROVE  /\ \A i : BlockOf(e, i) = BlockOf(d, i) /\ CellOf(e, i) = CellOf(d, i)
         /\ \A c : EndsFit(d, c) => EndsFit(e, c)
BY DEF SameEnds, BlockOf, CellOf, EndsFit, InRing, PlaceOf, End

\* A block is not the absence of one.
LEMMA BlockIsThere ==
  ASSUME DequeAssumption
  PROVE  \A b \in BlockSet : b # NoBlock
<1>1. \A b \in BlockSet : 0 \in DOMAIN b
  BY CellsAre DEF BlockSet
<1>2. DOMAIN << >> = {}
  OBVIOUS
<1>3. QED
  BY <1>1, <1>2 DEF NoBlock

\* Another array in the same ring.
LEMMA OtherArray ==
  ASSUME DequeAssumption, NEW d, IsDeque(d), NEW a \in Arrays(d.narray), NEW e, e = [d EXCEPT !.array = a]
  PROVE  IsDeque(e) /\ SameEnds(d, e) /\ e.array = a
<1>1. e = [narray |-> d.narray, array |-> a, count |-> d.count, lindex |-> d.lindex,
           rindex |-> d.rindex, front |-> d.front, rear |-> d.rear]
  BY DEF IsDeque
<1>2. /\ d.narray \in Nat \ {0} /\ d.count \in Nat /\ d.lindex \in Cells /\ d.rindex \in Cells
      /\ d.front \in 0 .. d.narray - 1 /\ d.rear \in 0 .. d.narray - 1
  BY DequeIs
<1>3. IsDeque(e)
  BY ONLY <1>1, <1>2, a \in Arrays(d.narray), DequeOf
<1>4. QED
  BY <1>1, <1>3 DEF SameEnds

\* A block is allocated, and the others stay.
LEMMA WithBlockIs ==
  ASSUME DequeAssumption, NEW d, IsDeque(d), NEW b \in 0 .. d.narray - 1, NEW lacks, "block" \notin lacks,
         NEW r, r = WithBlock(d, b, lacks)
  PROVE  /\ r.ok /\ IsDeque(r.d) /\ SameEnds(d, r.d) /\ r.d.array[b] # NoBlock
         /\ \A c \in 0 .. d.narray - 1 : d.array[c] # NoBlock => r.d.array[c] = d.array[c]
<1>1. CASE d.array[b] # NoBlock
  <2>1. r = [ok |-> TRUE, d |-> d]
    BY <1>1 DEF WithBlock, Done
  <2>2. QED
    BY <1>1, <2>1 DEF SameEnds
<1>2. CASE d.array[b] = NoBlock
  <2> DEFINE blank == [c \in Cells |-> NoVal]
             a == [d.array EXCEPT ![b] = blank]
             e == [d EXCEPT !.array = a]
  <2>1. r = [ok |-> TRUE, d |-> [d EXCEPT !.array[b] = blank]]
    BY <1>2, Zenon DEF WithBlock, Done
  <2>2. [d EXCEPT !.array[b] = blank] = e
    BY DEF IsDeque
  <2>3. blank \in BlockSet /\ d.array \in Arrays(d.narray)
    BY DequeIs DEF BlockSet
  <2> HIDE DEF blank
  <2>4. a \in Arrays(d.narray) /\ a[b] = blank /\ \A c \in 0 .. d.narray - 1 : c # b => a[c] = d.array[c]
    BY <2>3 DEF Arrays
  <2> HIDE DEF a
  <2>5. IsDeque(e) /\ SameEnds(d, e) /\ e.array = a
    <3>1. PICK x : x = e
      OBVIOUS
    <3>2. IsDeque(x) /\ SameEnds(d, x) /\ x.array = a
      BY <2>4, <3>1, OtherArray
    <3>3. QED
      BY <3>1, <3>2
  <2>6. r.ok /\ r.d = e
    BY <2>1, <2>2
  <2>7. blank # NoBlock
    BY <2>3, BlockIsThere
  <2> HIDE DEF e
  <2>8. QED
    BY <1>2, <2>4, <2>5, <2>6, <2>7
<1>3. QED
  BY <1>1, <1>2

\* The neighbours of a block.
LEMMA UpDown ==
  ASSUME NEW d, NEW n \in Nat \ {0}, n = d.narray, NEW b \in 0 .. n - 1
  PROVE  /\ Up(d, b) = IF b = n - 1 THEN 0 ELSE b + 1
         /\ Down(d, b) = IF b = 0 THEN n - 1 ELSE b - 1
<1>1. PICK x \in 0 .. 2 * n - 1 : x = b + 1
  OBVIOUS
<1>2. x % n = IF x < n THEN x ELSE x - n
  BY <1>1, Around
<1>3. Up(d, b) = IF b = n - 1 THEN 0 ELSE b + 1
  BY <1>1, <1>2 DEF Up
<1>4. Down(d, b) = IF b = 0 THEN n - 1 ELSE b - 1
  BY RoundBack DEF Down
<1>5. QED
  BY <1>3, <1>4

\* Twice the blocks, from front.
LEMMA ExpandedIs ==
  ASSUME DequeAssumption, NEW d, IsDeque(d), NEW e, e = Expanded(d)
  PROVE  /\ IsDeque(e) /\ e.narray = 2 * d.narray /\ e.front = 0 /\ e.rear = d.narray - 1
         /\ e.count = d.count /\ e.lindex = d.lindex /\ e.rindex = d.rindex
         /\ \A a \in 0 .. d.narray - 1 : e.array[a] = d.array[Turned(d.front, a, d.narray)]
<1> DEFINE n == d.narray
           h == [b \in 0 .. 2 * n - 1 |-> IF b < n THEN Moved(d)[b] ELSE NoBlock]
<1>1. n \in Nat \ {0} /\ d.array \in Arrays(n) /\ d.front \in 0 .. n - 1
  BY DequeIs
<1>2. \A a \in 0 .. n - 1 : Moved(d)[a] = d.array[Turned(d.front, a, n)]
  BY <1>1, TurnedIs DEF Moved
<1>3. \A a \in 0 .. n - 1 : Turned(d.front, a, n) \in 0 .. n - 1
  BY <1>1 DEF Turned
<1>4. e = [narray |-> 2 * n, array |-> h, count |-> d.count, lindex |-> d.lindex, rindex |-> d.rindex,
           front |-> 0, rear |-> n - 1]
  BY DEF Expanded, IsDeque
<1>5. h \in Arrays(2 * n)
  <2>1. ASSUME NEW b \in 0 .. 2 * n - 1
        PROVE  h[b] \in BlockSet \cup {NoBlock}
    <3>1. CASE b < n
      <4>1. b \in 0 .. n - 1 /\ h[b] = Moved(d)[b]
        BY <1>1, <3>1
      <4>2. QED
        BY <1>1, <1>2, <1>3, <4>1 DEF Arrays
    <3>2. CASE ~ b < n
      BY <3>2
    <3>3. QED
      BY <3>1, <3>2
  <2>2. QED
    BY <1>1, <2>1 DEF Arrays
<1>6. \A a \in 0 .. n - 1 : h[a] = d.array[Turned(d.front, a, n)]
  BY <1>1, <1>2
<1> HIDE DEF h
<1>7. PICK m, f, b : m = 2 * n /\ f = 0 /\ b = n - 1
  OBVIOUS
<1>8. /\ m \in Nat \ {0} /\ h \in Arrays(m) /\ d.count \in Nat /\ d.lindex \in Cells /\ d.rindex \in Cells
      /\ f \in 0 .. m - 1 /\ b \in 0 .. m - 1
  BY <1>1, <1>5, <1>7, DequeIs
<1>9. e = [narray |-> m, array |-> h, count |-> d.count, lindex |-> d.lindex, rindex |-> d.rindex,
           front |-> f, rear |-> b]
  BY <1>4, <1>7
<1>10. IsDeque(e)
  BY ONLY <1>8, <1>9, DequeOf
<1>11. QED
  BY <1>4, <1>6, <1>10

(***************************************************************************)
(* Room for one more element.                                              *)
(***************************************************************************)
\* The deque e is d with room for one more element.
Roomier(d, r, k) ==
  /\ r.ok /\ IsDeque(r.d) /\ r.d.count = d.count /\ EndsFit(r.d, d.count + 1)
  /\ BlocksThere(d, d.count) => Carried(d, r.d, k)

\* Where the ends are, in blocks.
LEMMA FitsIs ==
  ASSUME DequeAssumption, NEW d, IsDeque(d), NEW c \in Nat, EndsFit(d, c)
  PROVE  \E q \in 0 .. d.narray - 1 : d.rear = Turned(d.front, q, d.narray) /\ c - 1 + d.lindex = q * Items + d.rindex
<1>1. PICK q \in 0 .. d.narray - 1, b \in Cells : (c - 1) + d.lindex = q * Items + b
  BY DEF EndsFit, InRing
<1>2. BlockOf(d, c - 1) = Turned(d.front, q, d.narray) /\ CellOf(d, c - 1) = b
  <2>1. PICK i \in Int : i = c - 1
    OBVIOUS
  <2>2. i + d.lindex = q * Items + b
    BY <1>1, <2>1
  <2>3. BlockOf(d, i) = Turned(d.front, q, d.narray) /\ CellOf(d, i) = b
    BY <2>2, PlaceIs
  <2>4. QED
    BY <2>1, <2>3
<1>3. d.rear = BlockOf(d, c - 1) /\ d.rindex = CellOf(d, c - 1)
  BY DEF EndsFit, PlaceOf, End
<1>4. QED
  BY <1>1, <1>2, <1>3

\* The deque fits when the rear is where the last element is.
LEMMA FitsThen ==
  ASSUME DequeAssumption, NEW d, IsDeque(d), NEW c \in Nat, NEW q \in 0 .. d.narray - 1,
         d.rear = Turned(d.front, q, d.narray), c - 1 + d.lindex = q * Items + d.rindex
  PROVE  EndsFit(d, c)
<1>1. PICK i \in Int : i = c - 1
  OBVIOUS
<1>2. d.rindex \in Cells
  BY DequeIs
<1>3. i + d.lindex = q * Items + d.rindex
  BY <1>1
<1>4. BlockOf(d, i) = Turned(d.front, q, d.narray) /\ CellOf(d, i) = d.rindex /\ InRing(d, i)
  BY <1>2, <1>3, PlaceIs
<1>5. QED
  BY <1>1, <1>4 DEF EndsFit, PlaceOf, End

\* An element that fits has its place.
LEMMA ElementIs ==
  ASSUME DequeAssumption, NEW d, IsDeque(d), NEW c \in Nat, EndsFit(d, c), NEW i \in 0 .. c - 1
  PROVE  \E a \in 0 .. d.narray - 1, b \in Cells :
           /\ i + d.lindex = a * Items + b
           /\ BlockOf(d, i) = Turned(d.front, a, d.narray) /\ CellOf(d, i) = b
<1>1. InRing(d, i)
  <2>1. PICK j \in Int : j = c - 1
    OBVIOUS
  <2>2. InRing(d, j) /\ i <= j /\ i + d.lindex >= 0
    BY <2>1, DequeIs DEF EndsFit
  <2>3. QED
    BY <2>2, RingBefore
<1>2. PICK a \in 0 .. d.narray - 1, b \in Cells : i + d.lindex = a * Items + b
  BY <1>1 DEF InRing
<1>3. QED
  BY <1>2, PlaceIs

\* Cell c of lindex is moved into, in the same block.
LEMMA LeftInBlock ==
  ASSUME DequeAssumption, NEW d, IsDeque(d), EndsFit(d, d.count), d.lindex > 0,
         NEW e, e = [d EXCEPT !.lindex = @ - 1]
  PROVE  /\ IsDeque(e) /\ e.count = d.count /\ EndsFit(e, d.count + 1) /\ Carried(d, e, 1)
         /\ e.array = d.array /\ e.front = d.front /\ e.narray = d.narray
<1>1. PICK l : l = d.lindex - 1
  OBVIOUS
<1>2. /\ d.narray \in Nat \ {0} /\ d.array \in Arrays(d.narray) /\ d.count \in Nat /\ l \in Cells /\ d.rindex \in Cells
      /\ d.front \in 0 .. d.narray - 1 /\ d.rear \in 0 .. d.narray - 1 /\ d.lindex \in Nat
  BY <1>1, DequeIs, CellsAre DEF Cells
<1>3. e = [narray |-> d.narray, array |-> d.array, count |-> d.count, lindex |-> l,
           rindex |-> d.rindex, front |-> d.front, rear |-> d.rear]
  BY <1>1 DEF IsDeque
<1>4. IsDeque(e)
  BY ONLY <1>2, <1>3, DequeOf
<1>5. PICK q \in 0 .. d.narray - 1 :
        d.rear = Turned(d.front, q, d.narray) /\ d.count - 1 + d.lindex = q * Items + d.rindex
  BY <1>2, FitsIs
<1>6. /\ q \in 0 .. e.narray - 1 /\ e.rear = Turned(e.front, q, e.narray)
      /\ (d.count + 1) - 1 + e.lindex = q * Items + e.rindex
  BY <1>1, <1>2, <1>3, <1>5
<1>7. EndsFit(e, d.count + 1)
  <2>1. PICK c \in Nat : c = d.count + 1
    BY <1>2
  <2>2. c - 1 + e.lindex = q * Items + e.rindex
    BY <1>6, <2>1
  <2>3. EndsFit(e, c)
    BY <1>4, <1>6, <2>2, FitsThen
  <2>4. QED
    BY <2>1, <2>3
<1>8. Carried(d, e, 1)
  <2>1. ASSUME NEW i \in 0 .. d.count - 1
        PROVE  (i + 1) + e.lindex = i + d.lindex
    BY <1>1, <1>2, <1>3
  <2>2. QED
    BY <1>3, <2>1 DEF Carried, BlockOf, CellOf
<1>9. QED
  BY <1>3, <1>4, <1>7, <1>8

\* The blocks with the elements are in e, s blocks further from its front.
LEMMA CarriesOn ==
  ASSUME DequeAssumption, NEW d, IsDeque(d), EndsFit(d, d.count), NEW e, IsDeque(e),
         NEW q \in 0 .. d.narray - 1, d.count - 1 + d.lindex = q * Items + d.rindex,
         NEW s \in {0, 1}, NEW k \in {0, 1}, k + e.lindex = d.lindex + s * Items,
         q + s <= e.narray - 1,
         \A a \in 0 .. q : e.array[Turned(e.front, a + s, e.narray)] = d.array[Turned(d.front, a, d.narray)]
  PROVE  Carried(d, e, k)
<1>1. SUFFICES ASSUME NEW i \in 0 .. d.count - 1
               PROVE  /\ e.array[BlockOf(e, i + k)] = d.array[BlockOf(d, i)]
                      /\ CellOf(e, i + k) = CellOf(d, i)
  BY DEF Carried
<1>2. d.count \in Nat /\ d.lindex \in Nat /\ d.rindex \in Cells /\ e.lindex \in Nat /\ e.narray \in Nat /\ d.narray \in Nat
  BY DequeIs
<1>3. PICK a \in 0 .. d.narray - 1, b \in Cells :
        /\ i + d.lindex = a * Items + b
        /\ BlockOf(d, i) = Turned(d.front, a, d.narray) /\ CellOf(d, i) = b
  BY <1>2, ElementIs
<1>4. a <= q
  <2>1. b \in 0 .. Items - 1 /\ d.rindex \in 0 .. Items - 1 /\ Items \in Nat \ {0} /\ a \in Nat /\ q \in Nat
    BY <1>2, CellsAre DEF Cells
  <2>2. a * Items + b <= q * Items + d.rindex
    BY <1>2, <1>3
  <2>3. QED
    BY ONLY <2>1, <2>2, Less
<1>5. PICK j \in Int, c \in 0 .. e.narray - 1 : j = i + k /\ c = a + s
  BY <1>2, <1>4
<1>6. j + e.lindex = c * Items + b
  <2>1. c * Items = a * Items + s * Items
    BY <1>5, CellsAre
  <2>2. PICK x \in Int, y \in Int : x = a * Items /\ y = s * Items
    BY CellsAre
  <2>3. i + d.lindex = x + b /\ k + e.lindex = d.lindex + y /\ c * Items = x + y /\ b \in Int
    BY <1>3, <2>1, <2>2, CellsAre
  <2>4. QED
    BY <1>2, <1>5, <2>3
<1>7. BlockOf(e, j) = Turned(e.front, c, e.narray) /\ CellOf(e, j) = b
  BY <1>6, PlaceIs
<1>8. QED
  BY <1>3, <1>4, <1>5, <1>7

\* The block of an element is one of the ring.
LEMMA BlockIn ==
  ASSUME DequeAssumption, NEW d, IsDeque(d), NEW i \in Int
  PROVE  BlockOf(d, i) \in 0 .. d.narray - 1
<1>1. d.front \in Int /\ d.narray \in Nat \ {0} /\ d.lindex \in Int
  BY DequeIs
<1>2. PICK x \in Int : x = i + d.lindex
  BY <1>1
<1>3. PICK y \in Int : y = x \div Items
  BY CellsAre
<1>4. PICK z \in Int : z = d.front + y
  BY <1>1
<1>5. z % d.narray \in 0 .. d.narray - 1
  BY <1>1
<1>6. QED
  BY <1>2, <1>3, <1>4, <1>5 DEF BlockOf

\* cra_deque_ensure_and_increment_left
LEMMA EnsureLeftIs ==
  ASSUME DequeAssumption, NEW d, IsDeque(d), EndsFit(d, d.count),
         NEW lacks, "array" \notin lacks, "block" \notin lacks, NEW r, r = EnsureLeft(d, lacks)
  PROVE  /\ Roomier(d, r, 1)
         /\ d.count > 0 /\ BlocksThere(d, d.count) => r.d.array[BlockOf(r.d, 0)] # NoBlock
         /\ r.d.front = BlockOf(r.d, 0) /\ r.d.lindex = CellOf(r.d, 0)
<1> DEFINE turned == [d EXCEPT !.lindex = Items - 1]
           full   == Down(d, d.front) = d.rear
           grown  == IF full THEN Expanded(turned) ELSE turned
           moved  == [grown EXCEPT !.front = Down(grown, @)]
<1>1. /\ d.narray \in Nat \ {0} /\ d.array \in Arrays(d.narray) /\ d.count \in Nat /\ d.rindex \in Cells
      /\ d.front \in 0 .. d.narray - 1 /\ d.rear \in 0 .. d.narray - 1 /\ d.lindex \in Cells
      /\ Items - 1 \in Cells /\ d.lindex \in Nat /\ Items \in Nat /\ Items >= 2 /\ d.rindex \in Nat
  BY DequeIs, CellsAre DEF DequeAssumption
<1>2. PICK q \in 0 .. d.narray - 1 :
        d.rear = Turned(d.front, q, d.narray) /\ d.count - 1 + d.lindex = q * Items + d.rindex
  BY <1>1, FitsIs
<1>3. ASSUME NEW e, IsDeque(e)
      PROVE  BlockOf(e, 0) = e.front /\ CellOf(e, 0) = e.lindex
  <2>1. e.lindex \in Cells /\ 0 + e.lindex = 0 * Items + e.lindex /\ 0 \in 0 .. e.narray - 1 /\ e.front \in 0 .. e.narray - 1 /\ e.narray \in Nat
    BY <1>1, <1>3, DequeIs
  <2>2. BlockOf(e, 0) = Turned(e.front, 0, e.narray) /\ CellOf(e, 0) = e.lindex
    BY <1>3, <2>1, PlaceIs
  <2>3. QED
    BY <2>1, <2>2 DEF Turned
<1>4. CASE d.lindex > 0
  <2>1. r.ok /\ r.d = [d EXCEPT !.lindex = @ - 1]
    BY <1>4 DEF EnsureLeft, Done
  <2>2. PICK e : e = r.d
    OBVIOUS
  <2>3. /\ IsDeque(e) /\ e.count = d.count /\ EndsFit(e, d.count + 1) /\ Carried(d, e, 1)
        /\ e.array = d.array /\ e.front = d.front /\ e.narray = d.narray
    BY <1>4, <2>1, <2>2, LeftInBlock
  <2>4. ASSUME d.count > 0, BlocksThere(d, d.count)
        PROVE  e.array[BlockOf(e, 0)] # NoBlock
    <3>1. d.array[BlockOf(d, 0)] # NoBlock
      BY <1>1, <2>4 DEF BlocksThere
    <3>2. BlockOf(d, 0) = d.front /\ BlockOf(e, 0) = e.front
      BY <1>3, <2>3
    <3>3. QED
      BY <2>3, <3>1, <3>2
  <2>5. QED
    BY <1>3, <2>1, <2>2, <2>3, <2>4 DEF Roomier
<1>5. CASE d.lindex = 0
  <2>1. r = WithBlock(moved, moved.front, lacks)
    BY <1>5 DEF EnsureLeft
  <2>2. turned = [narray |-> d.narray, array |-> d.array, count |-> d.count, lindex |-> Items - 1,
                  rindex |-> d.rindex, front |-> d.front, rear |-> d.rear]
    BY DEF IsDeque
  <2>3. IsDeque(turned)
    BY <1>1, <2>2, DequeOf
  <2>4. Down(d, d.front) = IF d.front = 0 THEN d.narray - 1 ELSE d.front - 1
    BY <1>1, UpDown
  <2>5. full <=> q = d.narray - 1
    BY <1>1, <1>2, <2>4 DEF Turned
  <2> HIDE DEF turned
  <2>6. /\ IsDeque(moved) /\ moved.count = d.count /\ moved.lindex = Items - 1 /\ moved.rindex = d.rindex
        /\ q + 1 <= moved.narray - 1
        /\ moved.rear = Turned(moved.front, q + 1, moved.narray)
        /\ \A a \in 0 .. q : moved.array[Turned(moved.front, a + 1, moved.narray)] = d.array[Turned(d.front, a, d.narray)]
    <3>1. CASE full
      <4>1. PICK e : e = Expanded(turned)
        OBVIOUS
      <4>2. /\ IsDeque(e) /\ e.narray = 2 * d.narray /\ e.front = 0 /\ e.rear = d.narray - 1
            /\ e.count = d.count /\ e.lindex = Items - 1 /\ e.rindex = d.rindex
            /\ \A a \in 0 .. d.narray - 1 : e.array[a] = d.array[Turned(d.front, a, d.narray)]
        BY <2>2, <2>3, <4>1, ExpandedIs
      <4>3. PICK f : f = e.narray - 1
        OBVIOUS
      <4>4. Down(e, 0) = f /\ f \in 0 .. e.narray - 1
        BY <1>1, <4>2, <4>3, UpDown
      <4>5. moved = [narray |-> e.narray, array |-> e.array, count |-> e.count, lindex |-> e.lindex,
                     rindex |-> e.rindex, front |-> f, rear |-> e.rear]
        BY <3>1, <4>1, <4>2, <4>4 DEF IsDeque
      <4>6. /\ e.narray \in Nat \ {0} /\ e.array \in Arrays(e.narray) /\ e.count \in Nat /\ e.lindex \in Cells
            /\ e.rindex \in Cells /\ e.rear \in 0 .. e.narray - 1
        BY <4>2, DequeIs
      <4> HIDE DEF moved
      <4>7. IsDeque(moved)
        BY <4>4, <4>5, <4>6, DequeOf
      <4>8. \A a \in 0 .. q : Turned(f, a + 1, e.narray) = a /\ Turned(f, q + 1, e.narray) = q
        BY <1>1, <4>2, <4>3 DEF Turned
      <4>9. QED
        BY <1>1, <2>5, <3>1, <4>2, <4>5, <4>7, <4>8
    <3>2. CASE ~full
      <4>1. PICK f : f = Down(d, d.front)
        OBVIOUS
      <4>2. Down(turned, turned.front) = f /\ f \in 0 .. d.narray - 1
        BY <1>1, <2>2, <2>4, <4>1 DEF Down
      <4>3. moved = [narray |-> d.narray, array |-> d.array, count |-> d.count, lindex |-> Items - 1,
                     rindex |-> d.rindex, front |-> f, rear |-> d.rear]
        BY <2>2, <3>2, <4>2
      <4> HIDE DEF moved
      <4>4. IsDeque(moved)
        BY <1>1, <4>2, <4>3, DequeOf
      <4>5. \A a \in 0 .. q : Turned(f, a + 1, d.narray) = Turned(d.front, a, d.narray)
        BY <1>1, <2>4, <2>5, <3>2, <4>1 DEF Turned
      <4>6. QED
        BY <1>1, <1>2, <2>5, <3>2, <4>3, <4>4, <4>5
    <3>3. QED
      BY <3>1, <3>2
  <2> HIDE DEF moved
  <2>7. PICK m : m = moved
    OBVIOUS
  <2>8. m.front \in 0 .. m.narray - 1 /\ m.narray \in Nat
    BY <2>6, <2>7, DequeIs
  <2>9. /\ r.ok /\ IsDeque(r.d) /\ SameEnds(m, r.d) /\ r.d.array[m.front] # NoBlock
        /\ \A c \in 0 .. m.narray - 1 : m.array[c] # NoBlock => r.d.array[c] = m.array[c]
    BY <2>1, <2>6, <2>7, <2>8, WithBlockIs
  <2>10. EndsFit(m, d.count + 1)
    <3>1. PICK c \in Nat, p \in 0 .. m.narray - 1 : c = d.count + 1 /\ p = q + 1
      BY <1>1, <2>6, <2>7, <2>8
    <3>2. p * Items = q * Items + Items /\ q * Items \in Int
      BY <1>1, <3>1
    <3>3. c - 1 + m.lindex = p * Items + m.rindex
      BY <1>1, <1>2, <1>5, <2>6, <2>7, <3>1, <3>2
    <3>4. EndsFit(m, c)
      BY <2>6, <2>7, <3>1, <3>3, FitsThen
    <3>5. QED
      BY <3>1, <3>4
  <2>11. Carried(d, m, 1)
    <3>1. PICK s, k \in {0, 1} : s = 1 /\ k = 1
      OBVIOUS
    <3>2. k + m.lindex = d.lindex + s * Items
      BY <1>1, <1>5, <2>6, <2>7, <3>1
    <3>3. q + s <= m.narray - 1 /\ IsDeque(m)
      BY <2>6, <2>7, <3>1
    <3>4. \A a \in 0 .. q : m.array[Turned(m.front, a + s, m.narray)] = d.array[Turned(d.front, a, d.narray)]
      BY <2>6, <2>7, <3>1
    <3>5. Carried(d, m, k)
      BY <1>2, <3>1, <3>2, <3>3, <3>4, CarriesOn
    <3>6. QED
      BY <3>1, <3>5
  <2>12. BlocksThere(d, d.count) => Carried(d, r.d, 1)
    <3>1. SUFFICES ASSUME BlocksThere(d, d.count), NEW i \in 0 .. d.count - 1
                   PROVE  /\ r.d.array[BlockOf(r.d, i + 1)] = d.array[BlockOf(d, i)]
                          /\ CellOf(r.d, i + 1) = CellOf(d, i)
      BY DEF Carried
    <3>2. m.array[BlockOf(m, i + 1)] = d.array[BlockOf(d, i)] /\ CellOf(m, i + 1) = CellOf(d, i)
      BY <2>11 DEF Carried
    <3>3. d.array[BlockOf(d, i)] # NoBlock
      BY <3>1 DEF BlocksThere
    <3>4. BlockOf(m, i + 1) \in 0 .. m.narray - 1
      BY <1>1, <2>6, <2>7, BlockIn
    <3>5. BlockOf(r.d, i + 1) = BlockOf(m, i + 1) /\ CellOf(r.d, i + 1) = CellOf(m, i + 1)
      BY <2>9, SameEndsSame
    <3>6. QED
      BY <2>9, <3>2, <3>3, <3>4, <3>5
  <2>13. r.d.count = d.count /\ EndsFit(r.d, d.count + 1) /\ r.d.front = m.front
    BY <2>6, <2>7, <2>9, <2>10, SameEndsSame DEF SameEnds
  <2>14. QED
    BY <1>3, <2>9, <2>12, <2>13 DEF Roomier
<1>6. QED
  BY <1>1, <1>4, <1>5

\* A cell behind rindex is moved into, in the same block.
LEMMA RightInBlock ==
  ASSUME DequeAssumption, NEW d, IsDeque(d), EndsFit(d, d.count), d.rindex < Items - 1,
         NEW e, e = [d EXCEPT !.rindex = @ + 1]
  PROVE  /\ IsDeque(e) /\ e.count = d.count /\ EndsFit(e, d.count + 1) /\ Carried(d, e, 0)
         /\ e.array = d.array /\ e.rear = d.rear /\ e.narray = d.narray
<1>1. PICK l : l = d.rindex + 1
  OBVIOUS
<1>2. /\ d.narray \in Nat \ {0} /\ d.array \in Arrays(d.narray) /\ d.count \in Nat /\ l \in Cells /\ d.lindex \in Cells
      /\ d.front \in 0 .. d.narray - 1 /\ d.rear \in 0 .. d.narray - 1 /\ d.lindex \in Nat /\ d.rindex \in Nat
  BY <1>1, DequeIs, CellsAre DEF Cells
<1>3. e = [narray |-> d.narray, array |-> d.array, count |-> d.count, lindex |-> d.lindex,
           rindex |-> l, front |-> d.front, rear |-> d.rear]
  BY <1>1 DEF IsDeque
<1>4. IsDeque(e)
  BY ONLY <1>2, <1>3, DequeOf
<1>5. PICK q \in 0 .. d.narray - 1 :
        d.rear = Turned(d.front, q, d.narray) /\ d.count - 1 + d.lindex = q * Items + d.rindex
  BY <1>2, FitsIs
<1>6. q * Items \in Int
  BY CellsAre
<1>7. /\ q \in 0 .. e.narray - 1 /\ e.rear = Turned(e.front, q, e.narray)
      /\ (d.count + 1) - 1 + e.lindex = q * Items + e.rindex
  BY <1>1, <1>2, <1>3, <1>5, <1>6
<1>8. EndsFit(e, d.count + 1)
  <2>1. PICK c \in Nat : c = d.count + 1
    BY <1>2
  <2>2. c - 1 + e.lindex = q * Items + e.rindex
    BY <1>7, <2>1
  <2>3. EndsFit(e, c)
    BY <1>4, <1>7, <2>2, FitsThen
  <2>4. QED
    BY <2>1, <2>3
<1>9. Carried(d, e, 0)
  <2>1. ASSUME NEW i \in 0 .. d.count - 1
        PROVE  (i + 0) + e.lindex = i + d.lindex
    BY <1>2, <1>3
  <2>2. QED
    BY <1>3, <2>1 DEF Carried, BlockOf, CellOf
<1>10. QED
  BY <1>3, <1>4, <1>8, <1>9

\* cra_deque_ensure_and_increment_right
LEMMA EnsureRightIs ==
  ASSUME DequeAssumption, NEW d, IsDeque(d), EndsFit(d, d.count),
         NEW lacks, "array" \notin lacks, "block" \notin lacks, NEW r, r = EnsureRight(d, lacks)
  PROVE  /\ Roomier(d, r, 0)
         /\ d.count > 0 /\ BlocksThere(d, d.count) => r.d.array[BlockOf(r.d, d.count)] # NoBlock
         /\ r.d.rear = BlockOf(r.d, d.count) /\ r.d.rindex = CellOf(r.d, d.count)
<1> DEFINE turned == [d EXCEPT !.rindex = 0]
           full   == Up(d, d.rear) = d.front
           grown  == IF full THEN Expanded(turned) ELSE turned
           moved  == [grown EXCEPT !.rear = Up(grown, @)]
<1>1. /\ d.narray \in Nat \ {0} /\ d.array \in Arrays(d.narray) /\ d.count \in Nat /\ d.rindex \in Cells
      /\ d.front \in 0 .. d.narray - 1 /\ d.rear \in 0 .. d.narray - 1 /\ d.lindex \in Cells
      /\ 0 \in Cells /\ d.lindex \in Nat /\ Items \in Nat /\ Items >= 2 /\ d.rindex \in Nat
  BY DequeIs, CellsAre DEF DequeAssumption
<1>2. PICK q \in 0 .. d.narray - 1 :
        d.rear = Turned(d.front, q, d.narray) /\ d.count - 1 + d.lindex = q * Items + d.rindex
  BY <1>1, FitsIs
<1>3. ASSUME NEW e, EndsFit(e, d.count + 1)
      PROVE  e.rear = BlockOf(e, d.count) /\ e.rindex = CellOf(e, d.count)
  <2>1. (d.count + 1) - 1 = d.count
    BY <1>1
  <2>2. QED
    BY <1>3, <2>1 DEF EndsFit, PlaceOf, End
<1>4. CASE d.rindex < Items - 1
  <2>1. r.ok /\ r.d = [d EXCEPT !.rindex = @ + 1]
    BY <1>4 DEF EnsureRight, Done
  <2>2. PICK e : e = r.d
    OBVIOUS
  <2>3. /\ IsDeque(e) /\ e.count = d.count /\ EndsFit(e, d.count + 1) /\ Carried(d, e, 0)
        /\ e.array = d.array /\ e.rear = d.rear /\ e.narray = d.narray
    BY <1>4, <2>1, <2>2, RightInBlock
  <2>4. ASSUME d.count > 0, BlocksThere(d, d.count)
        PROVE  e.array[BlockOf(e, d.count)] # NoBlock
    <3>1. PICK i \in 0 .. d.count - 1 : i = d.count - 1
      BY <1>1, <2>4
    <3>2. d.array[BlockOf(d, i)] # NoBlock
      BY <2>4 DEF BlocksThere
    <3>3. BlockOf(d, i) = d.rear
      BY <3>1 DEF EndsFit, PlaceOf, End
    <3>4. BlockOf(e, d.count) = e.rear
      BY <1>3, <2>3
    <3>5. QED
      BY <2>3, <3>2, <3>3, <3>4
  <2>5. QED
    BY <1>3, <2>1, <2>2, <2>3, <2>4 DEF Roomier
<1>5. CASE d.rindex = Items - 1
  <2>1. r = WithBlock(moved, moved.rear, lacks)
    BY <1>1, <1>5 DEF EnsureRight
  <2>2. turned = [narray |-> d.narray, array |-> d.array, count |-> d.count, lindex |-> d.lindex,
                  rindex |-> 0, front |-> d.front, rear |-> d.rear]
    BY DEF IsDeque
  <2>3. IsDeque(turned)
    BY <1>1, <2>2, DequeOf
  <2>4. Up(d, d.rear) = IF d.rear = d.narray - 1 THEN 0 ELSE d.rear + 1
    BY <1>1, UpDown
  <2>5. full <=> q = d.narray - 1
    BY <1>1, <1>2, <2>4 DEF Turned
  <2> HIDE DEF turned
  <2>6. /\ IsDeque(moved) /\ moved.count = d.count /\ moved.lindex = d.lindex /\ moved.rindex = 0
        /\ q + 1 <= moved.narray - 1
        /\ moved.rear = Turned(moved.front, q + 1, moved.narray)
        /\ \A a \in 0 .. q : moved.array[Turned(moved.front, a, moved.narray)] = d.array[Turned(d.front, a, d.narray)]
    <3>1. CASE full
      <4>1. PICK e : e = Expanded(turned)
        OBVIOUS
      <4>2. /\ IsDeque(e) /\ e.narray = 2 * d.narray /\ e.front = 0 /\ e.rear = d.narray - 1
            /\ e.count = d.count /\ e.lindex = d.lindex /\ e.rindex = 0
            /\ \A a \in 0 .. d.narray - 1 : e.array[a] = d.array[Turned(d.front, a, d.narray)]
        BY <2>2, <2>3, <4>1, ExpandedIs
      <4>3. PICK f \in 0 .. e.narray - 1 : f = d.narray
        BY <1>1, <4>2
      <4>4. Up(e, e.rear) = f
        BY <1>1, <4>2, <4>3, UpDown
      <4>5. moved = [narray |-> e.narray, array |-> e.array, count |-> e.count, lindex |-> e.lindex,
                     rindex |-> e.rindex, front |-> e.front, rear |-> f]
        BY <3>1, <4>1, <4>2, <4>4 DEF IsDeque
      <4>6. /\ e.narray \in Nat \ {0} /\ e.array \in Arrays(e.narray) /\ e.count \in Nat /\ e.lindex \in Cells
            /\ e.rindex \in Cells /\ e.front \in 0 .. e.narray - 1
        BY <4>2, DequeIs
      <4> HIDE DEF moved
      <4>7. IsDeque(moved)
        BY <4>5, <4>6, DequeOf
      <4>8. \A a \in 0 .. q + 1 : Turned(0, a, e.narray) = a
        BY <1>1, <4>2 DEF Turned
      <4>9. QED
        BY <1>1, <2>5, <3>1, <4>2, <4>3, <4>5, <4>7, <4>8
    <3>2. CASE ~full
      <4>1. PICK f : f = Up(d, d.rear)
        OBVIOUS
      <4>2. Up(turned, turned.rear) = f /\ f \in 0 .. d.narray - 1
        BY <1>1, <2>2, <2>4, <4>1 DEF Up
      <4>3. moved = [narray |-> d.narray, array |-> d.array, count |-> d.count, lindex |-> d.lindex,
                     rindex |-> 0, front |-> d.front, rear |-> f]
        BY <2>2, <3>2, <4>2
      <4> HIDE DEF moved
      <4>4. IsDeque(moved)
        BY <1>1, <4>2, <4>3, DequeOf
      <4>5. f = Turned(d.front, q + 1, d.narray)
        BY <1>1, <1>2, <2>4, <2>5, <3>2, <4>1 DEF Turned
      <4>6. moved.rear = Turned(moved.front, q + 1, moved.narray)
        BY <4>3, <4>5
      <4>7. \A a \in 0 .. q : moved.array[Turned(moved.front, a, moved.narray)] = d.array[Turned(d.front, a, d.narray)]
        BY <4>3
      <4>8. q + 1 <= moved.narray - 1
        BY <1>1, <2>5, <3>2, <4>3
      <4>9. QED
        BY <4>3, <4>4, <4>6, <4>7, <4>8
    <3>3. QED
      BY <3>1, <3>2
  <2> HIDE DEF moved
  <2>7. PICK m : m = moved
    OBVIOUS
  <2>8. m.rear \in 0 .. m.narray - 1 /\ m.narray \in Nat
    BY <2>6, <2>7, DequeIs
  <2>9. /\ r.ok /\ IsDeque(r.d) /\ SameEnds(m, r.d) /\ r.d.array[m.rear] # NoBlock
        /\ \A c \in 0 .. m.narray - 1 : m.array[c] # NoBlock => r.d.array[c] = m.array[c]
    BY <2>1, <2>6, <2>7, <2>8, WithBlockIs
  <2>10. EndsFit(m, d.count + 1)
    <3>1. PICK c \in Nat, p \in 0 .. m.narray - 1 : c = d.count + 1 /\ p = q + 1
      BY <1>1, <2>6, <2>7, <2>8
    <3>2. p * Items = q * Items + Items /\ q * Items \in Int
      BY <1>1, <3>1
    <3>3. c - 1 + m.lindex = p * Items + m.rindex
      BY <1>1, <1>2, <1>5, <2>6, <2>7, <3>1, <3>2
    <3>4. EndsFit(m, c)
      BY <2>6, <2>7, <3>1, <3>3, FitsThen
    <3>5. QED
      BY <3>1, <3>4
  <2>11. Carried(d, m, 0)
    <3>1. PICK s, k \in {0, 1} : s = 0 /\ k = 0
      OBVIOUS
    <3>2. k + m.lindex = d.lindex + s * Items
      BY <1>1, <1>5, <2>6, <2>7, <3>1
    <3>3. q + s <= m.narray - 1 /\ IsDeque(m)
      BY <2>6, <2>7, <2>8, <3>1
    <3>4. \A a \in 0 .. q : m.array[Turned(m.front, a + s, m.narray)] = d.array[Turned(d.front, a, d.narray)]
      BY <2>6, <2>7, <3>1
    <3>5. Carried(d, m, k)
      BY <1>2, <3>1, <3>2, <3>3, <3>4, CarriesOn
    <3>6. QED
      BY <3>1, <3>5
  <2>12. BlocksThere(d, d.count) => Carried(d, r.d, 0)
    <3>1. SUFFICES ASSUME BlocksThere(d, d.count), NEW i \in 0 .. d.count - 1
                   PROVE  /\ r.d.array[BlockOf(r.d, i + 0)] = d.array[BlockOf(d, i)]
                          /\ CellOf(r.d, i + 0) = CellOf(d, i)
      BY DEF Carried
    <3>2. m.array[BlockOf(m, i + 0)] = d.array[BlockOf(d, i)] /\ CellOf(m, i + 0) = CellOf(d, i)
      BY <2>11 DEF Carried
    <3>3. d.array[BlockOf(d, i)] # NoBlock
      BY <3>1 DEF BlocksThere
    <3>4. BlockOf(m, i + 0) \in 0 .. m.narray - 1
      BY <1>1, <2>6, <2>7, BlockIn
    <3>5. BlockOf(r.d, i + 0) = BlockOf(m, i + 0) /\ CellOf(r.d, i + 0) = CellOf(m, i + 0)
      BY <2>9, SameEndsSame
    <3>6. QED
      BY <2>9, <3>2, <3>3, <3>4, <3>5
  <2>13. r.d.count = d.count /\ EndsFit(r.d, d.count + 1) /\ r.d.rear = m.rear
    BY <2>6, <2>7, <2>9, <2>10, SameEndsSame DEF SameEnds
  <2>14. QED
    BY <1>3, <2>9, <2>12, <2>13 DEF Roomier
<1>6. QED
  BY <1>1, <1>4, <1>5, CellsAre DEF Cells

(***************************************************************************)
(* Moving elements by one cell.                                            *)
(***************************************************************************)
\* What the cell of element i of f holds in an array.
HeldAt(f, a, i) == a[BlockOf(f, i)][CellOf(f, i)]

\* The same blocks are there.
SameBlocks(a, b, n) == \A k \in 0 .. n - 1 : b[k] = NoBlock <=> a[k] = NoBlock

\* One block is written.
WithBlockAs(d, k, b) == [d EXCEPT !.array[k] = b]

\* A block that is there may be written.
LEMMA BlockWritten ==
  ASSUME DequeAssumption, NEW d, IsDeque(d), NEW k \in 0 .. d.narray - 1, d.array[k] # NoBlock,
         NEW b \in BlockSet, NEW e, e = WithBlockAs(d, k, b)
  PROVE  /\ IsDeque(e) /\ SameEnds(d, e) /\ SameBlocks(d.array, e.array, d.narray)
         /\ \A c \in 0 .. d.narray - 1 : e.array[c] = IF c = k THEN b ELSE d.array[c]
<1>1. PICK a : a = [d.array EXCEPT ![k] = b]
  OBVIOUS
<1>2. e = [d EXCEPT !.array = a]
  BY <1>1 DEF IsDeque, WithBlockAs
<1>3. a \in Arrays(d.narray) /\ \A c \in 0 .. d.narray - 1 : a[c] = IF c = k THEN b ELSE d.array[c]
  BY <1>1, DequeIs DEF Arrays
<1>4. IsDeque(e) /\ SameEnds(d, e) /\ e.array = a
  <2>1. DequeAssumption /\ IsDeque(d) /\ a \in Arrays(d.narray) /\ e = [d EXCEPT !.array = a]
    BY <1>2, <1>3
  <2>2. QED
    BY ONLY <2>1, OtherArray
<1>5. b # NoBlock
  BY BlockIsThere
<1>6. SameBlocks(d.array, a, d.narray)
  BY <1>3, <1>5 DEF SameBlocks
<1>7. QED
  BY <1>3, <1>4, <1>6

\* Elements in one block lie as far apart as their cells.
LEMMA SameBlock ==
  ASSUME DequeAssumption, NEW f, IsDeque(f), NEW i \in Int, InRing(f, i), NEW x \in Int, InRing(f, x),
         BlockOf(f, x) = BlockOf(f, i)
  PROVE  x - i = CellOf(f, x) - CellOf(f, i)
<1>1. PICK a \in 0 .. f.narray - 1, b \in Cells : i + f.lindex = a * Items + b
  BY DEF InRing
<1>2. PICK e \in 0 .. f.narray - 1, c \in Cells : x + f.lindex = e * Items + c
  BY DEF InRing
<1>3. BlockOf(f, i) = Turned(f.front, a, f.narray) /\ CellOf(f, i) = b
  BY <1>1, PlaceIs
<1>4. BlockOf(f, x) = Turned(f.front, e, f.narray) /\ CellOf(f, x) = c
  BY <1>2, PlaceIs
<1>5. f.front \in 0 .. f.narray - 1 /\ f.narray \in Nat /\ f.lindex \in Int
  BY DequeIs
<1>6. a = e
  BY <1>3, <1>4, <1>5 DEF Turned
<1>7. PICK y : y = a * Items
  OBVIOUS
<1>8. y \in Int /\ b \in Int /\ c \in Int
  BY <1>7, CellsAre
<1>9. i + f.lindex = y + b /\ x + f.lindex = y + c
  BY <1>1, <1>2, <1>6, <1>7
<1>10. x - i = c - b
  BY ONLY i \in Int, x \in Int, <1>5, <1>8, <1>9
<1>11. QED
  BY <1>3, <1>4, <1>10

\* An element t cells further on in the same block.
LEMMA NearInBlock ==
  ASSUME DequeAssumption, NEW f, IsDeque(f), NEW i \in Int, InRing(f, i), NEW t \in Int, CellOf(f, i) + t \in Cells,
         NEW x, x = i + t
  PROVE  InRing(f, x) /\ BlockOf(f, x) = BlockOf(f, i) /\ CellOf(f, x) = CellOf(f, i) + t
<1>1. PICK a \in 0 .. f.narray - 1, b \in Cells : i + f.lindex = a * Items + b
  BY DEF InRing
<1>2. BlockOf(f, i) = Turned(f.front, a, f.narray) /\ CellOf(f, i) = b
  BY <1>1, PlaceIs
<1>3. PICK c \in Cells : c = b + t
  BY <1>2
<1>4. f.lindex \in Int /\ x \in Int /\ b \in Int
  BY DequeIs, CellsAre
<1>5. PICK y \in Int : y = a * Items
  BY CellsAre
<1>6. x + f.lindex = y + c
  <2>1. i + f.lindex = y + b
    BY <1>1, <1>5
  <2>2. QED
    BY ONLY <1>3, <1>4, <1>5, <2>1, i \in Int, t \in Int, x = i + t
<1>7. x + f.lindex = a * Items + c
  BY <1>5, <1>6
<1>8. BlockOf(f, x) = Turned(f.front, a, f.narray) /\ CellOf(f, x) = c /\ InRing(f, x)
  BY <1>4, <1>7, PlaceIs
<1>9. QED
  BY <1>2, <1>3, <1>8

\* The element behind the last one of a block is the first one of the next.
LEMMA NextBlock ==
  ASSUME DequeAssumption, NEW f, IsDeque(f), NEW i \in Int, InRing(f, i), CellOf(f, i) = Items - 1,
         NEW x, x = i + 1, InRing(f, x), NEW d, d.narray = f.narray
  PROVE  BlockOf(f, x) = Up(d, BlockOf(f, i)) /\ CellOf(f, x) = 0 /\ BlockOf(f, i) = Down(d, BlockOf(f, x))
<1>1. PICK a \in 0 .. f.narray - 1, b \in Cells : i + f.lindex = a * Items + b
  BY DEF InRing
<1>2. BlockOf(f, i) = Turned(f.front, a, f.narray) /\ CellOf(f, i) = b
  BY <1>1, PlaceIs
<1>3. PICK e \in 0 .. f.narray - 1, c \in Cells : x + f.lindex = e * Items + c
  BY DEF InRing
<1>4. f.lindex \in Int /\ f.narray \in Nat \ {0} /\ f.front \in 0 .. f.narray - 1 /\ Items \in Nat \ {0} /\ Items \in Int
  BY DequeIs, CellsAre
<1>5. PICK y \in Int : y = a * Items
  BY <1>4
<1>6. x + f.lindex = y + Items
  BY <1>1, <1>2, <1>4, <1>5
<1>7. PICK p \in Nat : p = a + 1
  BY <1>4
<1>8. p * Items = y + Items
  BY <1>4, <1>5, <1>7
<1>9. e = p /\ c = 0
  <2>1. PICK z : z = x + f.lindex
    OBVIOUS
  <2>2. PICK o \in 0 .. Items - 1 : o = 0
    BY <1>4
  <2>3. Items \in Nat \ {0} /\ z \in Int /\ p \in Nat /\ z = p * Items + o
    BY <1>3, <1>4, <1>6, <1>8, <2>1, <2>2
  <2>4. z \div Items = p /\ z % Items = o
    BY ONLY o \in 0 .. Items - 1, <2>3, Quotient
  <2>5. Items \in Nat \ {0} /\ z \in Int /\ e \in Nat /\ c \in 0 .. Items - 1 /\ z = e * Items + c
    BY <1>3, <1>4, <2>1, <2>3 DEF Cells
  <2>6. z \div Items = e /\ z % Items = c
    BY ONLY <2>5, Quotient, ZenonT(60)
  <2>7. QED
    BY <2>2, <2>4, <2>6
<1>10. BlockOf(f, x) = Turned(f.front, e, f.narray) /\ CellOf(f, x) = c
  BY <1>3, PlaceIs
<1>11. Turned(f.front, a, f.narray) \in 0 .. f.narray - 1 /\ Turned(f.front, e, f.narray) \in 0 .. f.narray - 1
  BY <1>4 DEF Turned
<1>12. /\ Up(d, Turned(f.front, a, f.narray)) =
            IF Turned(f.front, a, f.narray) = f.narray - 1 THEN 0 ELSE Turned(f.front, a, f.narray) + 1
       /\ Down(d, Turned(f.front, e, f.narray)) =
            IF Turned(f.front, e, f.narray) = 0 THEN f.narray - 1 ELSE Turned(f.front, e, f.narray) - 1
  BY <1>4, <1>11, UpDown
<1>13. Up(d, Turned(f.front, a, f.narray)) = Turned(f.front, e, f.narray)
  BY <1>4, <1>7, <1>9, <1>12 DEF Turned
<1>14. Down(d, Turned(f.front, e, f.narray)) = Turned(f.front, a, f.narray)
  BY <1>4, <1>7, <1>9, <1>12 DEF Turned
<1>15. QED
  BY <1>2, <1>9, <1>10, <1>13, <1>14

\* The records a deque may be.
DequeSet == [narray : Nat \ {0}, array : UNION {Arrays(n) : n \in Nat}, count : Nat,
             lindex : Cells, rindex : Cells, front : Nat, rear : Nat]

\* The rounds of a move are at element i of f, with elements up to i + r to come.
StandsAt(m, f, i) ==
  /\ m \in [d : DequeSet, k : Nat, j : Nat, rest : Nat] /\ IsDeque(m.d) /\ m.d.narray = f.narray
  /\ m.k = BlockOf(f, i) /\ m.j = CellOf(f, i)

\* One round: n elements come from s cells further on.
MovedBy(f, a, b, low, high, s) ==
  \A x \in Int : InRing(f, x) =>
    HeldAt(f, b, x) = IF x \in low .. high THEN HeldAt(f, a, x + s) ELSE HeldAt(f, a, x)

\* What an array holds for an element is a value.
LEMMA HoldsIn ==
  ASSUME DequeAssumption, NEW d, IsDeque(d), NEW f, IsDeque(f), d.narray = f.narray,
         NEW i \in Int, InRing(f, i), d.array[BlockOf(f, i)] # NoBlock
  PROVE  /\ BlockOf(f, i) \in 0 .. d.narray - 1 /\ d.array[BlockOf(f, i)] \in BlockSet
         /\ CellOf(f, i) \in Cells /\ BlockOf(f, i) \in Nat /\ CellOf(f, i) \in Nat
<1>1. BlockOf(f, i) \in 0 .. d.narray - 1
  BY BlockIn
<1>2. CellOf(f, i) \in Cells
  <2>1. PICK a \in 0 .. f.narray - 1, b \in Cells : i + f.lindex = a * Items + b
    BY DEF InRing
  <2>2. QED
    BY <2>1, PlaceIs
<1>3. d.array \in Arrays(d.narray)
  BY DequeIs
<1>4. d.narray \in Nat
  BY DequeIs
<1>5. QED
  BY <1>1, <1>2, <1>3, <1>4, CellsAre DEF Arrays

\* One round towards the left moves elements by one cell, and the rest is to come.
LEMMA R2LStep ==
  ASSUME DequeAssumption, NEW f, IsDeque(f), NEW m, NEW i \in Int, StandsAt(m, f, i), m.rest # 0,
         i + f.lindex >= 0, InRing(f, i + m.rest),
         \A x \in i .. i + m.rest : m.d.array[BlockOf(f, x)] # NoBlock,
         NEW e, e = R2L(m)
  PROVE  \E n \in 1 .. m.rest :
           /\ StandsAt(e, f, i + n) /\ e.rest = m.rest - n
           /\ SameEnds(m.d, e.d) /\ SameBlocks(m.d.array, e.d.array, f.narray)
           /\ MovedBy(f, m.d.array, e.d.array, i, i + n - 1, 1)
<1>1. /\ m.rest \in Nat /\ IsDeque(m.d) /\ m.d.narray = f.narray /\ f.narray \in Nat \ {0}
      /\ Items \in Nat /\ Items >= 2 /\ f.lindex \in Int
  BY DequeIs, CellsAre DEF StandsAt, DequeAssumption
<1>2. \A x \in i .. i + m.rest : InRing(f, x)
  <2>1. SUFFICES ASSUME NEW x \in i .. i + m.rest PROVE InRing(f, x)
    OBVIOUS
  <2>2. PICK y \in Int : y = i + m.rest
    BY <1>1
  <2>3. x \in Int /\ x <= y /\ x + f.lindex >= 0 /\ InRing(f, y)
    BY <1>1, <2>2
  <2>4. QED
    BY <2>3, RingBefore
<1>3. i \in i .. i + m.rest /\ i + 1 \in i .. i + m.rest
  BY <1>1
<1> DEFINE b == BlockOf(f, i)
           c == CellOf(f, i)
           v == m.d.array[b]
<1>4. /\ b \in 0 .. m.d.narray - 1 /\ v \in BlockSet /\ c \in Cells /\ v # NoBlock /\ InRing(f, i)
      /\ m.k = b /\ m.j = c /\ b \in Nat /\ c \in Nat
  BY <1>1, <1>2, <1>3, HoldsIn DEF StandsAt
<1>5. PICK x1 : x1 = i + 1
  OBVIOUS
<1>6. x1 \in Int /\ InRing(f, x1) /\ m.d.array[BlockOf(f, x1)] # NoBlock
  BY <1>2, <1>3, <1>5
<1>7. /\ BlockOf(f, x1) \in 0 .. m.d.narray - 1 /\ m.d.array[BlockOf(f, x1)] \in BlockSet
      /\ BlockOf(f, x1) \in Nat /\ CellOf(f, x1) \in Nat
  BY <1>1, <1>6, HoldsIn
<1>8. CASE c = Items - 1
  <2> DEFINE w == [v EXCEPT ![c] = m.d.array[BlockOf(f, x1)][0]]
             d == [m.d EXCEPT !.array[b] = w]
  <2>1. BlockOf(f, x1) = Up(m.d, b) /\ CellOf(f, x1) = 0
    BY <1>1, <1>4, <1>5, <1>6, <1>8, NextBlock
  <2>2. e = [d |-> [m.d EXCEPT !.array[b][c] = m.d.array[Up(m.d, b)][0]],
             k |-> Up(m.d, b), j |-> 0, rest |-> m.rest - 1]
    BY <1>4, <1>8, Zenon DEF R2L
  <2>3. [m.d EXCEPT !.array[b][c] = m.d.array[Up(m.d, b)][0]] = d
    BY <2>1 DEF IsDeque
  <2>4. w \in BlockSet /\ \A y \in Cells : w[y] = IF y = c THEN m.d.array[BlockOf(f, x1)][0] ELSE v[y]
    BY <1>4, <1>7, CellsAre DEF BlockSet
  <2> HIDE DEF w
  <2>5. /\ IsDeque(d) /\ SameEnds(m.d, d) /\ SameBlocks(m.d.array, d.array, f.narray)
        /\ \A y \in 0 .. m.d.narray - 1 : d.array[y] = IF y = b THEN w ELSE m.d.array[y]
    <3>1. PICK g, h, u, z : g = m.d /\ h = b /\ u = w /\ z = d
      OBVIOUS
    <3>2. /\ DequeAssumption /\ IsDeque(g) /\ h \in 0 .. g.narray - 1 /\ g.array[h] # NoBlock
          /\ u \in BlockSet /\ z = WithBlockAs(g, h, u)
      BY <1>1, <1>4, <2>4, <3>1 DEF WithBlockAs
    <3>3. /\ IsDeque(z) /\ SameEnds(g, z) /\ SameBlocks(g.array, z.array, g.narray)
          /\ \A y \in 0 .. g.narray - 1 : z.array[y] = IF y = h THEN u ELSE g.array[y]
      BY ONLY <3>2, BlockWritten
    <3>4. QED
      BY <1>1, <3>1, <3>3
  <2> HIDE DEF d
  <2>6. MovedBy(f, m.d.array, d.array, i, i, 1)
    <3>1. SUFFICES ASSUME NEW x \in Int, InRing(f, x)
                   PROVE  HeldAt(f, d.array, x) = IF x = i THEN HeldAt(f, m.d.array, x + 1) ELSE HeldAt(f, m.d.array, x)
      BY DEF MovedBy
    <3>2. BlockOf(f, x) \in 0 .. m.d.narray - 1
      BY <1>1, BlockIn
    <3>3. CASE x = i
      BY <1>4, <1>5, <2>1, <2>4, <2>5, <3>2, <3>3 DEF HeldAt
    <3>4. CASE x # i /\ BlockOf(f, x) = b
      <4>1. CellOf(f, x) # c
        BY <1>4, <3>1, <3>4, PlacesDiffer DEF PlaceOf
      <4>2. CellOf(f, x) \in Cells
        BY <1>1, <1>4, <3>1, <3>4, HoldsIn
      <4>3. QED
        BY <1>4, <2>4, <2>5, <3>2, <3>4, <4>1, <4>2 DEF HeldAt
    <3>5. CASE x # i /\ BlockOf(f, x) # b
      BY <2>5, <3>2, <3>5 DEF HeldAt
    <3>6. QED
      BY <3>3, <3>4, <3>5
  <2>7. e = [d |-> d, k |-> BlockOf(f, x1), j |-> CellOf(f, x1), rest |-> m.rest - 1]
    BY <2>1, <2>2, <2>3
  <2>8. d \in DequeSet /\ d.narray = f.narray
    BY <1>1, <2>5 DEF IsDeque, DequeSet, SameEnds
  <2>9. StandsAt(e, f, i + 1)
    <3>1. BlockOf(f, x1) \in Nat /\ CellOf(f, x1) \in Nat /\ m.rest - 1 \in Nat
      BY <1>1, <1>7
    <3>2. PICK k, j, r : k = BlockOf(f, x1) /\ j = CellOf(f, x1) /\ r = m.rest - 1
      OBVIOUS
    <3>3. e = [d |-> d, k |-> k, j |-> j, rest |-> r] /\ k \in Nat /\ j \in Nat /\ r \in Nat
      BY <2>7, <3>1, <3>2
    <3>4. e \in [d : DequeSet, k : Nat, j : Nat, rest : Nat]
      BY <2>8, <3>3
    <3>5. QED
      BY <1>5, <2>5, <2>8, <3>2, <3>3, <3>4 DEF StandsAt
  <2>10. PICK n \in 1 .. m.rest : n = 1
    BY <1>1
  <2>11. i + n - 1 = i
    BY <2>10
  <2>12. QED
    BY <1>1, <2>5, <2>6, <2>7, <2>9, <2>10, <2>11
<1>9. CASE c # Items - 1
  <2> DEFINE n == IF m.rest < Items - 1 - c THEN m.rest ELSE Items - 1 - c
             w == [y \in Cells |-> IF y \in c .. c + n - 1 THEN v[y + 1] ELSE v[y]]
             d == [m.d EXCEPT !.array[b] = w]
  <2>1. e = [d |-> [m.d EXCEPT !.array[b] = [y \in Cells |-> IF y \in c .. c + n - 1 THEN @[y + 1] ELSE @[y]]],
             k |-> b, j |-> c + n, rest |-> m.rest - n]
    BY <1>4, <1>9, Zenon DEF R2L
  <2>2. [m.d EXCEPT !.array[b] = [y \in Cells |-> IF y \in c .. c + n - 1 THEN @[y + 1] ELSE @[y]]] = d
    BY DEF IsDeque
  <2>3. n \in 1 .. m.rest /\ c + n \in Cells /\ c + n <= Items - 1 /\ n \in Int
    BY <1>1, <1>4, <1>9 DEF Cells
  <2> HIDE DEF n
  <2>4. w \in BlockSet /\ \A y \in Cells : w[y] = IF y \in c .. c + n - 1 THEN v[y + 1] ELSE v[y]
    <3>1. \A y \in Cells : y \in c .. c + n - 1 => y + 1 \in Cells
      BY <1>1, <1>4, <2>3 DEF Cells
    <3>2. QED
      BY <1>4, <3>1 DEF BlockSet
  <2> HIDE DEF w
  <2>5. /\ IsDeque(d) /\ SameEnds(m.d, d) /\ SameBlocks(m.d.array, d.array, f.narray)
        /\ \A y \in 0 .. m.d.narray - 1 : d.array[y] = IF y = b THEN w ELSE m.d.array[y]
    <3>1. PICK g, h, u, z : g = m.d /\ h = b /\ u = w /\ z = d
      OBVIOUS
    <3>2. /\ DequeAssumption /\ IsDeque(g) /\ h \in 0 .. g.narray - 1 /\ g.array[h] # NoBlock
          /\ u \in BlockSet /\ z = WithBlockAs(g, h, u)
      BY <1>1, <1>4, <2>4, <3>1 DEF WithBlockAs
    <3>3. /\ IsDeque(z) /\ SameEnds(g, z) /\ SameBlocks(g.array, z.array, g.narray)
          /\ \A y \in 0 .. g.narray - 1 : z.array[y] = IF y = h THEN u ELSE g.array[y]
      BY ONLY <3>2, BlockWritten
    <3>4. QED
      BY <1>1, <3>1, <3>3
  <2> HIDE DEF d
  <2>6. MovedBy(f, m.d.array, d.array, i, i + n - 1, 1)
    <3>1. SUFFICES ASSUME NEW x \in Int, InRing(f, x)
                   PROVE  HeldAt(f, d.array, x) =
                            IF x \in i .. i + n - 1 THEN HeldAt(f, m.d.array, x + 1) ELSE HeldAt(f, m.d.array, x)
      BY DEF MovedBy
    <3>2. BlockOf(f, x) \in 0 .. m.d.narray - 1
      BY <1>1, BlockIn
    <3>3. CASE BlockOf(f, x) = b
      <4>1. x - i = CellOf(f, x) - c
        BY <1>4, <3>1, <3>3, SameBlock
      <4>2. CellOf(f, x) \in Cells /\ CellOf(f, x) \in Int
        BY <1>1, <1>4, <3>1, <3>3, HoldsIn, CellsAre
      <4>3. x \in i .. i + n - 1 <=> CellOf(f, x) \in c .. c + n - 1
        BY <1>4, <2>3, <4>1, <4>2
      <4>4. CASE x \in i .. i + n - 1
        <5>1. CellOf(f, x) + 1 \in Cells
          BY <1>1, <1>4, <2>3, <4>2, <4>3, <4>4 DEF Cells
        <5>2. PICK y : y = x + 1
          OBVIOUS
        <5>3. BlockOf(f, y) = b /\ CellOf(f, y) = CellOf(f, x) + 1
          BY <3>1, <3>3, <5>1, <5>2, NearInBlock
        <5>4. QED
          BY <1>4, <2>4, <2>5, <3>2, <3>3, <4>2, <4>3, <4>4, <5>2, <5>3 DEF HeldAt
      <4>5. CASE x \notin i .. i + n - 1
        BY <1>4, <2>4, <2>5, <3>2, <3>3, <4>2, <4>3, <4>5 DEF HeldAt
      <4>6. QED
        BY <4>4, <4>5
    <3>4. CASE BlockOf(f, x) # b
      <4>1. x \notin i .. i + n - 1
        <5>1. SUFFICES ASSUME x \in i .. i + n - 1 PROVE FALSE
          OBVIOUS
        <5>2. PICK t \in Int : t = x - i
          OBVIOUS
        <5>3. c + t \in Cells /\ x = i + t
          BY <1>1, <1>4, <2>3, <5>1, <5>2 DEF Cells
        <5>4. BlockOf(f, x) = b
          BY <1>4, <5>3, NearInBlock
        <5>5. QED
          BY <3>4, <5>4
      <4>2. QED
        BY <2>5, <3>2, <3>4, <4>1 DEF HeldAt
    <3>5. QED
      BY <3>3, <3>4
  <2>7. PICK x : x = i + n
    OBVIOUS
  <2>8. BlockOf(f, x) = b /\ CellOf(f, x) = c + n
    BY <1>4, <2>3, <2>7, NearInBlock
  <2>9. e = [d |-> d, k |-> BlockOf(f, x), j |-> CellOf(f, x), rest |-> m.rest - n]
    BY <2>1, <2>2, <2>8
  <2>10. d \in DequeSet /\ d.narray = f.narray /\ c + n \in Nat
    BY <1>1, <2>3, <2>5, CellsAre DEF IsDeque, DequeSet, SameEnds
  <2>11. StandsAt(e, f, x)
    <3>1. BlockOf(f, x) \in Nat /\ CellOf(f, x) \in Nat /\ m.rest - n \in Nat
      BY <1>1, <1>4, <2>3, <2>8, <2>10
    <3>2. PICK k, j, r : k = BlockOf(f, x) /\ j = CellOf(f, x) /\ r = m.rest - n
      OBVIOUS
    <3>3. e = [d |-> d, k |-> k, j |-> j, rest |-> r] /\ k \in Nat /\ j \in Nat /\ r \in Nat
      BY <2>9, <3>1, <3>2
    <3>4. e \in [d : DequeSet, k : Nat, j : Nat, rest : Nat]
      BY <2>10, <3>3
    <3>5. QED
      BY <2>5, <2>10, <3>2, <3>3, <3>4 DEF StandsAt
  <2>12. QED
    BY <2>3, <2>5, <2>6, <2>7, <2>9, <2>11
<1>10. QED
  BY <1>8, <1>9

\* One round towards the right.
LEMMA L2RStep ==
  ASSUME DequeAssumption, NEW f, IsDeque(f), NEW m, NEW i \in Int, StandsAt(m, f, i), m.rest # 0,
         i - m.rest + f.lindex >= 0, InRing(f, i),
         \A x \in i - m.rest .. i : m.d.array[BlockOf(f, x)] # NoBlock,
         NEW e, e = L2R(m)
  PROVE  \E n \in 1 .. m.rest :
           /\ StandsAt(e, f, i - n) /\ e.rest = m.rest - n
           /\ SameEnds(m.d, e.d) /\ SameBlocks(m.d.array, e.d.array, f.narray)
           /\ MovedBy(f, m.d.array, e.d.array, i - n + 1, i, -1)
<1>1. /\ m.rest \in Nat /\ IsDeque(m.d) /\ m.d.narray = f.narray /\ f.narray \in Nat \ {0}
      /\ Items \in Nat /\ Items >= 2 /\ f.lindex \in Int
  BY DequeIs, CellsAre DEF StandsAt, DequeAssumption
<1>2. \A x \in i - m.rest .. i : InRing(f, x)
  <2>1. SUFFICES ASSUME NEW x \in i - m.rest .. i PROVE InRing(f, x)
    OBVIOUS
  <2>2. x \in Int /\ x <= i /\ x + f.lindex >= 0
    BY <1>1
  <2>3. QED
    BY <2>2, RingBefore
<1>3. i \in i - m.rest .. i /\ i - 1 \in i - m.rest .. i
  BY <1>1
<1> DEFINE b == BlockOf(f, i)
           c == CellOf(f, i)
           v == m.d.array[b]
<1>4. /\ b \in 0 .. m.d.narray - 1 /\ v \in BlockSet /\ c \in Cells /\ v # NoBlock /\ InRing(f, i)
      /\ m.k = b /\ m.j = c /\ b \in Nat /\ c \in Nat
  BY <1>1, <1>2, <1>3, HoldsIn DEF StandsAt
<1>5. PICK x1 : x1 = i - 1
  OBVIOUS
<1>6. x1 \in Int /\ InRing(f, x1) /\ m.d.array[BlockOf(f, x1)] # NoBlock
  BY <1>2, <1>3, <1>5
<1>7. /\ BlockOf(f, x1) \in 0 .. m.d.narray - 1 /\ m.d.array[BlockOf(f, x1)] \in BlockSet
      /\ BlockOf(f, x1) \in Nat /\ CellOf(f, x1) \in Nat
  BY <1>1, <1>6, HoldsIn
<1>8. CASE c = 0
  <2> DEFINE w == [v EXCEPT ![c] = m.d.array[BlockOf(f, x1)][Items - 1]]
             d == [m.d EXCEPT !.array[b] = w]
  <2>1. BlockOf(f, x1) = Down(m.d, b) /\ CellOf(f, x1) = Items - 1
    <3>1. i = x1 + 1
      BY <1>5
    <3>2. CellOf(f, x1) = Items - 1
      <4>1. SUFFICES ASSUME CellOf(f, x1) # Items - 1 PROVE FALSE
        OBVIOUS
      <4>2. CellOf(f, x1) + 1 \in Cells /\ CellOf(f, x1) + 1 # 0
        BY <1>1, <1>6, <4>1, HoldsIn DEF Cells
      <4>3. CellOf(f, i) = CellOf(f, x1) + 1
        BY <1>6, <3>1, <4>2, NearInBlock
      <4>4. QED
        BY <1>8, <4>2, <4>3
    <3>3. QED
      BY <1>1, <1>4, <1>6, <3>1, <3>2, NextBlock
  <2>2. e = [d |-> [m.d EXCEPT !.array[b][c] = m.d.array[Down(m.d, b)][Items - 1]],
             k |-> Down(m.d, b), j |-> Items - 1, rest |-> m.rest - 1]
    BY <1>4, <1>8, Zenon DEF L2R
  <2>3. [m.d EXCEPT !.array[b][c] = m.d.array[Down(m.d, b)][Items - 1]] = d
    BY <2>1 DEF IsDeque
  <2>4. w \in BlockSet /\ \A y \in Cells : w[y] = IF y = c THEN m.d.array[BlockOf(f, x1)][Items - 1] ELSE v[y]
    BY <1>4, <1>7, CellsAre DEF BlockSet
  <2> HIDE DEF w
  <2>5. /\ IsDeque(d) /\ SameEnds(m.d, d) /\ SameBlocks(m.d.array, d.array, f.narray)
        /\ \A y \in 0 .. m.d.narray - 1 : d.array[y] = IF y = b THEN w ELSE m.d.array[y]
    <3>1. PICK g, h, u, z : g = m.d /\ h = b /\ u = w /\ z = d
      OBVIOUS
    <3>2. /\ DequeAssumption /\ IsDeque(g) /\ h \in 0 .. g.narray - 1 /\ g.array[h] # NoBlock
          /\ u \in BlockSet /\ z = WithBlockAs(g, h, u)
      BY <1>1, <1>4, <2>4, <3>1 DEF WithBlockAs
    <3>3. /\ IsDeque(z) /\ SameEnds(g, z) /\ SameBlocks(g.array, z.array, g.narray)
          /\ \A y \in 0 .. g.narray - 1 : z.array[y] = IF y = h THEN u ELSE g.array[y]
      BY ONLY <3>2, BlockWritten
    <3>4. QED
      BY <1>1, <3>1, <3>3
  <2> HIDE DEF d
  <2>6. MovedBy(f, m.d.array, d.array, i, i, -1)
    <3>1. SUFFICES ASSUME NEW x \in Int, InRing(f, x)
                   PROVE  HeldAt(f, d.array, x) = IF x = i THEN HeldAt(f, m.d.array, x + -1) ELSE HeldAt(f, m.d.array, x)
      BY DEF MovedBy
    <3>2. BlockOf(f, x) \in 0 .. m.d.narray - 1
      BY <1>1, BlockIn
    <3>3. CASE x = i
      BY <1>4, <1>5, <2>1, <2>4, <2>5, <3>2, <3>3 DEF HeldAt
    <3>4. CASE x # i /\ BlockOf(f, x) = b
      <4>1. CellOf(f, x) # c
        BY <1>4, <3>1, <3>4, PlacesDiffer DEF PlaceOf
      <4>2. CellOf(f, x) \in Cells
        BY <1>1, <1>4, <3>1, <3>4, HoldsIn
      <4>3. QED
        BY <1>4, <2>4, <2>5, <3>2, <3>4, <4>1, <4>2 DEF HeldAt
    <3>5. CASE x # i /\ BlockOf(f, x) # b
      BY <2>5, <3>2, <3>5 DEF HeldAt
    <3>6. QED
      BY <3>3, <3>4, <3>5
  <2>7. e = [d |-> d, k |-> BlockOf(f, x1), j |-> CellOf(f, x1), rest |-> m.rest - 1]
    BY <2>1, <2>2, <2>3
  <2>8. d \in DequeSet /\ d.narray = f.narray
    BY <1>1, <2>5 DEF IsDeque, DequeSet, SameEnds
  <2>9. StandsAt(e, f, i - 1)
    <3>1. BlockOf(f, x1) \in Nat /\ CellOf(f, x1) \in Nat /\ m.rest - 1 \in Nat
      BY <1>1, <1>7
    <3>2. PICK k, j, r : k = BlockOf(f, x1) /\ j = CellOf(f, x1) /\ r = m.rest - 1
      OBVIOUS
    <3>3. e = [d |-> d, k |-> k, j |-> j, rest |-> r] /\ k \in Nat /\ j \in Nat /\ r \in Nat
      BY <2>7, <3>1, <3>2
    <3>4. e \in [d : DequeSet, k : Nat, j : Nat, rest : Nat]
      BY <2>8, <3>3
    <3>5. QED
      BY <1>5, <2>5, <2>8, <3>2, <3>3, <3>4 DEF StandsAt
  <2>10. PICK n \in 1 .. m.rest : n = 1
    BY <1>1
  <2>11. i - n + 1 = i
    BY <2>10
  <2>12. QED
    BY <1>1, <2>5, <2>6, <2>7, <2>9, <2>10, <2>11
<1>9. CASE c # 0
  <2> DEFINE n == IF m.rest < c THEN m.rest ELSE c
             w == [y \in Cells |-> IF y \in c - n + 1 .. c THEN v[y - 1] ELSE v[y]]
             d == [m.d EXCEPT !.array[b] = w]
  <2>1. e = [d |-> [m.d EXCEPT !.array[b] = [y \in Cells |-> IF y \in c - n + 1 .. c THEN @[y - 1] ELSE @[y]]],
             k |-> b, j |-> c - n, rest |-> m.rest - n]
    BY <1>4, <1>9, Zenon DEF L2R
  <2>2. [m.d EXCEPT !.array[b] = [y \in Cells |-> IF y \in c - n + 1 .. c THEN @[y - 1] ELSE @[y]]] = d
    BY DEF IsDeque
  <2>3. n \in 1 .. m.rest /\ c - n \in Cells /\ c - n >= 0 /\ n \in Int
    BY <1>1, <1>4, <1>9 DEF Cells
  <2> HIDE DEF n
  <2>4. w \in BlockSet /\ \A y \in Cells : w[y] = IF y \in c - n + 1 .. c THEN v[y - 1] ELSE v[y]
    <3>1. \A y \in Cells : y \in c - n + 1 .. c => y - 1 \in Cells
      BY <1>1, <1>4, <2>3 DEF Cells
    <3>2. QED
      BY <1>4, <3>1 DEF BlockSet
  <2> HIDE DEF w
  <2>5. /\ IsDeque(d) /\ SameEnds(m.d, d) /\ SameBlocks(m.d.array, d.array, f.narray)
        /\ \A y \in 0 .. m.d.narray - 1 : d.array[y] = IF y = b THEN w ELSE m.d.array[y]
    <3>1. PICK g, h, u, z : g = m.d /\ h = b /\ u = w /\ z = d
      OBVIOUS
    <3>2. /\ DequeAssumption /\ IsDeque(g) /\ h \in 0 .. g.narray - 1 /\ g.array[h] # NoBlock
          /\ u \in BlockSet /\ z = WithBlockAs(g, h, u)
      BY <1>1, <1>4, <2>4, <3>1 DEF WithBlockAs
    <3>3. /\ IsDeque(z) /\ SameEnds(g, z) /\ SameBlocks(g.array, z.array, g.narray)
          /\ \A y \in 0 .. g.narray - 1 : z.array[y] = IF y = h THEN u ELSE g.array[y]
      BY ONLY <3>2, BlockWritten
    <3>4. QED
      BY <1>1, <3>1, <3>3
  <2> HIDE DEF d
  <2>6. MovedBy(f, m.d.array, d.array, i - n + 1, i, -1)
    <3>1. SUFFICES ASSUME NEW x \in Int, InRing(f, x)
                   PROVE  HeldAt(f, d.array, x) =
                            IF x \in i - n + 1 .. i THEN HeldAt(f, m.d.array, x + -1) ELSE HeldAt(f, m.d.array, x)
      BY DEF MovedBy
    <3>2. BlockOf(f, x) \in 0 .. m.d.narray - 1
      BY <1>1, BlockIn
    <3>3. CASE BlockOf(f, x) = b
      <4>1. x - i = CellOf(f, x) - c
        BY <1>4, <3>1, <3>3, SameBlock
      <4>2. CellOf(f, x) \in Cells /\ CellOf(f, x) \in Int
        BY <1>1, <1>4, <3>1, <3>3, HoldsIn, CellsAre
      <4>3. x \in i - n + 1 .. i <=> CellOf(f, x) \in c - n + 1 .. c
        BY <1>4, <2>3, <4>1, <4>2
      <4>4. CASE x \in i - n + 1 .. i
        <5>1. CellOf(f, x) + -1 \in Cells
          BY <1>1, <1>4, <2>3, <4>2, <4>3, <4>4 DEF Cells
        <5>2. PICK y : y = x + -1
          OBVIOUS
        <5>3. BlockOf(f, y) = b /\ CellOf(f, y) = CellOf(f, x) + -1
          BY <3>1, <3>3, <5>1, <5>2, NearInBlock
        <5>4. QED
          BY <1>4, <2>4, <2>5, <3>2, <3>3, <4>2, <4>3, <4>4, <5>2, <5>3 DEF HeldAt
      <4>5. CASE x \notin i - n + 1 .. i
        BY <1>4, <2>4, <2>5, <3>2, <3>3, <4>2, <4>3, <4>5 DEF HeldAt
      <4>6. QED
        BY <4>4, <4>5
    <3>4. CASE BlockOf(f, x) # b
      <4>1. x \notin i - n + 1 .. i
        <5>1. SUFFICES ASSUME x \in i - n + 1 .. i PROVE FALSE
          OBVIOUS
        <5>2. PICK t \in Int : t = x - i
          OBVIOUS
        <5>3. c + t \in Cells /\ x = i + t
          BY <1>1, <1>4, <2>3, <5>1, <5>2 DEF Cells
        <5>4. BlockOf(f, x) = b
          BY <1>4, <5>3, NearInBlock
        <5>5. QED
          BY <3>4, <5>4
      <4>2. QED
        BY <2>5, <3>2, <3>4, <4>1 DEF HeldAt
    <3>5. QED
      BY <3>3, <3>4
  <2>7. PICK x : x = i - n
    OBVIOUS
  <2>8. BlockOf(f, x) = b /\ CellOf(f, x) = c - n
    <3>1. PICK t \in Int : t = -n
      BY <2>3
    <3>2. c + t = c - n /\ x = i + t
      BY <1>4, <2>3, <2>7, <3>1
    <3>3. QED
      BY <1>4, <2>3, <3>2, NearInBlock
  <2>9. e = [d |-> d, k |-> BlockOf(f, x), j |-> CellOf(f, x), rest |-> m.rest - n]
    BY <2>1, <2>2, <2>8
  <2>10. d \in DequeSet /\ d.narray = f.narray /\ c - n \in Nat
    BY <1>1, <2>3, <2>5, CellsAre DEF IsDeque, DequeSet, SameEnds
  <2>11. StandsAt(e, f, x)
    <3>1. BlockOf(f, x) \in Nat /\ CellOf(f, x) \in Nat /\ m.rest - n \in Nat
      BY <1>1, <1>4, <2>3, <2>8, <2>10
    <3>2. PICK k, j, r : k = BlockOf(f, x) /\ j = CellOf(f, x) /\ r = m.rest - n
      OBVIOUS
    <3>3. e = [d |-> d, k |-> k, j |-> j, rest |-> r] /\ k \in Nat /\ j \in Nat /\ r \in Nat
      BY <2>9, <3>1, <3>2
    <3>4. e \in [d : DequeSet, k : Nat, j : Nat, rest : Nat]
      BY <2>10, <3>3
    <3>5. QED
      BY <2>5, <2>10, <3>2, <3>3, <3>4 DEF StandsAt
  <2>12. QED
    BY <2>3, <2>5, <2>6, <2>7, <2>9, <2>11
<1>10. QED
  BY <1>8, <1>9

\* Two moves, the second behind the first.
LEMMA R2LOn ==
  ASSUME DequeAssumption, NEW f, IsDeque(f), NEW a, NEW b, NEW c, NEW p \in Int, NEW q \in Int, NEW r \in Int,
         p <= q, q <= r + 1,
         p + f.lindex >= 0, InRing(f, r + 1), MovedBy(f, a, b, p, q - 1, 1), MovedBy(f, b, c, q, r, 1)
  PROVE  MovedBy(f, a, c, p, r, 1)
<1>1. SUFFICES ASSUME NEW x \in Int, InRing(f, x)
               PROVE  HeldAt(f, c, x) = IF x \in p .. r THEN HeldAt(f, a, x + 1) ELSE HeldAt(f, a, x)
  BY DEF MovedBy
<1>2. PICK y \in Int : y = x + 1
  OBVIOUS
<1>3. x \in p .. r => InRing(f, y)
  <2>1. f.lindex \in Int
    BY DequeIs
  <2>2. PICK z \in Int : z = r + 1
    OBVIOUS
  <2>3. x \in p .. r => y <= z /\ y + f.lindex >= 0
    BY <1>2, <2>1, <2>2
  <2>4. QED
    BY <1>2, <2>2, <2>3, RingBefore
<1>4. HeldAt(f, b, x) = IF x \in p .. q - 1 THEN HeldAt(f, a, y) ELSE HeldAt(f, a, x)
  BY <1>1, <1>2 DEF MovedBy
<1>5. HeldAt(f, c, x) = IF x \in q .. r THEN HeldAt(f, b, y) ELSE HeldAt(f, b, x)
  BY <1>1, <1>2 DEF MovedBy
<1>6. x \in p .. r => HeldAt(f, b, y) = IF y \in p .. q - 1 THEN HeldAt(f, a, y + 1) ELSE HeldAt(f, a, y)
  BY <1>2, <1>3 DEF MovedBy
<1>7. CASE x \in p .. q - 1
  <2>1. x \in p .. r /\ x \notin q .. r
    BY <1>7
  <2>2. QED
    BY <1>2, <1>4, <1>5, <1>7, <2>1
<1>8. CASE x \in q .. r
  <2>1. x \in p .. r /\ x \notin p .. q - 1 /\ y \notin p .. q - 1
    BY <1>2, <1>8
  <2>2. QED
    BY <1>2, <1>4, <1>5, <1>6, <1>8, <2>1
<1>9. CASE x \notin p .. q - 1 /\ x \notin q .. r
  <2>1. x \notin p .. r
    BY <1>9
  <2>2. QED
    BY <1>4, <1>5, <1>9, <2>1
<1>10. QED
  BY <1>7, <1>8, <1>9

\* The move is n elements on its way.
OnWayR2L(m, d, f, i, r, n) ==
  /\ StandsAt(m, f, i + n) /\ m.rest = r - n
  /\ SameEnds(d, m.d) /\ SameBlocks(d.array, m.d.array, f.narray)
  /\ MovedBy(f, d.array, m.d.array, i, i + n - 1, 1)

\* The elements of a move are there.
ThereR2L(d, f, i, r) ==
  /\ IsDeque(f) /\ IsDeque(d) /\ d.narray = f.narray /\ i \in Int /\ r \in Nat
  /\ i + f.lindex >= 0 /\ InRing(f, i + r)
  /\ \A x \in i .. i + r : d.array[BlockOf(f, x)] # NoBlock

\* A round of a move that is on its way takes it further, unless it is over.
LEMMA OneRoundR2L ==
  ASSUME DequeAssumption, NEW d, NEW f, NEW i, NEW r, ThereR2L(d, f, i, r),
         NEW n \in 0 .. r, NEW m, OnWayR2L(m, d, f, i, r, n), NEW e, e = R2L(m)
  PROVE  \E p \in 0 .. r : OnWayR2L(e, d, f, i, r, p) /\ (n < p \/ (n = r /\ p = r))
<1>1. i \in Int /\ r \in Nat /\ IsDeque(f) /\ IsDeque(d) /\ d.narray = f.narray /\ f.lindex \in Int /\ m.rest = r - n
  BY DequeIs DEF ThereR2L, OnWayR2L
<1>2. CASE m.rest = 0
  <2>1. e = m
    BY <1>2, Zenon DEF R2L
  <2>2. n = r
    BY <1>1, <1>2
  <2>3. QED
    BY <2>1, <2>2
<1>3. CASE m.rest # 0
  <2>1. PICK j \in Int : j = i + n
    BY <1>1
  <2>2. j + f.lindex >= 0 /\ j + m.rest = i + r
    BY <1>1, <2>1 DEF ThereR2L
  <2>3. StandsAt(m, f, j) /\ IsDeque(m.d)
    BY <2>1 DEF OnWayR2L, StandsAt
  <2>4. ASSUME NEW x \in j .. j + m.rest
        PROVE  m.d.array[BlockOf(f, x)] # NoBlock
    <3>1. x \in i .. i + r /\ x \in Int
      BY <1>1, <2>1
    <3>2. d.array[BlockOf(f, x)] # NoBlock
      BY <3>1 DEF ThereR2L
    <3>3. BlockOf(f, x) \in 0 .. f.narray - 1
      BY <1>1, <3>1, BlockIn
    <3>4. QED
      BY <3>2, <3>3 DEF OnWayR2L, SameBlocks
  <2>5. InRing(f, j + m.rest)
    BY <1>1, <2>1, <2>2 DEF ThereR2L
  <2>6. /\ DequeAssumption /\ IsDeque(f) /\ j \in Int /\ StandsAt(m, f, j) /\ m.rest # 0
        /\ j + f.lindex >= 0 /\ InRing(f, j + m.rest)
        /\ \A x \in j .. j + m.rest : m.d.array[BlockOf(f, x)] # NoBlock
        /\ e = R2L(m)
    BY <1>1, <1>3, <2>2, <2>3, <2>4, <2>5
  <2>7. PICK t \in 1 .. m.rest :
          /\ StandsAt(e, f, j + t) /\ e.rest = m.rest - t
          /\ SameEnds(m.d, e.d) /\ SameBlocks(m.d.array, e.d.array, f.narray)
          /\ MovedBy(f, m.d.array, e.d.array, j, j + t - 1, 1)
    BY ONLY <2>6, R2LStep
  <2>8. PICK p \in 0 .. r : p = n + t
    BY <1>1, <2>7
  <2>9. j + t = i + p /\ e.rest = r - p /\ n < p
    BY <1>1, <2>1, <2>7, <2>8
  <2>10. SameEnds(d, e.d) /\ SameBlocks(d.array, e.d.array, f.narray)
    BY <2>7 DEF OnWayR2L, SameEnds, SameBlocks
  <2>11. MovedBy(f, d.array, e.d.array, i, i + p - 1, 1)
    <3>1. PICK u, v, w : u = i /\ v = j /\ w = i + p - 1
      OBVIOUS
    <3>2. u \in Int /\ v \in Int /\ w \in Int /\ u <= v /\ v <= w + 1
      BY <1>1, <2>1, <2>7, <2>8, <3>1
    <3>3. MovedBy(f, d.array, m.d.array, u, v - 1, 1) /\ MovedBy(f, m.d.array, e.d.array, v, w, 1)
      BY <1>1, <2>1, <2>7, <2>8, <3>1 DEF OnWayR2L
    <3>4. InRing(f, w + 1) /\ u + f.lindex >= 0
      <4>1. PICK y \in Int, z \in Int : y = w + 1 /\ z = i + r
        BY <1>1, <3>2
      <4>2. y <= z /\ y + f.lindex >= 0 /\ InRing(f, z) /\ u + f.lindex >= 0
        BY <1>1, <2>1, <2>7, <2>8, <3>1, <4>1 DEF ThereR2L
      <4>3. QED
        BY <1>1, <4>1, <4>2, RingBefore
    <3>5. MovedBy(f, d.array, e.d.array, u, w, 1)
      BY <1>1, <3>2, <3>3, <3>4, R2LOn
    <3>6. QED
      BY <3>1, <3>5
  <2>12. QED
    <3>1. StandsAt(e, f, i + p)
      BY <2>7, <2>9
    <3>2. OnWayR2L(e, d, f, i, r, p)
      BY <2>9, <2>10, <2>11, <3>1 DEF OnWayR2L
    <3>3. QED
      BY <2>9, <3>2
<1>4. QED
  BY <1>2, <1>3

\* What the recursive function of MoveR2L is.
RoundsR2L(h, x, r) == h = [n \in 0 .. r |-> IF n = 0 THEN x ELSE R2L(h[n - 1])]

\* A move by one cell.
LEMMA MoveR2LIs ==
  ASSUME DequeAssumption, NEW d, NEW f, NEW i, NEW r, ThereR2L(d, f, i, r),
         NEW e, e = MoveR2L(d, BlockOf(f, i), CellOf(f, i), r)
  PROVE  /\ IsDeque(e) /\ SameEnds(d, e) /\ SameBlocks(d.array, e.array, f.narray)
         /\ MovedBy(f, d.array, e.array, i, i + r - 1, 1)
<1> DEFINE x == [d |-> d, k |-> BlockOf(f, i), j |-> CellOf(f, i), rest |-> r]
           U == {m \in [d : DequeSet, k : Nat, j : Nat, rest : Nat] : \E n \in 0 .. r : OnWayR2L(m, d, f, i, r, n)}
           G == [m \in U |-> R2L(m)]
           moved[n \in 0 .. r] == IF n = 0 THEN x ELSE R2L(moved[n - 1])
<1>1. i \in Int /\ r \in Nat /\ IsDeque(f) /\ IsDeque(d) /\ d.narray = f.narray
  BY DEF ThereR2L
<1>2. OnWayR2L(x, d, f, i, r, 0) /\ x \in U
  <2>1. d.array[BlockOf(f, i)] # NoBlock /\ InRing(f, i)
    <3>1. PICK z \in Int : z = i + r
      BY <1>1
    <3>2. i \in i .. i + r /\ i <= z /\ i + f.lindex >= 0 /\ InRing(f, z) /\ f.lindex \in Int
      BY <1>1, <3>1, DequeIs DEF ThereR2L
    <3>3. QED
      BY <1>1, <3>2, RingBefore DEF ThereR2L
  <2>2. BlockOf(f, i) \in Nat /\ CellOf(f, i) \in Nat
    BY <1>1, <2>1, HoldsIn
  <2>3. PICK k, j : k = BlockOf(f, i) /\ j = CellOf(f, i)
    OBVIOUS
  <2>4. x = [d |-> d, k |-> k, j |-> j, rest |-> r] /\ k \in Nat /\ j \in Nat
    BY <2>2, <2>3
  <2>5. d \in DequeSet
    BY <1>1 DEF IsDeque, DequeSet
  <2>6. x \in [d : DequeSet, k : Nat, j : Nat, rest : Nat]
    BY <1>1, <2>4, <2>5
  <2>7. StandsAt(x, f, i)
    BY <1>1, <2>3, <2>4, <2>6 DEF StandsAt
  <2>8. MovedBy(f, d.array, x.d.array, i, i + 0 - 1, 1) /\ SameEnds(d, x.d) /\ SameBlocks(d.array, x.d.array, f.narray)
    BY <1>1, <2>4 DEF MovedBy, SameEnds, SameBlocks
  <2>9. i + 0 = i /\ x.rest = r - 0 /\ 0 \in 0 .. r
    BY <1>1, <2>4
  <2> HIDE DEF x
  <2>10. OnWayR2L(x, d, f, i, r, 0)
    BY <2>7, <2>8, <2>9 DEF OnWayR2L
  <2>11. QED
    BY <2>6, <2>9, <2>10
<1> HIDE DEF x
<1>3. ASSUME NEW m \in U
      PROVE  R2L(m) \in U
  <2>1. PICK n \in 0 .. r : OnWayR2L(m, d, f, i, r, n)
    BY <1>3
  <2>2. PICK o : o = R2L(m)
    OBVIOUS
  <2>3. \E p \in 0 .. r : OnWayR2L(o, d, f, i, r, p)
    BY <2>1, <2>2, OneRoundR2L
  <2>4. o \in [d : DequeSet, k : Nat, j : Nat, rest : Nat]
    BY <2>3 DEF OnWayR2L, StandsAt
  <2>5. QED
    BY <2>2, <2>3, <2>4
<1> HIDE DEF U
<1>4. G \in [U -> U] /\ \A m \in U : G[m] = R2L(m)
  BY <1>3
<1> HIDE DEF G
<1>5. moved = CHOOSE h : RoundsR2L(h, x, r)
  BY Zenon DEF RoundsR2L
<1>6. MoveR2L(d, BlockOf(f, i), CellOf(f, i), r) = moved[r].d
  BY Zenon DEF MoveR2L, x
<1> HIDE DEF moved
<1>7. PICK g \in [0 .. r -> U] : g[0] = x /\ \A n \in 1 .. r : g[n] = G[g[n - 1]]
  <2>1. G \in [U -> U] /\ x \in U
    BY <1>2, <1>4
  <2>2. \E h : Iterated(h, U, G, x, r)
    BY <1>1, <2>1, Iterates
  <2>3. QED
    BY <1>1, <2>2 DEF Iterated
<1>8. RoundsR2L(g, x, r)
  <2>1. ASSUME NEW n \in 0 .. r
        PROVE  g[n] = IF n = 0 THEN x ELSE R2L(g[n - 1])
    <3>1. CASE n = 0
      BY <1>7, <3>1
    <3>2. CASE n # 0
      <4>1. n \in 1 .. r /\ n - 1 \in 0 .. r
        BY <1>1, <3>2
      <4>2. QED
        BY <1>4, <1>7, <3>2, <4>1
    <3>3. QED
      BY <3>1, <3>2
  <2>2. g = [n \in 0 .. r |-> g[n]]
    BY <1>7
  <2>3. QED
    BY <2>1, <2>2, Zenon DEF RoundsR2L
<1>9. RoundsR2L(moved, x, r)
  BY <1>5, <1>8, Zenon
<1>10. ASSUME NEW n \in 0 .. r
       PROVE  moved[n] = IF n = 0 THEN x ELSE R2L(moved[n - 1])
  BY <1>9, Zenon DEF RoundsR2L
<1> DEFINE T == {n \in Nat : n <= r => \E p \in n .. r : OnWayR2L(moved[n], d, f, i, r, p)}
<1>11. 0 \in T
  <2>1. 0 \in 0 .. r
    BY <1>1
  <2>2. moved[0] = x
    BY <1>10, <2>1
  <2>3. QED
    BY <1>2, <2>1, <2>2
<1>12. ASSUME NEW n \in Nat, n \in T
       PROVE  n + 1 \in T
  <2>1. SUFFICES ASSUME n + 1 <= r
                 PROVE  \E p \in n + 1 .. r : OnWayR2L(moved[n + 1], d, f, i, r, p)
    OBVIOUS
  <2>2. PICK p \in n .. r : OnWayR2L(moved[n], d, f, i, r, p)
    BY <1>1, <1>12, <2>1
  <2>3. PICK o : o = n + 1
    OBVIOUS
  <2>4. o \in 0 .. r /\ o # 0 /\ o - 1 = n
    BY <1>1, <2>1, <2>3
  <2>5. moved[o] = R2L(moved[n])
    BY <1>10, <2>4
  <2>6. PICK q \in 0 .. r : OnWayR2L(moved[o], d, f, i, r, q) /\ (p < q \/ (p = r /\ q = r))
    <3>1. p \in 0 .. r
      BY <1>1, <2>2
    <3>2. QED
      BY <2>2, <2>5, <3>1, OneRoundR2L
  <2>7. CASE p < q
    <3>1. q \in n + 1 .. r
      BY <1>1, <2>2, <2>6, <2>7
    <3>2. QED
      BY <2>3, <2>6, <3>1
  <2>8. CASE p = r /\ q = r
    <3>1. q \in n + 1 .. r
      BY <1>1, <2>1, <2>8
    <3>2. QED
      BY <2>3, <2>6, <3>1
  <2>9. QED
    BY <2>6, <2>7, <2>8
<1> HIDE DEF T
<1>13. \A n \in Nat : n \in T
  BY <1>11, <1>12, SetInduction
<1>14. PICK p \in r .. r : OnWayR2L(moved[r], d, f, i, r, p)
  <2>1. r \in T /\ r \in Nat
    BY <1>1, <1>13
  <2>2. QED
    BY <2>1 DEF T
<1>15. p = r
  BY <1>1, <1>14
<1>16. QED
  BY <1>6, <1>14, <1>15 DEF OnWayR2L, StandsAt

\* Two moves, the second before the first.
LEMMA L2ROn ==
  ASSUME DequeAssumption, NEW f, IsDeque(f), NEW a, NEW b, NEW c, NEW p \in Int, NEW q \in Int, NEW r \in Int,
         p <= q, q <= r + 1,
         p - 1 + f.lindex >= 0, InRing(f, r), MovedBy(f, a, b, q, r, -1), MovedBy(f, b, c, p, q - 1, -1)
  PROVE  MovedBy(f, a, c, p, r, -1)
<1>1. SUFFICES ASSUME NEW x \in Int, InRing(f, x)
               PROVE  HeldAt(f, c, x) = IF x \in p .. r THEN HeldAt(f, a, x + -1) ELSE HeldAt(f, a, x)
  BY DEF MovedBy
<1>2. PICK y \in Int : y = x + -1
  OBVIOUS
<1>3. x \in p .. r => InRing(f, y)
  <2>1. f.lindex \in Int
    BY DequeIs
  <2>2. PICK z \in Int : z = r
    OBVIOUS
  <2>3. x \in p .. r => y <= z /\ y + f.lindex >= 0
    BY <1>2, <2>1, <2>2
  <2>4. QED
    BY <1>2, <2>2, <2>3, RingBefore
<1>4. HeldAt(f, b, x) = IF x \in q .. r THEN HeldAt(f, a, y) ELSE HeldAt(f, a, x)
  BY <1>1, <1>2 DEF MovedBy
<1>5. HeldAt(f, c, x) = IF x \in p .. q - 1 THEN HeldAt(f, b, y) ELSE HeldAt(f, b, x)
  BY <1>1, <1>2 DEF MovedBy
<1>6. x \in p .. r => HeldAt(f, b, y) = IF y \in q .. r THEN HeldAt(f, a, y + -1) ELSE HeldAt(f, a, y)
  BY <1>2, <1>3 DEF MovedBy
<1>7. CASE x \in q .. r
  <2>1. x \in p .. r /\ x \notin p .. q - 1
    BY <1>7
  <2>2. QED
    BY <1>2, <1>4, <1>5, <1>7, <2>1
<1>8. CASE x \in p .. q - 1
  <2>1. x \in p .. r /\ x \notin q .. r /\ y \notin q .. r
    BY <1>2, <1>8
  <2>2. QED
    BY <1>2, <1>4, <1>5, <1>6, <1>8, <2>1
<1>9. CASE x \notin q .. r /\ x \notin p .. q - 1
  <2>1. x \notin p .. r
    BY <1>9
  <2>2. QED
    BY <1>4, <1>5, <1>9, <2>1
<1>10. QED
  BY <1>7, <1>8, <1>9

\* The move is n elements on its way.
OnWayL2R(m, d, f, i, r, n) ==
  /\ StandsAt(m, f, i - n) /\ m.rest = r - n
  /\ SameEnds(d, m.d) /\ SameBlocks(d.array, m.d.array, f.narray)
  /\ MovedBy(f, d.array, m.d.array, i - n + 1, i, -1)

\* The elements of a move are there.
ThereL2R(d, f, i, r) ==
  /\ IsDeque(f) /\ IsDeque(d) /\ d.narray = f.narray /\ i \in Int /\ r \in Nat
  /\ i - r + f.lindex >= 0 /\ InRing(f, i)
  /\ \A x \in i - r .. i : d.array[BlockOf(f, x)] # NoBlock

\* A round of a move that is on its way takes it further, unless it is over.
LEMMA OneRoundL2R ==
  ASSUME DequeAssumption, NEW d, NEW f, NEW i, NEW r, ThereL2R(d, f, i, r),
         NEW n \in 0 .. r, NEW m, OnWayL2R(m, d, f, i, r, n), NEW e, e = L2R(m)
  PROVE  \E p \in 0 .. r : OnWayL2R(e, d, f, i, r, p) /\ (n < p \/ (n = r /\ p = r))
<1>1. i \in Int /\ r \in Nat /\ IsDeque(f) /\ IsDeque(d) /\ d.narray = f.narray /\ f.lindex \in Int /\ m.rest = r - n
  BY DequeIs DEF ThereL2R, OnWayL2R
<1>2. CASE m.rest = 0
  <2>1. e = m
    BY <1>2, Zenon DEF L2R
  <2>2. n = r
    BY <1>1, <1>2
  <2>3. QED
    BY <2>1, <2>2
<1>3. CASE m.rest # 0
  <2>1. PICK j \in Int : j = i - n
    BY <1>1
  <2>2. j - m.rest + f.lindex >= 0 /\ j - m.rest = i - r
    BY <1>1, <2>1 DEF ThereL2R
  <2>3. StandsAt(m, f, j) /\ IsDeque(m.d)
    BY <2>1 DEF OnWayL2R, StandsAt
  <2>4. ASSUME NEW x \in j - m.rest .. j
        PROVE  m.d.array[BlockOf(f, x)] # NoBlock
    <3>1. x \in i - r .. i /\ x \in Int
      BY <1>1, <2>1
    <3>2. d.array[BlockOf(f, x)] # NoBlock
      BY <3>1 DEF ThereL2R
    <3>3. BlockOf(f, x) \in 0 .. f.narray - 1
      BY <1>1, <3>1, BlockIn
    <3>4. QED
      BY <3>2, <3>3 DEF OnWayL2R, SameBlocks
  <2>5. InRing(f, j)
    BY <1>1, <2>1, <2>2, RingBefore DEF ThereL2R
  <2>6. /\ DequeAssumption /\ IsDeque(f) /\ j \in Int /\ StandsAt(m, f, j) /\ m.rest # 0
        /\ j - m.rest + f.lindex >= 0 /\ InRing(f, j)
        /\ \A x \in j - m.rest .. j : m.d.array[BlockOf(f, x)] # NoBlock
        /\ e = L2R(m)
    BY <1>1, <1>3, <2>2, <2>3, <2>4, <2>5
  <2>7. PICK t \in 1 .. m.rest :
          /\ StandsAt(e, f, j - t) /\ e.rest = m.rest - t
          /\ SameEnds(m.d, e.d) /\ SameBlocks(m.d.array, e.d.array, f.narray)
          /\ MovedBy(f, m.d.array, e.d.array, j - t + 1, j, -1)
    BY ONLY <2>6, L2RStep
  <2>8. PICK p \in 0 .. r : p = n + t
    BY <1>1, <2>7
  <2>9. j - t = i - p /\ e.rest = r - p /\ n < p
    BY <1>1, <2>1, <2>7, <2>8
  <2>10. SameEnds(d, e.d) /\ SameBlocks(d.array, e.d.array, f.narray)
    BY <2>7 DEF OnWayL2R, SameEnds, SameBlocks
  <2>11. MovedBy(f, d.array, e.d.array, i - p + 1, i, -1)
    <3>1. PICK u, v, w : u = i - p + 1 /\ v = j + 1 /\ w = i
      OBVIOUS
    <3>2. u \in Int /\ v \in Int /\ w \in Int /\ u <= v /\ v <= w + 1
      BY <1>1, <2>1, <2>7, <2>8, <3>1
    <3>3. MovedBy(f, d.array, m.d.array, v, w, -1) /\ MovedBy(f, m.d.array, e.d.array, u, v - 1, -1)
      BY <1>1, <2>1, <2>7, <2>8, <3>1 DEF OnWayL2R
    <3>4. InRing(f, w) /\ u - 1 + f.lindex >= 0
      <4>1. PICK y \in Int, z \in Int : y = w /\ z = i
        BY <1>1, <3>2
      <4>2. y <= z /\ y + f.lindex >= 0 /\ InRing(f, z) /\ u - 1 + f.lindex >= 0
        BY <1>1, <2>1, <2>7, <2>8, <3>1, <4>1 DEF ThereL2R
      <4>3. QED
        BY <1>1, <4>1, <4>2, RingBefore
    <3>5. MovedBy(f, d.array, e.d.array, u, w, -1)
      BY <1>1, <3>2, <3>3, <3>4, L2ROn
    <3>6. QED
      BY <3>1, <3>5
  <2>12. QED
    <3>1. StandsAt(e, f, i - p)
      BY <2>7, <2>9
    <3>2. OnWayL2R(e, d, f, i, r, p)
      BY <2>9, <2>10, <2>11, <3>1 DEF OnWayL2R
    <3>3. QED
      BY <2>9, <3>2
<1>4. QED
  BY <1>2, <1>3

\* What the recursive function of MoveL2R is.
RoundsL2R(h, x, r) == h = [n \in 0 .. r |-> IF n = 0 THEN x ELSE L2R(h[n - 1])]

\* A move by one cell.
LEMMA MoveL2RIs ==
  ASSUME DequeAssumption, NEW d, NEW f, NEW i, NEW r, ThereL2R(d, f, i, r),
         NEW e, e = MoveL2R(d, BlockOf(f, i), CellOf(f, i), r)
  PROVE  /\ IsDeque(e) /\ SameEnds(d, e) /\ SameBlocks(d.array, e.array, f.narray)
         /\ MovedBy(f, d.array, e.array, i - r + 1, i, -1)
<1> DEFINE x == [d |-> d, k |-> BlockOf(f, i), j |-> CellOf(f, i), rest |-> r]
           U == {m \in [d : DequeSet, k : Nat, j : Nat, rest : Nat] : \E n \in 0 .. r : OnWayL2R(m, d, f, i, r, n)}
           G == [m \in U |-> L2R(m)]
           moved[n \in 0 .. r] == IF n = 0 THEN x ELSE L2R(moved[n - 1])
<1>1. i \in Int /\ r \in Nat /\ IsDeque(f) /\ IsDeque(d) /\ d.narray = f.narray
  BY DEF ThereL2R
<1>2. OnWayL2R(x, d, f, i, r, 0) /\ x \in U
  <2>1. d.array[BlockOf(f, i)] # NoBlock /\ InRing(f, i)
    <3>1. PICK z \in Int : z = i
      BY <1>1
    <3>2. i \in i - r .. i /\ i <= z /\ i + f.lindex >= 0 /\ InRing(f, z) /\ f.lindex \in Int
      BY <1>1, <3>1, DequeIs DEF ThereL2R
    <3>3. QED
      BY <1>1, <3>2, RingBefore DEF ThereL2R
  <2>2. BlockOf(f, i) \in Nat /\ CellOf(f, i) \in Nat
    BY <1>1, <2>1, HoldsIn
  <2>3. PICK k, j : k = BlockOf(f, i) /\ j = CellOf(f, i)
    OBVIOUS
  <2>4. x = [d |-> d, k |-> k, j |-> j, rest |-> r] /\ k \in Nat /\ j \in Nat
    BY <2>2, <2>3
  <2>5. d \in DequeSet
    BY <1>1 DEF IsDeque, DequeSet
  <2>6. x \in [d : DequeSet, k : Nat, j : Nat, rest : Nat]
    BY <1>1, <2>4, <2>5
  <2>7. StandsAt(x, f, i)
    BY <1>1, <2>3, <2>4, <2>6 DEF StandsAt
  <2>8. MovedBy(f, d.array, x.d.array, i - 0 + 1, i, -1) /\ SameEnds(d, x.d) /\ SameBlocks(d.array, x.d.array, f.narray)
    BY <1>1, <2>4 DEF MovedBy, SameEnds, SameBlocks
  <2>9. i - 0 = i /\ x.rest = r - 0 /\ 0 \in 0 .. r
    BY <1>1, <2>4
  <2> HIDE DEF x
  <2>10. OnWayL2R(x, d, f, i, r, 0)
    BY <2>7, <2>8, <2>9 DEF OnWayL2R
  <2>11. QED
    BY <2>6, <2>9, <2>10
<1> HIDE DEF x
<1>3. ASSUME NEW m \in U
      PROVE  L2R(m) \in U
  <2>1. PICK n \in 0 .. r : OnWayL2R(m, d, f, i, r, n)
    BY <1>3
  <2>2. PICK o : o = L2R(m)
    OBVIOUS
  <2>3. \E p \in 0 .. r : OnWayL2R(o, d, f, i, r, p)
    BY <2>1, <2>2, OneRoundL2R
  <2>4. o \in [d : DequeSet, k : Nat, j : Nat, rest : Nat]
    BY <2>3 DEF OnWayL2R, StandsAt
  <2>5. QED
    BY <2>2, <2>3, <2>4
<1> HIDE DEF U
<1>4. G \in [U -> U] /\ \A m \in U : G[m] = L2R(m)
  BY <1>3
<1> HIDE DEF G
<1>5. moved = CHOOSE h : RoundsL2R(h, x, r)
  BY Zenon DEF RoundsL2R
<1>6. MoveL2R(d, BlockOf(f, i), CellOf(f, i), r) = moved[r].d
  BY Zenon DEF MoveL2R, x
<1> HIDE DEF moved
<1>7. PICK g \in [0 .. r -> U] : g[0] = x /\ \A n \in 1 .. r : g[n] = G[g[n - 1]]
  <2>1. G \in [U -> U] /\ x \in U
    BY <1>2, <1>4
  <2>2. \E h : Iterated(h, U, G, x, r)
    BY <1>1, <2>1, Iterates
  <2>3. QED
    BY <1>1, <2>2 DEF Iterated
<1>8. RoundsL2R(g, x, r)
  <2>1. ASSUME NEW n \in 0 .. r
        PROVE  g[n] = IF n = 0 THEN x ELSE L2R(g[n - 1])
    <3>1. CASE n = 0
      BY <1>7, <3>1
    <3>2. CASE n # 0
      <4>1. n \in 1 .. r /\ n - 1 \in 0 .. r
        BY <1>1, <3>2
      <4>2. QED
        BY <1>4, <1>7, <3>2, <4>1
    <3>3. QED
      BY <3>1, <3>2
  <2>2. g = [n \in 0 .. r |-> g[n]]
    BY <1>7
  <2>3. QED
    BY <2>1, <2>2, Zenon DEF RoundsL2R
<1>9. RoundsL2R(moved, x, r)
  BY <1>5, <1>8, Zenon
<1>10. ASSUME NEW n \in 0 .. r
       PROVE  moved[n] = IF n = 0 THEN x ELSE L2R(moved[n - 1])
  BY <1>9, Zenon DEF RoundsL2R
<1> DEFINE T == {n \in Nat : n <= r => \E p \in n .. r : OnWayL2R(moved[n], d, f, i, r, p)}
<1>11. 0 \in T
  <2>1. 0 \in 0 .. r
    BY <1>1
  <2>2. moved[0] = x
    BY <1>10, <2>1
  <2>3. QED
    BY <1>2, <2>1, <2>2
<1>12. ASSUME NEW n \in Nat, n \in T
       PROVE  n + 1 \in T
  <2>1. SUFFICES ASSUME n + 1 <= r
                 PROVE  \E p \in n + 1 .. r : OnWayL2R(moved[n + 1], d, f, i, r, p)
    OBVIOUS
  <2>2. PICK p \in n .. r : OnWayL2R(moved[n], d, f, i, r, p)
    BY <1>1, <1>12, <2>1
  <2>3. PICK o : o = n + 1
    OBVIOUS
  <2>4. o \in 0 .. r /\ o # 0 /\ o - 1 = n
    BY <1>1, <2>1, <2>3
  <2>5. moved[o] = L2R(moved[n])
    BY <1>10, <2>4
  <2>6. PICK q \in 0 .. r : OnWayL2R(moved[o], d, f, i, r, q) /\ (p < q \/ (p = r /\ q = r))
    <3>1. p \in 0 .. r
      BY <1>1, <2>2
    <3>2. QED
      BY <2>2, <2>5, <3>1, OneRoundL2R
  <2>7. CASE p < q
    <3>1. q \in n + 1 .. r
      BY <1>1, <2>2, <2>6, <2>7
    <3>2. QED
      BY <2>3, <2>6, <3>1
  <2>8. CASE p = r /\ q = r
    <3>1. q \in n + 1 .. r
      BY <1>1, <2>1, <2>8
    <3>2. QED
      BY <2>3, <2>6, <3>1
  <2>9. QED
    BY <2>6, <2>7, <2>8
<1> HIDE DEF T
<1>13. \A n \in Nat : n \in T
  BY <1>11, <1>12, SetInduction
<1>14. PICK p \in r .. r : OnWayL2R(moved[r], d, f, i, r, p)
  <2>1. r \in T /\ r \in Nat
    BY <1>1, <1>13
  <2>2. QED
    BY <2>1 DEF T
<1>15. p = r
  BY <1>1, <1>14
<1>16. QED
  BY <1>6, <1>14, <1>15 DEF OnWayL2R, StandsAt

(***************************************************************************)
(* The elements.                                                           *)
(***************************************************************************)
\* What a cell may hold.
DequeVal == Val \cup {NoVal}

\* A deque between two calls.
DequeSane(d) == IsDeque(d) /\ EndsFit(d, d.count) /\ BlocksThere(d, d.count)

\* The elements have places.
LEMMA PlacesAre ==
  ASSUME DequeAssumption, NEW d, IsDeque(d), NEW c \in Nat, EndsFit(d, c), NEW i \in 0 .. c - 1
  PROVE  /\ InRing(d, i) /\ BlockOf(d, i) \in 0 .. d.narray - 1 /\ BlockOf(d, i) \in Nat
         /\ CellOf(d, i) \in Cells /\ CellOf(d, i) \in Nat
<1>1. PICK a \in 0 .. d.narray - 1, b \in Cells :
        /\ i + d.lindex = a * Items + b
        /\ BlockOf(d, i) = Turned(d.front, a, d.narray) /\ CellOf(d, i) = b
  BY ElementIs
<1>2. BlockOf(d, i) \in 0 .. d.narray - 1
  BY BlockIn
<1>3. d.narray \in Nat
  BY DequeIs
<1>4. QED
  BY <1>1, <1>2, <1>3, CellsAre DEF InRing

\* What get_ref finds in a place whose block is there.
LEMMA AtIs ==
  ASSUME DequeAssumption, NEW d, IsDeque(d), NEW i \in Int, InRing(d, i), d.array[BlockOf(d, i)] # NoBlock
  PROVE  At(d, i) = HeldAt(d, d.array, i) /\ At(d, i) \in DequeVal
<1>1. d.array[BlockOf(d, i)] \in BlockSet /\ CellOf(d, i) \in Cells
  BY HoldsIn
<1>2. QED
  BY <1>1 DEF At, Read, HeldAt, BlockSet, DequeVal

\* The elements as a sequence.
LEMMA ContentIs ==
  ASSUME DequeAssumption, NEW d, DequeSane(d)
  PROVE  /\ Content(d) \in Seq(DequeVal) /\ Len(Content(d)) = d.count /\ d.count \in Nat
         /\ \A i \in 0 .. d.count - 1 : Content(d)[i + 1] = At(d, i) /\ At(d, i) = HeldAt(d, d.array, i)
<1>1. d.count \in Nat /\ IsDeque(d)
  BY DequeIs DEF DequeSane
<1>2. ASSUME NEW i \in 0 .. d.count - 1
      PROVE  At(d, i) \in DequeVal /\ At(d, i) = HeldAt(d, d.array, i)
  <2>1. InRing(d, i) /\ d.array[BlockOf(d, i)] # NoBlock
    BY <1>1, PlacesAre DEF DequeSane, BlocksThere
  <2>2. QED
    BY <1>1, <2>1, AtIs
<1>3. \A j \in 1 .. d.count : j - 1 \in 0 .. d.count - 1
  BY <1>1
<1>4. Content(d) \in [1 .. d.count -> DequeVal]
  BY <1>2, <1>3 DEF Content
<1>5. ASSUME NEW i \in 0 .. d.count - 1
      PROVE  Content(d)[i + 1] = At(d, i)
  <2>1. i + 1 \in 1 .. d.count /\ (i + 1) - 1 = i
    BY <1>1
  <2>2. QED
    BY <2>1 DEF Content
<1>6. QED
  BY <1>1, <1>2, <1>4, <1>5

\* A sequence is what the deque holds.
LEMMA ContentEquals ==
  ASSUME DequeAssumption, NEW d, DequeSane(d), NEW s \in Seq(DequeVal), Len(s) = d.count,
         \A i \in 0 .. d.count - 1 : At(d, i) = s[i + 1]
  PROVE  Content(d) = s
<1>1. /\ Content(d) \in Seq(DequeVal) /\ Len(Content(d)) = d.count /\ d.count \in Nat
      /\ \A i \in 0 .. d.count - 1 : Content(d)[i + 1] = At(d, i)
  BY ContentIs
<1>2. ASSUME NEW j \in 1 .. d.count
      PROVE  Content(d)[j] = s[j]
  <2>1. PICK i \in 0 .. d.count - 1 : i + 1 = j
    <3>1. j - 1 \in 0 .. d.count - 1 /\ (j - 1) + 1 = j
      BY <1>1
    <3>2. QED
      BY <3>1
  <2>2. QED
    BY <1>1, <2>1
<1>3. Content(d) = [j \in 1 .. d.count |-> Content(d)[j]]
  BY DEF Content
<1>4. s = [j \in 1 .. d.count |-> s[j]]
  OBVIOUS
<1>5. QED
  BY <1>2, <1>3, <1>4

\* Forgetting what lies outside the elements changes nothing.
LEMMA SettledIs ==
  ASSUME DequeAssumption, NEW d, DequeSane(d), NEW e, e = Settled(d)
  PROVE  /\ DequeSane(e) /\ SameEnds(d, e)
         /\ \A i \in 0 .. d.count - 1 : At(e, i) = At(d, i)
<1>1. /\ IsDeque(d) /\ d.array \in Arrays(d.narray) /\ d.count \in Nat /\ EndsFit(d, d.count) /\ BlocksThere(d, d.count)
  BY DequeIs DEF DequeSane
<1>2. PICK live : live = {<<BlockOf(d, i), CellOf(d, i)>> : i \in 0 .. d.count - 1}
  OBVIOUS
<1> DEFINE w(b) == IF d.array[b] = NoBlock THEN NoBlock
                   ELSE [c \in Cells |-> IF <<b, c>> \in live THEN d.array[b][c] ELSE NoVal]
           a == [b \in 0 .. d.narray - 1 |-> w(b)]
<1>3. e = [d EXCEPT !.array = a]
  <2>1. DOMAIN d.array = 0 .. d.narray - 1
    BY <1>1 DEF Arrays
  <2>2. e = [d EXCEPT !.array = [b \in DOMAIN d.array |-> w(b)]]
    BY <1>1, <1>2 DEF Settled, IsDeque
  <2>3. QED
    BY <2>1, <2>2
<1>4. ASSUME NEW b \in 0 .. d.narray - 1
      PROVE  w(b) \in BlockSet \cup {NoBlock} /\ (d.array[b] # NoBlock => w(b) # NoBlock)
  <2>1. CASE d.array[b] = NoBlock
    BY <2>1
  <2>2. CASE d.array[b] # NoBlock
    <3>1. d.array[b] \in BlockSet
      BY <1>1, <2>2 DEF Arrays
    <3>2. w(b) \in BlockSet
      BY <2>2, <3>1 DEF BlockSet
    <3>3. QED
      BY <3>2, BlockIsThere
  <2>3. QED
    BY <2>1, <2>2
<1>5. a \in Arrays(d.narray) /\ \A b \in 0 .. d.narray - 1 : a[b] = w(b)
  BY <1>4 DEF Arrays
<1> HIDE DEF a
<1>6. IsDeque(e) /\ SameEnds(d, e) /\ e.array = a
  BY <1>1, <1>3, <1>5, OtherArray
<1>7. ASSUME NEW i \in 0 .. d.count - 1
      PROVE  e.array[BlockOf(e, i)] # NoBlock /\ At(e, i) = At(d, i)
  <2>1. BlockOf(e, i) = BlockOf(d, i) /\ CellOf(e, i) = CellOf(d, i)
    BY <1>6, SameEndsSame
  <2>2. /\ BlockOf(d, i) \in 0 .. d.narray - 1 /\ CellOf(d, i) \in Cells
        /\ d.array[BlockOf(d, i)] # NoBlock
    BY <1>1, PlacesAre DEF BlocksThere
  <2>3. e.array[BlockOf(d, i)] # NoBlock
    BY <1>4, <1>5, <1>6, <2>2
  <2>4. <<BlockOf(d, i), CellOf(d, i)>> \in live
    BY <1>2
  <2>5. e.array[BlockOf(d, i)][CellOf(d, i)] = d.array[BlockOf(d, i)][CellOf(d, i)]
    BY <1>5, <1>6, <2>2, <2>4
  <2>6. QED
    BY <2>1, <2>2, <2>3, <2>5 DEF At, Read
<1>8. EndsFit(e, d.count) /\ e.count = d.count
  BY <1>1, <1>6, SameEndsSame DEF SameEnds
<1>9. QED
  BY <1>6, <1>7, <1>8 DEF DequeSane, BlocksThere

\* The element i is written, and counted.
LEMMA CopyValueIs ==
  ASSUME DequeAssumption, NEW d, IsDeque(d), EndsFit(d, d.count + 1), NEW i \in 0 .. d.count, NEW v \in Val,
         \A x \in 0 .. d.count : x # i => d.array[BlockOf(d, x)] # NoBlock,
         NEW lacks, "block" \notin lacks,
         NEW r, r = CopyValue(Done(d), BlockOf(d, i), CellOf(d, i), v, lacks)
  PROVE  /\ r.ok /\ DequeSane(r.d) /\ r.d.count = d.count + 1
         /\ \A x \in 0 .. d.count : At(r.d, x) = IF x = i THEN v ELSE HeldAt(d, d.array, x)
<1>1. PICK b, c, n : b = BlockOf(d, i) /\ c = CellOf(d, i) /\ n = d.count + 1
  OBVIOUS
<1>2. d.count \in Nat /\ n \in Nat /\ i \in 0 .. n - 1
  BY <1>1, DequeIs
<1>3. EndsFit(d, n)
  BY <1>1
<1>4. InRing(d, i) /\ b \in 0 .. d.narray - 1 /\ c \in Cells
  BY <1>1, <1>2, <1>3, PlacesAre
<1>5. PICK t : t = WithBlock(d, b, lacks)
  OBVIOUS
<1>6. /\ t.ok /\ IsDeque(t.d) /\ SameEnds(d, t.d) /\ t.d.array[b] # NoBlock
      /\ \A k \in 0 .. d.narray - 1 : d.array[k] # NoBlock => t.d.array[k] = d.array[k]
  BY <1>4, <1>5, WithBlockIs
<1>7. r = [ok |-> TRUE, d |-> [t.d EXCEPT !.array[b][c] = v, !.count = @ + 1]]
  BY <1>1, <1>5, <1>6 DEF CopyValue, Done
<1>8. PICK g : g = t.d
  OBVIOUS
<1>9. IsDeque(g) /\ g.array \in Arrays(g.narray) /\ g.narray = d.narray /\ g.count = d.count /\ g.array[b] \in BlockSet
  <2>1. IsDeque(g) /\ g.array[b] # NoBlock
    BY <1>6, <1>8
  <2>2. g.array \in Arrays(g.narray) /\ g.narray = d.narray /\ g.count = d.count
    BY <1>6, <1>8, <2>1, DequeIs DEF SameEnds
  <2>3. QED
    BY <1>4, <2>1, <2>2 DEF Arrays
<1> DEFINE w == [g.array[b] EXCEPT ![c] = v]
           a == [g.array EXCEPT ![b] = w]
<1>10. w \in BlockSet /\ \A y \in Cells : w[y] = IF y = c THEN v ELSE g.array[b][y]
  BY <1>4, <1>9 DEF BlockSet
<1> HIDE DEF w
<1>11. a \in Arrays(g.narray) /\ \A k \in 0 .. g.narray - 1 : a[k] = IF k = b THEN w ELSE g.array[k]
  BY <1>4, <1>9, <1>10 DEF Arrays
<1>12. r.ok /\ r.d = [narray |-> g.narray, array |-> a, count |-> n, lindex |-> g.lindex,
                      rindex |-> g.rindex, front |-> g.front, rear |-> g.rear]
  <2>1. g.count + 1 = n
    BY <1>1, <1>9
  <2>2. g = [narray |-> g.narray, array |-> g.array, count |-> g.count, lindex |-> g.lindex,
             rindex |-> g.rindex, front |-> g.front, rear |-> g.rear]
    BY <1>9, DequeIs
  <2>3. PICK h : h = [g EXCEPT !.array[b][c] = v]
    OBVIOUS
  <2>4. h = [g EXCEPT !.array = a]
    BY <1>9, <2>3 DEF w, IsDeque
  <2>5. h = [narray |-> g.narray, array |-> a, count |-> g.count, lindex |-> g.lindex,
             rindex |-> g.rindex, front |-> g.front, rear |-> g.rear]
    BY <2>2, <2>4
  <2>6. [g EXCEPT !.array[b][c] = v, !.count = @ + 1] = [h EXCEPT !.count = @ + 1]
    BY <2>3, Zenon
  <2>7. [h EXCEPT !.count = @ + 1] = [narray |-> g.narray, array |-> a, count |-> n, lindex |-> g.lindex,
             rindex |-> g.rindex, front |-> g.front, rear |-> g.rear]
    BY <2>1, <2>5
  <2>8. r.ok /\ r.d = [g EXCEPT !.array[b][c] = v, !.count = @ + 1]
    BY <1>7, <1>8
  <2>9. QED
    BY <2>6, <2>7, <2>8
<1> HIDE DEF a
<1>13. /\ g.narray \in Nat \ {0} /\ g.lindex \in Cells /\ g.rindex \in Cells
       /\ g.front \in 0 .. g.narray - 1 /\ g.rear \in 0 .. g.narray - 1
  BY <1>9, DequeIs
<1>14. PICK e : e = r.d
  OBVIOUS
<1>15. IsDeque(e)
  BY <1>2, <1>11, <1>12, <1>13, <1>14, DequeOf
<1>16. /\ e.front = d.front /\ e.rear = d.rear /\ e.lindex = d.lindex /\ e.rindex = d.rindex
       /\ e.narray = d.narray /\ e.count = n /\ e.array = a
  BY <1>6, <1>8, <1>12, <1>14 DEF SameEnds
<1>17. \A x : BlockOf(e, x) = BlockOf(d, x) /\ CellOf(e, x) = CellOf(d, x)
  BY <1>16 DEF BlockOf, CellOf
<1>18. EndsFit(e, n)
  BY <1>3, <1>16, <1>17 DEF EndsFit, InRing, PlaceOf, End
<1>19. ASSUME NEW x \in 0 .. d.count
       PROVE  /\ e.array[BlockOf(e, x)] # NoBlock
              /\ At(e, x) = IF x = i THEN v ELSE HeldAt(d, d.array, x)
  <2>1. x \in 0 .. n - 1 /\ x \in Int
    BY <1>1, <1>2
  <2>2. InRing(d, x) /\ BlockOf(d, x) \in 0 .. d.narray - 1 /\ CellOf(d, x) \in Cells
    BY <1>2, <1>3, <2>1, PlacesAre
  <2>3. e.array[BlockOf(e, x)] = IF BlockOf(d, x) = b THEN w ELSE g.array[BlockOf(d, x)]
    BY <1>9, <1>11, <1>16, <1>17, <2>2
  <2>4. w # NoBlock
    BY <1>10, BlockIsThere
  <2>5. CASE x = i
    <3>1. e.array[BlockOf(e, x)] = w /\ w[CellOf(e, x)] = v
      BY <1>1, <1>4, <1>10, <1>17, <2>3, <2>5
    <3>2. QED
      BY <2>4, <2>5, <3>1 DEF At, Read
  <2>6. CASE x # i
    <3>1. d.array[BlockOf(d, x)] # NoBlock /\ g.array[BlockOf(d, x)] = d.array[BlockOf(d, x)]
      BY <1>6, <1>8, <2>2, <2>6
    <3>2. BlockOf(d, x) = b => CellOf(d, x) # c
      BY <1>1, <1>4, <2>1, <2>2, <2>6, PlacesDiffer DEF PlaceOf
    <3>3. e.array[BlockOf(e, x)] # NoBlock
      BY <2>3, <2>4, <3>1
    <3>4. e.array[BlockOf(e, x)][CellOf(e, x)] = d.array[BlockOf(d, x)][CellOf(d, x)]
      BY <1>10, <1>17, <2>2, <2>3, <3>1, <3>2
    <3>5. QED
      BY <2>6, <3>3, <3>4 DEF At, Read, HeldAt
  <2>7. QED
    BY <2>5, <2>6
<1>20. BlocksThere(e, n)
  BY <1>1, <1>2, <1>19 DEF BlocksThere
<1>21. QED
  BY <1>1, <1>12, <1>14, <1>15, <1>16, <1>18, <1>19, <1>20 DEF DequeSane

(***************************************************************************)
(* Putting an element in.                                                  *)
(***************************************************************************)
\* Room for an element in front, x - 1 of d being x now.
LEMMA RoomLeft ==
  ASSUME DequeAssumption, NEW d, DequeSane(d), NEW lacks, "array" \notin lacks, "block" \notin lacks,
         NEW f, f = EnsureLeft(d, lacks).d
  PROVE  /\ EnsureLeft(d, lacks).ok /\ IsDeque(f) /\ f.count = d.count /\ EndsFit(f, d.count + 1)
         /\ f.front = BlockOf(f, 0) /\ f.lindex = CellOf(f, 0)
         /\ \A x \in 1 .. d.count : f.array[BlockOf(f, x)] # NoBlock /\ HeldAt(f, f.array, x) = At(d, x - 1)
         /\ d.count > 0 => f.array[BlockOf(f, 0)] # NoBlock
<1>1. PICK r : r = EnsureLeft(d, lacks)
  OBVIOUS
<1>2. f = r.d /\ IsDeque(d) /\ EndsFit(d, d.count) /\ BlocksThere(d, d.count) /\ d.count \in Nat
  BY <1>1, DequeIs DEF DequeSane
<1>3. /\ Roomier(d, r, 1)
      /\ d.count > 0 /\ BlocksThere(d, d.count) => r.d.array[BlockOf(r.d, 0)] # NoBlock
      /\ r.d.front = BlockOf(r.d, 0) /\ r.d.lindex = CellOf(r.d, 0)
  BY <1>1, <1>2, EnsureLeftIs
<1>4. r.ok /\ IsDeque(f) /\ f.count = d.count /\ EndsFit(f, d.count + 1) /\ Carried(d, f, 1)
  BY <1>2, <1>3 DEF Roomier
<1>5. ASSUME NEW x \in 1 .. d.count
      PROVE  f.array[BlockOf(f, x)] # NoBlock /\ HeldAt(f, f.array, x) = At(d, x - 1)
  <2>1. PICK i : i = x - 1
    OBVIOUS
  <2>2. i \in 0 .. d.count - 1 /\ i + 1 = x
    BY <1>2, <2>1
  <2>3. f.array[BlockOf(f, x)] = d.array[BlockOf(d, i)] /\ CellOf(f, x) = CellOf(d, i)
    BY <1>4, <2>2 DEF Carried
  <2>4. d.array[BlockOf(d, i)] # NoBlock
    BY <1>2, <2>2 DEF BlocksThere
  <2>5. QED
    BY <2>1, <2>3, <2>4 DEF HeldAt, At, Read
<1>6. QED
  BY <1>1, <1>2, <1>3, <1>4, <1>5

\* Room for an element at the back.
LEMMA RoomRight ==
  ASSUME DequeAssumption, NEW d, DequeSane(d), NEW lacks, "array" \notin lacks, "block" \notin lacks,
         NEW f, f = EnsureRight(d, lacks).d
  PROVE  /\ EnsureRight(d, lacks).ok /\ IsDeque(f) /\ f.count = d.count /\ EndsFit(f, d.count + 1)
         /\ f.rear = BlockOf(f, d.count) /\ f.rindex = CellOf(f, d.count)
         /\ \A x \in 0 .. d.count - 1 : f.array[BlockOf(f, x)] # NoBlock /\ HeldAt(f, f.array, x) = At(d, x)
         /\ d.count > 0 => f.array[BlockOf(f, d.count)] # NoBlock
<1>1. PICK r : r = EnsureRight(d, lacks)
  OBVIOUS
<1>2. f = r.d /\ IsDeque(d) /\ EndsFit(d, d.count) /\ BlocksThere(d, d.count) /\ d.count \in Nat
  BY <1>1, DequeIs DEF DequeSane
<1>3. /\ Roomier(d, r, 0)
      /\ d.count > 0 /\ BlocksThere(d, d.count) => r.d.array[BlockOf(r.d, d.count)] # NoBlock
      /\ r.d.rear = BlockOf(r.d, d.count) /\ r.d.rindex = CellOf(r.d, d.count)
  BY <1>1, <1>2, EnsureRightIs
<1>4. r.ok /\ IsDeque(f) /\ f.count = d.count /\ EndsFit(f, d.count + 1) /\ Carried(d, f, 0)
  BY <1>2, <1>3 DEF Roomier
<1>5. ASSUME NEW x \in 0 .. d.count - 1
      PROVE  f.array[BlockOf(f, x)] # NoBlock /\ HeldAt(f, f.array, x) = At(d, x)
  <2>1. x + 0 = x
    BY <1>2
  <2>2. f.array[BlockOf(f, x)] = d.array[BlockOf(d, x)] /\ CellOf(f, x) = CellOf(d, x)
    BY <1>4, <2>1 DEF Carried
  <2>3. d.array[BlockOf(d, x)] # NoBlock
    BY <1>2 DEF BlocksThere
  <2>4. QED
    BY <2>2, <2>3 DEF HeldAt, At, Read
<1>6. QED
  BY <1>1, <1>2, <1>3, <1>4, <1>5

\* What an element is after one was put in at i.
OpenedAt(d, i, v, x) == IF x < i THEN At(d, x) ELSE IF x = i THEN v ELSE At(d, x - 1)

\* One element more, at i.
HasOneMore(d, r, i, v) ==
  /\ r.ok /\ DequeSane(r.d) /\ r.d.count = d.count + 1
  /\ \A x \in 0 .. d.count : At(r.d, x) = OpenedAt(d, i, v, x)

\* cra_deque_push_front puts its element at 0.
LEMMA PushedFront ==
  ASSUME DequeAssumption, NEW d, DequeSane(d), NEW lacks, "array" \notin lacks, "block" \notin lacks, NEW v \in Val,
         NEW made, made = EnsureLeft(d, lacks),
         NEW r, r = CopyValue(made, made.d.front, made.d.lindex, v, lacks)
  PROVE  HasOneMore(d, r, 0, v)
<1>1. PICK f : f = made.d
  OBVIOUS
<1>2. /\ made.ok /\ IsDeque(f) /\ f.count = d.count /\ EndsFit(f, d.count + 1)
      /\ f.front = BlockOf(f, 0) /\ f.lindex = CellOf(f, 0)
      /\ \A x \in 1 .. d.count : f.array[BlockOf(f, x)] # NoBlock /\ HeldAt(f, f.array, x) = At(d, x - 1)
  BY <1>1, RoomLeft
<1>3. d.count \in Nat
  BY DequeIs DEF DequeSane
<1>4. PICK m : m = Done(f)
  OBVIOUS
<1>5. r = CopyValue(m, BlockOf(f, 0), CellOf(f, 0), v, lacks)
  BY <1>1, <1>2, <1>4 DEF CopyValue, Done
<1>6. PICK i \in 0 .. f.count : i = 0
  BY <1>2, <1>3
<1>7. \A x \in 0 .. f.count : x # i => f.array[BlockOf(f, x)] # NoBlock
  BY <1>2, <1>3, <1>6
<1>8. /\ DequeAssumption /\ IsDeque(f) /\ EndsFit(f, f.count + 1) /\ i \in 0 .. f.count /\ v \in Val
      /\ \A x \in 0 .. f.count : x # i => f.array[BlockOf(f, x)] # NoBlock
      /\ "block" \notin lacks
      /\ r = CopyValue(Done(f), BlockOf(f, i), CellOf(f, i), v, lacks)
  BY <1>2, <1>4, <1>5, <1>6, <1>7
<1>9. /\ r.ok /\ DequeSane(r.d) /\ r.d.count = f.count + 1
      /\ \A x \in 0 .. f.count : At(r.d, x) = IF x = i THEN v ELSE HeldAt(f, f.array, x)
  BY ONLY <1>8, CopyValueIs
<1>10. ASSUME NEW x \in 0 .. d.count
       PROVE  At(r.d, x) = OpenedAt(d, 0, v, x)
  BY <1>2, <1>3, <1>6, <1>9 DEF OpenedAt
<1>11. QED
  BY <1>2, <1>9, <1>10 DEF HasOneMore

\* cra_deque_push_back puts it behind the others.
LEMMA PushedBack ==
  ASSUME DequeAssumption, NEW d, DequeSane(d), NEW lacks, "array" \notin lacks, "block" \notin lacks, NEW v \in Val,
         NEW made, made = EnsureRight(d, lacks),
         NEW r, r = CopyValue(made, made.d.rear, made.d.rindex, v, lacks)
  PROVE  HasOneMore(d, r, d.count, v)
<1>1. PICK f : f = made.d
  OBVIOUS
<1>2. /\ made.ok /\ IsDeque(f) /\ f.count = d.count /\ EndsFit(f, d.count + 1)
      /\ f.rear = BlockOf(f, d.count) /\ f.rindex = CellOf(f, d.count)
      /\ \A x \in 0 .. d.count - 1 : f.array[BlockOf(f, x)] # NoBlock /\ HeldAt(f, f.array, x) = At(d, x)
  BY <1>1, RoomRight
<1>3. d.count \in Nat
  BY DequeIs DEF DequeSane
<1>4. PICK i \in 0 .. f.count : i = d.count
  BY <1>2, <1>3
<1>5. r = CopyValue(Done(f), BlockOf(f, i), CellOf(f, i), v, lacks)
  BY <1>1, <1>2, <1>4 DEF CopyValue, Done
<1>6. \A x \in 0 .. f.count : x # i => f.array[BlockOf(f, x)] # NoBlock
  BY <1>2, <1>3, <1>4
<1>7. /\ DequeAssumption /\ IsDeque(f) /\ EndsFit(f, f.count + 1) /\ i \in 0 .. f.count /\ v \in Val
      /\ \A x \in 0 .. f.count : x # i => f.array[BlockOf(f, x)] # NoBlock
      /\ "block" \notin lacks
      /\ r = CopyValue(Done(f), BlockOf(f, i), CellOf(f, i), v, lacks)
  BY <1>2, <1>4, <1>5, <1>6
<1>8. /\ r.ok /\ DequeSane(r.d) /\ r.d.count = f.count + 1
      /\ \A x \in 0 .. f.count : At(r.d, x) = IF x = i THEN v ELSE HeldAt(f, f.array, x)
  BY ONLY <1>7, CopyValueIs
<1>9. ASSUME NEW x \in 0 .. d.count
      PROVE  At(r.d, x) = OpenedAt(d, d.count, v, x)
  BY <1>2, <1>3, <1>4, <1>8 DEF OpenedAt
<1>10. QED
  BY <1>2, <1>8, <1>9 DEF HasOneMore

\* In f there is room, in e it is made at i.
LEMMA InsertedAt ==
  ASSUME DequeAssumption, NEW d, DequeSane(d), NEW i \in 0 .. d.count, NEW v \in Val, NEW lacks, "block" \notin lacks,
         NEW f, IsDeque(f), f.count = d.count, EndsFit(f, d.count + 1),
         \A x \in 0 .. d.count : x # i => f.array[BlockOf(f, x)] # NoBlock,
         NEW e, IsDeque(e), SameEnds(f, e), SameBlocks(f.array, e.array, f.narray),
         \A x \in 0 .. d.count : x # i => HeldAt(f, e.array, x) = OpenedAt(d, i, v, x),
         NEW r, r = CopyValue(Done(e), BlockOf(e, i), CellOf(e, i), v, lacks)
  PROVE  HasOneMore(d, r, i, v)
<1>1. d.count \in Nat /\ e.count = d.count
  BY DequeIs DEF DequeSane, SameEnds
<1>2. \A x : BlockOf(e, x) = BlockOf(f, x) /\ CellOf(e, x) = CellOf(f, x)
  BY SameEndsSame
<1>3. EndsFit(e, e.count + 1)
  BY <1>1, SameEndsSame
<1>4. ASSUME NEW x \in 0 .. e.count, x # i
      PROVE  e.array[BlockOf(e, x)] # NoBlock
  <2>1. PICK n \in Nat : n = d.count + 1
    BY <1>1
  <2>2. x \in 0 .. n - 1 /\ EndsFit(f, n)
    BY <1>1, <2>1
  <2>3. BlockOf(f, x) \in 0 .. f.narray - 1
    BY <2>1, <2>2, PlacesAre
  <2>4. f.array[BlockOf(f, x)] # NoBlock
    BY <1>1, <1>4
  <2>5. QED
    BY <1>2, <2>3, <2>4 DEF SameBlocks
<1>5. /\ DequeAssumption /\ IsDeque(e) /\ EndsFit(e, e.count + 1) /\ i \in 0 .. e.count /\ v \in Val
      /\ \A x \in 0 .. e.count : x # i => e.array[BlockOf(e, x)] # NoBlock
      /\ "block" \notin lacks
      /\ r = CopyValue(Done(e), BlockOf(e, i), CellOf(e, i), v, lacks)
  BY <1>1, <1>3, <1>4
<1>6. /\ r.ok /\ DequeSane(r.d) /\ r.d.count = e.count + 1
      /\ \A x \in 0 .. e.count : At(r.d, x) = IF x = i THEN v ELSE HeldAt(e, e.array, x)
  BY ONLY <1>5, CopyValueIs
<1>7. ASSUME NEW x \in 0 .. d.count
      PROVE  At(r.d, x) = OpenedAt(d, i, v, x)
  <2>1. HeldAt(e, e.array, x) = HeldAt(f, e.array, x)
    BY <1>2 DEF HeldAt
  <2>2. CASE x = i
    BY <1>1, <1>6, <2>2 DEF OpenedAt
  <2>3. CASE x # i
    BY <1>1, <1>6, <2>1, <2>3
  <2>4. QED
    BY <2>2, <2>3
<1>8. QED
  BY <1>1, <1>6, <1>7 DEF HasOneMore

\* No move leaves what is there.
LEMMA NothingMoved ==
  ASSUME NEW f
  PROVE  SameEnds(f, f) /\ SameBlocks(f.array, f.array, f.narray)
BY DEF SameEnds, SameBlocks

\* cra_deque_insert in the left half.
LEMMA InsertedLeft ==
  ASSUME DequeAssumption, DequeSane(deque), NEW i \in 0 .. deque.count, i < deque.count \div 2,
         NEW v \in Val, NEW lacks, "array" \notin lacks, "block" \notin lacks,
         NEW r, r = Inserted(i, v, lacks)
  PROVE  HasOneMore(deque, r, i, v)
<1>1. deque.count \in Nat /\ i \in Nat
  BY DequeIs DEF DequeSane
<1>2. i + 1 <= deque.count /\ deque.count > 0
  BY <1>1
<1>3. PICK c : c = deque.count
  OBVIOUS
<1>4. PICK f : f = EnsureLeft(deque, lacks).d
  OBVIOUS
<1>5. /\ EnsureLeft(deque, lacks).ok /\ IsDeque(f) /\ f.count = c /\ EndsFit(f, c + 1)
      /\ f.front = BlockOf(f, 0) /\ f.lindex = CellOf(f, 0)
      /\ \A x \in 1 .. c : f.array[BlockOf(f, x)] # NoBlock /\ HeldAt(f, f.array, x) = At(deque, x - 1)
      /\ f.array[BlockOf(f, 0)] # NoBlock
  BY <1>2, <1>3, <1>4, RoomLeft
<1>6. c \in Nat /\ \A x \in 0 .. c : f.array[BlockOf(f, x)] # NoBlock
  BY <1>1, <1>3, <1>5
<1>7. PICK n \in Nat : n = c + 1
  BY <1>6
<1>8. \A x \in 0 .. c : InRing(f, x) /\ x \in Int
  <2>1. ASSUME NEW x \in 0 .. c PROVE InRing(f, x)
    <3>1. x \in 0 .. n - 1 /\ EndsFit(f, n)
      BY <1>5, <1>6, <1>7
    <3>2. QED
      BY <1>5, <1>7, <3>1, PlacesAre
  <2>2. QED
    BY <1>6, <2>1
<1>9. PICK e : e = IF i > 0 THEN MoveR2L(f, f.front, f.lindex, i + 1) ELSE f
  OBVIOUS
<1>10. r = CopyValue(Done(e), BlockOf(e, i), CellOf(e, i), v, lacks)
  <2>1. CASE i > 0
    BY <1>4, <1>5, <1>9, <2>1 DEF Inserted, Done
  <2>2. CASE ~(i > 0)
    <3>1. e = f
      BY <1>9, <2>2
    <3>2. r = CopyValue(EnsureLeft(deque, lacks), BlockOf(f, i), CellOf(f, i), v, lacks)
      BY <1>4, <2>2 DEF Inserted
    <3>3. QED
      BY <1>4, <1>5, <3>1, <3>2 DEF CopyValue, Done
  <2>3. QED
    BY <2>1, <2>2
<1>11. /\ IsDeque(e) /\ SameEnds(f, e) /\ SameBlocks(f.array, e.array, f.narray)
       /\ \A x \in 0 .. c : x # i => HeldAt(f, e.array, x) = OpenedAt(deque, i, v, x)
  <2>1. CASE i > 0
    <3>1. PICK z \in Int, o \in Nat : z = 0 /\ o = i + 1
      BY <1>1
    <3>2. ThereR2L(f, f, z, o)
      <4>1. f.lindex \in Nat
        BY <1>5, DequeIs
      <4>2. z + o \in 0 .. c /\ z .. z + o \subseteq 0 .. c
        BY <1>1, <1>2, <1>3, <3>1
      <4>3. z + f.lindex >= 0 /\ InRing(f, z + o)
        BY <1>8, <3>1, <4>1, <4>2
      <4>4. \A x \in z .. z + o : f.array[BlockOf(f, x)] # NoBlock
        BY <1>6, <4>2
      <4>5. QED
        BY <1>5, <4>3, <4>4 DEF ThereR2L
    <3>3. e = MoveR2L(f, BlockOf(f, z), CellOf(f, z), o)
      BY <1>5, <1>9, <2>1, <3>1
    <3>4. /\ IsDeque(e) /\ SameEnds(f, e) /\ SameBlocks(f.array, e.array, f.narray)
          /\ MovedBy(f, f.array, e.array, z, z + o - 1, 1)
      BY <3>2, <3>3, MoveR2LIs
    <3>5. ASSUME NEW x \in 0 .. c, x # i
          PROVE  HeldAt(f, e.array, x) = OpenedAt(deque, i, v, x)
      <4>1. HeldAt(f, e.array, x) = IF x \in z .. z + o - 1 THEN HeldAt(f, f.array, x + 1) ELSE HeldAt(f, f.array, x)
        BY <1>8, <3>4 DEF MovedBy
      <4>2. CASE x < i
        <5>1. x \in z .. z + o - 1 /\ x + 1 \in 1 .. c /\ (x + 1) - 1 = x
          BY <1>1, <1>2, <1>3, <3>1, <4>2
        <5>2. PICK y : y = x + 1
          OBVIOUS
        <5>3. HeldAt(f, f.array, y) = At(deque, x)
          BY <1>5, <5>1, <5>2
        <5>4. QED
          BY <4>1, <4>2, <5>1, <5>2, <5>3 DEF OpenedAt
      <4>3. CASE x > i
        <5>1. x \notin z .. z + o - 1 /\ x \in 1 .. c /\ ~(x < i)
          BY <1>1, <1>6, <3>1, <4>3
        <5>2. QED
          BY <1>5, <4>1, <3>5, <5>1 DEF OpenedAt
      <4>4. QED
        BY <1>1, <1>6, <3>5, <4>2, <4>3
    <3>6. QED
      BY <3>4, <3>5
  <2>2. CASE ~(i > 0)
    <3>1. e = f /\ i = 0
      BY <1>1, <1>9, <2>2
    <3>2. ASSUME NEW x \in 0 .. c, x # i
          PROVE  HeldAt(f, e.array, x) = OpenedAt(deque, i, v, x)
      <4>1. x \in 1 .. c /\ ~(x < i)
        BY <1>6, <3>1, <3>2
      <4>2. QED
        BY <1>5, <3>1, <3>2, <4>1 DEF OpenedAt
    <3>3. QED
      BY <1>5, <3>1, <3>2, NothingMoved
  <2>3. QED
    BY <2>1, <2>2
<1>12. QED
  <2>1. /\ DequeAssumption /\ DequeSane(deque) /\ i \in 0 .. deque.count /\ v \in Val /\ "block" \notin lacks
        /\ IsDeque(f) /\ f.count = deque.count /\ EndsFit(f, deque.count + 1)
        /\ \A x \in 0 .. deque.count : x # i => f.array[BlockOf(f, x)] # NoBlock
        /\ IsDeque(e) /\ SameEnds(f, e) /\ SameBlocks(f.array, e.array, f.narray)
        /\ \A x \in 0 .. deque.count : x # i => HeldAt(f, e.array, x) = OpenedAt(deque, i, v, x)
        /\ r = CopyValue(Done(e), BlockOf(e, i), CellOf(e, i), v, lacks)
    BY <1>3, <1>5, <1>6, <1>10, <1>11
  <2>2. QED
    BY ONLY <2>1, InsertedAt

\* cra_deque_insert in the right half.
LEMMA InsertedRight ==
  ASSUME DequeAssumption, DequeSane(deque), NEW i \in 0 .. deque.count, ~(i < deque.count \div 2),
         NEW v \in Val, NEW lacks, "array" \notin lacks, "block" \notin lacks,
         NEW r, r = Inserted(i, v, lacks)
  PROVE  HasOneMore(deque, r, i, v)
<1>1. deque.count \in Nat /\ i \in Nat
  BY DequeIs DEF DequeSane
<1>3. PICK c : c = deque.count
  OBVIOUS
<1>4. PICK f : f = EnsureRight(deque, lacks).d
  OBVIOUS
<1>5. /\ EnsureRight(deque, lacks).ok /\ IsDeque(f) /\ f.count = c /\ EndsFit(f, c + 1)
      /\ f.rear = BlockOf(f, c) /\ f.rindex = CellOf(f, c)
      /\ \A x \in 0 .. c - 1 : f.array[BlockOf(f, x)] # NoBlock /\ HeldAt(f, f.array, x) = At(deque, x)
      /\ c > 0 => f.array[BlockOf(f, c)] # NoBlock
  BY <1>3, <1>4, RoomRight
<1>6. c \in Nat /\ (c > 0 => \A x \in 0 .. c : f.array[BlockOf(f, x)] # NoBlock)
  BY <1>1, <1>3, <1>5
<1>7. PICK n \in Nat : n = c + 1
  BY <1>6
<1>8. \A x \in 0 .. c : InRing(f, x) /\ x \in Int
  <2>1. ASSUME NEW x \in 0 .. c PROVE InRing(f, x)
    <3>1. x \in 0 .. n - 1 /\ EndsFit(f, n)
      BY <1>5, <1>6, <1>7
    <3>2. QED
      BY <1>5, <1>7, <3>1, PlacesAre
  <2>2. QED
    BY <1>6, <2>1
<1>9. PICK e : e = IF i < c THEN MoveL2R(f, f.rear, f.rindex, c - i) ELSE f
  OBVIOUS
<1>10. r = CopyValue(Done(e), BlockOf(e, i), CellOf(e, i), v, lacks)
  <2>1. CASE i < c
    BY <1>3, <1>4, <1>5, <1>9, <2>1 DEF Inserted, Done, ToTheRight
  <2>2. CASE ~(i < c)
    <3>1. e = f
      BY <1>9, <2>2
    <3>2. r = CopyValue(EnsureRight(deque, lacks), BlockOf(f, i), CellOf(f, i), v, lacks)
      BY <1>3, <1>4, <2>2 DEF Inserted
    <3>3. QED
      BY <1>4, <1>5, <3>1, <3>2 DEF CopyValue, Done
  <2>3. QED
    BY <2>1, <2>2
<1>11. /\ IsDeque(e) /\ SameEnds(f, e) /\ SameBlocks(f.array, e.array, f.narray)
       /\ \A x \in 0 .. c : x # i => HeldAt(f, e.array, x) = OpenedAt(deque, i, v, x)
  <2>1. CASE i < c
    <3>1. PICK o \in Nat : o = c - i
      BY <1>1, <1>6, <2>1
    <3>2. ThereL2R(f, f, c, o)
      <4>1. f.lindex \in Nat
        BY <1>5, DequeIs
      <4>2. c - o = i /\ c - o .. c \subseteq 0 .. c /\ c \in 0 .. c
        BY <1>1, <1>6, <3>1
      <4>3. c - o + f.lindex >= 0 /\ InRing(f, c)
        BY <1>1, <1>8, <4>1, <4>2
      <4>4. \A x \in c - o .. c : f.array[BlockOf(f, x)] # NoBlock
        BY <1>1, <1>6, <2>1, <4>2
      <4>5. QED
        BY <1>5, <1>6, <4>3, <4>4 DEF ThereL2R
    <3>3. e = MoveL2R(f, BlockOf(f, c), CellOf(f, c), o)
      BY <1>5, <1>9, <2>1, <3>1
    <3>4. /\ IsDeque(e) /\ SameEnds(f, e) /\ SameBlocks(f.array, e.array, f.narray)
          /\ MovedBy(f, f.array, e.array, c - o + 1, c, -1)
      BY <3>2, <3>3, MoveL2RIs
    <3>5. ASSUME NEW x \in 0 .. c, x # i
          PROVE  HeldAt(f, e.array, x) = OpenedAt(deque, i, v, x)
      <4>1. HeldAt(f, e.array, x) = IF x \in c - o + 1 .. c THEN HeldAt(f, f.array, x + -1) ELSE HeldAt(f, f.array, x)
        BY <1>8, <3>4 DEF MovedBy
      <4>2. CASE x > i
        <5>1. x \in c - o + 1 .. c /\ x + -1 \in 0 .. c - 1 /\ x + -1 = x - 1
          BY <1>1, <1>6, <3>1, <4>2
        <5>2. PICK y : y = x - 1
          OBVIOUS
        <5>3. HeldAt(f, f.array, y) = At(deque, y) /\ ~(x < i)
          BY <1>1, <1>5, <1>6, <4>2, <5>1, <5>2
        <5>4. QED
          BY <3>5, <4>1, <4>2, <5>1, <5>2, <5>3 DEF OpenedAt
      <4>3. CASE x < i
        <5>1. x \notin c - o + 1 .. c /\ x \in 0 .. c - 1
          BY <1>1, <1>3, <1>6, <3>1, <4>3
        <5>2. QED
          BY <1>5, <4>1, <4>3, <5>1 DEF OpenedAt
      <4>4. QED
        BY <1>1, <1>6, <3>5, <4>2, <4>3
    <3>6. QED
      BY <3>4, <3>5
  <2>2. CASE ~(i < c)
    <3>1. e = f /\ i = c
      BY <1>1, <1>3, <1>6, <1>9, <2>2
    <3>2. ASSUME NEW x \in 0 .. c, x # i
          PROVE  HeldAt(f, e.array, x) = OpenedAt(deque, i, v, x)
      <4>1. x \in 0 .. c - 1 /\ x < i
        BY <1>6, <3>1, <3>2
      <4>2. QED
        BY <1>5, <3>1, <3>2, <4>1 DEF OpenedAt
    <3>3. QED
      BY <1>5, <3>1, <3>2, NothingMoved
  <2>3. QED
    BY <2>1, <2>2
<1>12. QED
  <2>1. \A x \in 0 .. c : x # i => f.array[BlockOf(f, x)] # NoBlock
    BY <1>1, <1>3, <1>6
  <2>2. /\ DequeAssumption /\ DequeSane(deque) /\ i \in 0 .. deque.count /\ v \in Val /\ "block" \notin lacks
        /\ IsDeque(f) /\ f.count = deque.count /\ EndsFit(f, deque.count + 1)
        /\ \A x \in 0 .. deque.count : x # i => f.array[BlockOf(f, x)] # NoBlock
        /\ IsDeque(e) /\ SameEnds(f, e) /\ SameBlocks(f.array, e.array, f.narray)
        /\ \A x \in 0 .. deque.count : x # i => HeldAt(f, e.array, x) = OpenedAt(deque, i, v, x)
        /\ r = CopyValue(Done(e), BlockOf(e, i), CellOf(e, i), v, lacks)
    BY <1>3, <1>5, <1>10, <1>11, <2>1
  <2>3. QED
    BY ONLY <2>2, InsertedAt

(***************************************************************************)
(* Taking an element out.                                                  *)
(***************************************************************************)
\* An empty deque starts in the middle of block 0.
LEMMA EmptyIs ==
  ASSUME DequeAssumption, NEW d, IsDeque(d), d.count = 0, NEW e, e = EmptyIndex(d)
  PROVE  DequeSane(e) /\ e.count = 0
<1>1. PICK l, r : l = (Items - 1) \div 2 + 1 /\ r = (Items - 1) \div 2
  OBVIOUS
<1>2. l \in Cells /\ r \in Cells /\ l = r + 1 /\ r \in Nat
  BY <1>1 DEF Cells, DequeAssumption
<1>3. e = [narray |-> d.narray, array |-> d.array, count |-> d.count, lindex |-> l, rindex |-> r,
           front |-> 0, rear |-> 0]
  BY <1>1 DEF EmptyIndex, IsDeque
<1>4. d.narray \in Nat \ {0} /\ d.array \in Arrays(d.narray) /\ d.count \in Nat
  BY DequeIs
<1>5. PICK z : z = 0
  OBVIOUS
<1>6. z \in 0 .. d.narray - 1 /\ z \in Nat
  BY <1>4, <1>5
<1>7. IsDeque(e)
  BY <1>2, <1>3, <1>4, <1>5, <1>6, DequeOf
<1>8. EndsFit(e, z)
  <2>1. z \in 0 .. e.narray - 1 /\ e.rear = Turned(e.front, z, e.narray) /\ z - 1 + e.lindex = z * Items + e.rindex
    BY <1>2, <1>3, <1>4, <1>5, <1>6, CellsAre DEF Turned
  <2>2. QED
    BY <1>6, <1>7, <2>1, FitsThen
<1>9. e.count = 0
  BY <1>3
<1>10. QED
  BY <1>5, <1>7, <1>8, <1>9 DEF DequeSane, BlocksThere

\* Only the count is changed.
LEMMA FewerIs ==
  ASSUME DequeAssumption, NEW d, IsDeque(d), NEW c \in Nat, NEW e, e = [d EXCEPT !.count = c]
  PROVE  /\ IsDeque(e) /\ e.array = d.array /\ e.count = c /\ e.narray = d.narray
         /\ \A i : BlockOf(e, i) = BlockOf(d, i) /\ CellOf(e, i) = CellOf(d, i)
         /\ \A n : EndsFit(d, n) => EndsFit(e, n)
<1>1. e = [narray |-> d.narray, array |-> d.array, count |-> c, lindex |-> d.lindex, rindex |-> d.rindex,
           front |-> d.front, rear |-> d.rear]
  BY DEF IsDeque
<1>2. /\ d.narray \in Nat \ {0} /\ d.array \in Arrays(d.narray) /\ d.lindex \in Cells /\ d.rindex \in Cells
      /\ d.front \in 0 .. d.narray - 1 /\ d.rear \in 0 .. d.narray - 1
  BY DequeIs
<1>3. IsDeque(e)
  BY <1>1, <1>2, DequeOf
<1>4. \A i : BlockOf(e, i) = BlockOf(d, i) /\ CellOf(e, i) = CellOf(d, i)
  BY <1>1 DEF BlockOf, CellOf
<1>5. \A n : EndsFit(d, n) => EndsFit(e, n)
  BY <1>1, <1>4 DEF EndsFit, InRing, PlaceOf, End
<1>6. QED
  BY <1>1, <1>3, <1>4, <1>5

\* One element less at the front.
LEMMA DecrementLeftIs ==
  ASSUME DequeAssumption, NEW d, DequeSane(d), d.count > 0, NEW e, e = DecrementLeft(d)
  PROVE  /\ IsDeque(e) /\ e.array = d.array /\ e.count = d.count /\ e.narray = d.narray
         /\ d.count > 1 => EndsFit(e, d.count - 1)
         /\ \A i \in 0 .. d.count - 2 : BlockOf(e, i) = BlockOf(d, i + 1) /\ CellOf(e, i) = CellOf(d, i + 1)
<1>1. /\ d.narray \in Nat \ {0} /\ d.array \in Arrays(d.narray) /\ d.count \in Nat /\ d.lindex \in Cells
      /\ d.rindex \in Cells /\ d.front \in 0 .. d.narray - 1 /\ d.rear \in 0 .. d.narray - 1
      /\ d.lindex \in Nat /\ d.rindex \in Nat /\ IsDeque(d) /\ EndsFit(d, d.count) /\ Items \in Nat /\ Items >= 2
  BY DequeIs, CellsAre DEF DequeSane, DequeAssumption
<1>2. PICK q \in 0 .. d.narray - 1 :
        d.rear = Turned(d.front, q, d.narray) /\ d.count - 1 + d.lindex = q * Items + d.rindex
  BY <1>1, FitsIs
<1>3. PICK y \in Int : y = q * Items
  BY <1>1
<1>4. CASE d.lindex # Items - 1
  <2>1. PICK l : l = d.lindex + 1
    OBVIOUS
  <2>2. l \in Cells
    BY <1>1, <1>4, <2>1 DEF Cells
  <2>3. e = [narray |-> d.narray, array |-> d.array, count |-> d.count, lindex |-> l, rindex |-> d.rindex,
             front |-> d.front, rear |-> d.rear]
    BY <1>1, <1>4, <2>1 DEF DecrementLeft, IsDeque
  <2>4. IsDeque(e)
    BY <1>1, <2>2, <2>3, DequeOf
  <2>5. \A i \in 0 .. d.count - 2 : BlockOf(e, i) = BlockOf(d, i + 1) /\ CellOf(e, i) = CellOf(d, i + 1)
    <3>1. \A i \in 0 .. d.count - 2 : i + l = (i + 1) + d.lindex
      BY <1>1, <2>1
    <3>2. QED
      BY <2>3, <3>1 DEF BlockOf, CellOf
  <2>6. d.count > 1 => EndsFit(e, d.count - 1)
    <3>1. SUFFICES ASSUME d.count > 1 PROVE EndsFit(e, d.count - 1)
      OBVIOUS
    <3>2. PICK c \in Nat : c = d.count - 1
      BY <1>1, <3>1
    <3>3. c - 1 + e.lindex = q * Items + e.rindex /\ e.rear = Turned(e.front, q, e.narray) /\ q \in 0 .. e.narray - 1
      BY <1>1, <1>2, <1>3, <2>1, <2>3, <3>2
    <3>4. QED
      BY <2>4, <3>2, <3>3, FitsThen
  <2>7. QED
    BY <2>3, <2>4, <2>5, <2>6
<1>5. CASE d.lindex = Items - 1
  <2>1. PICK l, g : l = 0 /\ g = Up(d, d.front)
    OBVIOUS
  <2>2. l \in Cells /\ g = (IF d.front = d.narray - 1 THEN 0 ELSE d.front + 1) /\ g \in 0 .. d.narray - 1
    BY <1>1, <2>1, UpDown, CellsAre
  <2>3. e = [narray |-> d.narray, array |-> d.array, count |-> d.count, lindex |-> l, rindex |-> d.rindex,
             front |-> g, rear |-> d.rear]
    BY <1>1, <1>5, <2>1 DEF DecrementLeft, IsDeque
  <2>4. IsDeque(e)
    BY <1>1, <2>2, <2>3, DequeOf
  <2>5. \A a \in 1 .. d.narray - 1 : Turned(g, a - 1, d.narray) = Turned(d.front, a, d.narray)
    BY <1>1, <2>2 DEF Turned
  <2>6. ASSUME NEW i \in 0 .. d.count - 2
        PROVE  BlockOf(e, i) = BlockOf(d, i + 1) /\ CellOf(e, i) = CellOf(d, i + 1)
    <3>1. PICK j : j = i + 1
      OBVIOUS
    <3>2. j \in 0 .. d.count - 1 /\ j >= 1
      BY <1>1, <3>1
    <3>3. PICK a \in 0 .. d.narray - 1, b \in Cells :
            j + d.lindex = a * Items + b /\ BlockOf(d, j) = Turned(d.front, a, d.narray) /\ CellOf(d, j) = b
      BY <1>1, <3>2, ElementIs
    <3>4. a # 0
      <4>1. b < Items
        BY <1>1 DEF Cells
      <4>2. SUFFICES ASSUME a = 0 PROVE FALSE
        OBVIOUS
      <4>3. j + d.lindex = b /\ b \in Int
        BY <1>1, <3>3, <4>2, CellsAre
      <4>4. QED
        BY <1>1, <1>5, <3>2, <4>1, <4>3
    <3>5. PICK p : p = a - 1
      OBVIOUS
    <3>6. p \in 0 .. d.narray - 1 /\ p * Items = a * Items - Items /\ a * Items \in Int
      BY <1>1, <3>4, <3>5
    <3>7. i + e.lindex = p * Items + b
      <4>1. PICK x \in Int : x = a * Items
        BY <3>6
      <4>2. j + d.lindex = x + b /\ b \in Int /\ p * Items = x - Items
        BY <3>3, <3>6, <4>1, CellsAre
      <4>3. QED
        BY <1>1, <1>5, <2>1, <2>3, <3>1, <4>2
    <3>8. BlockOf(e, i) = Turned(e.front, p, e.narray) /\ CellOf(e, i) = b
      BY <1>1, <2>3, <2>4, <3>6, <3>7, PlaceIs
    <3>9. a \in 1 .. d.narray - 1
      BY <1>1, <3>4
    <3>10. QED
      BY <2>3, <2>5, <3>1, <3>3, <3>5, <3>8, <3>9
  <2>7. d.count > 1 => EndsFit(e, d.count - 1)
    <3>1. SUFFICES ASSUME d.count > 1 PROVE EndsFit(e, d.count - 1)
      OBVIOUS
    <3>2. PICK c \in Nat : c = d.count - 1
      BY <1>1, <3>1
    <3>3. q # 0
      <4>1. SUFFICES ASSUME q = 0 PROVE FALSE
        OBVIOUS
      <4>2. y = 0 /\ d.rindex <= Items - 1
        BY <1>1, <1>3, <4>1 DEF Cells
      <4>3. QED
        BY <1>1, <1>2, <1>3, <1>5, <3>1, <4>2
    <3>4. PICK p : p = q - 1
      OBVIOUS
    <3>5. p \in 0 .. d.narray - 1 /\ p * Items = y - Items /\ q \in 1 .. d.narray - 1
      BY <1>1, <1>3, <3>3, <3>4
    <3>6. c - 1 + e.lindex = p * Items + e.rindex
      BY <1>1, <1>2, <1>3, <1>5, <2>1, <2>3, <3>2, <3>5
    <3>7. e.rear = Turned(e.front, p, e.narray) /\ p \in 0 .. e.narray - 1
      BY <1>2, <2>3, <2>5, <3>4, <3>5
    <3>8. QED
      BY <2>4, <3>2, <3>6, <3>7, FitsThen
  <2>8. QED
    BY <2>3, <2>4, <2>6, <2>7
<1>6. QED
  BY <1>4, <1>5

\* One element less at the back.
LEMMA DecrementRightIs ==
  ASSUME DequeAssumption, NEW d, DequeSane(d), d.count > 0, NEW e, e = DecrementRight(d)
  PROVE  /\ IsDeque(e) /\ e.array = d.array /\ e.count = d.count /\ e.narray = d.narray
         /\ d.count > 1 => EndsFit(e, d.count - 1)
         /\ \A i : BlockOf(e, i) = BlockOf(d, i) /\ CellOf(e, i) = CellOf(d, i)
<1>1. /\ d.narray \in Nat \ {0} /\ d.array \in Arrays(d.narray) /\ d.count \in Nat /\ d.lindex \in Cells
      /\ d.rindex \in Cells /\ d.front \in 0 .. d.narray - 1 /\ d.rear \in 0 .. d.narray - 1
      /\ d.lindex \in Nat /\ d.rindex \in Nat /\ IsDeque(d) /\ EndsFit(d, d.count) /\ Items \in Nat /\ Items >= 2
      /\ Items - 1 \in Cells
  BY DequeIs, CellsAre DEF DequeSane, DequeAssumption
<1>2. PICK q \in 0 .. d.narray - 1 :
        d.rear = Turned(d.front, q, d.narray) /\ d.count - 1 + d.lindex = q * Items + d.rindex
  BY <1>1, FitsIs
<1>3. PICK y \in Int : y = q * Items
  BY <1>1
<1>4. PICK r, g, p : /\ r = (IF d.rindex = 0 THEN Items - 1 ELSE d.rindex - 1)
                     /\ g = (IF d.rindex = 0 THEN Down(d, d.rear) ELSE d.rear)
                     /\ p = (IF d.rindex = 0 THEN q - 1 ELSE q)
  OBVIOUS
<1>5. Down(d, d.rear) = IF d.rear = 0 THEN d.narray - 1 ELSE d.rear - 1
  BY <1>1, UpDown
<1>6. r \in Cells /\ g \in 0 .. d.narray - 1
  BY <1>1, <1>4, <1>5 DEF Cells
<1>7. e = [narray |-> d.narray, array |-> d.array, count |-> d.count, lindex |-> d.lindex, rindex |-> r,
           front |-> d.front, rear |-> g]
  BY <1>1, <1>4 DEF DecrementRight, IsDeque
<1>8. IsDeque(e)
  BY <1>1, <1>6, <1>7, DequeOf
<1>9. \A i : BlockOf(e, i) = BlockOf(d, i) /\ CellOf(e, i) = CellOf(d, i)
  BY <1>7 DEF BlockOf, CellOf
<1>10. d.count > 1 => EndsFit(e, d.count - 1)
  <2>1. SUFFICES ASSUME d.count > 1 PROVE EndsFit(e, d.count - 1)
    OBVIOUS
  <2>2. PICK c \in Nat : c = d.count - 1
    BY <1>1, <2>1
  <2>3. d.rindex = 0 => q # 0
    <3>1. SUFFICES ASSUME d.rindex = 0, q = 0 PROVE FALSE
      OBVIOUS
    <3>2. y = 0
      BY <1>1, <1>3, <3>1
    <3>3. QED
      BY <1>1, <1>2, <1>3, <2>1, <3>1, <3>2
  <2>4. p \in 0 .. d.narray - 1 /\ p * Items = IF d.rindex = 0 THEN y - Items ELSE y
    BY <1>1, <1>3, <1>4, <2>3
  <2>5. c - 1 + e.lindex = p * Items + e.rindex
    BY <1>1, <1>2, <1>3, <1>4, <1>7, <2>2, <2>4
  <2>6. e.rear = Turned(e.front, p, e.narray) /\ p \in 0 .. e.narray - 1
    <3>1. g = Turned(d.front, p, d.narray)
      BY <1>1, <1>2, <1>4, <1>5, <2>3, <2>4 DEF Turned
    <3>2. QED
      BY <1>7, <2>4, <3>1
  <2>7. QED
    BY <1>8, <2>2, <2>5, <2>6, FitsThen
<1>11. QED
  BY <1>7, <1>8, <1>9, <1>10

\* What an element is after the one at i was taken out.
ClosedAt(d, i, x) == IF x < i THEN At(d, x) ELSE At(d, x + 1)

\* One element less, the one at i.
HasOneLess(d, r, i) ==
  /\ DequeSane(r) /\ r.count = d.count - 1
  /\ \A x \in 0 .. d.count - 2 : At(r, x) = ClosedAt(d, i, x)

\* The last element is gone.
LEMMA PoppedLast ==
  ASSUME DequeAssumption, NEW d, DequeSane(d), d.count = 1, NEW i, NEW e, IsDeque(e), e.count = 1,
         NEW r, r = Settled(Popped(e))
  PROVE  HasOneLess(d, r, i)
<1>1. PICK z : z = 0
  OBVIOUS
<1>2. PICK g : g = [e EXCEPT !.count = z]
  OBVIOUS
<1>3. IsDeque(g) /\ g.count = 0
  BY <1>1, <1>2, FewerIs
<1>4. PICK h : h = EmptyIndex(g)
  OBVIOUS
<1>5. DequeSane(h) /\ h.count = 0
  BY <1>3, <1>4, EmptyIs
<1>6. r = Settled(h)
  BY <1>1, <1>2, <1>4 DEF Popped
<1>7. DequeSane(r) /\ r.count = 0
  BY <1>5, <1>6, SettledIs DEF SameEnds
<1>8. QED
  BY <1>7 DEF HasOneLess

\* The front has moved by one.
LEMMA PoppedLeft ==
  ASSUME DequeAssumption, NEW d, DequeSane(d), d.count > 0, NEW i \in 0 .. d.count - 1,
         NEW e, IsDeque(e), SameEnds(DecrementLeft(d), e), SameBlocks(d.array, e.array, d.narray),
         \A x \in 1 .. d.count - 1 : HeldAt(d, e.array, x) = IF x <= i THEN At(d, x - 1) ELSE At(d, x),
         NEW r, r = Settled(Popped(e))
  PROVE  HasOneLess(d, r, i)
<1>1. PICK g : g = DecrementLeft(d)
  OBVIOUS
<1>2. d.count \in Nat /\ IsDeque(d) /\ EndsFit(d, d.count) /\ BlocksThere(d, d.count) /\ i \in Nat
  BY DequeIs DEF DequeSane
<1>3. /\ IsDeque(g) /\ g.array = d.array /\ g.count = d.count /\ g.narray = d.narray
      /\ d.count > 1 => EndsFit(g, d.count - 1)
      /\ \A x \in 0 .. d.count - 2 : BlockOf(g, x) = BlockOf(d, x + 1) /\ CellOf(g, x) = CellOf(d, x + 1)
  BY <1>1, DecrementLeftIs
<1>4. SameEnds(g, e) /\ e.count = d.count /\ e.narray = d.narray
  BY <1>1, <1>3 DEF SameEnds
<1>5. CASE d.count = 1
  BY <1>4, <1>5, PoppedLast
<1>6. CASE d.count # 1
  <2>1. PICK c \in Nat : c = d.count - 1
    BY <1>2, <1>6
  <2>2. PICK h : h = [e EXCEPT !.count = c]
    OBVIOUS
  <2>3. /\ IsDeque(h) /\ h.array = e.array /\ h.count = c /\ h.narray = e.narray
        /\ \A x : BlockOf(h, x) = BlockOf(e, x) /\ CellOf(h, x) = CellOf(e, x)
        /\ \A n : EndsFit(e, n) => EndsFit(h, n)
    BY <2>2, FewerIs
  <2>4. Popped(e) = h
    BY <1>4, <1>6, <2>1, <2>2 DEF Popped
  <2>5. EndsFit(h, c)
    BY <1>2, <1>3, <1>4, <1>6, <2>1, <2>3, SameEndsSame
  <2>6. ASSUME NEW x \in 0 .. c - 1
        PROVE  h.array[BlockOf(h, x)] # NoBlock /\ At(h, x) = ClosedAt(d, i, x)
    <3>1. PICK y : y = x + 1
      OBVIOUS
    <3>2. y \in 1 .. d.count - 1 /\ y \in 0 .. d.count - 1 /\ x \in 0 .. d.count - 2 /\ y - 1 = x
      BY <1>2, <2>1, <3>1
    <3>3. BlockOf(h, x) = BlockOf(d, y) /\ CellOf(h, x) = CellOf(d, y)
      BY <1>3, <1>4, <2>3, <3>1, <3>2, SameEndsSame
    <3>4. d.array[BlockOf(d, y)] # NoBlock /\ BlockOf(d, y) \in 0 .. d.narray - 1
      BY <1>2, <3>2, PlacesAre DEF BlocksThere
    <3>5. h.array[BlockOf(h, x)] # NoBlock
      BY <2>3, <3>3, <3>4 DEF SameBlocks
    <3>6. At(h, x) = HeldAt(d, e.array, y)
      BY <2>3, <3>3, <3>5 DEF At, Read, HeldAt
    <3>7. HeldAt(d, e.array, y) = IF y <= i THEN At(d, x) ELSE At(d, y)
      BY <3>2
    <3>8. y <= i <=> x < i
      BY <1>2, <3>1, <3>2
    <3>9. QED
      BY <3>1, <3>5, <3>6, <3>7, <3>8 DEF ClosedAt
  <2>7. DequeSane(h)
    BY <2>3, <2>5, <2>6 DEF DequeSane, BlocksThere
  <2>8. /\ DequeSane(r) /\ SameEnds(h, r)
        /\ \A x \in 0 .. c - 1 : At(r, x) = At(h, x)
    BY <2>3, <2>4, <2>7, SettledIs
  <2>9. c - 1 = d.count - 2 /\ r.count = d.count - 1
    BY <1>2, <2>1, <2>3, <2>8 DEF SameEnds
  <2>10. QED
    BY <2>6, <2>8, <2>9 DEF HasOneLess
<1>7. QED
  BY <1>5, <1>6

\* The rear has moved by one.
LEMMA PoppedRight ==
  ASSUME DequeAssumption, NEW d, DequeSane(d), d.count > 0, NEW i \in 0 .. d.count - 1,
         NEW e, IsDeque(e), SameEnds(DecrementRight(d), e), SameBlocks(d.array, e.array, d.narray),
         \A x \in 0 .. d.count - 2 : HeldAt(d, e.array, x) = ClosedAt(d, i, x),
         NEW r, r = Settled(Popped(e))
  PROVE  HasOneLess(d, r, i)
<1>1. PICK g : g = DecrementRight(d)
  OBVIOUS
<1>2. d.count \in Nat /\ IsDeque(d) /\ EndsFit(d, d.count) /\ BlocksThere(d, d.count) /\ i \in Nat
  BY DequeIs DEF DequeSane
<1>3. /\ IsDeque(g) /\ g.array = d.array /\ g.count = d.count /\ g.narray = d.narray
      /\ d.count > 1 => EndsFit(g, d.count - 1)
      /\ \A x : BlockOf(g, x) = BlockOf(d, x) /\ CellOf(g, x) = CellOf(d, x)
  BY <1>1, DecrementRightIs
<1>4. SameEnds(g, e) /\ e.count = d.count /\ e.narray = d.narray
  BY <1>1, <1>3 DEF SameEnds
<1>5. CASE d.count = 1
  BY <1>4, <1>5, PoppedLast
<1>6. CASE d.count # 1
  <2>1. PICK c \in Nat : c = d.count - 1
    BY <1>2, <1>6
  <2>2. PICK h : h = [e EXCEPT !.count = c]
    OBVIOUS
  <2>3. /\ IsDeque(h) /\ h.array = e.array /\ h.count = c /\ h.narray = e.narray
        /\ \A x : BlockOf(h, x) = BlockOf(e, x) /\ CellOf(h, x) = CellOf(e, x)
        /\ \A n : EndsFit(e, n) => EndsFit(h, n)
    BY <2>2, FewerIs
  <2>4. Popped(e) = h
    BY <1>4, <1>6, <2>1, <2>2 DEF Popped
  <2>5. EndsFit(h, c)
    BY <1>2, <1>3, <1>4, <1>6, <2>1, <2>3, SameEndsSame
  <2>6. ASSUME NEW x \in 0 .. c - 1
        PROVE  h.array[BlockOf(h, x)] # NoBlock /\ At(h, x) = ClosedAt(d, i, x)
    <3>1. x \in 0 .. d.count - 1 /\ x \in 0 .. d.count - 2
      BY <1>2, <2>1
    <3>2. BlockOf(h, x) = BlockOf(d, x) /\ CellOf(h, x) = CellOf(d, x)
      BY <1>3, <1>4, <2>3, SameEndsSame
    <3>3. d.array[BlockOf(d, x)] # NoBlock /\ BlockOf(d, x) \in 0 .. d.narray - 1
      BY <1>2, <3>1, PlacesAre DEF BlocksThere
    <3>4. h.array[BlockOf(h, x)] # NoBlock
      BY <2>3, <3>2, <3>3 DEF SameBlocks
    <3>5. At(h, x) = HeldAt(d, e.array, x)
      BY <2>3, <3>2, <3>4 DEF At, Read, HeldAt
    <3>6. QED
      BY <3>1, <3>4, <3>5
  <2>7. DequeSane(h)
    BY <2>3, <2>5, <2>6 DEF DequeSane, BlocksThere
  <2>8. /\ DequeSane(r) /\ SameEnds(h, r)
        /\ \A x \in 0 .. c - 1 : At(r, x) = At(h, x)
    BY <2>3, <2>4, <2>7, SettledIs
  <2>9. c - 1 = d.count - 2 /\ r.count = d.count - 1
    BY <1>2, <2>1, <2>3, <2>8 DEF SameEnds
  <2>10. QED
    BY <2>6, <2>8, <2>9 DEF HasOneLess
<1>7. QED
  BY <1>5, <1>6

\* cra_deque_pop_at in the left half.
LEMMA PoppedAtLeft ==
  ASSUME DequeAssumption, NEW d, DequeSane(d), NEW i \in 0 .. d.count - 1,
         NEW r, r = Settled(Popped(MoveL2R(DecrementLeft(d), BlockOf(d, i), CellOf(d, i), i)))
  PROVE  HasOneLess(d, r, i)
<1>1. PICK g : g = DecrementLeft(d)
  OBVIOUS
<1>2. d.count \in Nat /\ IsDeque(d) /\ EndsFit(d, d.count) /\ BlocksThere(d, d.count) /\ i \in Nat /\ i \in Int /\ d.count > 0 /\ d.lindex \in Nat
  BY DequeIs DEF DequeSane
<1>3. IsDeque(g) /\ g.array = d.array /\ g.narray = d.narray
  BY <1>1, <1>2, DecrementLeftIs
<1>4. ASSUME NEW x \in 0 .. d.count - 1
      PROVE  InRing(d, x) /\ d.array[BlockOf(d, x)] # NoBlock /\ At(d, x) = HeldAt(d, d.array, x) /\ x \in Int
  <2>1. InRing(d, x) /\ d.array[BlockOf(d, x)] # NoBlock /\ x \in Int
    BY <1>2, PlacesAre DEF BlocksThere
  <2>2. QED
    BY <1>2, <2>1, AtIs
<1>5. ThereL2R(g, d, i, i)
  <2>1. i - i = 0 /\ i - i .. i \subseteq 0 .. d.count - 1
    BY <1>2
  <2>2. \A x \in i - i .. i : g.array[BlockOf(d, x)] # NoBlock
    BY <1>3, <1>4, <2>1
  <2>3. i - i + d.lindex >= 0 /\ InRing(d, i)
    BY <1>2, <1>4, <2>1
  <2>4. QED
    BY <1>2, <1>3, <2>2, <2>3 DEF ThereL2R
<1>6. PICK e : e = MoveL2R(g, BlockOf(d, i), CellOf(d, i), i)
  OBVIOUS
<1>7. /\ IsDeque(e) /\ SameEnds(g, e) /\ SameBlocks(g.array, e.array, d.narray)
      /\ MovedBy(d, g.array, e.array, i - i + 1, i, -1)
  BY <1>5, <1>6, MoveL2RIs
<1>8. ASSUME NEW x \in 1 .. d.count - 1
      PROVE  HeldAt(d, e.array, x) = IF x <= i THEN At(d, x - 1) ELSE At(d, x)
  <2>1. x \in 0 .. d.count - 1 /\ x - 1 \in 0 .. d.count - 1 /\ x + -1 = x - 1
    BY <1>2
  <2>2. HeldAt(d, e.array, x) = IF x \in i - i + 1 .. i THEN HeldAt(d, d.array, x + -1) ELSE HeldAt(d, d.array, x)
    BY <1>3, <1>4, <1>7, <2>1 DEF MovedBy
  <2>3. x \in i - i + 1 .. i <=> x <= i
    BY <1>2
  <2>4. PICK y : y = x - 1
    OBVIOUS
  <2>5. HeldAt(d, d.array, y) = At(d, y) /\ HeldAt(d, d.array, x) = At(d, x)
    BY <1>4, <2>1, <2>4
  <2>6. QED
    BY <2>1, <2>2, <2>3, <2>4, <2>5
<1>9. SameEnds(DecrementLeft(d), e) /\ SameBlocks(d.array, e.array, d.narray) /\ r = Settled(Popped(e))
  BY <1>1, <1>3, <1>6, <1>7
<1>10. QED
  BY <1>2, <1>7, <1>8, <1>9, PoppedLeft

\* cra_deque_pop_at in the right half.
LEMMA PoppedAtRight ==
  ASSUME DequeAssumption, NEW d, DequeSane(d), NEW i \in 0 .. d.count - 1,
         NEW r, r = Settled(Popped(MoveR2L(DecrementRight(d), BlockOf(d, i), CellOf(d, i), d.count - 1 - i)))
  PROVE  HasOneLess(d, r, i)
<1>1. PICK g : g = DecrementRight(d)
  OBVIOUS
<1>2. d.count \in Nat /\ IsDeque(d) /\ EndsFit(d, d.count) /\ BlocksThere(d, d.count) /\ i \in Nat /\ i \in Int /\ d.count > 0 /\ d.lindex \in Nat
  BY DequeIs DEF DequeSane
<1>3. IsDeque(g) /\ g.array = d.array /\ g.narray = d.narray
  BY <1>1, <1>2, DecrementRightIs
<1>4. ASSUME NEW x \in 0 .. d.count - 1
      PROVE  InRing(d, x) /\ d.array[BlockOf(d, x)] # NoBlock /\ At(d, x) = HeldAt(d, d.array, x) /\ x \in Int
  <2>1. InRing(d, x) /\ d.array[BlockOf(d, x)] # NoBlock /\ x \in Int
    BY <1>2, PlacesAre DEF BlocksThere
  <2>2. QED
    BY <1>2, <2>1, AtIs
<1>5. PICK n \in Nat : n = d.count - 1 - i
  BY <1>2
<1>6. ThereR2L(g, d, i, n)
  <2>1. i + n \in 0 .. d.count - 1 /\ i .. i + n \subseteq 0 .. d.count - 1
    BY <1>2, <1>5
  <2>2. \A x \in i .. i + n : g.array[BlockOf(d, x)] # NoBlock
    BY <1>3, <1>4, <2>1
  <2>3. i + d.lindex >= 0 /\ InRing(d, i + n)
    BY <1>2, <1>4, <2>1
  <2>4. QED
    BY <1>2, <1>3, <2>2, <2>3 DEF ThereR2L
<1>7. PICK e : e = MoveR2L(g, BlockOf(d, i), CellOf(d, i), n)
  OBVIOUS
<1>8. /\ IsDeque(e) /\ SameEnds(g, e) /\ SameBlocks(g.array, e.array, d.narray)
      /\ MovedBy(d, g.array, e.array, i, i + n - 1, 1)
  BY <1>6, <1>7, MoveR2LIs
<1>9. ASSUME NEW x \in 0 .. d.count - 2
      PROVE  HeldAt(d, e.array, x) = ClosedAt(d, i, x)
  <2>1. PICK y : y = x + 1
    OBVIOUS
  <2>2. x \in 0 .. d.count - 1 /\ y \in 0 .. d.count - 1
    BY <1>2, <2>1
  <2>3. HeldAt(d, e.array, x) = IF x \in i .. i + n - 1 THEN HeldAt(d, d.array, y) ELSE HeldAt(d, d.array, x)
    BY <1>3, <1>4, <1>8, <2>1, <2>2 DEF MovedBy
  <2>4. x \in i .. i + n - 1 <=> ~(x < i)
    BY <1>2, <1>5
  <2>5. HeldAt(d, d.array, y) = At(d, y) /\ HeldAt(d, d.array, x) = At(d, x)
    BY <1>4, <2>2
  <2>6. QED
    BY <2>1, <2>3, <2>4, <2>5 DEF ClosedAt
<1>10. SameEnds(DecrementRight(d), e) /\ SameBlocks(d.array, e.array, d.narray) /\ r = Settled(Popped(e))
  BY <1>1, <1>3, <1>5, <1>7, <1>8
<1>11. QED
  BY <1>2, <1>8, <1>9, <1>10, PoppedRight

\* cra_deque_pop_front takes element 0.
LEMMA PoppedAtFront ==
  ASSUME DequeAssumption, NEW d, DequeSane(d), d.count > 0, NEW r, r = Settled(Popped(DecrementLeft(d)))
  PROVE  HasOneLess(d, r, 0) /\ Read(d, d.front, d.lindex) = At(d, 0)
<1>1. PICK g, z : g = DecrementLeft(d) /\ z = 0
  OBVIOUS
<1>2. d.count \in Nat /\ IsDeque(d) /\ EndsFit(d, d.count) /\ BlocksThere(d, d.count) /\ d.lindex \in Cells /\ d.front \in 0 .. d.narray - 1 /\ d.narray \in Nat
  BY DequeIs DEF DequeSane
<1>3. IsDeque(g) /\ g.array = d.array /\ g.narray = d.narray
  BY <1>1, <1>2, DecrementLeftIs
<1>4. SameEnds(DecrementLeft(d), g) /\ SameBlocks(d.array, g.array, d.narray)
  BY <1>1, <1>3, NothingMoved
<1>5. ASSUME NEW x \in 1 .. d.count - 1
      PROVE  HeldAt(d, g.array, x) = IF x <= z THEN At(d, x - 1) ELSE At(d, x)
  <2>1. x \in 0 .. d.count - 1 /\ ~(x <= z)
    BY <1>1, <1>2
  <2>2. HeldAt(d, d.array, x) = At(d, x)
    BY <2>1, ContentIs
  <2>3. QED
    BY <1>3, <2>1, <2>2
<1>6. z \in 0 .. d.count - 1
  BY <1>1, <1>2
<1>7. HasOneLess(d, r, z)
  BY <1>1, <1>3, <1>4, <1>5, <1>6, PoppedLeft
<1>8. Read(d, d.front, d.lindex) = At(d, 0)
  <2>1. 0 \in 0 .. d.narray - 1 /\ 0 + d.lindex = 0 * Items + d.lindex
    BY <1>2, CellsAre
  <2>2. BlockOf(d, 0) = Turned(d.front, 0, d.narray) /\ CellOf(d, 0) = d.lindex
    BY <1>2, <2>1, PlaceIs
  <2>3. Turned(d.front, 0, d.narray) = d.front
    BY <1>2 DEF Turned
  <2>4. QED
    BY <2>2, <2>3 DEF At
<1>9. QED
  BY <1>1, <1>7, <1>8

\* cra_deque_pop_back takes the last element.
LEMMA PoppedAtBack ==
  ASSUME DequeAssumption, NEW d, DequeSane(d), d.count > 0, NEW r, r = Settled(Popped(DecrementRight(d)))
  PROVE  HasOneLess(d, r, d.count - 1) /\ Read(d, d.rear, d.rindex) = At(d, d.count - 1)
<1>1. PICK g, z : g = DecrementRight(d) /\ z = d.count - 1
  OBVIOUS
<1>2. d.count \in Nat /\ IsDeque(d) /\ EndsFit(d, d.count) /\ BlocksThere(d, d.count)
  BY DequeIs DEF DequeSane
<1>3. IsDeque(g) /\ g.array = d.array /\ g.narray = d.narray
  BY <1>1, <1>2, DecrementRightIs
<1>4. SameEnds(DecrementRight(d), g) /\ SameBlocks(d.array, g.array, d.narray)
  BY <1>1, <1>3, NothingMoved
<1>5. ASSUME NEW x \in 0 .. d.count - 2
      PROVE  HeldAt(d, g.array, x) = ClosedAt(d, z, x)
  <2>1. x \in 0 .. d.count - 1 /\ x < z
    BY <1>1, <1>2
  <2>2. HeldAt(d, d.array, x) = At(d, x)
    BY <2>1, ContentIs
  <2>3. QED
    BY <1>3, <2>1, <2>2 DEF ClosedAt
<1>6. z \in 0 .. d.count - 1
  BY <1>1, <1>2
<1>7. HasOneLess(d, r, z)
  BY <1>1, <1>3, <1>4, <1>5, <1>6, PoppedRight
<1>8. Read(d, d.rear, d.rindex) = At(d, d.count - 1)
  BY <1>2 DEF EndsFit, PlaceOf, End, At
<1>9. QED
  BY <1>1, <1>7, <1>8

(***************************************************************************)
(* Walking over the elements.                                              *)
(***************************************************************************)
\* The cell behind the one of an element is that of the next.
LEMMA AheadIs ==
  ASSUME DequeAssumption, NEW f, IsDeque(f), NEW i \in Int, InRing(f, i), NEW x, x = i + 1, InRing(f, x),
         NEW g, g.narray = f.narray
  PROVE  Ahead(g, PlaceOf(f, i)) = PlaceOf(f, x) /\ Behind(g, PlaceOf(f, x)) = PlaceOf(f, i)
<1>1. CellOf(f, i) \in Cells /\ CellOf(f, i) \in Int /\ x \in Int /\ CellOf(f, x) \in Cells
  <2>1. PICK a \in 0 .. f.narray - 1, b \in Cells : i + f.lindex = a * Items + b
    BY DEF InRing
  <2>2. PICK o \in 0 .. f.narray - 1, p \in Cells : x + f.lindex = o * Items + p
    BY DEF InRing
  <2>3. QED
    BY <2>1, <2>2, PlaceIs, CellsAre
<1>2. CASE CellOf(f, i) = Items - 1
  <2>1. BlockOf(f, x) = Up(g, BlockOf(f, i)) /\ CellOf(f, x) = 0 /\ BlockOf(f, i) = Down(g, BlockOf(f, x))
    BY <1>2, NextBlock
  <2>2. QED
    BY <1>2, <2>1 DEF Ahead, Behind, PlaceOf
<1>3. CASE CellOf(f, i) # Items - 1
  <2>1. PICK t \in Int : t = 1
    OBVIOUS
  <2>2. CellOf(f, i) + t \in Cells /\ x = i + t /\ CellOf(f, i) + t = CellOf(f, i) + 1 /\ CellOf(f, i) + 1 # 0
    BY <1>1, <1>3, <2>1 DEF Cells, DequeAssumption
  <2>3. BlockOf(f, x) = BlockOf(f, i) /\ CellOf(f, x) = CellOf(f, i) + 1
    BY <2>2, NearInBlock
  <2>4. CellOf(f, x) - 1 = CellOf(f, i) /\ CellOf(f, x) # 0
    BY <1>1, <2>2, <2>3
  <2>5. QED
    BY <1>3, <2>3, <2>4 DEF Ahead, Behind, PlaceOf
<1>4. QED
  BY <1>2, <1>3

\* One cell holds v.
WithCell(d, b, c, v) == [d EXCEPT !.array[b][c] = v]

\* One cell is written.
LEMMA CellWritten ==
  ASSUME DequeAssumption, NEW f, IsDeque(f), NEW d, IsDeque(d), d.narray = f.narray,
         NEW x \in Int, InRing(f, x), d.array[BlockOf(f, x)] # NoBlock, NEW v \in DequeVal,
         NEW e, e = WithCell(d, BlockOf(f, x), CellOf(f, x), v)
  PROVE  /\ IsDeque(e) /\ SameEnds(d, e) /\ SameBlocks(d.array, e.array, d.narray)
         /\ \A y \in Int : InRing(f, y) => HeldAt(f, e.array, y) = IF y = x THEN v ELSE HeldAt(f, d.array, y)
<1>1. PICK b, c : b = BlockOf(f, x) /\ c = CellOf(f, x)
  OBVIOUS
<1>2. b \in 0 .. d.narray - 1 /\ d.array[b] \in BlockSet /\ c \in Cells /\ d.array[b] # NoBlock
  BY <1>1, HoldsIn
<1>3. PICK w : w = [d.array[b] EXCEPT ![c] = v]
  OBVIOUS
<1>4. w \in BlockSet /\ \A y \in Cells : w[y] = IF y = c THEN v ELSE d.array[b][y]
  BY <1>2, <1>3 DEF BlockSet, DequeVal
<1>5. e = WithBlockAs(d, b, w)
  BY <1>1, <1>3, Zenon DEF WithCell, WithBlockAs
<1>6. /\ DequeAssumption /\ IsDeque(d) /\ b \in 0 .. d.narray - 1 /\ d.array[b] # NoBlock
      /\ w \in BlockSet /\ e = WithBlockAs(d, b, w)
  BY <1>2, <1>4, <1>5
<1>7. /\ IsDeque(e) /\ SameEnds(d, e) /\ SameBlocks(d.array, e.array, d.narray)
      /\ \A k \in 0 .. d.narray - 1 : e.array[k] = IF k = b THEN w ELSE d.array[k]
  BY ONLY <1>6, BlockWritten
<1>8. ASSUME NEW y \in Int, InRing(f, y)
      PROVE  HeldAt(f, e.array, y) = IF y = x THEN v ELSE HeldAt(f, d.array, y)
  <2>1. BlockOf(f, y) \in 0 .. d.narray - 1
    BY BlockIn
  <2>2. CASE y = x
    BY <1>1, <1>2, <1>4, <1>7, <2>2 DEF HeldAt
  <2>3. CASE y # x /\ BlockOf(f, y) = b
    <3>1. CellOf(f, y) # c
      BY <1>1, <1>8, <2>3, PlacesDiffer DEF PlaceOf
    <3>2. CellOf(f, y) \in Cells
      BY <1>2, <1>8, <2>3, HoldsIn
    <3>3. QED
      BY <1>4, <1>7, <2>1, <2>3, <3>1, <3>2 DEF HeldAt
  <2>4. CASE y # x /\ BlockOf(f, y) # b
    BY <1>7, <2>1, <2>4 DEF HeldAt
  <2>5. QED
    BY <2>2, <2>3, <2>4
<1>9. QED
  BY <1>7, <1>8

\* n elements on each side are swapped.
OnWaySwap(m, d, n) ==
  /\ m \in [d : DequeSet, front : Nat \X Nat, back : Nat \X Nat]
  /\ IsDeque(m.d) /\ SameEnds(d, m.d) /\ SameBlocks(d.array, m.d.array, d.narray)
  /\ m.front = PlaceOf(d, n) /\ m.back = PlaceOf(d, d.count - 1 - n)
  /\ \A x \in 0 .. d.count - 1 :
       HeldAt(d, m.d.array, x) = IF x < n \/ x > d.count - 1 - n THEN At(d, d.count - 1 - x) ELSE At(d, x)

\* The place of an element, taken apart.
LEMMA PlaceIn ==
  ASSUME DequeAssumption, NEW d, DequeSane(d), NEW i \in 0 .. d.count - 1
  PROVE  PlaceOf(d, i) \in Nat \X Nat /\ PlaceOf(d, i)[1] = BlockOf(d, i) /\ PlaceOf(d, i)[2] = CellOf(d, i)
<1>1. d.count \in Nat
  BY DequeIs DEF DequeSane
<1>2. BlockOf(d, i) \in Nat /\ CellOf(d, i) \in Nat
  BY <1>1, PlacesAre DEF DequeSane
<1>3. QED
  BY <1>2 DEF PlaceOf

\* One more pair is swapped.
LEMMA SwapOnce ==
  ASSUME DequeAssumption, NEW d, DequeSane(d), d.count >= 2, NEW n \in Nat, n < (d.count + 1) \div 2,
         NEW m, OnWaySwap(m, d, n), NEW o, o = n + 1
  PROVE  OnWaySwap(Swap(m), d, o)
<1>1. PICK c : c = d.count
  OBVIOUS
<1>2. c \in Nat /\ IsDeque(d) /\ EndsFit(d, d.count) /\ BlocksThere(d, d.count)
  BY <1>1, DequeIs DEF DequeSane
<1>3. PICK b : b = c - 1 - n
  OBVIOUS
<1>4. n \in 0 .. c - 1 /\ b \in 0 .. c - 1 /\ o \in 0 .. c - 1 /\ b - 1 \in 0 .. c - 1 /\ n <= b
  BY <1>1, <1>2, <1>3
<1>5. ASSUME NEW x \in 0 .. c - 1
      PROVE  /\ InRing(d, x) /\ x \in Int /\ d.array[BlockOf(d, x)] # NoBlock
             /\ BlockOf(d, x) \in 0 .. d.narray - 1
  BY <1>1, <1>2, PlacesAre DEF BlocksThere
<1>6. /\ IsDeque(m.d) /\ SameEnds(d, m.d) /\ SameBlocks(d.array, m.d.array, d.narray)
      /\ m.front = PlaceOf(d, n) /\ m.back = PlaceOf(d, b) /\ m.d.narray = d.narray
      /\ \A x \in 0 .. c - 1 :
           HeldAt(d, m.d.array, x) = IF x < n \/ x > b THEN At(d, c - 1 - x) ELSE At(d, x)
  BY <1>1, <1>3 DEF OnWaySwap, SameEnds
<1>7. /\ m.front[1] = BlockOf(d, n) /\ m.front[2] = CellOf(d, n)
      /\ m.back[1] = BlockOf(d, b) /\ m.back[2] = CellOf(d, b)
  BY <1>1, <1>4, <1>6, PlaceIn
<1>8. PICK u, w : u = m.d.array[BlockOf(d, b)][CellOf(d, b)] /\ w = m.d.array[BlockOf(d, n)][CellOf(d, n)]
  OBVIOUS
<1>9. u = At(d, b) /\ w = At(d, n) /\ u \in DequeVal /\ w \in DequeVal
  <2>1. u = HeldAt(d, m.d.array, b) /\ w = HeldAt(d, m.d.array, n)
    BY <1>8 DEF HeldAt
  <2>2. ~(b < n \/ b > b) /\ ~(n < n \/ n > b)
    BY <1>2, <1>4
  <2>3. u = At(d, b) /\ w = At(d, n)
    BY <1>4, <1>6, <2>1, <2>2
  <2>4. At(d, b) \in DequeVal /\ At(d, n) \in DequeVal
    BY <1>2, <1>4, <1>5, AtIs
  <2>5. QED
    BY <2>3, <2>4
<1>10. PICK g : g = WithCell(m.d, BlockOf(d, n), CellOf(d, n), u)
  OBVIOUS
<1>11. PICK h : h = WithCell(g, BlockOf(d, b), CellOf(d, b), w)
  OBVIOUS
<1>12. Swap(m) = [d |-> h, front |-> Ahead(m.d, m.front), back |-> Behind(m.d, m.back)]
  <2>1. PICK md, f1, f2, b1, b2 : /\ md = m.d /\ f1 = m.front[1] /\ f2 = m.front[2]
                                  /\ b1 = m.back[1] /\ b2 = m.back[2]
    OBVIOUS
  <2>2. Swap(m) = [d |-> [md EXCEPT !.array[f1][f2] = md.array[b1][b2], !.array[b1][b2] = md.array[f1][f2]],
                   front |-> Ahead(m.d, m.front), back |-> Behind(m.d, m.back)]
    BY <2>1, Zenon DEF Swap
  <2>3. md.array[b1][b2] = u /\ md.array[f1][f2] = w
    BY <1>7, <1>8, <2>1
  <2>4. h = WithCell(WithCell(md, f1, f2, u), b1, b2, w)
    BY <1>7, <1>10, <1>11, <2>1
  <2>5. h = [md EXCEPT !.array[f1][f2] = u, !.array[b1][b2] = w]
    BY <2>4, Zenon DEF WithCell
  <2>6. QED
    BY <2>2, <2>3, <2>5
<1>13. /\ IsDeque(g) /\ SameEnds(m.d, g) /\ SameBlocks(m.d.array, g.array, m.d.narray)
       /\ \A y \in Int : InRing(d, y) => HeldAt(d, g.array, y) = IF y = n THEN u ELSE HeldAt(d, m.d.array, y)
  <2>1. m.d.array[BlockOf(d, n)] # NoBlock
    BY <1>4, <1>5, <1>6 DEF SameBlocks
  <2>2. PICK md : md = m.d
    OBVIOUS
  <2>3. /\ DequeAssumption /\ IsDeque(d) /\ IsDeque(md) /\ md.narray = d.narray /\ n \in Int /\ InRing(d, n)
        /\ md.array[BlockOf(d, n)] # NoBlock /\ u \in DequeVal /\ g = WithCell(md, BlockOf(d, n), CellOf(d, n), u)
    BY <1>2, <1>4, <1>5, <1>6, <1>9, <1>10, <2>1, <2>2
  <2>4. /\ IsDeque(g) /\ SameEnds(md, g) /\ SameBlocks(md.array, g.array, md.narray)
        /\ \A y \in Int : InRing(d, y) => HeldAt(d, g.array, y) = IF y = n THEN u ELSE HeldAt(d, md.array, y)
    BY ONLY <2>3, CellWritten
  <2>5. QED
    BY <2>2, <2>4
<1>14. /\ IsDeque(h) /\ SameEnds(g, h) /\ SameBlocks(g.array, h.array, g.narray)
       /\ \A y \in Int : InRing(d, y) => HeldAt(d, h.array, y) = IF y = b THEN w ELSE HeldAt(d, g.array, y)
  <2>1. g.narray = d.narray /\ g.array[BlockOf(d, b)] # NoBlock
    BY <1>4, <1>5, <1>6, <1>13 DEF SameBlocks, SameEnds
  <2>2. /\ DequeAssumption /\ IsDeque(d) /\ IsDeque(g) /\ g.narray = d.narray /\ b \in Int /\ InRing(d, b)
        /\ g.array[BlockOf(d, b)] # NoBlock /\ w \in DequeVal /\ h = WithCell(g, BlockOf(d, b), CellOf(d, b), w)
    BY <1>2, <1>4, <1>5, <1>9, <1>11, <1>13, <2>1
  <2>3. QED
    BY ONLY <2>2, CellWritten
<1>15. SameEnds(d, h) /\ SameBlocks(d.array, h.array, d.narray) /\ h.narray = d.narray
  BY <1>6, <1>13, <1>14 DEF SameEnds, SameBlocks
<1>16. Ahead(m.d, m.front) = PlaceOf(d, o) /\ Behind(m.d, m.back) = PlaceOf(d, b - 1)
  <2>1. PICK p : p = b - 1
    OBVIOUS
  <2>2. p \in 0 .. c - 1 /\ b = p + 1
    BY <1>4, <2>1
  <2>3. Ahead(m.d, PlaceOf(d, n)) = PlaceOf(d, o)
    BY <1>2, <1>4, <1>5, <1>6, AheadIs
  <2>4. Behind(m.d, PlaceOf(d, b)) = PlaceOf(d, p)
    BY <1>2, <1>4, <1>5, <1>6, <2>2, AheadIs
  <2>5. QED
    BY <1>6, <2>1, <2>3, <2>4
<1>17. ASSUME NEW x \in 0 .. c - 1
       PROVE  HeldAt(d, h.array, x) = IF x < o \/ x > b - 1 THEN At(d, c - 1 - x) ELSE At(d, x)
  <2>1. InRing(d, x) /\ x \in Int
    BY <1>5
  <2>2. HeldAt(d, h.array, x) = IF x = b THEN w ELSE IF x = n THEN u ELSE HeldAt(d, m.d.array, x)
    BY <1>13, <1>14, <2>1
  <2>3. HeldAt(d, m.d.array, x) = IF x < n \/ x > b THEN At(d, c - 1 - x) ELSE At(d, x)
    BY <1>6
  <2>4. CASE x = b
    <3>1. c - 1 - x = n /\ x > b - 1
      BY <1>2, <1>3, <1>4, <2>4
    <3>2. QED
      BY <1>9, <2>2, <2>4, <3>1
  <2>5. CASE x = n /\ x # b
    <3>1. c - 1 - x = b /\ x < o
      BY <1>2, <1>3, <1>4, <2>5
    <3>2. QED
      BY <1>9, <2>2, <2>5, <3>1
  <2>6. CASE x # b /\ x # n
    <3>1. (x < n \/ x > b) <=> (x < o \/ x > b - 1)
      BY <1>2, <1>3, <1>4, <2>1, <2>6
    <3>2. QED
      BY <2>2, <2>3, <2>6, <3>1
  <2>7. QED
    BY <2>4, <2>5, <2>6
<1>18. d.count - 1 - o = b - 1
  BY <1>1, <1>2, <1>3
<1>19. PICK s : s = Swap(m)
  OBVIOUS
<1>20. s = [d |-> h, front |-> PlaceOf(d, o), back |-> PlaceOf(d, b - 1)]
  BY <1>12, <1>16, <1>19
<1>21. s \in [d : DequeSet, front : Nat \X Nat, back : Nat \X Nat]
  <2>1. PlaceOf(d, o) \in Nat \X Nat /\ PlaceOf(d, b - 1) \in Nat \X Nat
    BY <1>1, <1>4, PlaceIn
  <2>2. h \in DequeSet
    BY <1>14 DEF IsDeque, DequeSet
  <2>3. QED
    BY <1>20, <2>1, <2>2
<1>22. OnWaySwap(s, d, o)
  BY <1>1, <1>14, <1>15, <1>17, <1>18, <1>20, <1>21 DEF OnWaySwap
<1>23. QED
  BY <1>19, <1>22

\* What the recursive function of Swapped is.
RoundsSwap(h, x, k) == h = [i \in 0 .. k |-> IF i = 0 THEN x ELSE Swap(h[i - 1])]

\* And all the others.
LEMMA SwapsTo ==
  ASSUME DequeAssumption, NEW d, DequeSane(d), d.count >= 2, NEW k \in Nat, k = (d.count + 1) \div 2,
         NEW h, OnWaySwap(h[0], d, 0),
         \A n \in 1 .. k : OnWaySwap(h[n - 1], d, n - 1) => h[n] = Swap(h[n - 1])
  PROVE  \A n \in 0 .. k : OnWaySwap(h[n], d, n)
<1> DEFINE T == {n \in Nat : n <= k => OnWaySwap(h[n], d, n)}
<1>1. 0 \in T
  OBVIOUS
<1>2. ASSUME NEW n \in Nat, n \in T
      PROVE  n + 1 \in T
  <2>1. SUFFICES ASSUME n + 1 <= k
                 PROVE  OnWaySwap(h[n + 1], d, n + 1)
    OBVIOUS
  <2>2. OnWaySwap(h[n], d, n)
    BY <1>2, <2>1
  <2>3. PICK o : o = n + 1
    OBVIOUS
  <2>4. o \in 1 .. k /\ o - 1 = n /\ n < (d.count + 1) \div 2
    BY <2>1, <2>3
  <2>5. h[o] = Swap(h[n])
    BY <2>2, <2>4
  <2>6. OnWaySwap(Swap(h[n]), d, o)
    BY <2>2, <2>3, <2>4, SwapOnce
  <2>7. QED
    BY <2>3, <2>5, <2>6
<1> HIDE DEF T
<1>3. \A n \in Nat : n \in T
  BY <1>1, <1>2, SetInduction
<1>4. QED
  BY <1>3 DEF T

\* cra_deque_reverse
LEMMA SwappedIs ==
  ASSUME DequeAssumption, NEW d, DequeSane(d), d.count >= 2, NEW e, e = Swapped(d)
  PROVE  /\ DequeSane(e) /\ e.count = d.count
         /\ \A x \in 0 .. d.count - 1 : At(e, x) = At(d, d.count - 1 - x)
<1>1. d.count \in Nat /\ IsDeque(d) /\ EndsFit(d, d.count) /\ BlocksThere(d, d.count)
  BY DequeIs DEF DequeSane
<1>2. PICK k \in Nat : k = (d.count + 1) \div 2
  BY <1>1
<1> DEFINE x == [d |-> d, front |-> Begin(d), back |-> End(d)]
           swapped[i \in 0 .. (d.count + 1) \div 2] == IF i = 0 THEN x ELSE Swap(swapped[i - 1])
           U == {m \in [d : DequeSet, front : Nat \X Nat, back : Nat \X Nat] : \E n \in 0 .. k : OnWaySwap(m, d, n)}
           G == [m \in U |-> IF Swap(m) \in U THEN Swap(m) ELSE m]
<1>3. OnWaySwap(x, d, 0) /\ x \in U
  <2>1. PICK z : z = 0
    OBVIOUS
  <2>2. z \in 0 .. d.count - 1 /\ d.count - 1 \in 0 .. d.count - 1 /\ d.count - 1 - z = d.count - 1 /\ z \in 0 .. k
    BY <1>1, <1>2, <2>1
  <2>3. Begin(d) = PlaceOf(d, z)
    <3>1. d.lindex \in Cells /\ z \in 0 .. d.narray - 1 /\ z + d.lindex = z * Items + d.lindex
          /\ d.front \in 0 .. d.narray - 1 /\ d.narray \in Nat
      BY <1>1, <2>1, DequeIs, CellsAre
    <3>2. BlockOf(d, z) = Turned(d.front, z, d.narray) /\ CellOf(d, z) = d.lindex
      BY <1>1, <2>2, <3>1, PlaceIs
    <3>3. QED
      BY <2>1, <3>1, <3>2 DEF Turned, PlaceOf, Begin
  <2>4. End(d) = PlaceOf(d, d.count - 1)
    BY <1>1 DEF EndsFit
  <2>5. PlaceOf(d, z) \in Nat \X Nat /\ PlaceOf(d, d.count - 1) \in Nat \X Nat
    BY <2>2, PlaceIn
  <2>6. d \in DequeSet
    BY <1>1 DEF IsDeque, DequeSet
  <2>7. x \in [d : DequeSet, front : Nat \X Nat, back : Nat \X Nat]
    BY <2>3, <2>4, <2>5, <2>6
  <2>8. x.d = d /\ x.front = PlaceOf(d, z) /\ x.back = PlaceOf(d, d.count - 1 - z)
    BY <2>2, <2>3, <2>4
  <2>9. ASSUME NEW y \in 0 .. d.count - 1
        PROVE  HeldAt(d, d.array, y) = IF y < z \/ y > d.count - 1 - z THEN At(d, d.count - 1 - y) ELSE At(d, y)
    <3>1. ~(y < z \/ y > d.count - 1 - z)
      BY <1>1, <2>1
    <3>2. QED
      BY <3>1, ContentIs
  <2> HIDE DEF x
  <2>10. OnWaySwap(x, d, z)
    BY <1>1, <2>7, <2>8, <2>9, NothingMoved DEF OnWaySwap
  <2>11. QED
    BY <2>1, <2>2, <2>7, <2>10
<1> HIDE DEF x
<1>4. \A m \in U : \E n \in 0 .. k : OnWaySwap(m, d, n)
  OBVIOUS
<1>5. ASSUME NEW m, NEW n \in 0 .. k, OnWaySwap(m, d, n)
      PROVE  m \in U
  BY <1>5 DEF OnWaySwap
<1> HIDE DEF U
<1>6. G \in [U -> U] /\ \A m \in U : Swap(m) \in U => G[m] = Swap(m)
  OBVIOUS
<1> HIDE DEF G
<1>7. PICK g \in [0 .. k -> U] : g[0] = x /\ \A n \in 1 .. k : g[n] = G[g[n - 1]]
  <2>1. G \in [U -> U] /\ x \in U
    BY <1>3, <1>6
  <2>2. \E h : Iterated(h, U, G, x, k)
    BY <2>1, Iterates
  <2>3. QED
    BY <2>2 DEF Iterated
<1>8. ASSUME NEW n \in 1 .. k, OnWaySwap(g[n - 1], d, n - 1)
      PROVE  g[n] = Swap(g[n - 1])
  <2>1. PICK p \in Nat : p = n - 1
    OBVIOUS
  <2>2. p < (d.count + 1) \div 2 /\ n = p + 1 /\ n \in 0 .. k /\ p \in 0 .. k
    BY <1>2, <2>1
  <2>3. OnWaySwap(Swap(g[p]), d, n)
    BY <1>8, <2>1, <2>2, SwapOnce
  <2>4. Swap(g[p]) \in U /\ g[p] \in U
    BY <1>5, <1>7, <2>2, <2>3
  <2>5. QED
    BY <1>6, <1>7, <2>1, <2>4
<1>9. ASSUME NEW n \in 0 .. k PROVE OnWaySwap(g[n], d, n)
  <2>1. OnWaySwap(g[0], d, 0)
    BY <1>3, <1>7
  <2>2. QED
    BY <1>2, <1>8, <2>1, SwapsTo
<1>10. RoundsSwap(g, x, k)
  <2>1. ASSUME NEW n \in 0 .. k
        PROVE  g[n] = IF n = 0 THEN x ELSE Swap(g[n - 1])
    <3>1. CASE n = 0
      BY <1>7, <3>1
    <3>2. CASE n # 0
      <4>1. n \in 1 .. k /\ n - 1 \in 0 .. k
        BY <3>2
      <4>2. QED
        BY <1>8, <1>9, <3>2, <4>1
    <3>3. QED
      BY <3>1, <3>2
  <2>2. g = [n \in 0 .. k |-> g[n]]
    BY <1>7
  <2>3. QED
    BY <2>1, <2>2, Zenon DEF RoundsSwap
<1>11. swapped = CHOOSE h : RoundsSwap(h, x, k)
  BY <1>2, Zenon DEF RoundsSwap
<1>12. e = swapped[k].d
  BY <1>2, Zenon DEF Swapped, x
<1> HIDE DEF swapped
<1>13. RoundsSwap(swapped, x, k)
  BY <1>10, <1>11, Zenon
<1>14. ASSUME NEW n \in 0 .. k
       PROVE  swapped[n] = IF n = 0 THEN x ELSE Swap(swapped[n - 1])
  BY <1>13, Zenon DEF RoundsSwap
<1>15. OnWaySwap(swapped[k], d, k)
  <2>1. 0 \in 0 .. k /\ k \in 0 .. k /\ \A n \in 1 .. k : n \in 0 .. k /\ n # 0
    OBVIOUS
  <2>2. OnWaySwap(swapped[0], d, 0)
    BY <1>3, <1>14, <2>1
  <2>3. \A n \in 1 .. k : swapped[n] = Swap(swapped[n - 1])
    BY <1>14, <2>1
  <2>4. QED
    BY <1>2, <2>1, <2>2, <2>3, SwapsTo
<1>16. /\ IsDeque(e) /\ SameEnds(d, e) /\ SameBlocks(d.array, e.array, d.narray)
       /\ \A y \in 0 .. d.count - 1 :
            HeldAt(d, e.array, y) = IF y < k \/ y > d.count - 1 - k THEN At(d, d.count - 1 - y) ELSE At(d, y)
  BY <1>12, <1>15 DEF OnWaySwap
<1>17. ASSUME NEW y \in 0 .. d.count - 1
       PROVE  e.array[BlockOf(e, y)] # NoBlock /\ At(e, y) = At(d, d.count - 1 - y)
  <2>1. BlockOf(e, y) = BlockOf(d, y) /\ CellOf(e, y) = CellOf(d, y)
    BY <1>16, SameEndsSame
  <2>2. d.array[BlockOf(d, y)] # NoBlock /\ BlockOf(d, y) \in 0 .. d.narray - 1
    BY <1>1, PlacesAre DEF BlocksThere
  <2>3. e.array[BlockOf(e, y)] # NoBlock
    BY <1>16, <2>1, <2>2 DEF SameBlocks
  <2>4. At(e, y) = HeldAt(d, e.array, y)
    BY <2>1, <2>3 DEF At, Read, HeldAt
  <2>5. y < k \/ y > d.count - 1 - k
    BY <1>1, <1>2
  <2>6. QED
    BY <1>16, <2>3, <2>4, <2>5
<1>18. e.count = d.count /\ EndsFit(e, d.count)
  BY <1>1, <1>16, SameEndsSame DEF SameEnds
<1>19. QED
  BY <1>16, <1>17, <1>18 DEF DequeSane, BlocksThere

\* What the recursive functions of Forward and Backward are.
WalksForth(h, d) == h = [i \in 0 .. d.count - 1 |-> IF i = 0 THEN Begin(d) ELSE Ahead(d, h[i - 1])]
Back(h, d)  == h = [i \in 0 .. d.count - 1 |-> IF i = 0 THEN End(d) ELSE Behind(d, h[i - 1])]

\* The iterators find the elements in their order.
LEMMA ForwardIs ==
  ASSUME DequeAssumption, NEW d, DequeSane(d)
  PROVE  \A i \in 0 .. d.count - 1 : Forward(d)[i] = PlaceOf(d, i)
<1>1. d.count \in Nat /\ IsDeque(d) /\ EndsFit(d, d.count)
  BY DequeIs DEF DequeSane
<1>2. PICK c : c = d.count
  OBVIOUS
<1> DEFINE g == [i \in 0 .. c - 1 |-> PlaceOf(d, i)]
           cell[i \in 0 .. d.count - 1] == IF i = 0 THEN Begin(d) ELSE Ahead(d, cell[i - 1])
<1>3. ASSUME NEW i \in 0 .. c - 1, i # 0
      PROVE  Ahead(d, PlaceOf(d, i - 1)) = PlaceOf(d, i)
  <2>1. PICK p \in 0 .. c - 1 : p = i - 1
    BY <1>1, <1>2, <1>3
  <2>2. i = p + 1 /\ InRing(d, p) /\ InRing(d, i) /\ p \in Int
    BY <1>1, <1>2, <2>1, PlacesAre
  <2>3. Ahead(d, PlaceOf(d, p)) = PlaceOf(d, i)
    BY <1>1, <2>2, AheadIs
  <2>4. QED
    BY <2>1, <2>3
<1>4. c > 0 => Begin(d) = PlaceOf(d, 0)
  <2>1. PICK z : z = 0
    OBVIOUS
  <2>2. d.lindex \in Cells /\ z \in 0 .. d.narray - 1 /\ z + d.lindex = z * Items + d.lindex
        /\ d.front \in 0 .. d.narray - 1 /\ d.narray \in Nat
    BY <1>1, <2>1, DequeIs, CellsAre
  <2>3. BlockOf(d, z) = Turned(d.front, z, d.narray) /\ CellOf(d, z) = d.lindex
    BY <1>1, <2>1, <2>2, PlaceIs
  <2>4. QED
    BY <2>1, <2>2, <2>3 DEF Turned, PlaceOf, Begin
<1>5. ASSUME NEW i \in 0 .. c - 1
      PROVE  g[i] = IF i = 0 THEN Begin(d) ELSE Ahead(d, g[i - 1])
  <2>1. i # 0 => i - 1 \in 0 .. c - 1
    BY <1>1, <1>2
  <2>2. i = 0 => c > 0
    BY <1>1, <1>2
  <2>3. QED
    BY <1>3, <1>4, <2>1, <2>2
<1>6. WalksForth(g, d)
  <2>1. g = [i \in 0 .. c - 1 |-> g[i]]
    OBVIOUS
  <2> HIDE DEF g
  <2>2. QED
    BY <1>2, <1>5, <2>1, Zenon DEF WalksForth
<1>7. cell = CHOOSE h : WalksForth(h, d)
  BY Zenon DEF WalksForth
<1>8. Forward(d) = cell
  BY Zenon DEF Forward
<1> HIDE DEF cell
<1>9. WalksForth(cell, d)
  BY <1>6, <1>7, Zenon
<1>10. ASSUME NEW i \in 0 .. c - 1
       PROVE  cell[i] = IF i = 0 THEN Begin(d) ELSE Ahead(d, cell[i - 1])
  BY <1>2, <1>9, Zenon DEF WalksForth
<1> HIDE DEF g
<1> DEFINE T == {n \in Nat : n < c => cell[n] = PlaceOf(d, n)}
<1>11. 0 \in T
  BY <1>1, <1>2, <1>4, <1>10
<1>12. ASSUME NEW n \in Nat, n \in T
       PROVE  n + 1 \in T
  <2>1. SUFFICES ASSUME n + 1 < c PROVE cell[n + 1] = PlaceOf(d, n + 1)
    OBVIOUS
  <2>2. PICK o : o = n + 1
    OBVIOUS
  <2>3. o \in 0 .. c - 1 /\ o # 0 /\ o - 1 = n /\ cell[n] = PlaceOf(d, n)
    BY <1>1, <1>2, <1>12, <2>1, <2>2
  <2>4. QED
    BY <1>3, <1>10, <2>2, <2>3
<1> HIDE DEF T
<1>13. \A n \in Nat : n \in T
  BY <1>11, <1>12, SetInduction
<1>14. ASSUME NEW i \in 0 .. c - 1 PROVE cell[i] = PlaceOf(d, i)
  <2>1. i \in Nat /\ i < c
    BY <1>1, <1>2
  <2>2. QED
    BY <1>13, <2>1 DEF T
<1>15. QED
  BY <1>2, <1>8, <1>14

\* The iterator backwards.
LEMMA BackwardIs ==
  ASSUME DequeAssumption, NEW d, DequeSane(d)
  PROVE  \A i \in 0 .. d.count - 1 : Backward(d)[i] = PlaceOf(d, d.count - 1 - i)
<1>1. d.count \in Nat /\ IsDeque(d) /\ EndsFit(d, d.count)
  BY DequeIs DEF DequeSane
<1>2. PICK c : c = d.count
  OBVIOUS
<1> DEFINE g == [i \in 0 .. c - 1 |-> PlaceOf(d, c - 1 - i)]
           cell[i \in 0 .. d.count - 1] == IF i = 0 THEN End(d) ELSE Behind(d, cell[i - 1])
<1>3. ASSUME NEW i \in 0 .. c - 1, i # 0
      PROVE  Behind(d, PlaceOf(d, c - 1 - (i - 1))) = PlaceOf(d, c - 1 - i)
  <2>1. PICK p \in 0 .. c - 1, o \in 0 .. c - 1 : p = c - 1 - i /\ o = c - 1 - (i - 1)
    BY <1>1, <1>2, <1>3
  <2>2. o = p + 1 /\ InRing(d, p) /\ InRing(d, o) /\ p \in Int
    BY <1>1, <1>2, <2>1, PlacesAre
  <2>3. Behind(d, PlaceOf(d, o)) = PlaceOf(d, p)
    BY <1>1, <2>2, AheadIs
  <2>4. QED
    BY <2>1, <2>3
<1>4. End(d) = PlaceOf(d, c - 1)
  BY <1>1, <1>2 DEF EndsFit
<1>5. ASSUME NEW i \in 0 .. c - 1
      PROVE  g[i] = IF i = 0 THEN End(d) ELSE Behind(d, g[i - 1])
  <2>1. i # 0 => i - 1 \in 0 .. c - 1
    BY <1>1, <1>2
  <2>2. i = 0 => c - 1 - i = c - 1
    BY <1>1, <1>2
  <2>3. QED
    BY <1>3, <1>4, <2>1, <2>2
<1>6. Back(g, d)
  <2>1. g = [i \in 0 .. c - 1 |-> g[i]]
    OBVIOUS
  <2> HIDE DEF g
  <2>2. QED
    BY <1>2, <1>5, <2>1, Zenon DEF Back
<1>7. cell = CHOOSE h : Back(h, d)
  BY Zenon DEF Back
<1>8. Backward(d) = cell
  BY Zenon DEF Backward
<1> HIDE DEF cell
<1>9. Back(cell, d)
  BY <1>6, <1>7, Zenon
<1>10. ASSUME NEW i \in 0 .. c - 1
       PROVE  cell[i] = IF i = 0 THEN End(d) ELSE Behind(d, cell[i - 1])
  BY <1>2, <1>9, Zenon DEF Back
<1> HIDE DEF g
<1> DEFINE T == {n \in Nat : n < c => cell[n] = PlaceOf(d, c - 1 - n)}
<1>11. 0 \in T
  <2>1. c > 0 => 0 \in 0 .. c - 1 /\ c - 1 - 0 = c - 1
    BY <1>1, <1>2
  <2>2. QED
    BY <1>4, <1>10, <2>1
<1>12. ASSUME NEW n \in Nat, n \in T
       PROVE  n + 1 \in T
  <2>1. SUFFICES ASSUME n + 1 < c PROVE cell[n + 1] = PlaceOf(d, c - 1 - (n + 1))
    OBVIOUS
  <2>2. PICK o : o = n + 1
    OBVIOUS
  <2>3. o \in 0 .. c - 1 /\ o # 0 /\ o - 1 = n /\ cell[n] = PlaceOf(d, c - 1 - n)
    BY <1>1, <1>2, <1>12, <2>1, <2>2
  <2>4. QED
    BY <1>3, <1>10, <2>2, <2>3
<1> HIDE DEF T
<1>13. \A n \in Nat : n \in T
  BY <1>11, <1>12, SetInduction
<1>14. ASSUME NEW i \in 0 .. c - 1 PROVE cell[i] = PlaceOf(d, c - 1 - i)
  <2>1. i \in Nat /\ i < c
    BY <1>1, <1>2
  <2>2. QED
    BY <1>13, <2>1 DEF T
<1>15. QED
  BY <1>2, <1>8, <1>14

\* Get_ref and the iterators agree on a deque between two calls.
LEMMA SaneIterates ==
  ASSUME DequeAssumption, DequeSane(deque)
  PROVE  IteratesContent
<1>1. deque.count \in Nat /\ IsDeque(deque) /\ EndsFit(deque, deque.count)
  BY DequeIs DEF DequeSane
<1>2. PICK c : c = deque.count
  OBVIOUS
<1>3. ASSUME NEW x \in 0 .. c - 1
      PROVE  Read(deque, PlaceOf(deque, x)[1], PlaceOf(deque, x)[2]) = At(deque, x)
  BY <1>2 DEF PlaceOf, At
<1>4. ASSUME NEW x \in 0 .. c - 1, NEW y \in 0 .. c - 1
      PROVE  PlaceOf(deque, x) = PlaceOf(deque, y) <=> x = y
  <2>1. InRing(deque, x) /\ InRing(deque, y) /\ x \in Int /\ y \in Int
    BY <1>1, <1>2, PlacesAre
  <2>2. QED
    BY <1>1, <2>1, PlacesDiffer
<1>5. End(deque) = PlaceOf(deque, c - 1)
  BY <1>1, <1>2 DEF EndsFit
<1>6. c > 0 => Begin(deque) = PlaceOf(deque, 0)
  <2>1. PICK z : z = 0
    OBVIOUS
  <2>2. deque.lindex \in Cells /\ z \in 0 .. deque.narray - 1 /\ z + deque.lindex = z * Items + deque.lindex
        /\ deque.front \in 0 .. deque.narray - 1 /\ deque.narray \in Nat
    BY <1>1, <2>1, DequeIs, CellsAre
  <2>3. BlockOf(deque, z) = Turned(deque.front, z, deque.narray) /\ CellOf(deque, z) = deque.lindex
    BY <1>1, <2>1, <2>2, PlaceIs
  <2>4. QED
    BY <2>1, <2>2, <2>3 DEF Turned, PlaceOf, Begin
<1>7. ASSUME NEW i \in 0 .. c - 1
      PROVE  /\ Read(deque, Forward(deque)[i][1], Forward(deque)[i][2]) = At(deque, i)
             /\ Read(deque, Backward(deque)[i][1], Backward(deque)[i][2]) = At(deque, c - 1 - i)
             /\ Forward(deque)[i] = End(deque) <=> i = c - 1
             /\ Backward(deque)[i] = Begin(deque) <=> i = c - 1
  <2>1. PICK j \in 0 .. c - 1 : j = c - 1 - i
    BY <1>1, <1>2
  <2>2. Forward(deque)[i] = PlaceOf(deque, i) /\ Backward(deque)[i] = PlaceOf(deque, j)
    BY <1>2, <2>1, ForwardIs, BackwardIs
  <2>3. c > 0 /\ 0 \in 0 .. c - 1 /\ c - 1 \in 0 .. c - 1 /\ (j = 0 <=> i = c - 1)
    BY <1>1, <1>2, <2>1
  <2>4. PlaceOf(deque, i) = End(deque) <=> i = c - 1
    BY <1>4, <1>5, <2>3
  <2>5. PlaceOf(deque, j) = Begin(deque) <=> i = c - 1
    BY <1>4, <1>6, <2>3
  <2>6. QED
    BY <1>3, <2>1, <2>2, <2>4, <2>5
<1>8. QED
  BY <1>2, <1>7 DEF IteratesContent

(***************************************************************************)
(* The deque as a sequence.                                                *)
(***************************************************************************)
\* The deque with one element more, and with one less.
LEMMA MoreIs ==
  ASSUME DequeAssumption, NEW d, DequeSane(d), NEW i \in 0 .. d.count, NEW v \in Val, NEW r, HasOneMore(d, r, i, v),
         NEW e, e = Settled(r.d)
  PROVE  DequeSane(e) /\ Content(e) = InsertAt(Content(d), i + 1, v)
<1>1. /\ Content(d) \in Seq(DequeVal) /\ Len(Content(d)) = d.count /\ d.count \in Nat
      /\ \A x \in 0 .. d.count - 1 : Content(d)[x + 1] = At(d, x)
  BY ContentIs
<1>2. DequeSane(r.d) /\ r.d.count = d.count + 1 /\ \A x \in 0 .. d.count : At(r.d, x) = OpenedAt(d, i, v, x)
  BY DEF HasOneMore
<1>3. PICK g : g = r.d
  OBVIOUS
<1>4. DequeSane(e) /\ SameEnds(g, e) /\ \A x \in 0 .. g.count - 1 : At(e, x) = At(g, x)
  BY <1>2, <1>3, SettledIs
<1>5. PICK n, s, t : n = i + 1 /\ s = Content(d) /\ t = InsertAt(s, n, v)
  OBVIOUS
<1>6. n \in 1 .. Len(s) + 1 /\ v \in DequeVal /\ s \in Seq(DequeVal)
  BY <1>1, <1>5 DEF DequeVal
<1>7. /\ t \in Seq(DequeVal) /\ Len(t) = Len(s) + 1
      /\ \A j \in 1 .. Len(s) + 1 : t[j] = IF j < n THEN s[j] ELSE IF j = n THEN v ELSE s[j - 1]
  <2>1. s \in Seq(DequeVal) /\ n \in 1 .. Len(s) + 1 /\ v \in DequeVal /\ t = InsertAt(s, n, v)
    BY <1>5, <1>6
  <2>2. QED
    BY ONLY <2>1, InsertAtIs, SMTT(30)
<1>8. Len(t) = e.count /\ e.count = d.count + 1
  BY <1>1, <1>2, <1>3, <1>4, <1>5, <1>7 DEF SameEnds
<1>9. ASSUME NEW x \in 0 .. e.count - 1
      PROVE  At(e, x) = t[x + 1]
  <2>1. PICK j : j = x + 1
    OBVIOUS
  <2>2. j \in 1 .. Len(s) + 1 /\ x \in 0 .. d.count /\ x \in 0 .. g.count - 1
    BY <1>1, <1>2, <1>3, <1>5, <1>8, <2>1
  <2>3. At(e, x) = OpenedAt(d, i, v, x)
    BY <1>2, <1>3, <1>4, <2>2
  <2>4. t[j] = IF j < n THEN s[j] ELSE IF j = n THEN v ELSE s[j - 1]
    BY <1>7, <2>2
  <2>5. CASE x < i
    <3>1. j < n /\ x \in 0 .. d.count - 1
      BY <1>1, <1>5, <2>1, <2>2, <2>5
    <3>2. QED
      BY <1>1, <1>5, <2>1, <2>3, <2>4, <2>5, <3>1 DEF OpenedAt
  <2>6. CASE x = i
    BY <1>5, <2>1, <2>3, <2>4, <2>6 DEF OpenedAt
  <2>7. CASE x > i
    <3>1. PICK y \in 0 .. d.count - 1 : y = x - 1
      BY <1>1, <2>2, <2>7
    <3>2. ~(j < n) /\ j # n /\ j - 1 = y + 1 /\ ~(x < i) /\ x # i
      BY <1>1, <1>5, <2>1, <2>2, <2>7, <3>1
    <3>3. At(e, x) = At(d, y)
      BY <2>3, <3>1, <3>2 DEF OpenedAt
    <3>4. QED
      BY <1>1, <1>5, <2>1, <2>4, <3>2, <3>3
  <2>8. QED
    BY <1>1, <2>2, <2>5, <2>6, <2>7
<1>10. Content(e) = t
  BY <1>4, <1>7, <1>8, <1>9, ContentEquals
<1>11. QED
  BY <1>4, <1>5, <1>10

\* And with one less.
LEMMA LessIs ==
  ASSUME DequeAssumption, NEW d, DequeSane(d), NEW i \in 0 .. d.count - 1, NEW e, HasOneLess(d, e, i)
  PROVE  DequeSane(e) /\ Content(e) = RemoveAt(Content(d), i + 1)
<1>1. /\ Content(d) \in Seq(DequeVal) /\ Len(Content(d)) = d.count /\ d.count \in Nat
      /\ \A x \in 0 .. d.count - 1 : Content(d)[x + 1] = At(d, x)
  BY ContentIs
<1>2. DequeSane(e) /\ e.count = d.count - 1 /\ \A x \in 0 .. d.count - 2 : At(e, x) = ClosedAt(d, i, x)
  BY DEF HasOneLess
<1>3. PICK n, s, t : n = i + 1 /\ s = Content(d) /\ t = RemoveAt(s, n)
  OBVIOUS
<1>4. n \in 1 .. Len(s) /\ s \in Seq(DequeVal)
  BY <1>1, <1>3
<1>5. /\ t \in Seq(DequeVal) /\ Len(t) = Len(s) - 1
      /\ \A j \in 1 .. Len(s) - 1 : t[j] = IF j < n THEN s[j] ELSE s[j + 1]
  BY <1>3, <1>4, RemoveAtIs, SMTT(30)
<1>6. ASSUME NEW x \in 0 .. e.count - 1
      PROVE  At(e, x) = t[x + 1]
  <2>1. PICK j : j = x + 1
    OBVIOUS
  <2>2. j \in 1 .. Len(s) - 1 /\ x \in 0 .. d.count - 2 /\ x \in 0 .. d.count - 1 /\ j \in 0 .. d.count - 1
    BY <1>1, <1>2, <1>3, <2>1
  <2>3. At(e, x) = ClosedAt(d, i, x) /\ (j < n <=> x < i)
    BY <1>1, <1>2, <1>3, <2>1, <2>2
  <2>4. t[j] = IF j < n THEN s[j] ELSE s[j + 1]
    BY <1>5, <2>2
  <2>5. s[j] = At(d, x) /\ s[j + 1] = At(d, j)
    BY <1>1, <1>3, <2>1, <2>2
  <2>6. QED
    BY <2>1, <2>3, <2>4, <2>5 DEF ClosedAt
<1>7. Len(t) = e.count
  BY <1>1, <1>2, <1>3, <1>5
<1>8. Content(e) = t
  BY <1>2, <1>5, <1>6, <1>7, ContentEquals
<1>9. QED
  BY <1>2, <1>3, <1>8

\* cra_deque_reverse reverses the sequence.
LEMMA ReversedIs ==
  ASSUME DequeAssumption, NEW d, DequeSane(d), NEW e, e = IF d.count < 2 THEN d ELSE Swapped(d)
  PROVE  DequeSane(e) /\ Content(e) = Reverse(Content(d))
<1>1. PICK c, s : c = d.count /\ s = Content(d)
  OBVIOUS
<1>2. /\ s \in Seq(DequeVal) /\ Len(s) = c /\ c \in Nat
      /\ \A x \in 0 .. c - 1 : s[x + 1] = At(d, x)
  BY <1>1, ContentIs
<1>3. PICK t : t = Reverse(s)
  OBVIOUS
<1>4. t = [i \in 1 .. c |-> s[(c - i) + 1]]
  BY <1>2, <1>3 DEF Reverse
<1>5. \A i \in 1 .. c : (c - i) + 1 \in 1 .. c /\ (c - i) + 1 \in 1 .. Len(s) /\ c - i \in 0 .. c - 1
  BY <1>2
<1>6. t \in Seq(DequeVal) /\ Len(t) = c
  <2>1. t \in [1 .. c -> DequeVal]
    BY <1>2, <1>4, <1>5
  <2>2. QED
    BY <1>2, <2>1
<1>7. /\ DequeSane(e) /\ e.count = c
      /\ \A x \in 0 .. c - 1 : At(e, x) = At(d, c - 1 - x)
  <2>1. CASE c < 2
    <3>1. \A x \in 0 .. c - 1 : c - 1 - x = x
      BY <1>2, <2>1
    <3>2. QED
      BY <1>1, <2>1, <3>1
  <2>2. CASE ~(c < 2)
    <3>1. d.count >= 2 /\ e = Swapped(d)
      BY <1>1, <1>2, <2>2
    <3>2. QED
      BY <1>1, <3>1, SwappedIs
  <2>3. QED
    BY <2>1, <2>2
<1>8. ASSUME NEW x \in 0 .. c - 1
      PROVE  At(e, x) = t[x + 1]
  <2>1. PICK i \in 1 .. c : i = x + 1
    BY <1>2
  <2>2. t[i] = At(d, c - i) /\ c - i = c - 1 - x
    BY <1>2, <1>4, <1>5, <2>1
  <2>3. QED
    BY <1>7, <2>1, <2>2
<1>9. Content(e) = t
  BY <1>6, <1>7, <1>8, ContentEquals
<1>10. QED
  BY <1>1, <1>3, <1>7, <1>9

(***************************************************************************)
(* Every call is one of the sequence.                                      *)
(***************************************************************************)
\* No block and no array of blocks is refused.
NeverLacks == "array" \notin MayFail /\ "block" \notin MayFail

\* A new deque is empty.
LEMMA FreshIs ==
  ASSUME DequeAssumption
  PROVE  DequeSane(Fresh) /\ Content(Fresh) = << >>
<1>1. PICK d : d = [narray |-> InitBlocks, array |-> [b \in 0 .. InitBlocks - 1 |-> NoBlock],
                    count |-> 0, lindex |-> 0, rindex |-> 0, front |-> 0, rear |-> 0]
  OBVIOUS
<1>2. [b \in 0 .. InitBlocks - 1 |-> NoBlock] \in Arrays(InitBlocks)
  BY DEF Arrays
<1>3. 0 \in 0 .. InitBlocks - 1 /\ InitBlocks \in Nat \ {0} /\ 0 \in Cells
  BY CellsAre DEF DequeAssumption
<1>4. IsDeque(d) /\ d.count = 0
  BY <1>1, <1>2, <1>3, DequeOf
<1>5. DequeSane(EmptyIndex(d)) /\ EmptyIndex(d).count = 0
  BY <1>4, EmptyIs
<1>6. DequeSane(Fresh) /\ Fresh.count = 0
  BY <1>1, <1>5 DEF Fresh
<1>7. Content(Fresh) = << >>
  BY <1>6 DEF Content
<1>8. QED
  BY <1>6, <1>7

\* Clearing and renewing.
LEMMA ClearedIs ==
  ASSUME DequeAssumption, NEW d, DequeSane(d), NEW e, e = Settled(EmptyIndex([d EXCEPT !.count = 0]))
  PROVE  DequeSane(e) /\ Content(e) = << >>
<1>1. PICK f : f = [d EXCEPT !.count = 0]
  OBVIOUS
<1>2. IsDeque(f) /\ f.count = 0
  BY <1>1, FewerIs DEF DequeSane
<1>3. PICK g : g = EmptyIndex(f)
  OBVIOUS
<1>4. DequeSane(g) /\ g.count = 0
  BY <1>2, <1>3, EmptyIs
<1>5. DequeSane(e) /\ e.count = 0
  BY <1>1, <1>3, <1>4, SettledIs DEF SameEnds
<1>6. Content(e) = << >>
  BY <1>5 DEF Content
<1>7. QED
  BY <1>5, <1>6

\* A call that put an element in is Insert of the sequence.
LEMMA PushesIs ==
  ASSUME DequeAssumption, DequeSane(deque), NEW i \in 0 .. deque.count, NEW v \in Val,
         NEW r, HasOneMore(deque, r, i, v), Pushes(r)
  PROVE  DequeSane(deque)' /\ Elements!Insert(i, v)
<1>1. r.ok = TRUE
  BY DEF HasOneMore
<1>2. deque' = Settled(r.d) /\ ret' = [ok |-> TRUE, out |-> NoVal]
  BY <1>1 DEF Pushes, Returns
<1>3. PICK e : e = Settled(r.d)
  OBVIOUS
<1>4. DequeSane(e) /\ Content(e) = InsertAt(Content(deque), i + 1, v)
  BY <1>3, MoreIs
<1>5. Content(deque)' = Content(e) /\ DequeSane(deque)'
  BY <1>2, <1>3, <1>4
<1>6. i <= Len(Content(deque))
  BY ContentIs
<1>7. InsertAt(Content(deque), i + 1, v) = Elements!InsertAt(Content(deque), i + 1, v)
  BY DEF InsertAt, Elements!InsertAt
<1>8. QED
  BY <1>2, <1>4, <1>5, <1>6, <1>7 DEF Elements!Insert, Elements!Returns

\* A call that took one out is PopAt of the sequence.
LEMMA PopsIs ==
  ASSUME DequeAssumption, DequeSane(deque), NEW i \in 0 .. deque.count - 1, NEW d, NEW out,
         HasOneLess(deque, Settled(Popped(d)), i), out = At(deque, i), Pops(d, out)
  PROVE  DequeSane(deque)' /\ Elements!PopAt(i)
<1>1. PICK e : e = Settled(Popped(d))
  OBVIOUS
<1>2. DequeSane(e) /\ Content(e) = RemoveAt(Content(deque), i + 1)
  BY <1>1, LessIs
<1>3. deque' = e /\ ret' = [ok |-> TRUE, out |-> out]
  BY <1>1 DEF Pops, Returns
<1>4. DequeSane(deque)' /\ Content(deque)' = Content(e)
  BY <1>2, <1>3
<1>5. i < Len(Content(deque)) /\ Content(deque)[i + 1] = At(deque, i)
  BY ContentIs
<1>6. RemoveAt(Content(deque), i + 1) = Elements!RemoveAt(Content(deque), i + 1)
  BY DEF RemoveAt, Elements!RemoveAt
<1>7. QED
  BY <1>2, <1>3, <1>4, <1>5, <1>6 DEF Elements!PopAt, Elements!Returns

\* A call that failed.
LEMMA FailsIs ==
  ASSUME DequeSane(deque), Returns(FALSE, NoVal), UNCHANGED deque
  PROVE  DequeSane(deque)' /\ Elements!Fails
<1>1. DequeSane(deque)' /\ Content(deque)' = Content(deque)
  OBVIOUS
<1>2. QED
  BY <1>1 DEF Returns, Elements!Fails, Elements!Returns

\* The calls, one after the other, are those of the sequence.
LEMMA InsertStep ==
  ASSUME DequeAssumption, NeverLacks, DequeSane(deque), NEW i \in Nat, NEW v \in Val, Insert(i, v)
  PROVE  DequeSane(deque)' /\ Elements!Insert(i, v)
<1>1. deque.count \in Nat /\ Len(Content(deque)) = deque.count
  BY ContentIs
<1>2. CASE i <= deque.count /\ \E lacks \in SUBSET MayFail : Pushes(Inserted(i, v, lacks))
  <2>1. PICK lacks \in SUBSET MayFail : Pushes(Inserted(i, v, lacks))
    BY <1>2
  <2>2. "array" \notin lacks /\ "block" \notin lacks
    BY DEF NeverLacks
  <2>3. PICK r : r = Inserted(i, v, lacks)
    OBVIOUS
  <2>4. HasOneMore(deque, r, i, v)
    <3>1. i \in 0 .. deque.count
      BY <1>1, <1>2
    <3>2. CASE i < deque.count \div 2
      BY <2>2, <2>3, <3>1, <3>2, InsertedLeft
    <3>3. CASE ~(i < deque.count \div 2)
      BY <2>2, <2>3, <3>1, <3>3, InsertedRight
    <3>4. QED
      BY <3>2, <3>3
  <2>5. i \in 0 .. deque.count /\ Pushes(r)
    BY <1>1, <1>2, <2>1, <2>3
  <2>6. QED
    BY <2>4, <2>5, PushesIs
<1>3. CASE i > deque.count /\ Returns(FALSE, NoVal) /\ UNCHANGED deque
  <2>1. DequeSane(deque)' /\ Elements!Fails
    BY <1>3, FailsIs
  <2>2. i > Len(Content(deque))
    BY <1>1, <1>3
  <2>3. QED
    BY <2>1, <2>2, Zenon DEF Elements!Insert
<1>4. QED
  BY <1>2, <1>3, Zenon DEF Insert

\* cra_deque_push_front
LEMMA PushFrontStep ==
  ASSUME DequeAssumption, NeverLacks, DequeSane(deque), NEW v \in Val, PushFront(v)
  PROVE  DequeSane(deque)' /\ Elements!PushFront(v)
<1>0. PICK lacks \in SUBSET MayFail :
           \E made : made = EnsureLeft(deque, lacks) /\ Pushes(CopyValue(made, made.d.front, made.d.lindex, v, lacks))
  BY DEF PushFront
<1>1. PICK made : made = EnsureLeft(deque, lacks) /\ Pushes(CopyValue(made, made.d.front, made.d.lindex, v, lacks))
  BY <1>0
<1>2. "array" \notin lacks /\ "block" \notin lacks
  BY DEF NeverLacks
<1>3. PICK r : r = CopyValue(made, made.d.front, made.d.lindex, v, lacks)
  OBVIOUS
<1>4. HasOneMore(deque, r, 0, v)
  BY <1>1, <1>2, <1>3, PushedFront
<1>5. 0 \in 0 .. deque.count /\ Pushes(r)
  BY <1>1, <1>3, ContentIs
<1>6. DequeSane(deque)' /\ Elements!Insert(0, v)
  BY <1>4, <1>5, PushesIs
<1>7. QED
  BY <1>6 DEF Elements!PushFront

\* cra_deque_push_back
LEMMA PushBackStep ==
  ASSUME DequeAssumption, NeverLacks, DequeSane(deque), NEW v \in Val, PushBack(v)
  PROVE  DequeSane(deque)' /\ Elements!PushBack(v)
<1>0. PICK lacks \in SUBSET MayFail :
           \E made : made = EnsureRight(deque, lacks) /\ Pushes(CopyValue(made, made.d.rear, made.d.rindex, v, lacks))
  BY DEF PushBack
<1>1. PICK made : made = EnsureRight(deque, lacks) /\ Pushes(CopyValue(made, made.d.rear, made.d.rindex, v, lacks))
  BY <1>0
<1>2. "array" \notin lacks /\ "block" \notin lacks
  BY DEF NeverLacks
<1>3. PICK r : r = CopyValue(made, made.d.rear, made.d.rindex, v, lacks)
  OBVIOUS
<1>4. HasOneMore(deque, r, deque.count, v)
  BY <1>1, <1>2, <1>3, PushedBack
<1>5. PICK n : n = deque.count
  OBVIOUS
<1>6. n \in 0 .. deque.count /\ Pushes(r) /\ HasOneMore(deque, r, n, v)
  BY <1>1, <1>3, <1>4, <1>5, ContentIs
<1>7. DequeSane(deque)' /\ Elements!Insert(n, v)
  BY <1>6, PushesIs
<1>8. Len(Content(deque)) = n
  BY <1>5, ContentIs
<1>9. QED
  BY <1>7, <1>8 DEF Elements!PushBack

\* cra_deque_pop_at
LEMMA PopAtStep ==
  ASSUME DequeAssumption, DequeSane(deque), NEW i \in Nat, PopAt(i)
  PROVE  DequeSane(deque)' /\ Elements!PopAt(i)
<1>1. deque.count \in Nat /\ Len(Content(deque)) = deque.count
  BY ContentIs
<1>2. CASE /\ i < deque.count
           /\ Pops(IF i < deque.count \div 2
                     THEN MoveL2R(DecrementLeft(deque), BlockOf(deque, i), CellOf(deque, i), i)
                     ELSE MoveR2L(DecrementRight(deque), BlockOf(deque, i), CellOf(deque, i), deque.count - 1 - i),
                   At(deque, i))
  <2>1. i \in 0 .. deque.count - 1
    BY <1>1, <1>2
  <2>2. PICK d : /\ d = IF i < deque.count \div 2
                          THEN MoveL2R(DecrementLeft(deque), BlockOf(deque, i), CellOf(deque, i), i)
                          ELSE MoveR2L(DecrementRight(deque), BlockOf(deque, i), CellOf(deque, i), deque.count - 1 - i)
                 /\ Pops(d, At(deque, i))
    BY <1>2
  <2>3. HasOneLess(deque, Settled(Popped(d)), i)
    <3>1. CASE i < deque.count \div 2
      BY <2>1, <2>2, <3>1, PoppedAtLeft
    <3>2. CASE ~(i < deque.count \div 2)
      BY <2>1, <2>2, <3>2, PoppedAtRight
    <3>3. QED
      BY <3>1, <3>2
  <2>4. QED
    BY <2>1, <2>2, <2>3, PopsIs
<1>3. CASE i >= deque.count /\ PopFails
  <2>1. DequeSane(deque)' /\ Elements!Fails
    BY <1>3, FailsIs DEF PopFails
  <2>2. i >= Len(Content(deque))
    BY <1>1, <1>3
  <2>3. QED
    BY <2>1, <2>2, Zenon DEF Elements!PopAt
<1>4. QED
  BY <1>2, <1>3, Zenon DEF PopAt

\* cra_deque_pop_front
LEMMA PopFrontStep ==
  ASSUME DequeAssumption, DequeSane(deque), PopFront
  PROVE  DequeSane(deque)' /\ Elements!PopFront
<1>1. deque.count \in Nat /\ Len(Content(deque)) = deque.count
  BY ContentIs
<1>2. CASE deque.count > 0 /\ Pops(DecrementLeft(deque), Read(deque, deque.front, deque.lindex))
  <2>1. PICK d, out : d = DecrementLeft(deque) /\ out = Read(deque, deque.front, deque.lindex) /\ Pops(d, out)
    BY <1>2
  <2>2. HasOneLess(deque, Settled(Popped(d)), 0) /\ out = At(deque, 0)
    BY <1>2, <2>1, PoppedAtFront
  <2>3. 0 \in 0 .. deque.count - 1
    BY <1>1, <1>2
  <2>4. DequeSane(deque)' /\ Elements!PopAt(0)
    BY <2>1, <2>2, <2>3, PopsIs
  <2>5. QED
    BY <2>4 DEF Elements!PopFront
<1>3. CASE deque.count = 0 /\ PopFails
  <2>1. DequeSane(deque)' /\ Elements!Fails
    BY <1>3, FailsIs DEF PopFails
  <2>2. 0 >= Len(Content(deque))
    BY <1>1, <1>3
  <2>3. QED
    BY <2>1, <2>2, Zenon DEF Elements!PopFront, Elements!PopAt
<1>4. QED
  BY <1>2, <1>3, Zenon DEF PopFront

\* cra_deque_pop_back
LEMMA PopBackStep ==
  ASSUME DequeAssumption, DequeSane(deque), PopBack
  PROVE  DequeSane(deque)' /\ Elements!PopBack
<1>1. deque.count \in Nat /\ Len(Content(deque)) = deque.count /\ Content(deque) \in Seq(DequeVal)
  BY ContentIs
<1>2. Content(deque) = << >> <=> deque.count = 0
  BY <1>1, EmptySeq
<1>3. CASE deque.count > 0 /\ Pops(DecrementRight(deque), Read(deque, deque.rear, deque.rindex))
  <2>1. PICK d, out : d = DecrementRight(deque) /\ out = Read(deque, deque.rear, deque.rindex) /\ Pops(d, out)
    BY <1>3
  <2>2. PICK n : n = deque.count - 1
    OBVIOUS
  <2>3. HasOneLess(deque, Settled(Popped(d)), n) /\ out = At(deque, n)
    BY <1>3, <2>1, <2>2, PoppedAtBack
  <2>4. n \in 0 .. deque.count - 1
    BY <1>1, <1>3, <2>2
  <2>5. DequeSane(deque)' /\ Elements!PopAt(n)
    BY <2>1, <2>3, <2>4, PopsIs
  <2>6. n = IF Content(deque) = << >> THEN 0 ELSE Len(Content(deque)) - 1
    BY <1>1, <1>2, <1>3, <2>2
  <2>7. QED
    BY <2>5, <2>6 DEF Elements!PopBack
<1>4. CASE deque.count = 0 /\ PopFails
  <2>1. DequeSane(deque)' /\ Elements!Fails
    BY <1>4, FailsIs DEF PopFails
  <2>2. 0 >= Len(Content(deque)) /\ Content(deque) = << >>
    BY <1>1, <1>2, <1>4
  <2>3. Elements!PopAt(0)
    BY <2>1, <2>2, Zenon DEF Elements!PopAt
  <2>4. QED
    BY <2>1, <2>2, <2>3, Zenon DEF Elements!PopBack
<1>5. QED
  BY <1>3, <1>4, Zenon DEF PopBack

\* cra_deque_get_ref
LEMMA GetStep ==
  ASSUME DequeAssumption, DequeSane(deque), NEW i \in Nat, Get(i)
  PROVE  DequeSane(deque)' /\ Elements!Get(i)
<1>1. /\ deque.count \in Nat /\ Len(Content(deque)) = deque.count
      /\ \A x \in 0 .. deque.count - 1 : Content(deque)[x + 1] = At(deque, x)
  BY ContentIs
<1>2. deque' = deque /\ ret' = [ok |-> i < deque.count, out |-> IF i < deque.count THEN At(deque, i) ELSE NoVal]
  BY DEF Get, Returns
<1>3. DequeSane(deque)' /\ Content(deque)' = Content(deque)
  BY <1>2
<1>4. CASE i < deque.count
  <2>1. Content(deque)[i + 1] = At(deque, i) /\ i < Len(Content(deque))
    BY <1>1, <1>4
  <2>2. ret' = [ok |-> TRUE, out |-> Content(deque)[i + 1]]
    BY <1>2, <1>4, <2>1
  <2>3. QED
    BY <1>3, <2>1, <2>2 DEF Elements!Get, Elements!Returns
<1>5. CASE ~(i < deque.count)
  <2>1. ~(i < Len(Content(deque)))
    BY <1>1, <1>5
  <2>2. (i < deque.count) = FALSE
    BY <1>5
  <2>3. ret' = [ok |-> FALSE, out |-> NoVal]
    BY <1>2, <1>5, <2>2, Zenon
  <2>4. QED
    BY <1>3, <2>1, <2>3, Zenon DEF Elements!Get, Elements!Returns
<1>6. QED
  BY <1>4, <1>5

\* cra_deque_reverse
LEMMA ReverseStep ==
  ASSUME DequeAssumption, DequeSane(deque), ReverseAll
  PROVE  DequeSane(deque)' /\ Elements!ReverseAll
<1>1. CASE deque' = (IF deque.count < 2 THEN deque ELSE Swapped(deque)) /\ Returns(TRUE, NoVal)
  <2>1. PICK e : e = IF deque.count < 2 THEN deque ELSE Swapped(deque)
    OBVIOUS
  <2>2. DequeSane(e) /\ Content(e) = Reverse(Content(deque))
    BY <2>1, ReversedIs
  <2>3. DequeSane(deque)' /\ Content(deque)' = Content(e)
    BY <1>1, <2>1, <2>2
  <2>4. Reverse(Content(deque)) = Elements!Reverse(Content(deque))
    BY DEF Reverse, Elements!Reverse
  <2>5. QED
    BY <1>1, <2>2, <2>3, <2>4 DEF Returns, Elements!ReverseAll, Elements!Returns
<1>2. CASE "temp" \in MayFail /\ Returns(FALSE, NoVal) /\ UNCHANGED deque
  BY <1>2, FailsIs DEF Elements!ReverseAll, Elements!OutOfMemory
<1>3. QED
  BY <1>1, <1>2 DEF ReverseAll

\* cra_deque_clear, and a new deque.
LEMMA ClearStep ==
  ASSUME DequeAssumption, DequeSane(deque), Clear \/ Renew
  PROVE  DequeSane(deque)' /\ Elements!Clear
<1>1. PICK e : /\ e = Fresh \/ e = Settled(EmptyIndex([deque EXCEPT !.count = 0]))
               /\ deque' = e
  BY DEF Clear, Renew
<1>2. DequeSane(e) /\ Content(e) = << >>
  BY <1>1, FreshIs, ClearedIs DEF DequeAssumption
<1>3. DequeSane(deque)' /\ Content(deque)' = << >>
  BY <1>1, <1>2
<1>4. ret' = ret
  BY DEF Clear, Renew
<1>5. QED
  BY <1>3, <1>4 DEF Elements!Clear

\* Every step.
LEMMA DequeNext ==
  ASSUME DequeAssumption, NeverLacks, DequeSane(deque), [Next]_(vars)
  PROVE  DequeSane(deque)' /\ [Elements!Next]_(Elements!vars)
<1>1. MaxCount \in Nat /\ DequeAssumption
  BY DEF DequeAssumption
<1>2. ASSUME NEW i \in 0 .. MaxCount, PopAt(i)
      PROVE  DequeSane(deque)' /\ Elements!Next
  BY <1>1, <1>2, PopAtStep DEF Elements!Next
<1>3. ASSUME NEW i \in 0 .. MaxCount, Get(i)
      PROVE  DequeSane(deque)' /\ Elements!Next
  BY <1>1, <1>3, GetStep DEF Elements!Next
<1>4. ASSUME NEW i \in 0 .. MaxCount, NEW v \in Val, Insert(i, v)
      PROVE  DequeSane(deque)' /\ Elements!Next
  BY <1>1, <1>4, InsertStep DEF Elements!Next
<1>5. ASSUME NEW v \in Val, PushFront(v) \/ PushBack(v)
      PROVE  DequeSane(deque)' /\ Elements!Next
  BY <1>1, <1>5, PushFrontStep, PushBackStep DEF Elements!Next
<1>6. CASE PopFront
  BY <1>1, <1>6, PopFrontStep DEF Elements!Next
<1>7. CASE PopBack
  BY <1>1, <1>7, PopBackStep DEF Elements!Next
<1>8. CASE ReverseAll
  BY <1>1, <1>8, ReverseStep DEF Elements!Next
<1>9. CASE Clear \/ Renew
  BY <1>9, ClearStep DEF Elements!Next
<1>10. CASE UNCHANGED vars
  <2>1. deque' = deque /\ ret' = ret
    BY <1>10 DEF vars
  <2>2. DequeSane(deque)' /\ Content(deque)' = Content(deque)
    BY <2>1
  <2>3. QED
    BY <2>1, <2>2 DEF Elements!vars
<1>11. QED
  BY <1>2, <1>3, <1>4, <1>5, <1>6, <1>7, <1>8, <1>9, <1>10 DEF Next

\* The first state.
LEMMA DequeInit ==
  ASSUME DequeAssumption, Init
  PROVE  DequeSane(deque) /\ Elements!Init
<1>1. deque = Fresh /\ ret = [ok |-> FALSE, out |-> NoVal]
  BY DEF Init
<1>2. DequeSane(Fresh) /\ Content(Fresh) = << >>
  BY FreshIs DEF DequeAssumption
<1>3. QED
  BY <1>1, <1>2 DEF Elements!Init

\* The iterators and get_ref find the same elements, in every state the deque
\* can be in: the ends and the count never disagree.
THEOREM DequeIterates ==
  ASSUME DequeAssumption, NeverLacks
  PROVE  Spec => []IteratesContent
<1>1. Init => DequeSane(deque)
  BY DequeInit
<1>2. DequeSane(deque) /\ [Next]_(vars) => DequeSane(deque)'
  BY DequeNext
<1>3. DequeSane(deque) => IteratesContent
  BY SaneIterates DEF DequeAssumption
<1>4. QED
  BY <1>1, <1>2, <1>3, PTL DEF Spec

\* The deque implements a sequence: whichever half of the ring a call works in,
\* and however the ring was grown, it loses, doubles or reorders no element.
THEOREM DequeIsSequence ==
  ASSUME DequeAssumption, NeverLacks
  PROVE  Spec => ListSpec
<1>1. Init => DequeSane(deque) /\ Elements!Init
  BY DequeInit
<1>2. DequeSane(deque) /\ [Next]_(vars) => DequeSane(deque)' /\ [Elements!Next]_(Elements!vars)
  BY DequeNext
<1>3. QED
  BY <1>1, <1>2, PTL DEF Spec, ListSpec, Elements!Spec
=============================================================================
