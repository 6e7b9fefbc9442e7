------------------------------- MODULE Deque -------------------------------
(***************************************************************************)
(* CraDeque (src/src/collections/cra_deque.c): a ring of blocks of Items   *)
(* cells each, the elements lying from cell lindex of block front to cell  *)
(* rindex of block rear.                                                   *)
(*                                                                         *)
(* Items is 64 in the code, InitBlocks at least 8: both are smaller powers *)
(* of two in the runs.  A cell outside the elements is never read, so what *)
(* is left in it is forgotten after each call (Settled): a call that did   *)
(* read it would hand out NoVal.  A push is refused by the model when      *)
(* there are MaxCount elements, to keep the runs finite.                   *)
(*                                                                         *)
(* An operator whose comment starts with MUTANT is no part of the model:   *)
(* it is a slip the code could have, which the runs must notice.           *)
(***************************************************************************)
EXTENDS Integers, Sequences, SequencesExt

CONSTANTS Val, NoVal,
          Items,        \* CRA_DEQUE_ITEM_COUNT
          InitBlocks,   \* narray after cra_deque_init_with_size
          MaxCount,
          MayFail       \* the allocations that may fail: "array", "block", "temp"

DequeAssumption == Items \in Nat /\ Items >= 2 /\ InitBlocks \in Nat \ {0} /\ MaxCount \in Nat

VARIABLES deque,   \* the fields of struct CraDeque
          ret      \* what the last call returned
vars == <<deque, ret>>

NoBlock == << >>
Cells   == 0 .. Items - 1

Returns(ok, out) == ret' = [ok |-> ok, out |-> out]

(***************************************************************************)
(* The ring.                                                               *)
(***************************************************************************)
Up(d, b)   == (b + 1) % d.narray
Down(d, b) == (b - 1) % d.narray

\* Where the element at a position is, lines 343-345.
BlockOf(d, index) == (d.front + (index + d.lindex) \div Items) % d.narray
CellOf(d, index)  == (index + d.lindex) % Items

\* What a cell holds; the code would follow a null pointer if there is no block.
Read(d, b, c) == IF d.array[b] = NoBlock THEN NoVal ELSE d.array[b][c]

At(d, index) == Read(d, BlockOf(d, index), CellOf(d, index))

\* CRA_DEQUE_EMPTY_INDEX
EmptyIndex(d) == [d EXCEPT !.lindex = (Items - 1) \div 2 + 1, !.rindex = (Items - 1) \div 2,
                           !.front = 0, !.rear = 0]

Settled(d) ==
  LET live == {<<BlockOf(d, i), CellOf(d, i)>> : i \in 0 .. d.count - 1}
  IN  [d EXCEPT !.array = [b \in DOMAIN @ |->
         IF @[b] = NoBlock THEN NoBlock
         ELSE [c \in Cells |-> IF <<b, c>> \in live THEN @[b][c] ELSE NoVal]]]

Fresh == EmptyIndex([narray |-> InitBlocks, array |-> [b \in 0 .. InitBlocks - 1 |-> NoBlock],
                     count |-> 0, lindex |-> 0, rindex |-> 0, front |-> 0, rear |-> 0])

(***************************************************************************)
(* Making room for one more element.  What may fail is passed along as     *)
(* [ok, d], where d is the deque the steps up to here have left.           *)
(***************************************************************************)
Done(d)  == [ok |-> TRUE, d |-> d]
Gave(d)  == [ok |-> FALSE, d |-> d]

\* MUTANT: the blocks keep their indices.
MovedAsTheyAre(d) == d.array

\* The blocks in the order of the ring, from front.
Moved(d) == [b \in 0 .. d.narray - 1 |-> d.array[(d.front + b) % d.narray]]

\* cra_deque_expand_array
Expanded(d) ==
  [d EXCEPT !.array = [b \in 0 .. 2 * d.narray - 1 |->
                         IF b < d.narray THEN Moved(d)[b] ELSE NoBlock],
            !.front = 0, !.rear = d.narray - 1, !.narray = 2 * d.narray]

\* The block b is allocated, unless it is there.
WithBlock(d, b, lacks) ==
  IF d.array[b] # NoBlock THEN Done(d)
  ELSE IF "block" \in lacks THEN Gave(d)
  ELSE Done([d EXCEPT !.array[b] = [c \in Cells |-> NoVal]])

\* cra_deque_ensure_and_increment_left: the index moves before anything can fail.
EnsureLeft(d, lacks) ==
  LET turned == [d EXCEPT !.lindex = Items - 1]
      full   == Down(d, d.front) = d.rear
      grown  == IF full THEN Expanded(turned) ELSE turned
      moved  == [grown EXCEPT !.front = Down(grown, @)]
  IN  IF d.lindex > 0 THEN Done([d EXCEPT !.lindex = @ - 1])
      ELSE IF full /\ "array" \in lacks THEN Gave(turned)
      ELSE WithBlock(moved, moved.front, lacks)

EnsureRight(d, lacks) ==
  LET turned == [d EXCEPT !.rindex = 0]
      full   == Up(d, d.rear) = d.front
      grown  == IF full THEN Expanded(turned) ELSE turned
      moved  == [grown EXCEPT !.rear = Up(grown, @)]
  IN  IF d.rindex < Items - 1 THEN Done([d EXCEPT !.rindex = @ + 1])
      ELSE IF full /\ "array" \in lacks THEN Gave(turned)
      ELSE WithBlock(moved, moved.rear, lacks)

\* cra_deque_copy_value into the cell c of block b, and the element is counted.
CopyValue(made, b, c, v, lacks) ==
  LET there == WithBlock(made.d, b, lacks)
  IN  IF ~made.ok THEN made
      ELSE IF ~there.ok THEN there
      ELSE Done([there.d EXCEPT !.array[b][c] = v, !.count = @ + 1])

DecrementLeft(d) ==
  IF d.lindex = Items - 1 THEN [d EXCEPT !.front = Up(d, @), !.lindex = 0]
                          ELSE [d EXCEPT !.lindex = @ + 1]

DecrementRight(d) ==
  IF d.rindex = 0 THEN [d EXCEPT !.rear = Down(d, @), !.rindex = Items - 1]
                  ELSE [d EXCEPT !.rindex = @ - 1]

(***************************************************************************)
(* Moving `rest` elements by one cell: a block is left by a single copy,   *)
(* and moved within by one memmove.                                        *)
(***************************************************************************)
\* One round towards the left, into cell m.j of block m.k.
R2L(m) ==
  LET next == Up(m.d, m.k)
      n    == IF m.rest < Items - 1 - m.j THEN m.rest ELSE Items - 1 - m.j
  IN  IF m.rest = 0 THEN m
      ELSE IF m.j = Items - 1
        THEN [d |-> [m.d EXCEPT !.array[m.k][m.j] = m.d.array[next][0]],
              k |-> next, j |-> 0, rest |-> m.rest - 1]
        ELSE [d |-> [m.d EXCEPT !.array[m.k] = [c \in Cells |-> IF c \in m.j .. m.j + n - 1
                                                                 THEN @[c + 1] ELSE @[c]]],
              k |-> m.k, j |-> m.j + n, rest |-> m.rest - n]

MoveR2L(d, k, j, rest) ==
  LET moved[n \in 0 .. rest] ==
        IF n = 0 THEN [d |-> d, k |-> k, j |-> j, rest |-> rest] ELSE R2L(moved[n - 1])
  IN  moved[rest].d

\* One round towards the right, into cell m.j of block m.k.
L2R(m) ==
  LET prev == Down(m.d, m.k)
      n    == IF m.rest < m.j THEN m.rest ELSE m.j
  IN  IF m.rest = 0 THEN m
      ELSE IF m.j = 0
        THEN [d |-> [m.d EXCEPT !.array[m.k][0] = m.d.array[prev][Items - 1]],
              k |-> prev, j |-> Items - 1, rest |-> m.rest - 1]
        ELSE [d |-> [m.d EXCEPT !.array[m.k] = [c \in Cells |-> IF c \in m.j - n + 1 .. m.j
                                                                 THEN @[c - 1] ELSE @[c]]],
              k |-> m.k, j |-> m.j - n, rest |-> m.rest - n]

MoveL2R(d, k, j, rest) ==
  LET moved[n \in 0 .. rest] ==
        IF n = 0 THEN [d |-> d, k |-> k, j |-> j, rest |-> rest] ELSE L2R(moved[n - 1])
  IN  moved[rest].d

(***************************************************************************)
(* cra_deque_insert, cra_deque_push_front, cra_deque_push_back             *)
(***************************************************************************)
\* MUTANT: one element too few is moved.
OneTooFew(index) == deque.count - index - 1

\* The elements that make way for one inserted into the right half.
ToTheRight(index) == deque.count - index

Inserted(index, v, lacks) ==
  LET left  == EnsureLeft(deque, lacks)
      right == EnsureRight(deque, lacks)
      made  == IF index < deque.count \div 2
                 THEN IF left.ok /\ index > 0
                        THEN Done(MoveR2L(left.d, left.d.front, left.d.lindex, index + 1))
                        ELSE left
                 ELSE IF right.ok /\ index < deque.count
                        THEN Done(MoveL2R(right.d, right.d.rear, right.d.rindex, ToTheRight(index)))
                        ELSE right
  IN  CopyValue(made, BlockOf(made.d, index), CellOf(made.d, index), v, lacks)

Pushes(outcome) == /\ deque.count < MaxCount
                   /\ deque' = Settled(outcome.d)
                   /\ Returns(outcome.ok, NoVal)

Insert(index, v) ==
  \/ /\ index <= deque.count
     /\ \E lacks \in SUBSET MayFail : Pushes(Inserted(index, v, lacks))
  \/ /\ index > deque.count
     /\ Returns(FALSE, NoVal) /\ UNCHANGED deque

PushFront(v) ==
  \E lacks \in SUBSET MayFail :
    LET made == EnsureLeft(deque, lacks)
    IN  Pushes(CopyValue(made, made.d.front, made.d.lindex, v, lacks))

PushBack(v) ==
  \E lacks \in SUBSET MayFail :
    LET made == EnsureRight(deque, lacks)
    IN  Pushes(CopyValue(made, made.d.rear, made.d.rindex, v, lacks))

(***************************************************************************)
(* cra_deque_pop_at, cra_deque_pop_front, cra_deque_pop_back               *)
(***************************************************************************)
\* MUTANT: the indices stay where they are.
CountedDown(d) == [d EXCEPT !.count = @ - 1]

\* The count goes down, and an empty deque starts again in the middle of block 0.
Popped(d) == IF d.count = 1 THEN EmptyIndex([d EXCEPT !.count = 0])
                            ELSE [d EXCEPT !.count = @ - 1]

Pops(d, out) == deque' = Settled(Popped(d)) /\ Returns(TRUE, out)

PopFails == Returns(FALSE, NoVal) /\ UNCHANGED deque

PopAt(index) ==
  LET b == BlockOf(deque, index)
      c == CellOf(deque, index)
  IN  \/ /\ index < deque.count
         /\ Pops(IF index < deque.count \div 2
                   THEN MoveL2R(DecrementLeft(deque), b, c, index)
                   ELSE MoveR2L(DecrementRight(deque), b, c, deque.count - 1 - index),
                 At(deque, index))
      \/ index >= deque.count /\ PopFails

PopFront == \/ deque.count > 0 /\ Pops(DecrementLeft(deque), Read(deque, deque.front, deque.lindex))
            \/ deque.count = 0 /\ PopFails

PopBack == \/ deque.count > 0 /\ Pops(DecrementRight(deque), Read(deque, deque.rear, deque.rindex))
           \/ deque.count = 0 /\ PopFails

(***************************************************************************)
(* The other operations.                                                   *)
(***************************************************************************)
\* cra_deque_get_ref
Get(index) == /\ Returns(index < deque.count, IF index < deque.count THEN At(deque, index) ELSE NoVal)
              /\ UNCHANGED deque

Clear == deque' = Settled(EmptyIndex([deque EXCEPT !.count = 0])) /\ UNCHANGED ret

\* The cells behind and before a cell, <<block, cell>>.
Ahead(d, at)  == IF at[2] = Items - 1 THEN <<Up(d, at[1]), 0>> ELSE <<at[1], at[2] + 1>>
Behind(d, at) == IF at[2] = 0 THEN <<Down(d, at[1]), Items - 1>> ELSE <<at[1], at[2] - 1>>

Begin(d) == <<d.front, d.lindex>>
End(d)   == <<d.rear, d.rindex>>

\* Two cells are swapped, and walk towards each other.
Swap(m) ==
  LET f == m.front
      b == m.back
  IN  [d |-> [m.d EXCEPT !.array[f[1]][f[2]] = m.d.array[b[1]][b[2]],
                         !.array[b[1]][b[2]] = m.d.array[f[1]][f[2]]],
       front |-> Ahead(m.d, f), back |-> Behind(m.d, b)]

Swapped(d) ==
  LET swapped[i \in 0 .. (d.count + 1) \div 2] ==
        IF i = 0 THEN [d |-> d, front |-> Begin(d), back |-> End(d)] ELSE Swap(swapped[i - 1])
  IN  swapped[(d.count + 1) \div 2].d

ReverseAll ==
  \/ /\ deque' = IF deque.count < 2 THEN deque ELSE Swapped(deque)
     /\ Returns(TRUE, NoVal)
  \/ /\ deque.count >= 2 /\ "temp" \in MayFail
     /\ Returns(FALSE, NoVal) /\ UNCHANGED deque

\* cra_deque_uninit, and cra_deque_init_with_size again.
Renew == deque' = Fresh /\ UNCHANGED ret

Init == deque = Fresh /\ ret = [ok |-> FALSE, out |-> NoVal]

Next == \/ \E i \in 0 .. MaxCount : PopAt(i) \/ Get(i) \/ \E v \in Val : Insert(i, v)
        \/ \E v \in Val : PushFront(v) \/ PushBack(v)
        \/ PopFront \/ PopBack \/ ReverseAll \/ Clear \/ Renew

Spec == Init /\ [][Next]_vars
-----------------------------------------------------------------------------
\* The elements as cra_deque_get_ref finds them.
Content(d) == [i \in 1 .. d.count |-> At(d, i - 1)]

\* The cells that cra_deque_iterable_next and cra_deque_iterable_prev go through.
Forward(d) ==
  LET cell[i \in 0 .. d.count - 1] == IF i = 0 THEN Begin(d) ELSE Ahead(d, cell[i - 1])
  IN  cell

Backward(d) ==
  LET cell[i \in 0 .. d.count - 1] == IF i = 0 THEN End(d) ELSE Behind(d, cell[i - 1])
  IN  cell

\* The iterators, which stop when they meet the other end, and get_ref, which
\* counts, find the same elements: the two ends and the count never disagree.
IteratesContent ==
  LET forth == Forward(deque)
      back  == Backward(deque)
  IN  \A i \in 0 .. deque.count - 1 :
        /\ Read(deque, forth[i][1], forth[i][2]) = At(deque, i)
        /\ Read(deque, back[i][1], back[i][2]) = At(deque, deque.count - 1 - i)
        /\ forth[i] = End(deque) <=> i = deque.count - 1
        /\ back[i] = Begin(deque) <=> i = deque.count - 1

\* The deque implements a sequence: no call loses, doubles or reorders elements,
\* wherever they lie in the ring, and a call that fails changes nothing.
Elements == INSTANCE List WITH list <- Content(deque), answer <- ret, MayFail <- MayFail # {}
ListSpec == Elements!Spec
=============================================================================
