------------------------------- MODULE AList -------------------------------
(***************************************************************************)
(* CraAList (src/src/collections/cra_alist.c): an array that is moved to a *)
(* larger one when it is full.  A cell behind the elements is never read,  *)
(* so what is left in it is forgotten (NoVal).  An array of 1024 cells and *)
(* more grows by half instead of doubling; the runs stay below.            *)
(*                                                                         *)
(* An operator whose comment starts with MUTANT is no part of the model:   *)
(* it is a slip the code could have, which the runs must notice.           *)
(***************************************************************************)
EXTENDS Integers, Sequences, FiniteSetsExt, SequencesExt

CONSTANTS Val, NoVal,
          MinCapacity,   \* CRA_ALIST_DEFAULT_CAPACITY
          Capacities,    \* what cra_alist_reserve is asked for
          MaxCount

AListAssumption ==
  MinCapacity \in Nat \ {0} /\ Capacities \subseteq Nat /\ MaxCount \in Nat /\ Val \subseteq Int

VARIABLES alist,   \* the fields of struct CraAList
          aret     \* what the last call returned
vars == <<alist, aret>>

Returns(ok, out) == aret' = [ok |-> ok, out |-> out]
OutOfMemory == Returns(FALSE, NoVal) /\ UNCHANGED alist

S == INSTANCE Sorting

\* An array of that many cells with those of a as far as there are any.
Reallocated(a, capacity) == [i \in 0 .. capacity - 1 |-> IF i \in DOMAIN a THEN a[i] ELSE NoVal]

\* MUTANT: one element too few is moved.
MovesOneLess(a, to, from, n) ==
  [i \in DOMAIN a |-> IF i \in to + 1 .. to + n - 1 THEN a[i - to + from] ELSE a[i]]

\* memmove of n elements.
Memmove(a, to, from, n) ==
  [i \in DOMAIN a |-> IF i \in to .. to + n - 1 THEN a[i - to + from] ELSE a[i]]

Forgotten(l) == [l EXCEPT !.array = [i \in DOMAIN @ |-> IF i < l.count THEN @[i] ELSE NoVal]]

\* cra_alist_resize
Resized(capacity) == [alist EXCEPT !.capacity = capacity, !.array = Reallocated(@, capacity)]

\* CRA_ALIST_EXPEND
Expanded(capacity) == 2 * capacity

Insert(index, v) ==
  \/ /\ index <= alist.count /\ alist.count < MaxCount
     /\ LET l == IF alist.count = alist.capacity THEN Resized(Expanded(alist.capacity)) ELSE alist
            a == Memmove(l.array, index + 1, index, l.count - index)
        IN  alist' = [l EXCEPT !.array = [a EXCEPT ![index] = v], !.count = @ + 1]
     /\ Returns(TRUE, NoVal)
  \/ index > alist.count /\ Returns(FALSE, NoVal) /\ UNCHANGED alist
  \/ alist.count = alist.capacity /\ OutOfMemory

PopAt(index) ==
  IF index < alist.count
    THEN /\ Returns(TRUE, alist.array[index])
         /\ alist' = Forgotten([alist EXCEPT
              !.array = Memmove(@, index, index + 1, alist.count - index - 1), !.count = @ - 1])
    ELSE Returns(FALSE, NoVal) /\ UNCHANGED alist

\* cra_alist_get
Get(index) == /\ Returns(index < alist.count, IF index < alist.count THEN alist.array[index] ELSE NoVal)
              /\ UNCHANGED alist

\* cra_alist_get_and_set
Set(index, v) == /\ Returns(index < alist.count, NoVal)
                 /\ alist' = IF index < alist.count THEN [alist EXCEPT !.array[index] = v] ELSE alist

\* realloc may fail when it shrinks the array, too.
Reserve(capacity) ==
  \/ alist' = Resized(Max({capacity, alist.count, MinCapacity})) /\ Returns(TRUE, NoVal)
  \/ OutOfMemory

Swap(a, i, j) == [a EXCEPT ![i] = a[j], ![j] = a[i]]

\* n elements: the ends are swapped, and walk towards each other.
Turned(a, n) ==
  LET swapped[k \in 0 .. n \div 2] == IF k = 0 THEN a ELSE Swap(swapped[k - 1], k - 1, n - k)
  IN  swapped[n \div 2]

ReverseAll ==
  \/ alist' = [alist EXCEPT !.array = Turned(@, alist.count)] /\ Returns(TRUE, NoVal)
  \/ alist.count >= 2 /\ OutOfMemory

Content(l) == [i \in 1 .. l.count |-> l.array[i - 1]]

Sort ==
  \/ /\ alist' = [alist EXCEPT !.array =
           [i \in DOMAIN @ |-> IF i < alist.count THEN S!Sorted(Content(alist))[i + 1] ELSE @[i]]]
     /\ Returns(TRUE, NoVal)
  \/ alist.count > 1 /\ OutOfMemory

AddSort(v) ==
  Insert(IF alist.count = 0 THEN 0 ELSE S!Searched(Content(alist), v) - 1, v)

Clear == alist' = Forgotten([alist EXCEPT !.count = 0]) /\ UNCHANGED aret

Fresh == [count |-> 0, capacity |-> MinCapacity, array |-> [i \in 0 .. MinCapacity - 1 |-> NoVal]]

\* cra_alist_uninit, and cra_alist_init again.
Renew == alist' = Fresh /\ UNCHANGED aret

Init == alist = Fresh /\ aret = [ok |-> FALSE, out |-> NoVal]

Next == \/ \E i \in 0 .. MaxCount : PopAt(i) \/ Get(i) \/ \E v \in Val : Insert(i, v) \/ Set(i, v)
        \/ \E v \in Val : AddSort(v)
        \/ Sort \/ ReverseAll \/ Clear \/ Renew
        \/ \E n \in Capacities : Reserve(n)

Spec == Init /\ [][Next]_vars
-----------------------------------------------------------------------------
\* The list implements a sequence.
Elements == INSTANCE List WITH list <- Content(alist), answer <- aret, MayFail <- TRUE
ListSpec == Elements!Spec
=============================================================================
