---------------------------- MODULE MCContainers ----------------------------
(***************************************************************************)
(* The containers, which do not interact: a behaviour uses one of those in *)
(* Kinds, and the others stay as they were made.                           *)
(***************************************************************************)
EXTENDS Dict, TLC

CONSTANTS Kinds,
          k1, k2, k3,
          Items, InitBlocks, DequeMax, DequeMayFail,
          Elem, Nodes, Spares, Shrinks, MinCapacity, Capacities, ListMax

VARIABLES which,                    \* the container that is used
          deque, dequeRet,          \* of Deque
          llist, lret,              \* of LList
          alist, aret               \* of AList

\* The keys share a bucket when there are seven; k2 and k3 always do.
Hashes == (k1 :> 1) @@ (k2 :> 8) @@ (k3 :> 8)

Q == INSTANCE Deque WITH ret <- dequeRet, MaxCount <- DequeMax, MayFail <- DequeMayFail
L == INSTANCE LList WITH Val <- Elem, MaxCount <- ListMax
A == INSTANCE AList WITH Val <- Elem, MaxCount <- ListMax

\* The dictionary is asked for what it has places for.
ASSUME ContainersAssumption == GrowsEnough /\ RequestsFit /\ Q!DequeAssumption /\ L!LListAssumption /\
  A!AListAssumption

dequeVars == <<deque, dequeRet>>
llistVars == <<llist, lret>>
alistVars == <<alist, aret>>
MCVars    == <<which, vars, dequeVars, llistVars, alistVars>>

MCInit == which \in Kinds /\ Init /\ Q!Init /\ L!Init /\ A!Init

MCNext ==
  \/ which = "Dict" /\ Next /\ UNCHANGED <<which, dequeVars, llistVars, alistVars>>
  \/ which = "Deque" /\ Q!Next /\ UNCHANGED <<which, vars, llistVars, alistVars>>
  \/ which = "LList" /\ L!Next /\ UNCHANGED <<which, vars, dequeVars, alistVars>>
  \/ which = "AList" /\ A!Next /\ UNCHANGED <<which, vars, dequeVars, llistVars>>

MCSpec == MCInit /\ [][MCNext]_MCVars
-----------------------------------------------------------------------------
\* The ends of the deque and the iterators agree (Deque), the ring of the linked
\* list reads the same both ways and its spare nodes are counted (LList), and
\* the chains, the free list and the count of the dictionary agree and its
\* entries fit the memory that was allocated for them (Dict).
ContainersSound == Q!IteratesContent /\ L!Sound /\ Sound

\* What the container that is used holds, and what its last call returned.
UsedList   == CASE which = "LList" -> L!Content(llist)
                [] which = "AList" -> A!Content(alist)
                [] OTHER -> Q!Content(deque)
UsedAnswer == CASE which = "LList" -> lret
                [] which = "AList" -> aret
                [] OTHER -> dequeRet
Used == INSTANCE List WITH
  Val      <- Val \cup Elem,
  list     <- UsedList,
  answer   <- UsedAnswer,
  MaxCount <- DequeMax,
  MayFail  <- TRUE

\* The deque, the linked list and the array list, whichever is used, implement
\* a sequence: no call loses, doubles or reorders elements, sorting sorts, and a
\* call that fails changes nothing.
SequenceSpec == Used!Spec
=============================================================================
