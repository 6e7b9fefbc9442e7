------------------------------- MODULE MemPool -------------------------------
(***************************************************************************)
(* CraMemPool (cra_mempool.c): items of one size, cut from blocks that are *)
(* never given back before the pool is taken down.  The free items are a   *)
(* stack, an array list that doubles when it is full and may then run out  *)
(* of memory.  The k-th item of block b is number (b - 1) * ItemsPerBlock  *)
(* + k.                                                                    *)
(*                                                                         *)
(* An operator whose comment starts with MUTANT is no part of the model:   *)
(* it is a slip the code could have, which the runs must notice.           *)
(***************************************************************************)
EXTENDS Naturals, Sequences, FiniteSets

CONSTANTS ItemsPerBlock,    \* items_per_block
          InitBlock,        \* init_block
          DefaultCapacity,  \* CRA_ALIST_DEFAULT_CAPACITY
          MaxBlocks

\* What the module needs of its constants.
MemPoolAssumption ==
  /\ ItemsPerBlock \in Nat \ {0} /\ InitBlock \in Nat \ {0}
  /\ DefaultCapacity \in Nat \ {0} /\ MaxBlocks \in Nat

VARIABLES blocks,           \* how many there are
          stack,            \* the free items
          capacity,         \* of the stack
          used,             \* the items the program has
          lost,             \* the items that are neither, for want of memory
          ended             \* how the pool was taken down: "no", "yes", "exit"
vars == <<blocks, stack, capacity, used, lost, ended>>

ItemsOf(b) == [k \in 1 .. ItemsPerBlock |-> (b - 1) * ItemsPerBlock + k]
Items      == 1 .. blocks * ItemsPerBlock
OnStack    == {stack[i] : i \in DOMAIN stack}

Bigger(m, n) == IF m > n THEN m ELSE n

\* cra_mempool_init; the blocks it starts with need no more room on the stack.
Init ==
  /\ blocks = InitBlock
  /\ stack = [i \in 1 .. InitBlock * ItemsPerBlock |-> i]
  /\ capacity = Bigger(DefaultCapacity, InitBlock * ItemsPerBlock)
  /\ used = {} /\ lost = {} /\ ended = "no"
-----------------------------------------------------------------------------
\* cra_mempool_alloc: the item on top.
Alloc ==
  /\ ended = "no" /\ stack # <<>>
  /\ stack' = SubSeq(stack, 1, Len(stack) - 1)
  /\ used' = used \cup {stack[Len(stack)]}
  /\ UNCHANGED <<blocks, capacity, lost, ended>>

\* cra_mempool_alloc of an empty pool: a block is made, its items go on the
\* stack, which has room for that many from the start, and the last of them is
\* handed out.  With no memory for the block the pool stays as it was.
AllocFromNewBlock ==
  /\ ended = "no" /\ stack = <<>> /\ blocks < MaxBlocks
  /\ blocks' = blocks + 1
  /\ stack' = SubSeq(ItemsOf(blocks + 1), 1, ItemsPerBlock - 1)
  /\ used' = used \cup {ItemsOf(blocks + 1)[ItemsPerBlock]}
  /\ UNCHANGED <<capacity, lost, ended>>

\* MUTANT: cra_mempool_dealloc without the append.
Forgets(item) == stack

Pushed(item) == Append(stack, item)

\* cra_mempool_dealloc: the stack may have to grow, and nobody is told when it
\* cannot.
Dealloc ==
  /\ ended = "no"
  /\ \E item \in used :
       /\ used' = used \ {item}
       /\ \/ /\ stack' = Pushed(item)
             /\ capacity' = IF Len(stack) = capacity THEN 2 * capacity ELSE capacity
             /\ UNCHANGED lost
          \/ /\ Len(stack) = capacity
             /\ lost' = lost \cup {item}
             /\ UNCHANGED <<stack, capacity>>
  /\ UNCHANGED <<blocks, ended>>

\* cra_mempool_uninit, which exits if items are missing.
Uninit ==
  /\ ended = "no"
  /\ ended' = IF Len(stack) = blocks * ItemsPerBlock THEN "yes" ELSE "exit"
  /\ UNCHANGED <<blocks, stack, capacity, used, lost>>

Next == Alloc \/ AllocFromNewBlock \/ Dealloc \/ Uninit
Spec == Init /\ [][Next]_vars
-----------------------------------------------------------------------------
TypeOK ==
  /\ blocks \in Nat /\ stack \in Seq(Items) /\ capacity \in Nat \ {0}
  /\ used \subseteq Items /\ lost \subseteq Items
  /\ ended \in {"no", "yes", "exit"}

\* An item is on the stack once, with the program, or lost, never two of these:
\* cra_mempool_alloc gives nobody an item that somebody else has.
EachItemOnce ==
  /\ \A i, j \in DOMAIN stack : stack[i] = stack[j] => i = j
  /\ OnStack \cap used = {} /\ OnStack \cap lost = {} /\ used \cap lost = {}
  /\ OnStack \cup used \cup lost = Items

\* cra_mempool_uninit compares the height of the stack with the number of items:
\* it goes on only when every item has come back.
UninitIsRight == (ended = "yes" => used = {} /\ lost = {}) /\ (ended = "exit" => used # {} \/ lost # {})

PoolIsSound == EachItemOnce /\ UninitIsRight
=============================================================================
