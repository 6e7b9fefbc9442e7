------------------------------- MODULE Malloc -------------------------------
(***************************************************************************)
(* The allocator of a build with CRA_MEMORY_LEAK_DETECTOR (cra_malloc.c):  *)
(* every block is in a list, under a spin lock, and four counters are      *)
(* added to outside the lock.  A critical section is one action.           *)
(*                                                                         *)
(* Threads free and resize only blocks that are theirs, which no other     *)
(* thread uses meanwhile.                                                  *)
(*                                                                         *)
(* An operator whose comment starts with MUTANT is no part of the model:   *)
(* it is a slip the code could have, which the runs must notice.           *)
(***************************************************************************)
EXTENDS Integers, Sequences, FiniteSets, FiniteSetsExt, SequencesExt

CONSTANTS Thread, Block,    \* the addresses of blocks
          Sizes, NoBlock,
          MaxAllocs         \* bounds the number of allocations

\* What the module needs of its constants: a size is a size_t.
MallocAssumption == IsFiniteSet(Thread) /\ Sizes \subseteq Nat

VARIABLES mem_list,         \* the blocks, with their sizes, newest first
          nalloc, nfree, alloc_bytes, free_bytes,
          owned,            \* the blocks the program has
          call,             \* what a thread has still to do
          refused           \* history: a realloc has failed
listVars  == <<mem_list>>
countVars == <<nalloc, nfree, alloc_bytes, free_bytes>>
vars == <<mem_list, countVars, owned, call, refused>>

Idle == [op |-> "idle", block |-> NoBlock, bytes |-> 0]
Listed == {mem_list[i].block : i \in DOMAIN mem_list}
\* Blocks that exist: listed, or obtained and about to be.
InUse == Listed \cup {call[t].block : t \in {u \in Thread : call[u].op = "set_block"}}

Goes(t, op, block, bytes) == call' = [call EXCEPT ![t] = [op |-> op, block |-> block, bytes |-> bytes]]
Returns(t) == call' = [call EXCEPT ![t] = Idle]

Init ==
  /\ mem_list = <<>> /\ owned = {} /\ refused = FALSE
  /\ nalloc = 0 /\ nfree = 0 /\ alloc_bytes = 0 /\ free_bytes = 0
  /\ call = [t \in Thread |-> Idle]
-----------------------------------------------------------------------------
\* __cra_malloc_dbg and __cra_calloc_dbg: the block; the list; the counters.
Malloc(t) ==
  /\ call[t].op = "idle"
  /\ nalloc + Cardinality({u \in Thread : call[u].op \in {"set_block", "inc_nalloc"}}) < MaxAllocs
  /\ \E b \in Block \ InUse, size \in Sizes : Goes(t, "set_block", b, size)
  /\ UNCHANGED <<mem_list, countVars, owned, refused>>

SetBlock(t) ==
  /\ call[t].op = "set_block"
  /\ mem_list' = <<[block |-> call[t].block, size |-> call[t].bytes]>> \o mem_list
  /\ Goes(t, "inc_nalloc", call[t].block, call[t].bytes)
  /\ UNCHANGED <<countVars, owned, refused>>

IncNalloc(t) ==
  /\ call[t].op = "inc_nalloc"
  /\ nalloc' = nalloc + 1
  /\ Goes(t, "add_bytes", call[t].block, call[t].bytes)
  /\ UNCHANGED <<mem_list, nfree, alloc_bytes, free_bytes, owned, refused>>

AddBytes(t) ==
  /\ call[t].op = "add_bytes"
  /\ alloc_bytes' = alloc_bytes + call[t].bytes
  /\ owned' = owned \cup {call[t].block}
  /\ Returns(t)
  /\ UNCHANGED <<mem_list, nalloc, nfree, free_bytes, refused>>

\* The entry of block b in the list.
Entry(b) == CHOOSE i \in DOMAIN mem_list : mem_list[i].block = b

\* MUTANT: a block that has moved is put at the head of the list.
MovedToTheHead(list, i, b, size) == [list EXCEPT ![1] = [block |-> b, size |-> size]]

Resized(list, i, b, size) == [list EXCEPT ![i] = [block |-> b, size |-> size]]

\* __cra_realloc_dbg: the block stays, moves, or cannot be resized; the bytes
\* are added in each case.
Realloc(t) ==
  /\ call[t].op = "idle"
  /\ \E b \in owned, size \in Sizes :
       LET diff == size - mem_list[Entry(b)].size IN
       \/ \E new \in {b} \cup (Block \ InUse) :
            /\ mem_list' = Resized(mem_list, Entry(b), new, size)
            /\ Goes(t, "add_bytes", new, diff)
            /\ owned' = owned \ {b} /\ UNCHANGED refused
       \/ /\ ~refused             \* bound: one realloc fails
          /\ refused' = TRUE
          /\ Goes(t, "add_bytes", b, diff)
          /\ owned' = owned \ {b} /\ UNCHANGED mem_list
  /\ UNCHANGED countVars

\* __cra_free_dbg: off the list; the counters.
Free(t) ==
  /\ call[t].op = "idle"
  /\ \E b \in owned :
       /\ Goes(t, "inc_nfree", NoBlock, mem_list[Entry(b)].size)
       /\ mem_list' = RemoveAt(mem_list, Entry(b))
       /\ owned' = owned \ {b}
  /\ UNCHANGED <<countVars, refused>>

IncNfree(t) ==
  /\ call[t].op = "inc_nfree"
  /\ nfree' = nfree + 1
  /\ Goes(t, "add_free_bytes", NoBlock, call[t].bytes)
  /\ UNCHANGED <<mem_list, nalloc, alloc_bytes, free_bytes, owned, refused>>

AddFreeBytes(t) ==
  /\ call[t].op = "add_free_bytes"
  /\ free_bytes' = free_bytes + call[t].bytes
  /\ Returns(t)
  /\ UNCHANGED <<mem_list, nalloc, nfree, alloc_bytes, owned, refused>>

Next == \E t \in Thread : \/ Malloc(t) \/ SetBlock(t) \/ IncNalloc(t) \/ AddBytes(t)
                          \/ Realloc(t) \/ Free(t) \/ IncNfree(t) \/ AddFreeBytes(t)
Spec == Init /\ [][Next]_vars
-----------------------------------------------------------------------------
\* The bytes of the blocks in the list.
Bytes == FoldLeft(LAMBDA n, bytes : n + bytes, 0, [i \in DOMAIN mem_list |-> mem_list[i].size])

\* What __cra_memory_leak_report prints: a block is listed once, from before the
\* program has it until it gives it back; the counters never show more frees
\* than allocations, and when no call is under way they agree with the list,
\* unless a realloc has failed.
ReportIsRight ==
  /\ Cardinality(Listed) = Len(mem_list)
  /\ owned \subseteq Listed
  /\ nfree <= nalloc
  /\ (\A t \in Thread : call[t] = Idle) =>
        /\ Listed = owned
        /\ nalloc - nfree = Len(mem_list)
        /\ refused \/ alloc_bytes - free_bytes = Bytes
=============================================================================
