------------------------------- MODULE Dict -------------------------------
(***************************************************************************)
(* CraDict (src/src/collections/cra_dict.c): buckets that hold the index   *)
(* of the first entry of a chain, and a table of entries with a list of    *)
(* those that were freed.                                                  *)
(*                                                                         *)
(* Indices count from 1 here and from 0 in the code, so that Nil is 0 and  *)
(* not -1.  The entries at next and beyond are garbage that no operation   *)
(* reads: `entries` stops before them and next is its length; nor is the   *)
(* key or the value of an entry that was freed ever read, so they are      *)
(* forgotten.  The table of primes and the limit on the length of chains   *)
(* are parameters, smaller in the runs than in the code.                   *)
(*                                                                         *)
(* An operator whose comment starts with MUTANT is no part of the model:   *)
(* it is a slip the code could have, which the runs must notice.           *)
(***************************************************************************)
EXTENDS Integers, Sequences, FiniteSets, FiniteSetsExt, SequencesExt

CONSTANTS Key, Val, NoVal,
          Hash,         \* what hash_key returns for each key, never -1
          Primes,       \* prime_table
          MaxChain,     \* CRA_DICT_MAX_CHAIN_LENGTH
          InitCapacity, \* the argument init_capacity
          Requests,     \* the arguments of cra_dict_reserve
          PopsAnywhere, \* do clients pop keys that are not first in their chain?
          MayFail       \* may cra_malloc fail?

\* A capacity is taken from the table of primes; a request for more than the last
\* of them is one for more memory than there is.
InTable(n) == \E p \in Primes : p >= n

ASSUME DictAssumption ==
  /\ Hash \in [Key -> Nat] /\ NoVal \notin Val
  /\ Primes \subseteq Nat \ {0}
  /\ InitCapacity \in Nat /\ InTable(InitCapacity)
  /\ Requests \subseteq Nat

VARIABLES table,  \* buckets, entries, capacity and freelist, and the number of
                  \* entries (room) that were allocated
          count,
          ret     \* what the last call returned
vars == <<table, count, ret>>

Nil  == 0
Free == -1        \* the hash of an entry that is not in use

Usable(n) == (n * 72) \div 100
NextPrime(n) == Min({p \in Primes : p >= n})

\* Every capacity has places for more entries than the one before has buckets: so
\* it is in prime_table, but for the step from 3221225473 to 4294967291.
GrowsEnough == \A p, q \in Primes : p < q => p < Usable(q)

\* A capacity that is asked for has that many places: cra_dict_reserve does not
\* see to it.
RequestsFit == \A n \in Requests : InTable(n) => n <= Usable(NextPrime(n))

Returns(ok, out) == ret' = [ok |-> ok, out |-> out]

(***************************************************************************)
(* Chains.                                                                 *)
(***************************************************************************)
Bucket(t, k) == Hash[k] % t.capacity

\* The indices reached from index i by `next`, in order.
Follow(t, i) ==
  LET most == Len(t.entries)
      Behind(j) == IF j = Nil THEN Nil ELSE t.entries[j].next
      hop[n \in 1 .. most] == IF n = 1 THEN i ELSE Behind(hop[n - 1])
  IN  IF i = Nil THEN << >>
      ELSE [n \in 1 .. Cardinality({m \in 1 .. most : hop[m] # Nil}) |-> hop[n]]

Chain(t, k) == Follow(t, t.buckets[Bucket(t, k)])

\* MUTANT: the keys are not compared.
FoundByHash(t, k) == LET chain == Chain(t, k)
                     IN  {n \in DOMAIN chain : t.entries[chain[n]].hash = Hash[k]}

\* Where in the chain the search of get_ref, put and pop would stop: the first
\* place counts.
Found(t, k) == LET chain == Chain(t, k)
               IN  {n \in DOMAIN chain : /\ t.entries[chain[n]].hash = Hash[k]
                                         /\ t.entries[chain[n]].key = k}
Has(t, k) == Found(t, k) # {}
At(t, k)  == Chain(t, k)[Min(Found(t, k))]

Value(t, k) == IF Has(t, k) THEN t.entries[At(t, k)].val ELSE NoVal

(***************************************************************************)
(* cra_dict_reserve                                                        *)
(***************************************************************************)
\* A table without entries.
Empty(capacity, room) ==
  [capacity |-> capacity, room |-> room, freelist |-> Nil, entries |-> << >>,
   buckets |-> [b \in 0 .. capacity - 1 |-> Nil]]

\* The entry goes behind the last one and to the front of its chain.
Appended(t, entry) ==
  LET b == entry.hash % t.capacity
  IN  [t EXCEPT !.entries = Append(@, [entry EXCEPT !.next = t.buckets[b]]),
                !.buckets[b] = Len(t.entries) + 1]

\* The table for a requested capacity of n: the entries in use are appended to
\* an empty one, in their order.
Rehashed(n) ==
  LET fewer    == n < count
      capacity == NextPrime(IF fewer THEN count ELSE n)
      moved[i \in 0 .. Len(table.entries)] ==
        IF i = 0 THEN Empty(capacity, IF fewer THEN capacity ELSE Usable(capacity))
        ELSE IF table.entries[i].hash = Free THEN moved[i - 1]
        ELSE Appended(moved[i - 1], table.entries[i])
  IN  moved[Len(table.entries)]

Reserve(n) ==
  /\ \/ InTable(n) /\ table' = Rehashed(n) /\ Returns(TRUE, NoVal)
     \/ MayFail /\ table' = table /\ Returns(FALSE, NoVal)
  /\ UNCHANGED count

(***************************************************************************)
(* cra_dict_put* and cra_dict_add                                          *)
(***************************************************************************)
\* The table t with a new entry, in a free place or behind the last one.
Linked(t, k, v) ==
  LET b     == Bucket(t, k)
      entry == [hash |-> Hash[k], next |-> t.buckets[b], key |-> k, val |-> v]
  IN  IF t.freelist # Nil
        THEN [t EXCEPT !.buckets[b] = t.freelist,
                       !.entries[t.freelist] = entry,
                       !.freelist = t.entries[t.freelist].next]
        ELSE Appended(t, entry)

\* MUTANT: the table is filled up to its last bucket.
CrowdedLate(k) == \/ Len(Chain(table, k)) > MaxChain
                  \/ Len(table.entries) >= table.capacity

\* The chain is too long, or there is no place behind the last entry.
Crowded(k) == \/ Len(Chain(table, k)) > MaxChain
              \/ Len(table.entries) >= Usable(table.capacity)

PutNew(k, v) ==
  /\ ~Has(table, k)
  /\ \/ /\ Crowded(k) => InTable(table.capacity + 1)
        /\ table' = Linked(IF Crowded(k) THEN Rehashed(table.capacity + 1) ELSE table, k, v)
        /\ count' = count + 1
        /\ Returns(TRUE, NoVal)
     \/ /\ MayFail /\ Crowded(k)
        /\ Returns(FALSE, NoVal)
        /\ UNCHANGED <<table, count>>

Put(k, v) ==
  \/ PutNew(k, v)
  \/ /\ Has(table, k)
     /\ table' = [table EXCEPT !.entries[At(table, k)].val = v]
     /\ Returns(TRUE, table.entries[At(table, k)].val)
     /\ UNCHANGED count

Add(k, v) ==
  \/ PutNew(k, v)
  \/ /\ Has(table, k)
     /\ Returns(FALSE, NoVal)
     /\ UNCHANGED <<table, count>>

(***************************************************************************)
(* cra_dict_pop* and cra_dict_remove                                       *)
(***************************************************************************)
First(k) == At(table, k) = table.buckets[Bucket(table, k)]

\* The entry that the search has passed last.
Before(k) == Chain(table, k)[Min(Found(table, k)) - 1]

\* Line 351 reads the index of the first entry of the chain, whichever entry
\* is removed, and line 360 puts that index on the list of free entries.
FreedIndex(k) == table.buckets[Bucket(table, k)]

Unlinked(k) ==
  LET i == At(table, k)
      t == IF First(k)
             THEN [table EXCEPT !.buckets[Bucket(table, k)] = table.entries[i].next]
             ELSE [table EXCEPT !.entries[Before(k)].next = table.entries[i].next]
  IN  [t EXCEPT !.entries[i] = [hash |-> Free, next |-> table.freelist, key |-> NoVal, val |-> NoVal],
                !.freelist = FreedIndex(k)]

Pop(k) ==
  \/ /\ Has(table, k)
     /\ PopsAnywhere \/ First(k)
     /\ table' = IF count = 1 THEN [Unlinked(k) EXCEPT !.freelist = Nil, !.entries = << >>]
                              ELSE Unlinked(k)
     /\ count' = count - 1
     /\ Returns(TRUE, table.entries[At(table, k)].val)
  \/ /\ ~Has(table, k)
     /\ Returns(FALSE, NoVal)
     /\ UNCHANGED <<table, count>>

\* cra_dict_get
Get(k) == /\ Returns(Has(table, k), Value(table, k))
          /\ UNCHANGED <<table, count>>

Clear ==
  /\ table' = [table EXCEPT !.buckets = IF count > 0 THEN [b \in DOMAIN @ |-> Nil] ELSE @,
                            !.freelist = Nil, !.entries = << >>]
  /\ count' = 0
  /\ UNCHANGED ret

\* cra_dict_init_with_size
Fresh == Empty(NextPrime(InitCapacity), Usable(NextPrime(InitCapacity)))

\* cra_dict_uninit, and cra_dict_init_with_size again.
Renew == table' = Fresh /\ count' = 0 /\ UNCHANGED ret

Init == table = Fresh /\ count = 0 /\ ret = [ok |-> FALSE, out |-> NoVal]

Next == \/ \E k \in Key, v \in Val : Put(k, v) \/ Add(k, v)
        \/ \E k \in Key : Pop(k) \/ Get(k)
        \/ Clear \/ Renew
        \/ \E n \in Requests : Reserve(n)

Spec == Init /\ [][Next]_vars
-----------------------------------------------------------------------------
\* What the iterator stops at.
InUse == {i \in DOMAIN table.entries : table.entries[i].hash # Free}

\* Every entry in use is in the chain of its bucket, once, every other entry is
\* on the list of free entries, once, and both fit the memory they are in: what
\* iteration finds is what the chains hold, and no place is lost.
Sound ==
  LET free == Follow(table, table.freelist)
  IN  /\ Len(table.entries) <= table.room
      /\ count = Cardinality(InUse)
      /\ \A k \in Key : IsInjective(Chain(table, k))
      /\ InUse = {i \in DOMAIN table.entries :
                    \E k \in Key : k = table.entries[i].key /\ i \in ToSet(Chain(table, k))}
      /\ IsInjective(free)
      /\ ToSet(free) = DOMAIN table.entries \ InUse

\* The dictionary implements a map.
M == INSTANCE Mapping WITH map <- [k \in Key |-> Value(table, k)], answer <- ret
MapSpec == M!Spec
=============================================================================
