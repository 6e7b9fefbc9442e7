------------------------------ MODULE WeakRef ------------------------------
(***************************************************************************)
(* CraWeakRef (src/inc/cra_refcnt.h, src/src/cra_refcnt.c): references     *)
(* with weak handles.  The strong handles together own one weak reference, *)
(* which the last of them gives back after it has destroyed the object.    *)
(*                                                                         *)
(* A handle is a strong or weak reference some thread owns and works on;   *)
(* handles step concurrently, one atomic instruction or callback at a time.*)
(* The counters are signed 32-bit integers; Handle bounds them far below   *)
(* the overflow.  The relaxed and acquire/release orders are as strong as  *)
(* the model needs: each counter is a single atomic location, a stale load *)
(* in acquire only makes its CAS fail, and what precedes a decrement       *)
(* (ACQ_REL) is seen by the thread that decrements last.                   *)
(*                                                                         *)
(* An operator whose comment starts with MUTANT is no part of the model:   *)
(* it is a slip the code could have, which the runs must notice.           *)
(***************************************************************************)
EXTENDS Integers, FiniteSets

CONSTANTS Handle, NoHandle

ASSUME WeakRefAssumption == IsFiniteSet(Handle) /\ NoHandle \notin Handle

VARIABLES cnt, weak_cnt,
          state,      \* what each handle is doing
          via,        \* the handle an acquire in progress goes through
          old,        \* the local `old` of an acquire in progress
          live,       \* uninit, and dealloc of a taken pointer, have not run
          allocated   \* the head has not been given to cra_free
vars == <<cnt, weak_cnt, state, via, old, live, allocated>>

In(s) == {h \in Handle : state[h] \in s}
Held  == In({"strong", "weak"})

Goes(h, s) == state' = [state EXCEPT ![h] = s]

\* Nobody gives a handle away while a call of its own uses it.
Droppable(h) == \A g \in Handle : via[g] # h

\* cra_weak_ref_ref
Ref(h, g) ==
  /\ h \in Held /\ state[g] = "unused"
  /\ weak_cnt' = weak_cnt + 1
  /\ Goes(g, "weak")
  /\ UNCHANGED <<cnt, via, old, live, allocated>>

\* cra_weak_ref_head_acquire: the load, and the test of the loop.  An acquire
\* that loads zero returns NULL and leaves no trace.
AcquireLoad(h, g) ==
  /\ h \in Held /\ state[g] = "unused"
  /\ cnt > 0
  /\ old' = [old EXCEPT ![g] = cnt]
  /\ via' = [via EXCEPT ![g] = h]
  /\ Goes(g, "acquiring")
  /\ UNCHANGED <<cnt, weak_cnt, live, allocated>>

\* MUTANT: the counter is stored although it may have changed.
Swaps(g) == TRUE

\* The compare-and-swap can succeed only on the value that was loaded.
MaySwap(g) == cnt = old[g]

AcquireDone(g, s) ==
  /\ via' = [via EXCEPT ![g] = NoHandle]
  /\ old' = [old EXCEPT ![g] = 0]
  /\ Goes(g, s)

\* The compare-and-swap, with the retry or the return that follows it.  The
\* weak form may fail without cause.
AcquireCas(g) ==
  /\ state[g] = "acquiring"
  /\ \/ /\ MaySwap(g)
        /\ cnt' = old[g] + 1
        /\ AcquireDone(g, "strong")
     \/ /\ cnt > 0
        /\ old' = [old EXCEPT ![g] = cnt]
        /\ UNCHANGED <<cnt, state, via>>
     \/ /\ cnt <= 0
        /\ cnt' = cnt
        /\ AcquireDone(g, "unused")
  /\ UNCHANGED <<weak_cnt, live, allocated>>

\* cra_weak_ref_release up to its test.
Release(h) ==
  /\ state[h] = "strong" /\ Droppable(h)
  /\ cnt' = cnt - 1
  /\ Goes(h, IF cnt = 1 THEN "destroying" ELSE "unused")
  /\ UNCHANGED <<weak_cnt, via, old, live, allocated>>

\* MUTANT: the last strong handle frees the head as well.
AfterDestroy == "freeing"

\* What follows the callbacks: the weak reference the strong handles shared.
ThenUnref == "unref"

\* The callbacks of a made or a taken object.
Destroy(h) ==
  /\ state[h] = "destroying"
  /\ live' = FALSE
  /\ Goes(h, ThenUnref)
  /\ UNCHANGED <<cnt, weak_cnt, via, old, allocated>>

\* cra_weak_ref_unref of a weak handle, or from cra_weak_ref_release.
Unref(h) ==
  /\ \/ state[h] = "weak" /\ Droppable(h)
     \/ state[h] = "unref"
  /\ weak_cnt' = weak_cnt - 1
  /\ Goes(h, IF weak_cnt = 1 THEN "freeing" ELSE "unused")
  /\ UNCHANGED <<cnt, via, old, live, allocated>>

Free(h) ==
  /\ state[h] = "freeing"
  /\ allocated' = FALSE
  /\ Goes(h, "unused")
  /\ UNCHANGED <<cnt, weak_cnt, via, old, live>>

\* MUTANT: the strong handles own no weak reference.
NoSharedWeak == 0

\* cra_weak_ref_head_init
SharedWeak == 1

\* cra_weak_ref_make and cra_weak_ref_take: the maker holds a strong handle.
Init ==
  /\ cnt = 1 /\ weak_cnt = SharedWeak
  /\ \E h \in Handle : state = [g \in Handle |-> IF g = h THEN "strong" ELSE "unused"]
  /\ via = [g \in Handle |-> NoHandle]
  /\ old = [g \in Handle |-> 0]
  /\ live = TRUE /\ allocated = TRUE

Next == \E h \in Handle :
          \/ \E g \in Handle : Ref(h, g) \/ AcquireLoad(h, g)
          \/ AcquireCas(h) \/ Release(h) \/ Destroy(h) \/ Unref(h) \/ Free(h)

\* A call in progress goes on; nobody has to drop a reference.
Finish(h) == \/ Destroy(h)
             \/ state[h] = "unref" /\ Unref(h)
             \/ Free(h)
Fairness == \A h \in Handle : WF_vars(Finish(h))

Spec == Init /\ [][Next]_vars /\ Fairness
-----------------------------------------------------------------------------
Places == {"unused", "strong", "weak", "acquiring", "destroying", "unref", "freeing"}

\* Type invariant; an acquire in progress goes through a handle that is held.
TypeOK ==
  /\ cnt \in Nat /\ weak_cnt \in Nat
  /\ state \in [Handle -> Places]
  /\ via \in [Handle -> Handle \cup {NoHandle}]
  /\ old \in [Handle -> Nat]
  /\ live \in BOOLEAN /\ allocated \in BOOLEAN
  /\ \A g \in Handle : IF state[g] = "acquiring" THEN via[g] \in Held
                                                 ELSE via[g] = NoHandle

\* The counters count: the strong handles, and the weak ones plus the one the
\* strong handles share until the last of them has given it back.
Counted ==
  /\ cnt = Cardinality(In({"strong"}))
  /\ weak_cnt = Cardinality(In({"weak"}))
                  + (IF In({"strong", "destroying", "unref"}) = {} THEN 0 ELSE 1)

\* A strong handle keeps the object alive: no acquire that raced with the last
\* release got hold of a destroyed object.
StrongKeepsAlive == In({"strong"}) # {} => live

\* The head is freed after the last access to it, by whichever of the last weak
\* handle and the last strong handle comes last; whoever is about to free it
\* is alone, as the assertion at line 171 wants.
HeadOutlivesUse ==
  /\ ~allocated => \A h \in Handle : state[h] = "unused"
  /\ \A h \in Handle : state[h] = "freeing" =>
        \A g \in Handle \ {h} : state[g] = "unused"

\* An object whose last strong reference is gone stays dead.
NoResurrection == [][cnt = 0 => cnt' = 0]_vars

\* CraWeakRef implements a shared object: destroyed once the last strong handle
\* is gone, freed once the last handle is gone, in this order, and never early.
Object == INSTANCE SharedObject WITH strong <- In({"strong"}), weak <- In({"weak"})
ObjectSpec == Object!Spec
=============================================================================
