------------------------------- MODULE RefCnt -------------------------------
(***************************************************************************)
(* CraRef (src/inc/cra_refcnt.h, src/src/cra_refcnt.c): a counted          *)
(* reference.  A handle is a reference some thread owns and works on;      *)
(* handles step concurrently, one atomic instruction or one callback at a  *)
(* time.  cnt is a signed 32-bit integer; Handle bounds it far below the   *)
(* overflow, as the number of references a process can hold does.          *)
(*                                                                         *)
(* An operator whose comment starts with MUTANT is no part of the model:   *)
(* it is a slip the code could have, which the runs must notice.           *)
(***************************************************************************)
EXTENDS Integers, FiniteSets

CONSTANT Handle

\* What the module needs of its constant.
RefCntAssumption == IsFiniteSet(Handle)

VARIABLES cnt,
          state,      \* what each handle is doing
          live,       \* uninit, and dealloc of a taken pointer, have not run
          allocated   \* the head has not been given to cra_free
vars == <<cnt, state, live, allocated>>

In(s) == {h \in Handle : state[h] \in s}
Goes(h, s) == state' = [state EXCEPT ![h] = s]

\* MUTANT: the new handle is not counted.
RefUncounted(h, g) ==
  /\ state[h] = "held" /\ state[g] = "unused"
  /\ Goes(g, "held")
  /\ UNCHANGED <<cnt, live, allocated>>

\* cra_ref_ref: the holder of h makes the handle g.
Ref(h, g) ==
  /\ state[h] = "held" /\ state[g] = "unused"
  /\ cnt' = cnt + 1
  /\ Goes(g, "held")
  /\ UNCHANGED <<live, allocated>>

\* MUTANT: the value before the decrement is taken for the value after it.
WasBelowLast(old) == old = 0

\* cra_atomic_dec returned `old`: was this the last reference?
WasLast(old) == old = 1

\* cra_ref_unref up to its test.
Unref(h) ==
  /\ state[h] = "held"
  /\ cnt' = cnt - 1
  /\ Goes(h, IF WasLast(cnt) THEN "destroying" ELSE "unused")
  /\ UNCHANGED <<live, allocated>>

\* The callbacks of a made or a taken object.
Destroy(h) ==
  /\ state[h] = "destroying"
  /\ live' = FALSE
  /\ Goes(h, "freeing")
  /\ UNCHANGED <<cnt, allocated>>

Free(h) ==
  /\ state[h] = "freeing"
  /\ allocated' = FALSE
  /\ Goes(h, "unused")
  /\ UNCHANGED <<cnt, live>>

\* cra_ref_make and cra_ref_take: the maker holds the first handle.
Init ==
  /\ cnt = 1
  /\ \E h \in Handle : state = [g \in Handle |-> IF g = h THEN "held" ELSE "unused"]
  /\ live = TRUE /\ allocated = TRUE

Next == \E h \in Handle : \/ \E g \in Handle : Ref(h, g)
                          \/ Unref(h) \/ Destroy(h) \/ Free(h)

\* A call in progress goes on; nobody has to drop a reference.
Fairness == \A h \in Handle : WF_vars(Destroy(h) \/ Free(h))

Spec == Init /\ [][Next]_vars /\ Fairness
-----------------------------------------------------------------------------
\* Type invariant, with the counter's meaning: it counts the handles held.
TypeOK == /\ state \in [Handle -> {"unused", "held", "destroying", "freeing"}]
          /\ live \in BOOLEAN /\ allocated \in BOOLEAN
          /\ cnt = Cardinality(In({"held"}))

\* CraRef implements a shared object without weak handles: it is destroyed and
\* freed, in this order, once nobody holds it, and never earlier.
Object == INSTANCE SharedObject WITH strong <- In({"held"}), weak <- {}
ObjectSpec == Object!Spec
=============================================================================
