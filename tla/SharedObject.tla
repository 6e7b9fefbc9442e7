---------------------------- MODULE SharedObject ----------------------------
(***************************************************************************)
(* What reference counting promises (src/inc/cra_refcnt.h): an object that *)
(* lives as long as somebody holds a strong handle on it, in a block of    *)
(* memory that stays as long as somebody holds a handle of either kind.    *)
(* There are no counters here, only the sets of handles.                   *)
(***************************************************************************)
CONSTANT Handle

VARIABLES strong, weak,  \* the handles held
          live,          \* the object has not been destroyed
          allocated      \* its memory has not been freed
vars == <<strong, weak, live, allocated>>

New(g) == g \in Handle \ (strong \cup weak)

\* A further strong handle, which only a live object can give.
Share(g) == /\ strong # {} /\ New(g)
            /\ strong' = strong \cup {g}
            /\ UNCHANGED <<weak, live, allocated>>

\* A further weak handle, from a handle of either kind.
Observe(g) == /\ strong \cup weak # {} /\ New(g)
              /\ weak' = weak \cup {g}
              /\ UNCHANGED <<strong, live, allocated>>

Drop(h) == /\ h \in strong \cup weak
           /\ strong' = strong \ {h}
           /\ weak' = weak \ {h}
           /\ UNCHANGED <<live, allocated>>

Destroy == /\ strong = {} /\ live
           /\ live' = FALSE
           /\ UNCHANGED <<strong, weak, allocated>>

Free == /\ weak = {} /\ ~live /\ allocated
        /\ allocated' = FALSE
        /\ UNCHANGED <<strong, weak, live>>

Init == /\ \E h \in Handle : strong = {h}
        /\ weak = {} /\ live = TRUE /\ allocated = TRUE

Next == \/ \E h \in Handle : Share(h) \/ Observe(h) \/ Drop(h)
        \/ Destroy
        \/ Free

Safety == Init /\ [][Next]_vars

\* What nobody holds any more is destroyed and freed.
Spec == Safety /\ WF_vars(Destroy) /\ WF_vars(Free)
=============================================================================
