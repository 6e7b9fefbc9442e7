-------------------------------- MODULE CDL --------------------------------
(***************************************************************************)
(* CraCDL (src/inc/threads/cra_cdl.h): a latch on which threads wait until *)
(* it has been counted down to zero.                                       *)
(*                                                                         *)
(* An operator whose comment starts with MUTANT is no part of the model:   *)
(* it is a slip the code could have, which the runs must notice.           *)
(***************************************************************************)
EXTENDS Integers, FiniteSets

CONSTANTS Thread,   \* the threads, a finite set
          Count     \* the count given to cra_cdl_init

\* What the module needs of its constants; cra_cdl_init takes any count.
CDLAssumption == IsFiniteSet(Thread) /\ Count \in Int

VARIABLES count,   \* may go below zero: every count_down decrements
          condi,   \* threads blocked on the condition variable
          latch    \* what each thread has done with the latch

vars == <<count, condi, latch>>

\* --cdl->count
Decremented(n) == n - 1

\* MUTANT: one waiter is signalled.
ReleasesOne(n) == IF n = 0 /\ condi # {} THEN condi \ {CHOOSE t \in condi : TRUE}
                                        ELSE condi

\* The threads still blocked when the count has become n.
Blocked(n) == IF n = 0 THEN {} ELSE condi

\* cra_cdl_count_down: only the decrement that reaches zero broadcasts.
CountDown(t) ==
  /\ latch[t] = "out"
  /\ count' = Decremented(count)
  /\ condi' = Blocked(count')
  /\ latch' = [latch EXCEPT ![t] = "counted"]

\* MUTANT: a waiter that was woken does not test the count again.
WaitOnce(t) ==
  /\ \/ /\ latch[t] = "out" /\ count > 0
        /\ condi' = condi \cup {t}
        /\ latch' = [latch EXCEPT ![t] = "waiting"]
     \/ /\ \/ latch[t] = "out" /\ count <= 0
           \/ latch[t] = "waiting" /\ t \notin condi
        /\ latch' = [latch EXCEPT ![t] = "through"]
        /\ condi' = condi
  /\ UNCHANGED count

\* cra_cdl_wait from the test of the loop to cond_wait or return, entered by a
\* call or by a thread that left the condition variable.
Wait(t) ==
  /\ \/ latch[t] = "out"
     \/ latch[t] = "waiting" /\ t \notin condi
  /\ \/ /\ count > 0
        /\ condi' = condi \cup {t}
        /\ latch' = [latch EXCEPT ![t] = "waiting"]
     \/ /\ count <= 0
        /\ latch' = [latch EXCEPT ![t] = "through"]
        /\ condi' = condi
  /\ UNCHANGED count

\* cra_cond_wait may return without a broadcast.
SpuriousWakeup(t) ==
  /\ t \in condi
  /\ condi' = condi \ {t}
  /\ UNCHANGED <<count, latch>>

Init == /\ count = Count
        /\ condi = {}
        /\ latch = [t \in Thread |-> "out"]

Next == \E t \in Thread : CountDown(t) \/ Wait(t) \/ SpuriousWakeup(t)

\* Calls are the clients' choice; a thread inside cra_cdl_wait runs on.
Fairness == \A t \in Thread : WF_vars(latch[t] = "waiting" /\ Wait(t))

Spec == Init /\ [][Next]_vars /\ Fairness
-----------------------------------------------------------------------------
Counted == {t \in Thread : latch[t] = "counted"}

\* Type invariant; the count is the initial one less the calls of count_down.
TypeOK ==
  /\ latch \in [Thread -> {"out", "waiting", "through", "counted"}]
  /\ condi \subseteq {t \in Thread : latch[t] = "waiting"}
  /\ count = Count - Cardinality(Counted)

\* No thread passes the latch before Count threads have counted down, however
\* often it was woken.
NobodyPassesEarly ==
  (\E t \in Thread : latch[t] = "through") => Cardinality(Counted) >= Count

\* The single broadcast, at zero, is enough: afterwards nobody is blocked,
\* neither the threads that waited nor those that come late, even when the
\* count has gone below zero.
NobodyLeftBehind == Cardinality(Counted) >= Count => condi = {}

\* cra_cdl_wait returns only after the count has been reached, and then nobody
\* is blocked in it any more.
LatchHolds == NobodyPassesEarly /\ NobodyLeftBehind

\* Every thread inside cra_cdl_wait returns once the count has been reached,
\* which it then stays.
WaitersPass ==
  []<>(Cardinality(Counted) >= Count => \A t \in Thread : latch[t] # "waiting")
=============================================================================
