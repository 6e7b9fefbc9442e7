------------------------------ MODULE Blockdq ------------------------------
(***************************************************************************)
(* CraBlockdq (src/src/threads/cra_blockdq.c): a bounded double-ended      *)
(* queue shared by threads, guarded by one mutex and two condition         *)
(* variables.                                                              *)
(*                                                                         *)
(* A critical section runs with the mutex held, so it is one action.  A    *)
(* thread leaves a critical section by returning or by cra_cond_wait; the  *)
(* sets not_full and not_empty hold the threads blocked on the condition   *)
(* variables of those names.  A thread taken out of the set by a signal, a *)
(* broadcast or a spurious wake-up still has its call pending: it must win *)
(* the mutex again, in competition with every other thread, and test the   *)
(* loop's condition anew.                                                  *)
(*                                                                         *)
(* CraDeque is a sequence here; PushMayFail lets a push into it run out of *)
(* memory, which the callers see as the result false.                      *)
(*                                                                         *)
(* An operator whose comment starts with MUTANT is no part of the model:   *)
(* it is a slip the code could have, which the runs must notice.           *)
(***************************************************************************)
EXTENDS Naturals, Sequences, FiniteSets, SequencesExt

CONSTANTS Thread,       \* the threads that share the queue
          Val,          \* the values pushed; each enters the queue at most once
          NoVal,        \* "nothing was written to retval / retdrop"
          MaxCapacity,  \* max_capacity
          Policies,     \* the values considered for full_policy
          PushMayFail   \* the policies considered together with failures of
                        \* cra_deque_push_* to allocate a block

FullPolicies == {"WAIT", "DROP_NEWEST", "DROP_OLDEST", "RETURN_FALSE"}
DropPolicies == {"DROP_NEWEST", "DROP_OLDEST"}

ASSUME BlockdqAssumption ==
  /\ MaxCapacity \in Nat \ {0}
  /\ Policies \subseteq FullPolicies /\ PushMayFail \subseteq Policies
  /\ NoVal \notin Val
  /\ IsFiniteSet(Thread)

VARIABLES deque,      \* the content, front first
          en_colsed,  \* no value enters any more
          de_colsed,  \* nobody waits for a value any more
          full_policy,
          not_full,   \* threads blocked on the condition variable not_full
          not_empty,  \* threads blocked on the condition variable not_empty
          call,       \* the call each thread is inside of
          result,     \* what the last call of each thread returned
          accepted, taken, dropped  \* history: values that went in, out by
                                    \* a pop, and out through retdrop

fieldVars == <<en_colsed, de_colsed, full_policy>>
queueVars == <<deque, fieldVars>>
condVars  == <<not_full, not_empty>>
history   == <<accepted, taken, dropped>>
vars      == <<queueVars, condVars, call, result, history>>

(***************************************************************************)
(* Calls and results.                                                      *)
(***************************************************************************)
End  == {"front", "back"}
Half == {"ENQUEUE", "DEQUEUE"}          \* the bits of `how` in a shutdown

Idle              == [op |-> "idle"]
PushCall(end, v)  == [op |-> "push", end |-> end, val |-> v]
PopCall(end)      == [op |-> "pop", end |-> end]
ShutdownCall(how) == [op |-> "shutdown", how |-> how]

Call == [op : {"idle"}]
          \cup [op : {"push"}, end : End, val : Val]
          \cup [op : {"pop"}, end : End]
          \cup [op : {"shutdown"}, how : (SUBSET Half) \ {{}}]

Result == [ok : BOOLEAN, out : Val \cup {NoVal}]

Return(t, ok, out) == /\ call' = [call EXCEPT ![t] = Idle]
                      /\ result' = [result EXCEPT ![t] = [ok |-> ok, out |-> out]]

(***************************************************************************)
(* The two ends of the sequence.                                           *)
(***************************************************************************)
\* MUTANT: the element is read and left in the queue.
RemovesNothing(s, end) == s

Other(end)        == IF end = "front" THEN "back" ELSE "front"
Insert(s, end, v) == IF end = "front" THEN <<v>> \o s ELSE Append(s, v)
Remove1(s, end)   == IF end = "front" THEN Tail(s) ELSE Front(s)
Peek(s, end)      == IF end = "front" THEN Head(s) ELSE Last(s)

\* MUTANT: off by one, in either direction.
FullTooLate  == Len(deque) = MaxCapacity + 1
FullTooEarly == Len(deque) = MaxCapacity - 1

Full == Len(deque) = MaxCapacity

\* The possible sets of blocked threads after cra_cond_signal on a condition
\* variable whose blocked threads are `blocked`.
AfterSignal(blocked) == IF blocked = {} THEN {{}}
                                        ELSE {blocked \ {t} : t \in blocked}

\* MUTANT: the signal is forgotten.
WakesNoPopper == not_empty' = not_empty
WakesNoPusher == not_full' = not_full

\* cra_cond_signal of not_empty, after an element went in, and of not_full,
\* after one was taken out.
WakesPopper == not_empty' \in AfterSignal(not_empty)
WakesPusher == not_full' \in AfterSignal(not_full)

\* MUTANT: the broadcast is forgotten.
ReleasesNobody(closes, blocked) == blocked

\* cra_cond_broadcast, if this shutdown closes the half.
Released(closes, blocked) == IF closes THEN {} ELSE blocked

(***************************************************************************)
(* cra_blockdq_push_back and cra_blockdq_push_front, from the test of the  *)
(* loop to the unlock.                                                     *)
(***************************************************************************)
\* MUTANT: the pusher waits on the condition variable of the poppers.
PushWaitsOnNotEmpty(t, end, v) ==
  /\ ~en_colsed /\ Full /\ full_policy = "WAIT"
  /\ not_empty' = not_empty \cup {t}
  /\ call' = [call EXCEPT ![t] = PushCall(end, v)]
  /\ UNCHANGED <<queueVars, not_full, result, history>>

\* The policy WAIT on a full queue: release the mutex inside cra_cond_wait.
PushWaits(t, end, v) ==
  /\ ~en_colsed /\ Full /\ full_policy = "WAIT"
  /\ not_full' = not_full \cup {t}
  /\ call' = [call EXCEPT ![t] = PushCall(end, v)]
  /\ UNCHANGED <<queueVars, not_empty, result, history>>

\* Closed for enqueue, or full under the policy RETURN_FALSE.
PushRefused(t) ==
  /\ \/ en_colsed
     \/ Full /\ full_policy = "RETURN_FALSE"
  /\ Return(t, FALSE, NoVal)
  /\ UNCHANGED <<queueVars, condVars, history>>

\* MUTANT: the ends are swapped.
VictimSwapped(end) == IF full_policy = "DROP_NEWEST" THEN Other(end) ELSE end

\* The end a full queue gives up: DROP_NEWEST the end pushed at, DROP_OLDEST
\* the opposite one.
Victim(end) == IF full_policy = "DROP_NEWEST" THEN end ELSE Other(end)

\* MUTANT: retdrop gets the element at the end that stays.
DisplacedOpposite(end) == Peek(deque, Other(Victim(end)))

\* The element that is displaced and handed out through retdrop.
Displaced(end) == Peek(deque, Victim(end))

\* MUTANT: a pusher that was woken does not test the flag again.
AdmitsWhenClosed == Full => full_policy \in DropPolicies

\* The loop is left with the half open, and room or a policy to make room.
Admits == /\ ~en_colsed
          /\ Full => full_policy \in DropPolicies

\* The value goes in, after a drop if the queue is full; one blocked popper
\* is signalled.  A push that cannot allocate has already dropped.
PushAccepted(t, end, v) ==
  /\ Admits
  /\ LET kept == IF Full THEN Remove1(deque, Victim(end)) ELSE deque
         drop == IF Full THEN {Displaced(end)} ELSE {}
         out  == IF Full THEN Displaced(end) ELSE NoVal
     IN  /\ dropped' = dropped \cup drop
         /\ \/ /\ deque' = Insert(kept, end, v)
               /\ accepted' = accepted \cup {v}
               /\ WakesPopper
               /\ Return(t, TRUE, out)
            \/ /\ full_policy \in PushMayFail
               /\ deque' = kept
               /\ Return(t, FALSE, out)
               /\ UNCHANGED <<accepted, not_empty>>
  /\ UNCHANGED <<fieldVars, not_full, taken>>

PushSection(t, end, v) == \/ PushWaits(t, end, v)
                          \/ PushRefused(t)
                          \/ PushAccepted(t, end, v)

(***************************************************************************)
(* cra_blockdq_pop_back and cra_blockdq_pop_front, likewise.  A queue that *)
(* is closed for dequeue still hands out what it holds.                    *)
(***************************************************************************)
PopWaits(t, end) ==
  /\ ~de_colsed /\ deque = << >>
  /\ not_empty' = not_empty \cup {t}
  /\ call' = [call EXCEPT ![t] = PopCall(end)]
  /\ UNCHANGED <<queueVars, not_full, result, history>>

PopTakes(t, end) ==
  /\ deque # << >>
  /\ deque' = Remove1(deque, end)
  /\ taken' = taken \cup {Peek(deque, end)}
  /\ WakesPusher
  /\ Return(t, TRUE, Peek(deque, end))
  /\ UNCHANGED <<fieldVars, not_empty, accepted, dropped>>

PopRefused(t) ==
  /\ de_colsed /\ deque = << >>
  /\ Return(t, FALSE, NoVal)
  /\ UNCHANGED <<queueVars, condVars, history>>

PopSection(t, end) == \/ PopWaits(t, end)
                      \/ PopTakes(t, end)
                      \/ PopRefused(t)

(***************************************************************************)
(* cra_blockdq_shutdown: the assertion reads both flags before the mutex   *)
(* is taken, the rest is a critical section of its own.                    *)
(***************************************************************************)
ShutdownEnter(t, how) ==
  /\ call[t] = Idle
  /\ ~en_colsed \/ ~de_colsed
  /\ call' = [call EXCEPT ![t] = ShutdownCall(how)]
  /\ UNCHANGED <<queueVars, condVars, result, history>>

ShutdownSection(t) ==
  /\ call[t].op = "shutdown"
  /\ en_colsed' = (en_colsed \/ "ENQUEUE" \in call[t].how)
  /\ de_colsed' = (de_colsed \/ "DEQUEUE" \in call[t].how)
  /\ not_full'  = Released(en_colsed' # en_colsed, not_full)
  /\ not_empty' = Released(de_colsed' # de_colsed, not_empty)
  /\ Return(t, TRUE, NoVal)
  /\ UNCHANGED <<deque, full_policy, history>>

(***************************************************************************)
(* The behaviours.                                                         *)
(***************************************************************************)
\* v is not, and never was, in the queue, and no call is about to push it.
Fresh(v) == /\ v \notin accepted
            /\ \A t \in Thread : call[t].op = "push" => call[t].val # v

Push(t, end, v) == call[t] = Idle /\ Fresh(v) /\ PushSection(t, end, v)
Pop(t, end)     == call[t] = Idle /\ PopSection(t, end)

\* A thread that left its condition variable gets the mutex back.
Resume(t) ==
  \/ /\ call[t].op = "push" /\ t \notin not_full
     /\ PushSection(t, call[t].end, call[t].val)
  \/ /\ call[t].op = "pop" /\ t \notin not_empty
     /\ PopSection(t, call[t].end)

\* POSIX lets cra_cond_wait return without a signal.
SpuriousWakeup(t) ==
  /\ t \in not_full \cup not_empty
  /\ not_full'  = not_full \ {t}
  /\ not_empty' = not_empty \ {t}
  /\ UNCHANGED <<queueVars, call, result, history>>

Init ==
  /\ deque = << >>
  /\ en_colsed = FALSE /\ de_colsed = FALSE
  /\ full_policy \in Policies
  /\ not_full = {} /\ not_empty = {}
  /\ call = [t \in Thread |-> Idle]
  /\ result = [t \in Thread |-> [ok |-> FALSE, out |-> NoVal]]
  /\ accepted = {} /\ taken = {} /\ dropped = {}

Next == \E t \in Thread :
          \/ \E end \in End, v \in Val : Push(t, end, v)
          \/ \E end \in End : Pop(t, end)
          \/ \E how \in (SUBSET Half) \ {{}} : ShutdownEnter(t, how)
          \/ ShutdownSection(t)
          \/ Resume(t)
          \/ SpuriousWakeup(t)

Spec == Init /\ [][Next]_vars

\* A runnable thread is eventually scheduled and gets the mutex when it keeps
\* asking for it.  Nothing makes a client call, and no wake-up is spurious by
\* obligation.
Fairness == \A t \in Thread : WF_vars(Resume(t)) /\ WF_vars(ShutdownSection(t))

FairSpec == Spec /\ Fairness

-----------------------------------------------------------------------------
(***************************************************************************)
(* What the queue guarantees.                                              *)
(***************************************************************************)
\* Type invariant of the fields of CraBlockdq and of the threads' calls; a
\* thread blocked on a condition variable is inside the matching call.
TypeOK ==
  /\ deque \in Seq(Val)
  /\ en_colsed \in BOOLEAN /\ de_colsed \in BOOLEAN
  /\ full_policy \in Policies
  /\ not_full \subseteq {t \in Thread : call[t].op = "push"}
  /\ not_empty \subseteq {t \in Thread : call[t].op = "pop"}
  /\ call \in [Thread -> Call]
  /\ result \in [Thread -> Result]
  /\ accepted \subseteq Val /\ taken \subseteq Val /\ dropped \subseteq Val

\* The number of elements never exceeds max_capacity, whichever pushers were
\* woken at once and whoever overtook them at the mutex.
WithinCapacity == Len(deque) <= MaxCapacity

\* Threads inside a call of kind op that are not blocked: they are on their
\* way to the mutex and will test the loop's condition again.
Woken(op, blocked) == {t \in Thread : call[t].op = op} \ blocked

\* cra_cond_signal(not_full) is sent once per element removed: as long as a
\* pusher is blocked, every free place has a woken pusher heading for it.
NoLostSpace ==
  not_full # {} =>
    Len(deque) + Cardinality(Woken("push", not_full)) >= MaxCapacity

\* cra_cond_signal(not_empty) is sent once per element added: as long as a
\* popper is blocked, every element has a woken popper heading for it.
NoLostItem ==
  not_empty # {} => Cardinality(Woken("pop", not_empty)) >= Len(deque)

\* The broadcasts of cra_blockdq_shutdown leave nobody blocked on a closed
\* half, and nobody blocks on it later.
ClosedHalfIsFree == (en_colsed => not_full = {}) /\ (de_colsed => not_empty = {})

\* Every value whose push returned true is in the queue exactly once until it
\* leaves through exactly one retval or retdrop: none is lost, duplicated or
\* invented by drops, wake-ups and closing.
Conservation ==
  /\ IsInjective(deque)
  /\ ToSet(deque) = accepted \ (taken \cup dropped)
  /\ taken \cup dropped \subseteq accepted
  /\ taken \cap dropped = {}

\* Once the queue is closed for enqueue nothing enters it, not even the value
\* of a pusher that was blocked when the shutdown ran.
NothingEntersClosed == [][en_colsed => accepted' = accepted]_vars

\* The queue implements a bounded buffer whose calls block only for cause and
\* complete once the cause is gone for good (see BoundedBuffer).
Buffer == INSTANCE BoundedBuffer
            WITH buffer <- deque, noPush <- en_colsed, noPop <- de_colsed,
                 policy <- full_policy, pending <- call, answer <- result,
                 Capacity <- MaxCapacity
BufferSpec == Buffer!FairSpec

=============================================================================
