--------------------------- MODULE BoundedBuffer ---------------------------
(***************************************************************************)
(* What CraBlockdq promises its clients, without mutex and condition       *)
(* variables: a buffer of at most Capacity values on which a push pends    *)
(* only while the buffer is full and open, and a pop only while it is      *)
(* empty and open (src/inc/threads/cra_blockdq.h).                         *)
(***************************************************************************)
EXTENDS Naturals, Sequences

CONSTANTS Thread, Val, NoVal, Capacity, Policies, PushMayFail

VARIABLES buffer, noPush, noPop, policy, pending, answer
vars == <<buffer, noPush, noPop, policy, pending, answer>>

Idle == [op |-> "idle"]
IsFull == Len(buffer) = Capacity

\* Thread t's call ends with the answer (ok, out).
Answer(t, ok, out) ==
  /\ pending' = [pending EXCEPT ![t] = Idle]
  /\ answer' = [answer EXCEPT ![t] = [ok |-> ok, out |-> out]]

\* A value enters the buffer at an end, or leaves from it.
Enters(s, end, v) == IF end = "front" THEN <<v>> \o s ELSE s \o <<v>>
At(end)      == buffer[IF end = "front" THEN 1 ELSE Len(buffer)]
Without(end) == IF end = "front" THEN Tail(buffer)
                                 ELSE SubSeq(buffer, 1, Len(buffer) - 1)

\* The end that gives way to a value pushed at `end` on a full buffer.
Yields(end) == CHOOSE e \in {"front", "back"} :
                 (e = end) <=> (policy = "DROP_NEWEST")

\* t's value enters `kept`, or is lost for want of memory; either way t is
\* handed `out`.
Admit(t, end, v, kept, out) ==
  \/ buffer' = Enters(kept, end, v) /\ Answer(t, TRUE, out)
  \/ policy \in PushMayFail /\ buffer' = kept /\ Answer(t, FALSE, out)

PushAnswered(t, end, v) ==
  \/ /\ noPush \/ (IsFull /\ policy = "RETURN_FALSE")
     /\ Answer(t, FALSE, NoVal)
     /\ buffer' = buffer
  \/ /\ ~noPush /\ Len(buffer) < Capacity
     /\ Admit(t, end, v, buffer, NoVal)
  \/ /\ ~noPush /\ IsFull /\ policy \in {"DROP_NEWEST", "DROP_OLDEST"}
     /\ Admit(t, end, v, Without(Yields(end)), At(Yields(end)))

PopAnswered(t, end) ==
  \/ /\ noPop /\ buffer = << >>
     /\ Answer(t, FALSE, NoVal)
     /\ buffer' = buffer
  \/ /\ buffer # << >>
     /\ buffer' = Without(end)
     /\ Answer(t, TRUE, At(end))

\* A call is answered at once, or pends because the buffer makes it wait.
Push(t, end, v) ==
  /\ pending[t] = Idle
  /\ \/ PushAnswered(t, end, v)
     \/ /\ ~noPush /\ IsFull /\ policy = "WAIT"
        /\ pending' = [pending EXCEPT ![t] = [op |-> "push", end |-> end, val |-> v]]
        /\ UNCHANGED <<buffer, answer>>
  /\ UNCHANGED <<noPush, noPop, policy>>

Pop(t, end) ==
  /\ pending[t] = Idle
  /\ \/ PopAnswered(t, end)
     \/ /\ ~noPop /\ buffer = << >>
        /\ pending' = [pending EXCEPT ![t] = [op |-> "pop", end |-> end]]
        /\ UNCHANGED <<buffer, answer>>
  /\ UNCHANGED <<noPush, noPop, policy>>

\* A pending call is answered.
Finish(t) ==
  /\ \/ /\ pending[t].op = "push"
        /\ PushAnswered(t, pending[t].end, pending[t].val)
     \/ /\ pending[t].op = "pop"
        /\ PopAnswered(t, pending[t].end)
  /\ UNCHANGED <<noPush, noPop, policy>>

Close(t, how) ==
  /\ pending[t] = Idle
  /\ pending' = [pending EXCEPT ![t] = [op |-> "shutdown", how |-> how]]
  /\ UNCHANGED <<buffer, noPush, noPop, policy, answer>>

Closed(t) ==
  /\ pending[t].op = "shutdown"
  /\ noPush' = (noPush \/ "ENQUEUE" \in pending[t].how)
  /\ noPop'  = (noPop \/ "DEQUEUE" \in pending[t].how)
  /\ Answer(t, TRUE, NoVal)
  /\ UNCHANGED <<buffer, policy>>

Init ==
  /\ buffer = << >>
  /\ noPush = FALSE /\ noPop = FALSE
  /\ policy \in Policies
  /\ pending = [t \in Thread |-> Idle]
  /\ answer = [t \in Thread |-> [ok |-> FALSE, out |-> NoVal]]

Next == \E t \in Thread :
          \/ \E end \in {"front", "back"}, v \in Val : Push(t, end, v)
          \/ \E end \in {"front", "back"} : Pop(t, end)
          \/ \E how \in (SUBSET {"ENQUEUE", "DEQUEUE"}) \ {{}} : Close(t, how)
          \/ Closed(t)
          \/ Finish(t)

Safety == Init /\ [][Next]_vars

\* A call whose cause for waiting is gone for good is answered.
FairSpec == /\ Safety
            /\ \A t \in Thread : WF_vars(Finish(t)) /\ WF_vars(Closed(t))
=============================================================================
