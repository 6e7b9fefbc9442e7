----------------------------- MODULE Timewheel -----------------------------
(***************************************************************************)
(* CraTimewheel (src/src/cra_timewheel.c): wheels of slots, each turning   *)
(* one slot when the wheel below has turned once.  A timer waits in a slot *)
(* of the wheel its timeout calls for, and moves down a wheel when the     *)
(* slot comes up.                                                          *)
(*                                                                         *)
(* A call of cra_timewheel_tick is many steps, as it runs callbacks that   *)
(* may add and cancel timers: the wheels turn, then the slots that came up *)
(* are swept, the highest wheel first.  A list in a slot is a sequence,    *)
(* head first.  List nodes are counted.  The fields of a timer outside the  *)
(* wheels are forgotten: cra_timewheel_add finds them set again.           *)
(*                                                                         *)
(* An operator whose comment starts with MUTANT is no part of the model:   *)
(* it is a slip the code could have, which the runs must notice.           *)
(***************************************************************************)
EXTENDS Integers, Sequences, FiniteSets, FiniteSetsExt, SequencesExt

CONSTANTS Timer, NoTimer,
          TickMs, WheelSize,  \* the arguments of cra_timewheel_init
          Modulus,            \* 2^32, the range of uint32_t
          MaxLevel,           \* the highest wheel the timeouts call for
          Timeouts, Repeats,  \* what cra_timer_base_init is given
          Infinite            \* CRA_TIMER_INFINITE

\* What the module needs of its constants.
TimewheelAssumption ==
  /\ IsFiniteSet(Timer) /\ NoTimer \notin Timer
  /\ {TickMs, WheelSize, Modulus, Infinite} \subseteq Nat \ {0}
  /\ MaxLevel \in Nat
  /\ Timeouts \subseteq 1 .. Modulus - 1
  /\ Repeats \subseteq 1 .. Infinite

Level == 0 .. MaxLevel
Slot  == 0 .. WheelSize - 1

VARIABLES depth,    \* how many wheels there are
          current, bucket,                 \* fields of the wheels
          active, repeat, timeout_ms,      \* fields of the timers
          phase,    \* where the thread that owns the wheel is
          sweep,    \* the wheel whose slot is being swept
          timer,    \* the timer whose on_timeout is running
          free,     \* how many nodes the free node list holds
          nodes,    \* how many nodes are allocated and not lost
          inWheel,  \* history: added, and on_remove_timer not called since
          age,      \* history: ticks since the timer was last armed
          asked,    \* history: the number of repeats asked for
          fired     \* history: how often on_timeout was called since the add

wheels  == <<depth, current, bucket>>
fields  == <<active, repeat, timeout_ms>>
tick    == <<phase, sweep, timer>>
memory  == <<free, nodes>>
history == <<inWheel, age, asked, fired>>
vars    == <<wheels, fields, tick, memory, history>>

(***************************************************************************)
(* Where a timer goes.                                                     *)
(***************************************************************************)
\* tick_ms of the wheel at a level, in uint32_t.
tick_ms[l \in Level] == IF l = 0 THEN TickMs
                               ELSE (tick_ms[l - 1] * WheelSize) % Modulus

\* MUTANT: a timeout of a whole turn is put into the wheel.
FitsTooMuch(l, ms) == ms <= (tick_ms[l] * WheelSize) % Modulus

\* The test at line 112.
Fits(l, ms) == ms < (tick_ms[l] * WheelSize) % Modulus

\* No tick is 0 in uint32_t, and there is a wheel for every timeout, as the code
\* takes for granted.
WheelsAssumption ==
  /\ \A l \in Level : tick_ms[l] # 0
  /\ \A ms \in Timeouts : \E l \in Level : Fits(l, ms)

\* cra_timewheel_add_node goes up to the first wheel whose turn is longer.
LevelOf(ms) == CHOOSE l \in Level : Fits(l, ms) /\ \A k \in 0 .. l - 1 : ~Fits(k, ms)

\* MUTANT: a remainder below a tick is put into the slot being swept.
SlotOfRemainder(l, ms) == (current[l] + ms \div tick_ms[l]) % WheelSize

\* The slot of cra_timewheel_add_node_to.
SlotOf(l, ms) == (current[l] + Max({ms, tick_ms[l]}) \div tick_ms[l]) % WheelSize

PutAt(b, l, s, t) == [b EXCEPT ![<<l, s>>] = <<t>> \o @]

\* cra_timewheel_add_node, which makes the wheels that are missing.
AddNode(b, t, ms) ==
  LET l == LevelOf(ms)
  IN  /\ depth' = Max({depth, l + 1})
      /\ bucket' = PutAt(b, l, SlotOf(l, ms), t)

\* cra_timewheel_add_node when one of these wheels cannot be made; those below
\* it stay.
NoWheel(ms) == depth' \in depth .. LevelOf(ms)

(***************************************************************************)
(* Calls of the client, between ticks or from inside a callback.           *)
(***************************************************************************)
Outside == phase \in {"idle", "callback", "removing"}

\* cra_freenodelist_get
TakesNode == IF free > 0 THEN free' = free - 1 /\ nodes' = nodes
                         ELSE free' = free /\ nodes' = nodes + 1

\* cra_timer_base_init and cra_timewheel_add.  A timer is in at most one place.
\* An add that gets no node changes nothing.
Add(t, ms, n) ==
  /\ Outside /\ t \notin inWheel
  /\ active' = [active EXCEPT ![t] = TRUE]
  /\ repeat' = [repeat EXCEPT ![t] = n]
  /\ timeout_ms' = [timeout_ms EXCEPT ![t] = ms]
  /\ AddNode(bucket, t, ms)
  /\ TakesNode
  /\ inWheel' = inWheel \cup {t}
  /\ asked' = [asked EXCEPT ![t] = n]
  /\ UNCHANGED <<current, tick, age, fired>>

\* cra_timewheel_add gets a node but no wheel: the node is lost, to the free
\* list as well if it came from there.
AddFails(ms) ==
  /\ Outside /\ inWheel # Timer
  /\ NoWheel(ms)
  /\ free' = Max({0, free - 1})
  /\ nodes' = nodes - (free - free')
  /\ UNCHANGED <<current, bucket, fields, tick, history>>

\* cra_timer_base_set_deactive
Cancel(t) ==
  /\ Outside /\ t \in inWheel /\ active[t]
  /\ active' = [active EXCEPT ![t] = FALSE]
  /\ UNCHANGED <<wheels, repeat, timeout_ms, tick, memory, history>>

\* cra_timer_base_set_active, of a timer that was cancelled and is still queued.
Activate(t) ==
  /\ Outside /\ t \in inWheel /\ ~active[t]
  /\ active' = [active EXCEPT ![t] = TRUE]
  /\ UNCHANGED <<wheels, repeat, timeout_ms, tick, memory, history>>

\* cra_timer_base_set_repeat: from on_timeout, that firing is the first.
SetRepeat(t, n) ==
  /\ Outside /\ t \in inWheel
  /\ repeat' = [repeat EXCEPT ![t] = n]
  /\ asked' = [asked EXCEPT ![t] = n]
  /\ fired' = [fired EXCEPT ![t] = IF t = timer /\ n # Infinite THEN 1 ELSE 0]
  /\ UNCHANGED <<wheels, active, timeout_ms, tick, memory, inWheel, age>>

\* cra_timer_base_set_timeout, for the next round: the place of a queued timer
\* was chosen for the timeout that it has.
SetTimeout(ms) ==
  /\ phase = "callback"
  /\ timeout_ms' = [timeout_ms EXCEPT ![timer] = ms]
  /\ UNCHANGED <<wheels, active, repeat, tick, memory, history>>

\* cra_timewheel_release_all_free_timers
ReleaseFree ==
  /\ Outside /\ free > 0
  /\ free' = 0
  /\ nodes' = nodes - free
  /\ UNCHANGED <<wheels, fields, tick, history>>

(***************************************************************************)
(* cra_timewheel_tick.                                                     *)
(***************************************************************************)
\* A wheel turns when all the wheels below it come full circle.
Turns(l) == l < depth /\ \A k \in 0 .. l - 1 : current[k] = WheelSize - 1

TickBegins ==
  /\ phase = "idle"
  /\ current' = [l \in Level |-> IF Turns(l) THEN (current[l] + 1) % WheelSize
                                             ELSE current[l]]
  /\ sweep' = Max({l \in Level : Turns(l)})
  /\ phase' = "sweeping"
  /\ age' = [t \in Timer |-> IF t \in inWheel THEN age[t] + 1 ELSE age[t]]
  /\ UNCHANGED <<depth, bucket, fields, timer, memory, inWheel, asked, fired>>

Here == bucket[<<sweep, current[sweep]>>]

\* MUTANT: the node stays in the slot.
RestUnchanged == bucket

\* The slot without its head: cra_llist_remove_node.
Rest == [bucket EXCEPT ![<<sweep, current[sweep]>>] = Tail(@)]

SlotIsEmpty ==
  /\ phase = "sweeping" /\ Here = << >>
  /\ IF sweep = 0 THEN phase' = "idle" /\ sweep' = 0
                  ELSE phase' = phase /\ sweep' = sweep - 1
  /\ UNCHANGED <<wheels, fields, timer, memory, history>>

\* What a timer that leaves the wheels leaves behind.
Forget(T) ==
  /\ active' = [t \in Timer |-> t \notin T /\ active[t]]
  /\ repeat' = [t \in Timer |-> IF t \in T THEN 0 ELSE repeat[t]]
  /\ timeout_ms' = [t \in Timer |-> IF t \in T THEN 0 ELSE timeout_ms[t]]
  /\ inWheel' = inWheel \ T
  /\ age' = [t \in Timer |-> IF t \in T THEN 0 ELSE age[t]]
  /\ asked' = [t \in Timer |-> IF t \in T THEN 0 ELSE asked[t]]
  /\ fired' = [t \in Timer |-> IF t \in T THEN 0 ELSE fired[t]]

\* release_timer: on_remove_timer is called, the node in hand.
ReleaseTimer(t) == phase' = "removing" /\ timer' = NoTimer /\ Forget({t})

\* cra_freenodelist_put
Recycled == free' = free + 1

\* on_remove_timer returns, and the node goes to the free node list.
RemoveReturns ==
  /\ phase = "removing"
  /\ phase' = "sweeping"
  /\ Recycled
  /\ UNCHANGED <<wheels, fields, sweep, timer, nodes, history>>

DropInactive ==
  /\ phase = "sweeping" /\ Here # << >> /\ ~active[Head(Here)]
  /\ bucket' = Rest
  /\ ReleaseTimer(Head(Here))
  /\ UNCHANGED <<depth, current, sweep, memory>>

\* What is left of the timeout when the slot of an upper wheel comes up.
Remainder(t) == timeout_ms[t] % tick_ms[sweep]

MoveDown ==
  /\ phase = "sweeping" /\ sweep > 0 /\ Here # << >> /\ active[Head(Here)]
  /\ LET t == Head(Here)
     IN  bucket' = PutAt(Rest, sweep - 1, SlotOf(sweep - 1, Remainder(t)), t)
  /\ UNCHANGED <<depth, current, fields, tick, memory, history>>

Fire ==
  /\ phase = "sweeping" /\ sweep = 0 /\ Here # << >> /\ active[Head(Here)]
  /\ bucket' = Rest
  /\ phase' = "callback"
  /\ timer' = Head(Here)
  /\ fired' = [fired EXCEPT ![timer'] = IF asked[timer'] = Infinite THEN 0 ELSE @ + 1]
  /\ UNCHANGED <<depth, current, fields, sweep, memory, inWheel, age, asked>>

\* MUTANT: the timer is armed once more than it was asked to.
GoesOnOnceMore(t) == active[t] /\ repeat[t] > 0

\* The test at line 169.
GoesOn(t) == active[t] /\ (repeat[t] = Infinite \/ repeat[t] > 1)

\* on_timeout returns; the timer is armed again or leaves the wheel.
Rearm ==
  /\ phase = "callback" /\ GoesOn(timer)
  /\ repeat' = [repeat EXCEPT ![timer] = IF @ = Infinite THEN @ ELSE @ - 1]
  /\ AddNode(bucket, timer, timeout_ms[timer])
  /\ age' = [age EXCEPT ![timer] = 0]
  /\ phase' = "sweeping" /\ timer' = NoTimer
  /\ UNCHANGED <<current, active, timeout_ms, sweep, memory, inWheel, asked, fired>>

\* Its new timeout calls for a wheel that cannot be made.
RearmFails ==
  /\ phase = "callback" /\ GoesOn(timer)
  /\ NoWheel(timeout_ms[timer])
  /\ ReleaseTimer(timer)
  /\ UNCHANGED <<current, bucket, sweep, memory>>

LeavesWheel ==
  /\ phase = "callback" /\ ~GoesOn(timer)
  /\ ReleaseTimer(timer)
  /\ UNCHANGED <<wheels, sweep, memory>>

\* cra_timewheel_uninit: on_remove_timer for every timer, which must not use the
\* wheels any more, and all nodes freed that are in a list.
Uninit ==
  /\ phase = "idle"
  /\ phase' = "gone"
  /\ bucket' = [p \in Level \X Slot |-> << >>]
  /\ Forget(Timer)
  /\ free' = 0 /\ nodes' = 0
  /\ UNCHANGED <<depth, current, sweep, timer>>

(***************************************************************************)
(* The behaviours.                                                         *)
(***************************************************************************)
Init ==
  /\ depth = 1
  /\ current = [l \in Level |-> 0]
  /\ bucket = [p \in Level \X Slot |-> << >>]
  /\ active = [t \in Timer |-> FALSE]
  /\ repeat = [t \in Timer |-> 0]
  /\ timeout_ms = [t \in Timer |-> 0]
  /\ phase = "idle" /\ sweep = 0 /\ timer = NoTimer
  /\ free = 0 /\ nodes = 0
  /\ inWheel = {}
  /\ age = [t \in Timer |-> 0]
  /\ asked = [t \in Timer |-> 0]
  /\ fired = [t \in Timer |-> 0]

Sweep == \/ SlotIsEmpty \/ DropInactive \/ MoveDown \/ Fire
         \/ Rearm \/ RearmFails \/ LeavesWheel \/ RemoveReturns

Next == \/ \E t \in Timer, ms \in Timeouts, n \in Repeats : Add(t, ms, n)
        \/ \E ms \in Timeouts : AddFails(ms) \/ SetTimeout(ms)
        \/ \E t \in Timer : Cancel(t) \/ Activate(t)
        \/ \E t \in Timer, n \in Repeats : SetRepeat(t, n)
        \/ ReleaseFree
        \/ TickBegins
        \/ Sweep
        \/ Uninit

\* A call of cra_timewheel_tick runs on, and so do the callbacks it makes.
Fairness == WF_vars(Sweep)

Spec == Init /\ [][Next]_vars /\ Fairness
-----------------------------------------------------------------------------
\* Where a timer is in the slots.
Places(t) == UNION {{<<p, n>> : n \in {m \in DOMAIN bucket[p] : bucket[p][m] = t}} :
                      p \in Level \X Slot}

\* Type invariant.
TypeOK ==
  /\ depth \in 1 .. MaxLevel + 1
  /\ current \in [Level -> Slot]
  /\ bucket \in [Level \X Slot -> Seq(Timer)]
  /\ active \in [Timer -> BOOLEAN]
  /\ repeat \in [Timer -> 0 .. Infinite] /\ timeout_ms \in [Timer -> Timeouts \cup {0}]
  /\ phase \in {"idle", "sweeping", "callback", "removing", "gone"}
  /\ sweep \in Level /\ timer \in Timer \cup {NoTimer}
  /\ free \in Nat /\ nodes \in Nat
  /\ inWheel \subseteq Timer
  /\ \A l \in Level : l >= depth => current[l] = 0

\* A timer is in one place from its add until on_remove_timer is called for it:
\* moving down, firing, re-arming and cancelling neither lose nor double it, and
\* an add that failed leaves no trace of it.  Its node is in that slot or in the
\* hand of a running tick, and the others are free.
OnePlace ==
  /\ \A t \in Timer : Cardinality(Places(t)) = IF t \in inWheel \ {timer} THEN 1 ELSE 0
  /\ nodes = Cardinality(inWheel) + free + (IF phase = "removing" THEN 1 ELSE 0)

\* A timer misses its timeout by less than the tick of its wheel, early or late,
\* and by a tick of each wheel below; one that fits the lowest wheel fires after
\* exactly the ticks its timeout makes, and at least one.
Slack(l)   == SumSet({tick_ms[k] : k \in 0 .. l})
NotLate(t) == age[t] * TickMs <= timeout_ms[t] + Slack(LevelOf(timeout_ms[t]))
InTime(t)  ==
  LET l == LevelOf(timeout_ms[t])
  IN  /\ age[t] * TickMs >= timeout_ms[t] - Slack(l)
      /\ l = 0 => age[t] = Max({1, timeout_ms[t] \div TickMs})
FiresInTime == /\ [](\A t \in inWheel \ {timer} : NotLate(t))
               /\ [][Fire => InTime(Head(Here))]_vars

\* A timer that is not cancelled fires as often as it was asked to last, unless
\* there is no memory for the wheel its new timeout calls for.
FiresAsAsked ==
  [][\A t \in Timer : t \in inWheel \ inWheel' /\ active[t] /\ phase # "idle"
       => fired[t] = asked[t] \/ LevelOf(timeout_ms[t]) >= depth']_vars

\* Every call of cra_timewheel_tick returns, if callbacks do.
TickReturns == []<>(phase \in {"idle", "gone"})
=============================================================================
