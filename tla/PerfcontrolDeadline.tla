------------------------- MODULE PerfcontrolDeadline -------------------------
(***************************************************************************)
(* The performance controller's one-shot deadline callback:                *)
(* arm/machine_routines.h, sched_perfcontrol_update_callback_deadline and  *)
(* the deadline_passed callout.                                            *)
(*                                                                         *)
(* There is one timer for the whole system.  update_callback_deadline arms *)
(* it with a new deadline and returns TRUE only when it cancelled a        *)
(* callback that was armed and had not yet fired; a callback already       *)
(* fired or in flight is not cancelled.  The timer runs when a non-idle    *)
(* core switches threads: the first switch after the deadline takes the    *)
(* timer (it is cancelled as it fires, and does not repeat) and calls      *)
(* deadline_passed with the deadline that was armed.  Each arming gets a   *)
(* sequence number, so the model can tell which arming a callout or a      *)
(* cancellation resolves.                                                  *)
(***************************************************************************)
EXTENDS Naturals, FiniteSets

CONSTANTS
    Cpus,        \* cores that switch threads
    Deadlines,   \* the deadlines the controller arms, in clock ticks
    MaxTime,     \* bound on the clock
    MaxArms      \* bound on the number of update_callback_deadline calls

NONE == [id |-> 0, deadline |-> 0]

VARIABLES
    now,         \* mach_absolute_time, in ticks
    timer,       \* the armed callback, or NONE
    in_flight,   \* in_flight[c]: the callback core c took and is calling out
    arms,        \* update_callback_deadline calls so far (the last id)
    cancelled,   \* ids an update returned TRUE for
    passed       \* ids deadline_passed was called for, with the argument

vars == <<now, timer, in_flight, arms, cancelled, passed>>

Init ==
    /\ now = 0
    /\ timer = NONE
    /\ in_flight = [c \in Cpus |-> NONE]
    /\ arms = 0
    /\ cancelled = {}
    /\ passed = {}

Tick ==
    /\ now < MaxTime
    /\ now' = now + 1
    /\ UNCHANGED <<timer, in_flight, arms, cancelled, passed>>

(* The mutant form also reports cancelling a callback already in flight.   *)
update_callback_deadline_cancels_in_flight(d) ==
    LET victims == {timer} \cup {in_flight[c] : c \in Cpus}
    IN /\ arms < MaxArms
       /\ cancelled' = cancelled \cup {v.id : v \in victims \ {NONE}}
       /\ timer' = [id |-> arms + 1, deadline |-> d]
       /\ arms' = arms + 1
       /\ UNCHANGED <<now, in_flight, passed>>

(* The mutant form numbers the new arming with the previous count.        *)
update_callback_deadline_stale_id(d) ==
    /\ arms < MaxArms
    /\ cancelled' = IF timer # NONE THEN cancelled \cup {timer.id} ELSE cancelled
    /\ timer' = [id |-> arms, deadline |-> d]
    /\ arms' = arms + 1
    /\ UNCHANGED <<now, in_flight, passed>>

(* sched_perfcontrol_update_callback_deadline(d): arm d, returning TRUE    *)
(* (recorded in cancelled) when an armed, unfired callback was replaced.   *)
sched_perfcontrol_update_callback_deadline(d) ==
    /\ arms < MaxArms
    /\ cancelled' = IF timer # NONE THEN cancelled \cup {timer.id} ELSE cancelled
    /\ timer' = [id |-> arms + 1, deadline |-> d]
    /\ arms' = arms + 1
    /\ UNCHANGED <<now, in_flight, passed>>

(* A context switch on core c after the deadline takes the timer, which is *)
(* cancelled as it fires.                                                  *)
ContextSwitchTakes(c) ==
    /\ timer # NONE /\ now >= timer.deadline
    /\ in_flight[c] = NONE
    /\ in_flight' = [in_flight EXCEPT ![c] = timer]
    /\ timer' = NONE
    /\ UNCHANGED <<now, arms, cancelled, passed>>

(* sched_perfcontrol_deadline_passed_t: the callout, with the deadline.    *)
deadline_passed(c) ==
    /\ in_flight[c] # NONE
    /\ passed' = passed \cup {<<in_flight[c].id, in_flight[c].deadline, now>>}
    /\ in_flight' = [in_flight EXCEPT ![c] = NONE]
    /\ UNCHANGED <<now, timer, arms, cancelled>>

Next ==
    \/ Tick
    \/ \E d \in Deadlines : sched_perfcontrol_update_callback_deadline(d)
    \/ \E c \in Cpus : ContextSwitchTakes(c) \/ deadline_passed(c)

Spec == Init /\ [][Next]_vars

-----------------------------------------------------------------------------
PassedIds == {p[1] : p \in passed}

TypeOK ==
    /\ now \in 0..MaxTime
    /\ arms \in 0..MaxArms
    /\ timer \in {NONE} \cup [id : 1..MaxArms, deadline : Deadlines]
    /\ in_flight \in [Cpus -> {NONE} \cup [id : 1..MaxArms, deadline : Deadlines]]
    /\ cancelled \subseteq 1..MaxArms
    /\ passed \subseteq (1..MaxArms) \X Deadlines \X (0..MaxTime)

(* Every arming is accounted for exactly once: it is still the armed       *)
(* timer, or in flight on one core, or an update returned TRUE for it, or  *)
(* deadline_passed was called for it, never two of these; so the TRUE/     *)
(* FALSE result of update_callback_deadline tells the controller exactly   *)
(* whether a deadline_passed for the old deadline is still to come, and    *)
(* each callout carries the deadline that arming set, already passed.      *)
DeadlineAccounting ==
    /\ \A id \in 1..arms :
        LET places == (IF timer.id = id THEN {"timer"} ELSE {})
                      \cup {c \in Cpus : in_flight[c].id = id}
                      \cup (IF id \in cancelled THEN {"cancelled"} ELSE {})
                      \cup (IF id \in PassedIds THEN {"passed"} ELSE {})
            calls == {p \in passed : p[1] = id}
        IN Cardinality(places) = 1 /\ Cardinality(calls) <= 1
    /\ \A p \in passed : p[2] <= p[3]
=============================================================================
