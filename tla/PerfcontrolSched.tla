--------------------------- MODULE PerfcontrolSched ---------------------------
(***************************************************************************)
(* The performance controller's deadline timer running inside the          *)
(* scheduler's context switches: arm/machine_routines.h says the timer set *)
(* by sched_perfcontrol_update_callback_deadline "executes as the          *)
(* scheduler switches between threads, on a non-idle core", and that       *)
(* deadline_passed is called in context-switch/quantum-interrupt context.  *)
(*                                                                         *)
(* The callout protocol of PerfcontrolCallouts and the timer of            *)
(* PerfcontrolDeadline share the cores: the timer is taken only by a core  *)
(* running a thread (a switch away from it or its quantum interrupt).      *)
(***************************************************************************)
EXTENDS Naturals

CONSTANTS Cpus, Threads, NoThread, Deadlines, MaxTime, MaxArms

VARIABLES cur, runq, blocked, dead, offpend, onpend,
          now, timer, in_flight, arms, cancelled, passed

CO == INSTANCE PerfcontrolCallouts
DL == INSTANCE PerfcontrolDeadline

covars == <<cur, runq, blocked, dead, offpend, onpend>>
dlvars == <<now, timer, in_flight, arms, cancelled, passed>>
vars == <<covars, dlvars>>

Init == CO!Init /\ DL!Init

(* The mutant form services the global timer on one fixed core only, as a *)
(* per-core timer armed on the boot core would.                            *)
TimerRuns_one_core(c) ==
    /\ c = CHOOSE x \in Cpus : TRUE
    /\ cur[c] # NoThread
    /\ DL!ContextSwitchTakes(c)
    /\ UNCHANGED covars

(* The timer runs on any core c, but only while c is not idle.             *)
TimerRuns(c) ==
    /\ cur[c] # NoThread
    /\ DL!ContextSwitchTakes(c)
    /\ UNCHANGED covars

Next ==
    \/ CO!Next /\ UNCHANGED dlvars
    \/ DL!Tick /\ UNCHANGED covars
    \/ \E d \in Deadlines :
          DL!sched_perfcontrol_update_callback_deadline(d) /\ UNCHANGED covars
    \/ \E c \in Cpus : TimerRuns(c) \/ (DL!deadline_passed(c) /\ UNCHANGED covars)

(* Time passes, a started callout completes, and a core that keeps running *)
(* a thread keeps taking quantum interrupts, so an expired timer is taken   *)
(* while some core stays busy.  The scheduler's choices and wakeups are     *)
(* not assumed fair: cores may go idle for good.                           *)
Fairness ==
    /\ WF_vars(DL!Tick /\ UNCHANGED covars)
    /\ \A c \in Cpus : WF_vars(DL!deadline_passed(c) /\ UNCHANGED covars)
    /\ WF_vars(\E c \in Cpus : TimerRuns(c))

Spec == Init /\ [][Next]_vars /\ Fairness

-----------------------------------------------------------------------------
(* The deadline timer's types, as in PerfcontrolDeadline.                 *)
TypeOK == DL!TypeOK

(* Every arming is still armed, in flight, cancelled or delivered, exactly *)
(* one of these, now that the timer is taken by busy cores only.           *)
DeadlineAccounting == DL!DeadlineAccounting

(* No thread runs while its offcore callout is owed, whatever the timer    *)
(* does on the same cores.                                                 *)
OffcoreBeforeRunningElsewhere == CO!OffcoreBeforeRunningElsewhere

AllIdle == \A c \in Cpus : cur[c] = NoThread

(* An armed deadline is eventually resolved, its deadline_passed delivered *)
(* or a later update cancelling it, unless every core goes idle: the timer *)
(* needs a busy core, and the callouts moving threads on and off cores     *)
(* never hold it back.                                                     *)
ArmedResolvedUnlessIdle ==
    \A id \in 1..MaxArms :
        (timer.id = id) ~> (id \in cancelled \/ id \in DL!PassedIds \/ AllIdle)
=============================================================================
