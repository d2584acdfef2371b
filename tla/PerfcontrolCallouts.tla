-------------------------- MODULE PerfcontrolCallouts --------------------------
(***************************************************************************)
(* Scheduler callouts to the performance controller around a context       *)
(* switch: arm/machine_routines.h, sched_perfcontrol_context_switch_t,     *)
(* sched_perfcontrol_offcore_t and sched_perfcontrol_oncore_t.             *)
(*                                                                         *)
(* When a core switches threads the platform layer first makes the         *)
(* context_switch callout.  Once the core runs the new thread, offcore is  *)
(* called for the old thread with the old thread's scheduler lock held, so *)
(* a preempted thread that stays runnable cannot begin running elsewhere   *)
(* until offcore completes; thread_terminating marks its last callout.     *)
(* After offcore, and after the old thread may run elsewhere, oncore is    *)
(* called for the new thread; oncore is also called whenever the running  *)
(* thread's priority, QoS or quantum changes, so it is not paired with     *)
(* offcore.  Each callout is one step; NoThread stands for the idle thread.*)
(***************************************************************************)
EXTENDS Naturals

CONSTANTS Cpus, Threads, NoThread

ASSUME NoThread \notin Threads

NoOff == [t |-> NoThread, runnable |-> FALSE, terminating |-> FALSE]

VARIABLES
    cur,       \* cur[c]: the thread core c runs
    runq,      \* runnable threads not running and not locked by a switch
    blocked,   \* threads waiting for a wakeup
    dead,      \* threads whose last callout (terminating offcore) was made
    offpend,   \* offpend[c]: the old thread whose offcore core c owes
    onpend     \* onpend[c]: core c owes an oncore callout for cur[c]

vars == <<cur, runq, blocked, dead, offpend, onpend>>

Init ==
    /\ cur = [c \in Cpus |-> NoThread]
    /\ runq = Threads
    /\ blocked = {}
    /\ dead = {}
    /\ offpend = [c \in Cpus |-> NoOff]
    /\ onpend = [c \in Cpus |-> FALSE]

Between(c) == offpend[c] = NoOff /\ ~onpend[c]

(* The mutant form hands a preempted thread back to the run queue at the   *)
(* switch, before its offcore callout.                                     *)
Switch_releases_early(c, new, runnable, terminating) ==
    LET old == cur[c] IN
    /\ Between(c) /\ new \in runq \cup {NoThread} /\ new # old
    /\ old = NoThread => ~runnable /\ ~terminating
    /\ ~(runnable /\ terminating)
    /\ cur' = [cur EXCEPT ![c] = new]
    /\ runq' = (runq \ {new}) \cup (IF runnable THEN {old} ELSE {})
    /\ offpend' = [offpend EXCEPT ![c] = IF old = NoThread THEN NoOff
                     ELSE [t |-> old, runnable |-> FALSE, terminating |-> terminating]]
    /\ onpend' = [onpend EXCEPT ![c] = (old = NoThread /\ new # NoThread)]
    /\ UNCHANGED <<blocked, dead>>

(* Core c switches from cur[c] to new (the context_switch callout): the    *)
(* old thread is preempted and stays runnable, blocks, or terminates, and  *)
(* stays locked until its offcore.  From the idle thread there is no       *)
(* offcore, so oncore follows directly.                                    *)
Switch(c, new, runnable, terminating) ==
    LET old == cur[c] IN
    /\ Between(c) /\ new \in runq \cup {NoThread} /\ new # old
    /\ old = NoThread => ~runnable /\ ~terminating
    /\ ~(runnable /\ terminating)
    /\ cur' = [cur EXCEPT ![c] = new]
    /\ runq' = runq \ {new}
    /\ offpend' = [offpend EXCEPT ![c] = IF old = NoThread THEN NoOff
                     ELSE [t |-> old, runnable |-> runnable, terminating |-> terminating]]
    /\ onpend' = [onpend EXCEPT ![c] = (old = NoThread /\ new # NoThread)]
    /\ UNCHANGED <<blocked, dead>>

(* The offcore callout for the old thread; then its scheduler lock is      *)
(* dropped and a preempted thread may run elsewhere; oncore for the new    *)
(* thread is owed next.                                                    *)
Offcore(c) ==
    LET o == offpend[c] IN
    /\ o # NoOff
    /\ runq' = IF o.runnable THEN runq \cup {o.t} ELSE runq
    /\ blocked' = IF ~o.runnable /\ ~o.terminating THEN blocked \cup {o.t} ELSE blocked
    /\ dead' = IF o.terminating THEN dead \cup {o.t} ELSE dead
    /\ offpend' = [offpend EXCEPT ![c] = NoOff]
    /\ onpend' = [onpend EXCEPT ![c] = cur[c] # NoThread]
    /\ UNCHANGED cur

Oncore(c) ==
    /\ onpend[c]
    /\ onpend' = [onpend EXCEPT ![c] = FALSE]
    /\ UNCHANGED <<cur, runq, blocked, dead, offpend>>

(* A priority, QoS or quantum change of the running thread: another oncore. *)
ParameterChange(c) ==
    /\ Between(c) /\ cur[c] # NoThread
    /\ onpend' = [onpend EXCEPT ![c] = TRUE]
    /\ UNCHANGED <<cur, runq, blocked, dead, offpend>>

Wakeup(t) ==
    /\ t \in blocked
    /\ blocked' = blocked \ {t}
    /\ runq' = runq \cup {t}
    /\ UNCHANGED <<cur, dead, offpend, onpend>>

Next ==
    \/ \E c \in Cpus :
        \/ \E new \in runq \cup {NoThread}, runnable, terminating \in BOOLEAN :
              Switch(c, new, runnable, terminating)
        \/ Offcore(c) \/ Oncore(c) \/ ParameterChange(c)
    \/ \E t \in Threads : Wakeup(t)

Spec == Init /\ [][Next]_vars

-----------------------------------------------------------------------------
(* A thread whose offcore callout one core still owes is not running on    *)
(* any core, and a thread after its terminating offcore never runs or     *)
(* gets a callout again: the controller sees every thread's offcore before *)
(* the thread goes on core anywhere else.                                  *)
OffcoreBeforeRunningElsewhere ==
    /\ \A c, d \in Cpus : offpend[d].t # NoThread => cur[c] # offpend[d].t
    /\ \A c \in Cpus : cur[c] \notin dead /\ offpend[c].t \notin dead
    /\ dead \cap (runq \cup blocked) = {}
=============================================================================
