------------------------- MODULE MemorystatusNotify -------------------------
(***************************************************************************)
(* A process's memory limits and the EVFILT_MEMORYSTATUS knote that        *)
(* reports them: sys/kern_memorystatus.h and sys/event.h.                  *)
(*                                                                         *)
(* The process has one limit while it is active and one while inactive,   *)
(* each with MEMORYSTATUS_MEMLIMIT_ATTR_FATAL set or not; memorystatus_    *)
(* control sets them (SET_JETSAM_HIGH_WATER_MARK: both non-fatal,          *)
(* SET_JETSAM_TASK_LIMIT: both fatal, SET_MEMLIMIT_PROPERTIES: each on its *)
(* own, INCREASE_JETSAM_TASK_LIMIT: both raised).  When its footprint      *)
(* grows past a fatal limit it is killed (JETSAM_REASON_MEMORY_            *)
(* PERPROCESSLIMIT); a soft limit reports NOTE_MEMORYSTATUS_PROC_LIMIT_    *)
(* WARN on nearing it and _CRITICAL on passing it.  The kernel-private     *)
(* fflags _WARN_ACTIVE, _WARN_INACTIVE, _CRITICAL_ACTIVE and               *)
(* _CRITICAL_INACTIVE of the knote restrict each report to once per active *)
(* and once per inactive limit, and EVFILT_MEMORYSTATUS_ALL_MASK keeps the *)
(* fflags userspace passes from touching them.  The bits live in the       *)
(* knote, so only a registration resets them; the memorystatus_control     *)
(* commands act on the process and leave the knote alone.                  *)
(*                                                                         *)
(* Megabytes are scaled to small integers, and the warning level is one    *)
(* unit below the limit.                                                   *)
(***************************************************************************)
EXTENDS Naturals

CONSTANTS
    Limits,        \* limit values a command may set (scaled MB)
    MaxLimit,      \* bound on a limit raised by INCREASE_JETSAM_TASK_LIMIT
    MaxFootprint   \* bound on the footprint

ASSUME Limits \subseteq 2..MaxLimit /\ MaxFootprint \in Nat

NOTE_MEMORYSTATUS_PROC_LIMIT_WARN == "PROC_LIMIT_WARN"
NOTE_MEMORYSTATUS_PROC_LIMIT_CRITICAL == "PROC_LIMIT_CRITICAL"
NOTE_MEMORYSTATUS_PROC_LIMIT_WARN_ACTIVE == "PROC_LIMIT_WARN_ACTIVE"
NOTE_MEMORYSTATUS_PROC_LIMIT_WARN_INACTIVE == "PROC_LIMIT_WARN_INACTIVE"
NOTE_MEMORYSTATUS_PROC_LIMIT_CRITICAL_ACTIVE == "PROC_LIMIT_CRITICAL_ACTIVE"
NOTE_MEMORYSTATUS_PROC_LIMIT_CRITICAL_INACTIVE == "PROC_LIMIT_CRITICAL_INACTIVE"

(* The shared notes (the pressure, low-swap and MSL bits stand for         *)
(* themselves); the four restriction bits are not among them.              *)
EVFILT_MEMORYSTATUS_ALL_MASK ==
    {"PRESSURE_NORMAL", "PRESSURE_WARN", "PRESSURE_CRITICAL", "LOW_SWAP",
     NOTE_MEMORYSTATUS_PROC_LIMIT_WARN, NOTE_MEMORYSTATUS_PROC_LIMIT_CRITICAL,
     "MSL_STATUS"}

MemlimitStates == {"active", "inactive"}
Kinds == {"warn", "critical"}

(* The note of each kind, and the bit restricting it per limit.           *)
Note == [k \in Kinds |-> IF k = "warn" THEN NOTE_MEMORYSTATUS_PROC_LIMIT_WARN
                                       ELSE NOTE_MEMORYSTATUS_PROC_LIMIT_CRITICAL]
Once == [s \in MemlimitStates |-> [k \in Kinds |->
           CASE s = "active" /\ k = "warn" -> NOTE_MEMORYSTATUS_PROC_LIMIT_WARN_ACTIVE
             [] s = "inactive" /\ k = "warn" -> NOTE_MEMORYSTATUS_PROC_LIMIT_WARN_INACTIVE
             [] s = "active" /\ k = "critical" -> NOTE_MEMORYSTATUS_PROC_LIMIT_CRITICAL_ACTIVE
             [] s = "inactive" /\ k = "critical" -> NOTE_MEMORYSTATUS_PROC_LIMIT_CRITICAL_INACTIVE]]

UserFFlags == {NOTE_MEMORYSTATUS_PROC_LIMIT_WARN, NOTE_MEMORYSTATUS_PROC_LIMIT_CRITICAL}
                \cup {Once[s][k] : s \in MemlimitStates, k \in Kinds}

(* memorystatus_memlimit_properties: a limit and its fatal attribute.      *)
Memlimit == [mb : Limits, fatal : BOOLEAN]

JETSAM_REASON_MEMORY_HIGHWATER == "HIGHWATER"
JETSAM_REASON_MEMORY_PERPROCESSLIMIT == "PERPROCESSLIMIT"

VARIABLES
    alive,               \* the process has not been killed
    exit_reason,         \* the jetsam reason it was killed for, or "none"
    memlimit_is_active,  \* the process is in its active state
    memlimit,            \* memlimit[s]: the limit of state s
    footprint,           \* phys_footprint
    mkn                  \* the EVFILT_MEMORYSTATUS knote: registered, sfflags

vars == <<alive, exit_reason, memlimit_is_active, memlimit, footprint, mkn>>

Cur == IF memlimit_is_active THEN "active" ELSE "inactive"

Init ==
    /\ alive = TRUE
    /\ exit_reason = "none"
    /\ memlimit_is_active \in BOOLEAN
    /\ memlimit \in [MemlimitStates -> Memlimit]
    /\ footprint = 0
    /\ mkn = [registered |-> FALSE, sfflags |-> {}]

(* The knote reports kind k for the limit of state s, unless the          *)
(* restriction bit says it already has.                                    *)
Notify(s, k) ==
    IF mkn.registered /\ Note[k] \in mkn.sfflags /\ Once[s][k] \notin mkn.sfflags
      THEN mkn' = [mkn EXCEPT !.sfflags = @ \cup {Once[s][k]}]
      ELSE UNCHANGED mkn

(* The footprint grows by one unit and the ledger checks the limit of the *)
(* current state: past a fatal limit the process is killed, past a soft   *)
(* one it is reported critical, at the warning level reported warn.        *)
Grow ==
    LET f == footprint + 1
        L == memlimit[Cur]
    IN  /\ alive /\ footprint < MaxFootprint
        /\ footprint' = f
        /\ IF L.fatal /\ f > L.mb
             THEN /\ alive' = FALSE
                  /\ exit_reason' = JETSAM_REASON_MEMORY_PERPROCESSLIMIT
                  /\ UNCHANGED mkn
             ELSE /\ UNCHANGED <<alive, exit_reason>>
                  /\ CASE ~L.fatal /\ f > L.mb -> Notify(Cur, "critical")
                       [] ~L.fatal /\ f = L.mb - 1 -> Notify(Cur, "warn")
                       [] OTHER -> UNCHANGED mkn
        /\ UNCHANGED <<memlimit_is_active, memlimit>>

Shrink ==
    /\ alive /\ footprint > 0
    /\ footprint' = footprint - 1
    /\ UNCHANGED <<alive, exit_reason, memlimit_is_active, memlimit, mkn>>

(* Jetsam kills a process above its high water mark (NOTE_EXIT_MEMORY_    *)
(* HIWAT): a soft limit of the current state that the footprint exceeds.   *)
JetsamHighwater ==
    /\ alive /\ ~memlimit[Cur].fatal /\ footprint > memlimit[Cur].mb
    /\ alive' = FALSE
    /\ exit_reason' = JETSAM_REASON_MEMORY_HIGHWATER
    /\ UNCHANGED <<memlimit_is_active, memlimit, footprint, mkn>>

(* The process becomes active or inactive (its priority properties).       *)
SetActive(b) ==
    /\ alive /\ memlimit_is_active # b
    /\ memlimit_is_active' = b
    /\ UNCHANGED <<alive, exit_reason, memlimit, footprint, mkn>>

(* memorystatus_control limit commands.                                    *)
SetLimits(m) ==
    /\ alive
    /\ memlimit' = m
    /\ UNCHANGED <<alive, exit_reason, memlimit_is_active, footprint, mkn>>

SET_JETSAM_HIGH_WATER_MARK(mb) ==
    SetLimits([s \in MemlimitStates |-> [mb |-> mb, fatal |-> FALSE]])

SET_JETSAM_TASK_LIMIT(mb) ==
    SetLimits([s \in MemlimitStates |-> [mb |-> mb, fatal |-> TRUE]])

SET_MEMLIMIT_PROPERTIES(a, i) == SetLimits([active |-> a, inactive |-> i])

INCREASE_JETSAM_TASK_LIMIT(inc) ==
    /\ \A s \in MemlimitStates : memlimit[s].mb + inc <= MaxLimit
    /\ SetLimits([s \in MemlimitStates |-> [memlimit[s] EXCEPT !.mb = @ + inc]])

(* EV_ADD of an EVFILT_MEMORYSTATUS knote with the fflags userspace asks   *)
(* for, masked by EVFILT_MEMORYSTATUS_ALL_MASK.                            *)
Register(ff) ==
    /\ ~mkn.registered
    /\ mkn' = [registered |-> TRUE, sfflags |-> ff \cap EVFILT_MEMORYSTATUS_ALL_MASK]
    /\ UNCHANGED <<alive, exit_reason, memlimit_is_active, memlimit, footprint>>

Unregister ==
    /\ mkn.registered
    /\ mkn' = [registered |-> FALSE, sfflags |-> {}]
    /\ UNCHANGED <<alive, exit_reason, memlimit_is_active, memlimit, footprint>>

Next ==
    \/ Grow \/ Shrink \/ JetsamHighwater
    \/ \E b \in BOOLEAN : SetActive(b)
    \/ \E mb \in Limits : SET_JETSAM_HIGH_WATER_MARK(mb) \/ SET_JETSAM_TASK_LIMIT(mb)
    \/ \E a, i \in Memlimit : SET_MEMLIMIT_PROPERTIES(a, i)
    \/ INCREASE_JETSAM_TASK_LIMIT(1)
    \/ \E ff \in SUBSET UserFFlags : Register(ff)
    \/ Unregister

Spec == Init /\ [][Next]_vars
=============================================================================
