------------------------------ MODULE MC_Kevent ------------------------------
(* Two kevent filters of sys/event.h checked in one run: the EVFILT_USER   *)
(* knote of KeventUser and the EVFILT_MEMORYSTATUS limit reports of        *)
(* MemorystatusNotify.  They share no state, so a behaviour exercises one  *)
(* of them, chosen in the initial state, while the other stays in one of   *)
(* its initial states.                                                     *)
EXTENDS Naturals

CONSTANTS FBits, Limits, MaxLimit, MaxFootprint

VARIABLES part, kn, out, pending,
          alive, exit_reason, memlimit_is_active, memlimit, footprint, mkn

KU == INSTANCE KeventUser
MS == INSTANCE MemorystatusNotify

kuvars == <<kn, out, pending>>
msvars == <<alive, exit_reason, memlimit_is_active, memlimit, footprint, mkn>>
vars == <<part, kuvars, msvars>>

(* While the EVFILT_USER part runs, the process sits in one initial state. *)
OneProcess ==
    /\ memlimit_is_active = TRUE
    /\ memlimit = [s \in MS!MemlimitStates |-> CHOOSE m \in MS!Memlimit : TRUE]

Init ==
    /\ KU!Init /\ MS!Init
    /\ \/ part = "user" /\ OneProcess
       \/ part = "memorystatus"

Next ==
    \/ part = "user" /\ KU!Next /\ UNCHANGED <<part, msvars>>
    \/ part = "memorystatus" /\ MS!Next /\ UNCHANGED <<part, kuvars>>

(* KeventUser's receiver fairness; MemorystatusNotify assumes none.        *)
Spec == Init /\ [][Next]_vars /\ WF_vars(KU!Deliver /\ UNCHANGED <<part, msvars>>)

(* A NOTE_TRIGGER is reported unless deleted or disabled (KeventUser).    *)
TriggerReported == KU!TriggerReported
=============================================================================
