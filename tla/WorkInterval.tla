----------------------------- MODULE WorkInterval -----------------------------
(***************************************************************************)
(* A work interval with auto-join and deferred finish: sys/work_interval.h *)
(* ("Work Interval Auto Join Support", "Work Interval Deferred Finish      *)
(* Support" and the WORK_INTERVAL_FLAG_* create flags).                    *)
(*                                                                         *)
(* Member threads joined the interval explicitly and report frames with   *)
(* start and finish.  With ENABLE_AUTO_JOIN an RT thread that a member     *)
(* makes runnable joins the interval and stays until it blocks or          *)
(* terminates.  With ENABLE_DEFERRED_FINISH (valid only with auto-join) a  *)
(* finish is held back while auto-joined threads remain, and delivered     *)
(* when the last of them un-joins or when a member starts the next frame.  *)
(* clpc_open is the performance controller's view: a frame was started    *)
(* and its finish has not been delivered.                                  *)
(***************************************************************************)
EXTENDS Naturals

CONSTANTS
    Members,        \* threads joined explicitly (work_interval_join)
    RTThreads,      \* RT threads of the same home thread group
    AUTO_JOIN,      \* WORK_INTERVAL_FLAG_ENABLE_AUTO_JOIN
    DEFERRED_FINISH,\* WORK_INTERVAL_FLAG_ENABLE_DEFERRED_FINISH
    MaxFrames       \* bound on the number of frames started

ASSUME DEFERRED_FINISH => AUTO_JOIN
Threads == Members \cup RTThreads

VARIABLES
    running,    \* running[t]: t is runnable or running (not blocked)
    auto,       \* the threads auto-joined to the interval
    phase,      \* "idle", "active" (started) or "deferred" (finish held back)
    frame,      \* frames started
    clpc_open   \* the controller saw a start not yet followed by a finish

vars == <<running, auto, phase, frame, clpc_open>>

Init ==
    /\ running = [t \in Threads |-> t \in Members]
    /\ auto = {}
    /\ phase = "idle"
    /\ frame = 0
    /\ clpc_open = FALSE

InInterval(t) == t \in Members \/ t \in auto

(* A member starts the next frame; a deferred finish is delivered first.   *)
Start(m) ==
    /\ running[m] /\ phase # "active" /\ frame < MaxFrames
    /\ phase' = "active" /\ frame' = frame + 1
    /\ clpc_open' = TRUE    \* after the flushed finish closed the last frame
    /\ UNCHANGED <<running, auto>>

(* A member finishes the frame; with deferred finish and auto-joined       *)
(* threads present the finish is held back.                                *)
Finish(m) ==
    /\ running[m] /\ phase = "active"
    /\ IF DEFERRED_FINISH /\ auto # {}
         THEN phase' = "deferred" /\ UNCHANGED clpc_open
         ELSE phase' = "idle" /\ clpc_open' = FALSE
    /\ UNCHANGED <<running, auto, frame>>

(* Thread w makes thread t runnable; with auto-join an RT thread woken by  *)
(* a thread in the interval joins it.                                      *)
Wakeup(w, t) ==
    /\ running[w] /\ ~running[t]
    /\ running' = [running EXCEPT ![t] = TRUE]
    /\ auto' = IF AUTO_JOIN /\ InInterval(w) /\ t \in RTThreads \ Members
                 THEN auto \cup {t} ELSE auto
    /\ UNCHANGED <<phase, frame, clpc_open>>

(* Thread t blocks (or terminates): it leaves the interval if it had       *)
(* auto-joined, and a finish held back for it alone is delivered.          *)
Block(t) ==
    /\ running[t]
    /\ running' = [running EXCEPT ![t] = FALSE]
    /\ auto' = auto \ {t}
    /\ IF phase = "deferred" /\ auto \ {t} = {}
         THEN phase' = "idle" /\ clpc_open' = FALSE
         ELSE UNCHANGED <<phase, clpc_open>>
    /\ UNCHANGED frame

(* Something outside the interval (a timer, another task) wakes thread t. *)
ExternalWakeup(t) ==
    /\ ~running[t]
    /\ running' = [running EXCEPT ![t] = TRUE]
    /\ UNCHANGED <<auto, phase, frame, clpc_open>>

Next ==
    \/ \E m \in Members : Start(m) \/ Finish(m)
    \/ \E w, t \in Threads : Wakeup(w, t)
    \/ \E t \in Threads : ExternalWakeup(t)
    \/ \E t \in Threads : Block(t)

Spec == Init /\ [][Next]_vars
=============================================================================
