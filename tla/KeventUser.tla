------------------------------ MODULE KeventUser ------------------------------
(***************************************************************************)
(* One EVFILT_USER knote: sys/event.h, the EV_* actions and flags and the  *)
(* EVFILT_USER fflags contract.                                            *)
(*                                                                         *)
(* The application registers, deletes, enables, disables and triggers the *)
(* knote with kevent() changes; a receiver collects the event.  On input   *)
(* the top two bits of fflags say how the low 24 bits apply to the stored  *)
(* value (NOTE_FFNOP, NOTE_FFAND, NOTE_FFOR, NOTE_FFCOPY) and NOTE_TRIGGER *)
(* triggers the event; on output the control bits are NOTE_FFNOP and the   *)
(* low bits are the stored value.  EV_ONESHOT reports one occurrence and   *)
(* deletes the knote, EV_DISPATCH disables it after reporting, EV_CLEAR    *)
(* clears the event state after reporting; otherwise a triggered event     *)
(* stays reported.  EV_DELETE of an EV_DISPATCH2 (EV_DISPATCH |           *)
(* EV_UDATA_SPECIFIC) knote that is disabled is deferred, returning        *)
(* EINPROGRESS, until the event is enabled again.  The 24 fflags bits are  *)
(* scaled to the set FBits.                                                *)
(***************************************************************************)
EXTENDS Naturals

CONSTANTS FBits

EV_ONESHOT == "ONESHOT"
EV_CLEAR == "CLEAR"
EV_DISPATCH == "DISPATCH"
EV_UDATA_SPECIFIC == "UDATA_SPECIFIC"
EV_DISPATCH2 == {EV_DISPATCH, EV_UDATA_SPECIFIC}
NOTE_FFNOP == "FFNOP"
NOTE_FFAND == "FFAND"
NOTE_FFOR == "FFOR"
NOTE_FFCOPY == "FFCOPY"
FFOps == {NOTE_FFNOP, NOTE_FFAND, NOTE_FFOR, NOTE_FFCOPY}

(* The stored fflags after an input with control bits op and low bits v.   *)
ApplyFFlags(stored, op, v) ==
    CASE op = NOTE_FFNOP -> stored
      [] op = NOTE_FFAND -> stored \cap v
      [] op = NOTE_FFOR -> stored \cup v
      [] op = NOTE_FFCOPY -> v

NoKnote == [registered |-> FALSE, flags |-> {}, enabled |-> FALSE,
            active |-> FALSE, fflags |-> {}, deferred |-> FALSE]

VARIABLES
    kn,        \* the knote: registration, flags, enabled, triggered, fflags
    out,       \* the last event the receiver got: control bits and fflags
    pending    \* a NOTE_TRIGGER not yet followed by a report

vars == <<kn, out, pending>>

Init ==
    /\ kn = NoKnote
    /\ out = [ctrl |-> NOTE_FFNOP, fflags |-> {}]
    /\ pending = FALSE

(* EV_ADD: register the knote (implies enable), applying fflags; on an     *)
(* existing knote it enables it and applies fflags.  An EV_ADD on a knote  *)
(* whose delete is deferred is not modelled.                               *)
EV_ADD(flags, op, v, trigger) ==
    /\ ~kn.deferred
    /\ kn' = IF kn.registered
               THEN [kn EXCEPT !.enabled = TRUE, !.active = @ \/ trigger,
                               !.fflags = ApplyFFlags(@, op, v)]
               ELSE [registered |-> TRUE, flags |-> flags, enabled |-> TRUE,
                     active |-> trigger, fflags |-> ApplyFFlags({}, op, v),
                     deferred |-> FALSE]
    /\ pending' = (pending \/ trigger)
    /\ UNCHANGED out

(* EV_DELETE drops the knote, unless it is an EV_DISPATCH2 knote that is   *)
(* disabled: then the delete is deferred (EINPROGRESS).                    *)
EV_DELETE ==
    /\ kn.registered
    /\ IF EV_DISPATCH2 \subseteq kn.flags /\ ~kn.enabled
         THEN /\ kn' = [kn EXCEPT !.deferred = TRUE]
              /\ UNCHANGED pending
         ELSE /\ kn' = NoKnote
              /\ pending' = FALSE
    /\ UNCHANGED out

(* EV_ENABLE enables the knote; on a knote whose delete was deferred it    *)
(* completes the delete instead.                                           *)
EV_ENABLE ==
    /\ kn.registered
    /\ IF kn.deferred
         THEN kn' = NoKnote /\ pending' = FALSE
         ELSE kn' = [kn EXCEPT !.enabled = TRUE] /\ UNCHANGED pending
    /\ UNCHANGED out

EV_DISABLE ==
    /\ kn.registered
    /\ kn' = [kn EXCEPT !.enabled = FALSE]
    /\ UNCHANGED <<out, pending>>

(* The mutant form drops a trigger that arrives while the knote is         *)
(* disabled.                                                               *)
Touch_drops_disabled_trigger(op, v, trigger) ==
    /\ kn.registered
    /\ kn' = [kn EXCEPT !.active = @ \/ (trigger /\ kn.enabled),
                        !.fflags = ApplyFFlags(@, op, v)]
    /\ pending' = (pending \/ trigger)
    /\ UNCHANGED out

(* A change without EV_ADD on the registered knote: apply fflags, and      *)
(* trigger it when NOTE_TRIGGER is set.                                    *)
Touch(op, v, trigger) ==
    /\ kn.registered
    /\ kn' = [kn EXCEPT !.active = @ \/ trigger, !.fflags = ApplyFFlags(@, op, v)]
    /\ pending' = (pending \/ trigger)
    /\ UNCHANGED out

(* The receiver collects the triggered, enabled event.                     *)
Deliver ==
    /\ kn.registered /\ kn.enabled /\ kn.active
    /\ out' = [ctrl |-> NOTE_FFNOP, fflags |-> kn.fflags]
    /\ kn' = IF EV_ONESHOT \in kn.flags THEN NoKnote
             ELSE [kn EXCEPT !.enabled = @ /\ EV_DISPATCH \notin kn.flags,
                             !.active = @ /\ EV_CLEAR \notin kn.flags,
                             !.fflags = IF EV_CLEAR \in kn.flags THEN {} ELSE @]
    /\ pending' = FALSE

Next ==
    \/ \E flags \in SUBSET {EV_ONESHOT, EV_CLEAR, EV_DISPATCH, EV_UDATA_SPECIFIC}, op \in FFOps,
          v \in SUBSET FBits, trigger \in BOOLEAN : EV_ADD(flags, op, v, trigger)
    \/ EV_DELETE \/ EV_ENABLE \/ EV_DISABLE
    \/ \E op \in FFOps, v \in SUBSET FBits, trigger \in BOOLEAN : Touch(op, v, trigger)
    \/ Deliver

(* The receiver keeps calling kevent(); the application is not assumed to  *)
(* do anything.                                                            *)
Spec == Init /\ [][Next]_vars /\ WF_vars(Deliver)

-----------------------------------------------------------------------------
(* A NOTE_TRIGGER is never lost: once triggered, the event is reported     *)
(* unless the application deletes the knote or leaves it disabled.         *)
TriggerReported ==
    pending ~> (~pending \/ ~kn.registered \/ ~kn.enabled)
=============================================================================
