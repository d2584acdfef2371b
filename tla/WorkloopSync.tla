----------------------------- MODULE WorkloopSync -----------------------------
(***************************************************************************)
(* Sync waiters of a workloop: sys/event.h, EVFILT_WORKLOOP commands       *)
(* NOTE_WL_SYNC_WAIT and NOTE_WL_SYNC_WAKE with the modifiers              *)
(* NOTE_WL_END_OWNERSHIP, NOTE_WL_DISCOVER_OWNER and NOTE_WL_IGNORE_ESTALE *)
(* and the debounce ext fields.                                            *)
(*                                                                         *)
(* Each waiter thread has its own knote (its ident).  SYNC_WAIT blocks the *)
(* caller unless SYNC_WAKE is already set on its knote; SYNC_WAKE marks    *)
(* the knote eligible to become owner and can be set only once (EALREADY). *)
(* Every update is debounced: the kernel loads the word at                 *)
(* EV_EXTIDX_WL_ADDR and fails with ESTALE when it is not the value the    *)
(* caller passed; IGNORE_ESTALE turns that failure into a success in which *)
(* nothing happens.  END_OWNERSHIP makes the kernel forget the caller's    *)
(* ownership when the update succeeds or fails with ESTALE, and            *)
(* DISCOVER_OWNER learns the owner from the loaded word on success.  The   *)
(* word holds an owner identity, changed by userspace at any time.         *)
(***************************************************************************)
EXTENDS Naturals

CONSTANTS Threads, NoOwner

ASSUME NoOwner \notin Threads

Owners == Threads \cup {NoOwner}
NoKnote == [present |-> FALSE, wait |-> FALSE, wake |-> FALSE]

VARIABLES
    kn,        \* kn[t]: waiter t's knote and its SYNC_WAIT/SYNC_WAKE bits
    blocked,   \* blocked[t]: thread t is blocked in its SYNC_WAIT
    owner,     \* the owner the kernel knows of, NoOwner when forgotten
    word       \* the userspace word at the debounce address

vars == <<kn, blocked, owner, word>>

Init ==
    /\ kn = [t \in Threads |-> NoKnote]
    /\ blocked = [t \in Threads |-> FALSE]
    /\ owner = NoOwner
    /\ word \in Owners

(* Userspace stores a new owner identity in the debounce word.             *)
UserStore(v) ==
    /\ word' = v
    /\ UNCHANGED <<kn, blocked, owner>>

(* The debounce failed: ESTALE, or, with IGNORE_ESTALE, a success in      *)
(* which nothing happened (the two differ only in the error returned);     *)
(* END_OWNERSHIP still applies.                                            *)
Stale(caller, endown) ==
    /\ owner' = IF endown /\ owner = caller THEN NoOwner ELSE owner
    /\ UNCHANGED <<kn, blocked, word>>

(* A successful update: END_OWNERSHIP forgets the caller's ownership,      *)
(* DISCOVER_OWNER learns the owner from the word.                          *)
OwnerAfter(caller, endown, discover) ==
    IF discover THEN word
    ELSE IF endown /\ owner = caller THEN NoOwner ELSE owner

(* Thread t waits on its own knote with debounce value v.                  *)
SyncWait(t, v, endown, discover) ==
    /\ ~blocked[t]
    /\ IF word # v THEN Stale(t, endown)
       ELSE /\ kn' = [kn EXCEPT ![t] = [present |-> TRUE, wait |-> TRUE, wake |-> @.wake]]
            /\ blocked' = [blocked EXCEPT ![t] = ~kn[t].wake]
            /\ owner' = OwnerAfter(t, endown, discover)
            /\ UNCHANGED word

(* Thread c sets SYNC_WAKE on waiter t's knote, attaching it if needed.    *)
SyncWake(c, t, v, endown, discover) ==
    /\ ~blocked[c] /\ c # t
    /\ IF word # v THEN Stale(c, endown)
       ELSE IF kn[t].wake
         THEN UNCHANGED <<kn, blocked, owner, word>>    \* EALREADY
         ELSE /\ kn' = [kn EXCEPT ![t] = [present |-> TRUE, wait |-> @.wait, wake |-> TRUE]]
              /\ blocked' = [blocked EXCEPT ![t] = FALSE]
              /\ owner' = OwnerAfter(c, endown, discover)
              /\ UNCHANGED word

(* A released waiter drops its knote with EV_DELETE.                       *)
Delete(t) ==
    /\ ~blocked[t] /\ kn[t].present
    /\ kn' = [kn EXCEPT ![t] = NoKnote]
    /\ UNCHANGED <<blocked, owner, word>>

Next ==
    \/ \E v \in Owners : UserStore(v)
    \/ \E t \in Threads, v \in Owners, endown, discover \in BOOLEAN :
        \/ SyncWait(t, v, endown, discover)
        \/ \E c \in Threads : SyncWake(c, t, v, endown, discover)
    \/ \E t \in Threads : Delete(t)

Spec == Init /\ [][Next]_vars
=============================================================================
