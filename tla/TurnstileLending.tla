-------------------------- MODULE TurnstileLending --------------------------
(***************************************************************************)
(* What kern/turnstile.h promises of turnstile_prepare and                 *)
(* turnstile_complete, without the slot, hash table and free list that     *)
(* implement it.                                                           *)
(*                                                                         *)
(* prepare "transfers the current thread's turnstile to the primitive",    *)
(* and the thread has none until complete; complete transfers one of the   *)
(* primitive's turnstiles back, so the thread "will have a turnstile       *)
(* attached to it".  The turnstile prepare returns is the primitive's own  *)
(* (primary) one and is "safe to use until the thread calls                *)
(* turnstile_complete": it stays the primitive's while any thread that got *)
(* it has not completed, so it can only go back to the last of them.       *)
(***************************************************************************)
EXTENDS FiniteSets

CONSTANTS Threads, Turnstiles, Proprietors, InitialTurnstile,
          TURNSTILE_NULL, PROPRIETOR_NULL

VARIABLES
    holder,    \* holder[ts]: the thread or the primitive ts belongs to
    lent,      \* lent[th]: the primitive th lent its turnstile to
    primary    \* primary[p]: the turnstile prepare returns for p

vars == <<holder, lent, primary>>

Init ==
    /\ holder = [ts \in Turnstiles |-> CHOOSE th \in Threads : InitialTurnstile[th] = ts]
    /\ lent = [th \in Threads |-> PROPRIETOR_NULL]
    /\ primary = [p \in Proprietors |-> TURNSTILE_NULL]

(* Thread th lends its turnstile to p; the first one lent becomes p's.     *)
Lend(th, p) ==
    /\ lent[th] = PROPRIETOR_NULL
    /\ \E ts \in Turnstiles :
          /\ holder[ts] = th
          /\ holder' = [holder EXCEPT ![ts] = p]
          /\ primary' = IF primary[p] = TURNSTILE_NULL
                          THEN [primary EXCEPT ![p] = ts] ELSE primary
    /\ lent' = [lent EXCEPT ![th] = p]

(* Thread th takes one of p's turnstiles back; p's own turnstile only when *)
(* th is the last thread that lent p one.                                  *)
Return(th, p) ==
    LET last == {u \in Threads : lent[u] = p} = {th} IN
    /\ lent[th] = p
    /\ \E ts \in Turnstiles :
          /\ holder[ts] = p
          /\ (ts = primary[p]) = last
          /\ holder' = [holder EXCEPT ![ts] = th]
    /\ primary' = IF last THEN [primary EXCEPT ![p] = TURNSTILE_NULL] ELSE primary
    /\ lent' = [lent EXCEPT ![th] = PROPRIETOR_NULL]

Next == \E th \in Threads, p \in Proprietors : Lend(th, p) \/ Return(th, p)

Spec == Init /\ [][Next]_vars
=============================================================================
