--------------------------- MODULE TurnstilePool ---------------------------
(***************************************************************************)
(* Ownership of turnstiles: kern/turnstile.h, turnstile_prepare and        *)
(* turnstile_complete, and the turnstile state flags.                      *)
(*                                                                         *)
(* Every thread carries one spare turnstile.  A thread that is about to    *)
(* wait on a primitive (the "proprietor") lends its turnstile: the first   *)
(* waiter's turnstile becomes the primitive's turnstile, stored either in  *)
(* the primitive's own slot (tstore) or, when no slot is passed, in the    *)
(* global hash table; later waiters hang theirs off the free list of the   *)
(* primitive's turnstile.  turnstile_complete gives the thread a turnstile *)
(* back, from the free list while one is there, and the primitive's own    *)
(* turnstile when the free list is empty.  Both calls are made with the    *)
(* primitive's interlock held, so each is one atomic step here; the        *)
(* turnstile returned by prepare is used by the thread after the interlock *)
(* is dropped, between its prepare and its complete, while other threads   *)
(* prepare and complete on the same primitive.                             *)
(***************************************************************************)
EXTENDS Naturals, FiniteSets

CONSTANTS
    Threads,            \* kernel threads
    Turnstiles,         \* turnstile objects, one carried by each thread at start
    Proprietors,        \* primitives (lock or event addresses) used as keys
    HashedProprietors,  \* those for which tstore is NULL: the hash table is used
    InitialTurnstile,   \* the turnstile each thread carries at creation
    TURNSTILE_NULL,
    PROPRIETOR_NULL

ASSUME HashedProprietors \subseteq Proprietors
ASSUME TURNSTILE_NULL \notin Turnstiles /\ PROPRIETOR_NULL \notin Proprietors
ASSUME /\ InitialTurnstile \in [Threads -> Turnstiles]
       /\ \A t1, t2 \in Threads : t1 # t2 => InitialTurnstile[t1] # InitialTurnstile[t2]
       /\ \A ts \in Turnstiles : \E t \in Threads : InitialTurnstile[t] = ts

VARIABLES
    thread_ts,     \* the turnstile a thread carries, TURNSTILE_NULL while lent
    prim_ts,       \* the turnstile of a proprietor (its tstore slot or hash entry)
    ts_free,       \* the free list hanging off a turnstile
    ts_state,      \* ts_state: the set of TURNSTILE_STATE_* bits set
    ts_returned,   \* what turnstile_prepare returned to a thread
    prepared_on    \* the proprietor a thread is between prepare and complete on

pool_vars == <<thread_ts, prim_ts, ts_free, ts_state, ts_returned, prepared_on>>

(* TURNSTILE_STATE_* flags; a bit mask is a set of these.                  *)
TURNSTILE_STATE_THREAD     == "STATE_THREAD"
TURNSTILE_STATE_FREELIST   == "STATE_FREELIST"
TURNSTILE_STATE_HASHTABLE  == "STATE_HASHTABLE"
TURNSTILE_STATE_PROPRIETOR == "STATE_PROPRIETOR"
StateFlags == {TURNSTILE_STATE_THREAD, TURNSTILE_STATE_FREELIST,
               TURNSTILE_STATE_HASHTABLE, TURNSTILE_STATE_PROPRIETOR}

(* turnstile_state_add / turnstile_state_remove (DEVELOPMENT || DEBUG):    *)
(* ts_state |= state and ts_state &= ~state.  The asserts they carry are   *)
(* checked by StateMatchesOwnership below.                                 *)
turnstile_state_add(s, f) == s \cup {f}
turnstile_state_remove(s, f) == s \ {f}

(* The state flag of a turnstile installed for proprietor p: the hash      *)
(* table when tstore is NULL, the proprietor's slot otherwise.             *)
InstalledFlag(p) ==
    IF p \in HashedProprietors THEN TURNSTILE_STATE_HASHTABLE
                               ELSE TURNSTILE_STATE_PROPRIETOR

Init ==
    /\ thread_ts = InitialTurnstile
    /\ prim_ts = [p \in Proprietors |-> TURNSTILE_NULL]
    /\ ts_free = [ts \in Turnstiles |-> {}]
    /\ ts_state = [ts \in Turnstiles |-> {TURNSTILE_STATE_THREAD}]
    /\ ts_returned = [t \in Threads |-> TURNSTILE_NULL]
    /\ prepared_on = [t \in Threads |-> PROPRIETOR_NULL]

(***************************************************************************)
(* turnstile_prepare(proprietor, tstore, TURNSTILE_NULL, type), called by  *)
(* thread th with the interlock of p held.  The thread's own turnstile     *)
(* either becomes p's turnstile (none installed yet) or is put on the      *)
(* free list of p's turnstile; p's turnstile is returned.                  *)
(***************************************************************************)
(* Mutant: the first waiter installs its turnstile even when the          *)
(* proprietor already has one.                                             *)
PrepareInstall_unguarded(th, p, ts) ==
    /\ prim_ts' = [prim_ts EXCEPT ![p] = ts]
    /\ ts_state' = [ts_state EXCEPT ![ts] =
           turnstile_state_add(turnstile_state_remove(@, TURNSTILE_STATE_THREAD),
                               InstalledFlag(p))]
    /\ ts_returned' = [ts_returned EXCEPT ![th] = ts]
    /\ UNCHANGED ts_free

PrepareInstall(th, p, ts) ==
    /\ prim_ts[p] = TURNSTILE_NULL
    /\ prim_ts' = [prim_ts EXCEPT ![p] = ts]
    /\ ts_state' = [ts_state EXCEPT ![ts] =
           turnstile_state_add(turnstile_state_remove(@, TURNSTILE_STATE_THREAD),
                               InstalledFlag(p))]
    /\ ts_returned' = [ts_returned EXCEPT ![th] = ts]
    /\ UNCHANGED ts_free

(* Mutant: the donated turnstile keeps its STATE_THREAD bit.              *)
PrepareDonate_keeps_thread_bit(th, p, ts) ==
    /\ prim_ts[p] # TURNSTILE_NULL
    /\ ts_free' = [ts_free EXCEPT ![prim_ts[p]] = @ \cup {ts}]
    /\ ts_state' = [ts_state EXCEPT ![ts] = turnstile_state_add(@, TURNSTILE_STATE_FREELIST)]
    /\ ts_returned' = [ts_returned EXCEPT ![th] = prim_ts[p]]
    /\ UNCHANGED prim_ts

PrepareDonate(th, p, ts) ==
    /\ prim_ts[p] # TURNSTILE_NULL
    /\ ts_free' = [ts_free EXCEPT ![prim_ts[p]] = @ \cup {ts}]
    /\ ts_state' = [ts_state EXCEPT ![ts] =
           turnstile_state_add(turnstile_state_remove(@, TURNSTILE_STATE_THREAD),
                               TURNSTILE_STATE_FREELIST)]
    /\ ts_returned' = [ts_returned EXCEPT ![th] = prim_ts[p]]
    /\ UNCHANGED prim_ts

(* Mutant: prepare does not check that the caller still carries a         *)
(* turnstile (is not already between prepare and complete).                *)
turnstile_prepare_reentrant(th, p) ==
    /\ \/ PrepareInstall(th, p, thread_ts[th])
       \/ PrepareDonate(th, p, thread_ts[th])
    /\ thread_ts' = [thread_ts EXCEPT ![th] = TURNSTILE_NULL]
    /\ prepared_on' = [prepared_on EXCEPT ![th] = p]

turnstile_prepare(th, p) ==
    /\ prepared_on[th] = PROPRIETOR_NULL
    /\ \/ PrepareInstall(th, p, thread_ts[th])
       \/ PrepareDonate(th, p, thread_ts[th])
    /\ thread_ts' = [thread_ts EXCEPT ![th] = TURNSTILE_NULL]
    /\ prepared_on' = [prepared_on EXCEPT ![th] = p]

(***************************************************************************)
(* turnstile_complete(proprietor, tstore, NULL, type), called by thread th *)
(* with the interlock of p held: a turnstile from the free list of p's     *)
(* turnstile while there is one, otherwise p's turnstile itself, which is  *)
(* then no longer installed, is attached to the thread.                    *)
(***************************************************************************)
CompleteFromFreelist(th, p) ==
    LET ts == prim_ts[p] IN
    /\ ts_free[ts] # {}
    /\ \E f \in ts_free[ts] :
          /\ ts_free' = [ts_free EXCEPT ![ts] = @ \ {f}]
          /\ ts_state' = [ts_state EXCEPT ![f] =
                 turnstile_state_add(turnstile_state_remove(@, TURNSTILE_STATE_FREELIST),
                                     TURNSTILE_STATE_THREAD)]
          /\ thread_ts' = [thread_ts EXCEPT ![th] = f]
    /\ UNCHANGED prim_ts

(* Mutant: the primitive's own turnstile is taken back although other     *)
(* waiters' turnstiles are still on its free list.                         *)
CompleteFromPrimitive_ignores_freelist(th, p) ==
    LET ts == prim_ts[p] IN
    /\ prim_ts' = [prim_ts EXCEPT ![p] = TURNSTILE_NULL]
    /\ ts_state' = [ts_state EXCEPT ![ts] =
           turnstile_state_add(turnstile_state_remove(@, InstalledFlag(p)),
                               TURNSTILE_STATE_THREAD)]
    /\ thread_ts' = [thread_ts EXCEPT ![th] = ts]
    /\ UNCHANGED ts_free

CompleteFromPrimitive(th, p) ==
    LET ts == prim_ts[p] IN
    /\ ts_free[ts] = {}
    /\ prim_ts' = [prim_ts EXCEPT ![p] = TURNSTILE_NULL]
    /\ ts_state' = [ts_state EXCEPT ![ts] =
           turnstile_state_add(turnstile_state_remove(@, InstalledFlag(p)),
                               TURNSTILE_STATE_THREAD)]
    /\ thread_ts' = [thread_ts EXCEPT ![th] = ts]
    /\ UNCHANGED ts_free

turnstile_complete(th, p) ==
    /\ prepared_on[th] = p
    /\ \/ CompleteFromFreelist(th, p)
       \/ CompleteFromPrimitive(th, p)
    /\ ts_returned' = [ts_returned EXCEPT ![th] = TURNSTILE_NULL]
    /\ prepared_on' = [prepared_on EXCEPT ![th] = PROPRIETOR_NULL]

Next ==
    \E th \in Threads, p \in Proprietors :
        \/ turnstile_prepare(th, p)
        \/ turnstile_complete(th, p)

Spec == Init /\ [][Next]_pool_vars

-----------------------------------------------------------------------------
(* The threads between prepare and complete on p.                          *)
Users(p) == {th \in Threads : prepared_on[th] = p}

TypeOK ==
    /\ thread_ts \in [Threads -> Turnstiles \cup {TURNSTILE_NULL}]
    /\ prim_ts \in [Proprietors -> Turnstiles \cup {TURNSTILE_NULL}]
    /\ ts_free \in [Turnstiles -> SUBSET Turnstiles]
    /\ ts_state \in [Turnstiles -> SUBSET StateFlags]
    /\ ts_returned \in [Threads -> Turnstiles \cup {TURNSTILE_NULL}]
    /\ prepared_on \in [Threads -> Proprietors \cup {PROPRIETOR_NULL}]

(* "The turnstile returned by this function is safe to use until the       *)
(* thread calls turnstile_complete": while th is between prepare and       *)
(* complete on p, what prepare returned is still p's turnstile, although   *)
(* other threads have prepared and completed on p in the meantime.         *)
PrepareResultStable ==
    \A th \in Threads :
        prepared_on[th] # PROPRIETOR_NULL =>
            /\ ts_returned[th] = prim_ts[prepared_on[th]]
            /\ ts_returned[th] # TURNSTILE_NULL

(* No turnstile is lost or shared: each one is at exactly one place, held  *)
(* by one thread, installed for one proprietor or on one free list, and    *)
(* the thread-side and primitive-side counts balance: a primitive holds    *)
(* exactly one turnstile per thread that lent it one, which is what lets   *)
(* turnstile_complete always hand the caller a turnstile.                  *)
Holders(ts) ==
    {<<"thread", th>> : th \in {t \in Threads : thread_ts[t] = ts}}
    \cup {<<"prim", p>> : p \in {q \in Proprietors : prim_ts[q] = ts}}
    \cup {<<"free", o>> : o \in {u \in Turnstiles : ts \in ts_free[u]}}

TurnstileConservation ==
    /\ \A ts \in Turnstiles : Cardinality(Holders(ts)) = 1
    /\ \A p \in Proprietors :
          Cardinality(Users(p)) =
              IF prim_ts[p] = TURNSTILE_NULL THEN 0
                                             ELSE 1 + Cardinality(ts_free[prim_ts[p]])

(* The debug state bits say where the turnstile is: exactly one bit is     *)
(* set, and it is the one for the place the turnstile is held.  A flag     *)
(* added twice or removed when absent (the asserts of                      *)
(* turnstile_state_add/remove) leaves the bits disagreeing with the place. *)
StateMatchesOwnership ==
    \A ts \in Turnstiles :
        ts_state[ts] =
            { f \in StateFlags :
                \/ f = TURNSTILE_STATE_THREAD /\ \E th \in Threads : thread_ts[th] = ts
                \/ f = TURNSTILE_STATE_FREELIST /\ \E u \in Turnstiles : ts \in ts_free[u]
                \/ \E p \in Proprietors : prim_ts[p] = ts /\ f = InstalledFlag(p) }

(* Where a turnstile is in the lending view: with the thread carrying it, *)
(* or with the primitive that holds it in its slot, hash entry or on the   *)
(* free list of its turnstile; PROPRIETOR_NULL if it is nowhere.           *)
HolderOf(ts) ==
    LET Holds(h) ==
            \/ h \in Threads /\ thread_ts[h] = ts
            \/ h \in Proprietors /\ prim_ts[h] # TURNSTILE_NULL
                                 /\ ts \in {prim_ts[h]} \cup ts_free[prim_ts[h]]
    IN IF \E h \in Threads \cup Proprietors : Holds(h)
         THEN CHOOSE h \in Threads \cup Proprietors : Holds(h)
         ELSE PROPRIETOR_NULL

Lending == INSTANCE TurnstileLending
               WITH holder <- [ts \in Turnstiles |-> HolderOf(ts)],
                    lent <- prepared_on,
                    primary <- prim_ts

(* turnstile_prepare and turnstile_complete implement the header's         *)
(* contract: every step lends the caller's turnstile to the primitive or   *)
(* hands one of the primitive's turnstiles back, and the primitive's own   *)
(* turnstile, the one prepare returned, stays with it until its last user  *)
(* completes.                                                              *)
LendingRefined == Lending!Spec
=============================================================================
