--------------------------- MODULE TurnstileSleep ---------------------------
(***************************************************************************)
(* Priority inheritance through turnstiles, driven by the sleep-with-      *)
(* inheritor KPI of kern/turnstile.h (TURNSTILE_SLEEP_INHERITOR):          *)
(* lck_*_sleep_with_inheritor_and_turnstile_type,                          *)
(* wakeup_with_inheritor_and_turnstile_type and                            *)
(* change_sleep_inheritor_and_turnstile_type, built on turnstile_prepare,  *)
(* turnstile_update_inheritor, turnstile_update_inheritor_complete and     *)
(* turnstile_complete.                                                     *)
(*                                                                         *)
(* The interlock of this turnstile type is the hash bucket spinlock of the *)
(* event, so every event's turnstile lives in the hash table.  Each call   *)
(* first does its work under that spinlock in one atomic step, then drops  *)
(* it and runs turnstile_update_inheritor_complete(TURNSTILE_INTERLOCK_    *)
(* NOT_HELD), which walks the inheritance chain one hop per step, each hop *)
(* under the locks of the node it updates, interleaved with every other    *)
(* thread's steps, and stops at TURNSTILE_MAX_HOP_DEFAULT hops.            *)
(***************************************************************************)
EXTENDS Naturals, Sequences, FiniteSets
LOCAL INSTANCE FiniteSetsExt

CONSTANTS
    Threads, Turnstiles, Events, InitialTurnstile,
    TURNSTILE_NULL, PROPRIETOR_NULL,
    TURNSTILE_INHERITOR_NULL,
    BasePri,      \* base scheduling priority of each thread
    MaxHop        \* TURNSTILE_MAX_HOP_DEFAULT

ASSUME TURNSTILE_INHERITOR_NULL \notin Threads
ASSUME BasePri \in [Threads -> Nat \ {0}] /\ MaxHop \in Nat \ {0}

VARIABLES
    thread_ts, prim_ts, ts_free, ts_state, ts_returned, prepared_on,
    ts_inheritor,  \* the inheritor a turnstile pushes on
    ts_pri,        \* the priority a turnstile last computed from its waiters
    th_pri,        \* a thread's priority including the pushes it received
    waiting_on,    \* the event a thread is asserted to wait on
    pc,            \* "idle", or "sleep" from the sleep call until it returns
    walk,          \* the pending propagation hops of the thread's last call
    hop_cut        \* history: some walk was cut by the hop limit while still changing

Pool == INSTANCE TurnstilePool WITH Proprietors <- Events, HashedProprietors <- Events

vars == <<thread_ts, prim_ts, ts_free, ts_state, ts_returned, prepared_on,
          ts_inheritor, ts_pri, th_pri, waiting_on, pc, walk, hop_cut>>
prio_vars == <<ts_inheritor, ts_pri, th_pri>>

(* A propagation cursor: the node to update next and the hops so far.      *)
Cursor(n, h) == [node |-> n, hop |-> h]

Waiters(ts) == {w \in Threads : waiting_on[w] # PROPRIETOR_NULL /\ prim_ts[waiting_on[w]] = ts}

(* What a turnstile pushes: the highest priority among its waiters.        *)
TurnstilePriFromWaiters(ts) == Max({0} \cup {th_pri[w] : w \in Waiters(ts)})

(* A thread's priority: its base priority or the highest push it receives. *)
ThreadPriFromPushes(u) ==
    Max({BasePri[u]} \cup {ts_pri[ts] : ts \in {x \in Turnstiles : ts_inheritor[x] = u}})

(* The walk that update_inheritor_complete does for turnstile ts whose     *)
(* inheritor was old: from ts to the new inheritor, and from the old       *)
(* inheritor (stashed on the calling thread) to drop the push it had.      *)
(* Mutant: the stashed old inheritor is dropped without a walk from it.   *)
UpdateWalk_forgets_old(ts, old, new) == <<Cursor(ts, 0)>>

UpdateWalk(ts, old, new) ==
    <<Cursor(ts, 0)>> \o (IF old \in Threads /\ old # new THEN <<Cursor(old, 0)>> ELSE <<>>)

(* The threads and events on the inheritance chain starting at thread u.   *)
RECURSIVE ChainFrom(_, _)
ChainFrom(u, d) ==
    IF d = 0 \/ u \notin Threads THEN {}
    ELSE IF waiting_on[u] = PROPRIETOR_NULL THEN {u}
    ELSE {u, waiting_on[u]} \cup ChainFrom(ts_inheritor[prim_ts[waiting_on[u]]], d - 1)

Depth == Cardinality(Threads) + 1

(* The caller's obligation, not a check of the KPI (turnstile.h: "its job *)
(* of the adopter to make sure that there is no lock inversion"): the      *)
(* model only explores callers that never push on inh from event e when    *)
(* that would close a cycle, since a cycle would have threads wait on each *)
(* other for ever whatever the turnstile code does.                        *)
NoCycle(e, inh, waiter) ==
    /\ inh # waiter
    /\ e \notin ChainFrom(inh, Depth)
    /\ waiter \notin ChainFrom(inh, Depth)

Init ==
    /\ Pool!Init
    /\ ts_inheritor = [ts \in Turnstiles |-> TURNSTILE_INHERITOR_NULL]
    /\ ts_pri = [ts \in Turnstiles |-> 0]
    /\ th_pri = BasePri
    /\ waiting_on = [th \in Threads |-> PROPRIETOR_NULL]
    /\ pc = [th \in Threads |-> "idle"]
    /\ walk = [th \in Threads |-> <<>>]
    /\ hop_cut = FALSE

Idle(th) == pc[th] = "idle" /\ walk[th] = <<>>

(***************************************************************************)
(* lck_mtx_sleep_with_inheritor: under the bucket lock of e,               *)
(* turnstile_prepare, turnstile_update_inheritor(ts, inh,                  *)
(* TURNSTILE_DELAYED_UPDATE | TURNSTILE_INHERITOR_THREAD) and the assert   *)
(* wait that applies the stashed inheritor and queues th as a waiter; then *)
(* with the lock dropped, turnstile_update_inheritor_complete(ts,          *)
(* TURNSTILE_INTERLOCK_NOT_HELD) and thread_block.                         *)
(***************************************************************************)
sleep_with_inheritor(th, e, inh) ==
    /\ Idle(th)
    /\ NoCycle(e, inh, th)
    /\ Pool!turnstile_prepare(th, e)
    /\ LET ts == ts_returned'[th] IN
       /\ ts_inheritor' = [ts_inheritor EXCEPT ![ts] = inh]
       /\ walk' = [walk EXCEPT ![th] = UpdateWalk(ts, ts_inheritor[ts], inh)]
    /\ waiting_on' = [waiting_on EXCEPT ![th] = e]
    /\ pc' = [pc EXCEPT ![th] = "sleep"]
    /\ UNCHANGED <<ts_pri, th_pri, hop_cut>>

(***************************************************************************)
(* wakeup_with_inheritor: under the bucket lock, wake the highest priority *)
(* waiter (wake_one) or all of them.  With LCK_WAKE_DEFAULT the woken      *)
(* thread becomes the inheritor (turnstile_kernel_update_inheritor_on_     *)
(* wake_locked); with LCK_WAKE_DO_NOT_TRANSFER_PUSH, or when waking all,   *)
(* the turnstile is left without inheritor.  Then propagate.               *)
(***************************************************************************)
WakeOne(e, ts, transfer) ==
    \E w \in Waiters(ts) :
        /\ \A x \in Waiters(ts) : th_pri[x] <= th_pri[w]
        /\ waiting_on' = [waiting_on EXCEPT ![w] = PROPRIETOR_NULL]
        /\ ts_inheritor' = [ts_inheritor EXCEPT ![ts] =
                               IF transfer THEN w ELSE TURNSTILE_INHERITOR_NULL]

WakeAll(e, ts) ==
    /\ waiting_on' = [x \in Threads |-> IF x \in Waiters(ts) THEN PROPRIETOR_NULL
                                                           ELSE waiting_on[x]]
    /\ ts_inheritor' = [ts_inheritor EXCEPT ![ts] = TURNSTILE_INHERITOR_NULL]

wakeup_with_inheritor(th, e) ==
    LET ts == prim_ts[e] IN
    /\ Idle(th)
    /\ ts # TURNSTILE_NULL
    /\ Waiters(ts) # {}
    /\ \/ \E transfer \in BOOLEAN : WakeOne(e, ts, transfer)
       \/ WakeAll(e, ts)
    /\ walk' = [walk EXCEPT ![th] = UpdateWalk(ts, ts_inheritor[ts], ts_inheritor'[ts])]
    /\ UNCHANGED <<thread_ts, prim_ts, ts_free, ts_state, ts_returned, prepared_on,
                   ts_pri, th_pri, pc, hop_cut>>

(***************************************************************************)
(* change_sleep_inheritor: under the bucket lock, if e has a turnstile,    *)
(* turnstile_update_inheritor(ts, inh, TURNSTILE_IMMEDIATE_UPDATE |        *)
(* TURNSTILE_INHERITOR_THREAD); then propagate.  Without a turnstile the   *)
(* call returns KERN_NOT_WAITING and changes nothing.                      *)
(***************************************************************************)
change_sleep_inheritor(th, e, inh) ==
    LET ts == prim_ts[e] IN
    /\ Idle(th)
    /\ ts # TURNSTILE_NULL
    /\ \A w \in Waiters(ts) : NoCycle(e, inh, w)
    /\ ts_inheritor' = [ts_inheritor EXCEPT ![ts] = inh]
    /\ walk' = [walk EXCEPT ![th] = UpdateWalk(ts, ts_inheritor[ts], inh)]
    /\ UNCHANGED <<thread_ts, prim_ts, ts_free, ts_state, ts_returned, prepared_on,
                   ts_pri, th_pri, waiting_on, pc, hop_cut>>

(***************************************************************************)
(* The sleeping thread returns from thread_block once woken: under the     *)
(* bucket lock, turnstile_complete.  When it takes the event's own         *)
(* turnstile (no other thread is sleeping on e) that turnstile's inheritor *)
(* is cleared, and the old inheritor is left for the propagation after the *)
(* lock is dropped to recompute.                                           *)
(***************************************************************************)
sleep_return(th) ==
    LET e == prepared_on[th]
        ts == prim_ts[e] IN
    /\ pc[th] = "sleep" /\ walk[th] = <<>>
    /\ waiting_on[th] = PROPRIETOR_NULL
    /\ Pool!turnstile_complete(th, e)
    /\ IF prim_ts'[e] = TURNSTILE_NULL
       THEN /\ ts_inheritor' = [ts_inheritor EXCEPT ![ts] = TURNSTILE_INHERITOR_NULL]
            /\ ts_pri' = [ts_pri EXCEPT ![ts] = 0]
            /\ walk' = [walk EXCEPT ![th] =
                   IF ts_inheritor[ts] \in Threads THEN <<Cursor(ts_inheritor[ts], 0)>>
                                                   ELSE <<>>]
       ELSE UNCHANGED <<ts_inheritor, ts_pri, walk>>
    /\ pc' = [pc EXCEPT ![th] = "idle"]
    /\ UNCHANGED <<th_pri, waiting_on, hop_cut>>

(***************************************************************************)
(* One hop of turnstile_update_inheritor_complete.  At a turnstile:        *)
(* recompute its push from its waiters, then go on to its inheritor,       *)
(* unless it has none (ts_no_inheritor).  At a thread: recompute its       *)
(* priority from its base and its pushes, then go on to the turnstile it   *)
(* waits on, unless it is runnable (ts_thread_runnable).  Past the first   *)
(* node, a node whose value does not change ends the walk                  *)
(* (ts_no_priority_change_required), and no walk goes past MaxHop hops.    *)
(***************************************************************************)
(* Mutant: the hop limit is compared one hop late.                        *)
Continue_off_by_one(c, changed, nxt) ==
    IF (c.hop > 0 /\ ~changed) \/ c.hop > MaxHop THEN <<>>
    ELSE <<Cursor(nxt, c.hop + 1)>>

Continue(c, changed, nxt) ==
    IF (c.hop > 0 /\ ~changed) \/ c.hop + 1 > MaxHop THEN <<>>
    ELSE <<Cursor(nxt, c.hop + 1)>>

(* The walk would go on to nxt but for the hop limit.                      *)
CutByHopLimit(c, changed) == ~(c.hop > 0 /\ ~changed) /\ c.hop + 1 > MaxHop

PropagateTurnstile(th, c) ==
    LET ts == c.node
        new == TurnstilePriFromWaiters(ts) IN
    /\ ts_pri' = [ts_pri EXCEPT ![ts] = new]
    /\ walk' = [walk EXCEPT ![th] =
           (IF ts_inheritor[ts] = TURNSTILE_INHERITOR_NULL THEN <<>>
            ELSE Continue(c, new # ts_pri[ts], ts_inheritor[ts])) \o Tail(walk[th])]
    /\ hop_cut' = (hop_cut \/ (ts_inheritor[ts] # TURNSTILE_INHERITOR_NULL
                                /\ CutByHopLimit(c, new # ts_pri[ts])))
    /\ UNCHANGED th_pri

PropagateThread(th, c) ==
    LET u == c.node
        new == ThreadPriFromPushes(u) IN
    /\ th_pri' = [th_pri EXCEPT ![u] = new]
    /\ walk' = [walk EXCEPT ![th] =
           (IF waiting_on[u] = PROPRIETOR_NULL THEN <<>>
            ELSE Continue(c, new # th_pri[u], prim_ts[waiting_on[u]])) \o Tail(walk[th])]
    /\ hop_cut' = (hop_cut \/ (waiting_on[u] # PROPRIETOR_NULL
                                /\ CutByHopLimit(c, new # th_pri[u])))
    /\ UNCHANGED ts_pri

turnstile_update_inheritor_complete(th) ==
    /\ walk[th] # <<>>
    /\ \/ Head(walk[th]).node \in Turnstiles /\ PropagateTurnstile(th, Head(walk[th]))
       \/ Head(walk[th]).node \in Threads /\ PropagateThread(th, Head(walk[th]))
    /\ UNCHANGED <<thread_ts, prim_ts, ts_free, ts_state, ts_returned, prepared_on,
                   ts_inheritor, waiting_on, pc>>

Next ==
    \E th \in Threads :
        \/ \E e \in Events, inh \in Threads : sleep_with_inheritor(th, e, inh)
        \/ \E e \in Events : wakeup_with_inheritor(th, e)
        \/ \E e \in Events, inh \in Threads : change_sleep_inheritor(th, e, inh)
        \/ sleep_return(th)
        \/ turnstile_update_inheritor_complete(th)

(* A propagation runs to completion on the thread that started it, under  *)
(* spinlocks; a woken thread is runnable and is eventually scheduled.      *)
Fairness ==
    \A th \in Threads :
        /\ WF_vars(turnstile_update_inheritor_complete(th))
        /\ WF_vars(sleep_return(th))

Spec == Init /\ [][Next]_vars /\ Fairness

-----------------------------------------------------------------------------
TypeOK ==
    /\ Pool!TypeOK
    /\ ts_inheritor \in [Turnstiles -> Threads \cup {TURNSTILE_INHERITOR_NULL}]
    /\ ts_pri \in [Turnstiles -> Nat]
    /\ th_pri \in [Threads -> Nat]
    /\ waiting_on \in [Threads -> Events \cup {PROPRIETOR_NULL}]
    /\ pc \in [Threads -> {"idle", "sleep"}]
    /\ walk \in [Threads -> Seq([node : Threads \cup Turnstiles, hop : 0..MaxHop])]
    /\ hop_cut \in BOOLEAN

(* The priority each node should have: a thread gets the highest of its    *)
(* base priority and of what the turnstiles it inherits from push, and a   *)
(* turnstile pushes the highest of its waiters' priorities.                *)
RECURSIVE TrueThreadPri(_, _)
TrueThreadPri(u, d) ==
    IF d = 0 THEN BasePri[u]
    ELSE Max({BasePri[u]} \cup
             {TrueThreadPri(w, d - 1) :
                 w \in UNION {Waiters(ts) : ts \in {x \in Turnstiles : ts_inheritor[x] = u}}})

(* No propagation is pending and every thread is idle or blocked.          *)
Quiescent ==
    \A th \in Threads :
        /\ walk[th] = <<>>
        /\ pc[th] = "sleep" => waiting_on[th] # PROPRIETOR_NULL

(* Priority inheritance: once every update_inheritor_complete has run,     *)
(* each thread runs at least at the priority of every thread blocked,      *)
(* directly or through a chain of inheritors, on something it must         *)
(* release, and at no higher priority than that: no push is lost after a   *)
(* wakeup, an inheritor change or a turnstile returned to a thread, and    *)
(* no stale push is left on a former inheritor.  Walks run concurrently    *)
(* and each stops early where its node did not change, trusting the other  *)
(* walk to carry on.  Stopping at TURNSTILE_MAX_HOP_DEFAULT is a declared  *)
(* trade-off that may leave a push stale, so the claim is made for         *)
(* behaviours in which no walk was cut by the limit.                       *)
PriorityInheritanceAtRest ==
    (Quiescent /\ ~hop_cut) => \A u \in Threads : th_pri[u] = TrueThreadPri(u, Depth)
=============================================================================
