------------------------- MODULE MC_TurnstileSleep -------------------------
(* Three threads and two events.  The longest inheritance chain without a *)
(* cycle is ts(e1) -> u -> ts(e2) -> v, three hops, so a walk that is cut  *)
(* by the hop limit is one that wandered while the chain changed under    *)
(* it.  Two threads share a base priority and the third is higher, so a  *)
(* push can raise a thread and a wakeup can lower one.                    *)
EXTENDS TurnstileSleep, TLC

CONSTANTS t1, t2, t3, ts1, ts2, ts3, e1, e2

MC_InitialTurnstile == (t1 :> ts1) @@ (t2 :> ts2) @@ (t3 :> ts3)
MC_BasePri == (t1 :> 1) @@ (t2 :> 1) @@ (t3 :> 2)

(* Turnstiles and events are interchangeable, and so are the two threads  *)
(* of equal base priority: no definition names a particular one.          *)
MC_Symmetry == Permutations({ts1, ts2, ts3}) \cup Permutations({t1, t2})
               \cup Permutations({e1, e2})

(* At most two propagations are in flight at once: two walks racing over  *)
(* the same chain is the case the early stop has to survive.               *)
MC_TwoWalks == Cardinality({th \in Threads : walk[th] # <<>>}) <= 2
=============================================================================
