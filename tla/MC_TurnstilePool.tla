-------------------------- MODULE MC_TurnstilePool --------------------------
(* Three threads and two primitives, one keeping its turnstile in its own  *)
(* slot and one in the hash table: enough for two waiters on a primitive   *)
(* while a third thread uses the other one, and for completes in either    *)
(* order.                                                                  *)
EXTENDS TurnstilePool, TLC

CONSTANTS t1, t2, t3, ts1, ts2, ts3

MC_InitialTurnstile == (t1 :> ts1) @@ (t2 :> ts2) @@ (t3 :> ts3)
=============================================================================
