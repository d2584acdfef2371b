------------------------------- MODULE Persona -------------------------------
(***************************************************************************)
(* The life of a persona and its references: kpersona_alloc, kpersona_     *)
(* palloc and kpersona_dealloc of System sys/persona.h create and destroy  *)
(* an in-kernel persona, and the kernel KPI of Kernel sys/persona.h        *)
(* (persona_lookup, persona_find, persona_find_by_type, persona_proc_get,  *)
(* persona_get) hands out references that "must be released with          *)
(* persona_put".  A destroyed persona can no longer be looked up or found, *)
(* but its memory lives until the last reference is put.                   *)
(*                                                                         *)
(* A persona is one of a few slots; its id, login name and type are fixed  *)
(* at allocation (the id is the slot).  The voucher adopted by a thread,   *)
(* which current_persona_get consults, is not modelled.  A process spawned *)
(* into a persona holds a reference to it until it exits.                  *)
(***************************************************************************)
EXTENDS Naturals, FiniteSets
LOCAL INSTANCE FiniteSetsExt

CONSTANTS
    Personas,   \* persona slots
    Clients,    \* kernel threads using the KPI
    Pids,       \* processes
    Names,      \* login names
    Types,      \* persona types (PERSONA_GUEST, ...)
    MaxRef,     \* bound on a persona's reference count
    MaxPlen,    \* largest plen buffer a caller passes
    NONE        \* no persona

ASSUME NONE \notin Personas /\ MaxRef \in Nat /\ MaxPlen \in Nat

VARIABLES
    pstate,        \* "free", "live" (allocated) or "dead" (deallocated, still referenced)
    pname, ptype,  \* the login name and type given at allocation
    refcnt,        \* the persona's reference count
    held,          \* held[c][pe]: references client c holds on pe
    proc_persona   \* the persona a process runs under, or NONE

vars == <<pstate, pname, ptype, refcnt, held, proc_persona>>

Init ==
    /\ pstate = [pe \in Personas |-> "free"]
    /\ pname = [pe \in Personas |-> CHOOSE nm \in Names : TRUE]
    /\ ptype = [pe \in Personas |-> CHOOSE ty \in Types : TRUE]
    /\ refcnt = [pe \in Personas |-> 0]
    /\ held = [c \in Clients |-> [pe \in Personas |-> 0]]
    /\ proc_persona = [pid \in Pids |-> NONE]

Live == {pe \in Personas : pstate[pe] = "live"}

(* Dropping one reference frees the persona when it was the last.          *)
Release(pe) ==
    /\ refcnt' = [refcnt EXCEPT ![pe] = @ - 1]
    /\ pstate' = [pstate EXCEPT ![pe] = IF refcnt[pe] = 1 THEN "free" ELSE @]

(* Client c takes one more reference on each persona of S.                 *)
TakeRefs(c, S) ==
    /\ \A pe \in S : refcnt[pe] < MaxRef
    /\ refcnt' = [pe \in Personas |-> IF pe \in S THEN refcnt[pe] + 1 ELSE refcnt[pe]]
    /\ held' = [held EXCEPT ![c] = [pe \in Personas |->
                   IF pe \in S THEN @[pe] + 1 ELSE @[pe]]]

(***************************************************************************)
(* kpersona_alloc / kpersona_palloc: a new persona with the given name and *)
(* type; the persona_id of the info is ignored and the kernel's list holds *)
(* the first reference.                                                    *)
(***************************************************************************)
kpersona_alloc(pe, nm, ty) ==
    /\ pstate[pe] = "free"
    /\ pstate' = [pstate EXCEPT ![pe] = "live"]
    /\ pname' = [pname EXCEPT ![pe] = nm]
    /\ ptype' = [ptype EXCEPT ![pe] = ty]
    /\ refcnt' = [refcnt EXCEPT ![pe] = 1]
    /\ UNCHANGED <<held, proc_persona>>

(* kpersona_dealloc: the persona leaves the kernel's list, which drops its *)
(* reference.                                                              *)
kpersona_dealloc(pe) ==
    /\ pstate[pe] = "live"
    /\ refcnt' = [refcnt EXCEPT ![pe] = @ - 1]
    /\ pstate' = [pstate EXCEPT ![pe] = IF refcnt[pe] = 1 THEN "free" ELSE "dead"]
    /\ UNCHANGED <<pname, ptype, held, proc_persona>>

(* persona_lookup(id): a reference on the live persona with that id.      *)
persona_lookup(c, pe) ==
    /\ pstate[pe] = "live"
    /\ TakeRefs(c, {pe})
    /\ UNCHANGED <<pstate, pname, ptype, proc_persona>>

(* Mutant: a reference is taken on every match, not only on those that    *)
(* fit in the caller's buffer.                                             *)
Find_refs_all(c, M, plen) ==
    /\ \E S \in kSubset(Min({plen, Cardinality(M)}), M) :
          /\ \A pe \in M : refcnt[pe] < MaxRef
          /\ refcnt' = [pe \in Personas |-> IF pe \in M THEN refcnt[pe] + 1 ELSE refcnt[pe]]
          /\ held' = [held EXCEPT ![c] = [pe \in Personas |->
                         IF pe \in S THEN @[pe] + 1 ELSE @[pe]]]
    /\ UNCHANGED <<pstate, pname, ptype, proc_persona>>

(* persona_find / persona_find_by_type: plen on output is the number of    *)
(* matches M, which "could be larger than input value"; the buffer gets    *)
(* min(plen, |M|) of them, each a reference the caller must put.           *)
Find(c, M, plen) ==
    /\ \E S \in kSubset(Min({plen, Cardinality(M)}), M) : TakeRefs(c, S)
    /\ UNCHANGED <<pstate, pname, ptype, proc_persona>>

persona_find(c, nm, plen) == Find(c, {pe \in Live : pname[pe] = nm}, plen)

persona_find_by_type(c, ty, plen) == Find(c, {pe \in Live : ptype[pe] = ty}, plen)

(* persona_proc_get(pid): a reference on the persona pid runs under.       *)
persona_proc_get(c, pid) ==
    /\ proc_persona[pid] # NONE
    /\ TakeRefs(c, {proc_persona[pid]})
    /\ UNCHANGED <<pstate, pname, ptype, proc_persona>>

(* persona_get: another reference through a persona pointer c holds.      *)
persona_get(c, pe) ==
    /\ held[c][pe] > 0
    /\ TakeRefs(c, {pe})
    /\ UNCHANGED <<pstate, pname, ptype, proc_persona>>

(* Mutant: put does not check that the caller holds a reference.           *)
persona_put_unheld(c, pe) ==
    /\ refcnt[pe] > 0
    /\ held' = [held EXCEPT ![c][pe] = @ - 1]
    /\ Release(pe)
    /\ UNCHANGED <<pname, ptype, proc_persona>>

(* persona_put: release one of c's references.                             *)
persona_put(c, pe) ==
    /\ held[c][pe] > 0
    /\ held' = [held EXCEPT ![c][pe] = @ - 1]
    /\ Release(pe)
    /\ UNCHANGED <<pname, ptype, proc_persona>>

(* The environment: a process is spawned into a live persona, taking a     *)
(* reference, and drops it when it exits.                                  *)
ProcSpawn(pid, pe) ==
    /\ proc_persona[pid] = NONE
    /\ pstate[pe] = "live" /\ refcnt[pe] < MaxRef
    /\ proc_persona' = [proc_persona EXCEPT ![pid] = pe]
    /\ refcnt' = [refcnt EXCEPT ![pe] = @ + 1]
    /\ UNCHANGED <<pstate, pname, ptype, held>>

ProcExit(pid) ==
    /\ proc_persona[pid] # NONE
    /\ proc_persona' = [proc_persona EXCEPT ![pid] = NONE]
    /\ Release(proc_persona[pid])
    /\ UNCHANGED <<pname, ptype, held>>

Next ==
    \/ \E pe \in Personas, nm \in Names, ty \in Types : kpersona_alloc(pe, nm, ty)
    \/ \E pe \in Personas : kpersona_dealloc(pe)
    \/ \E c \in Clients :
          \/ \E pe \in Personas : persona_lookup(c, pe) \/ persona_get(c, pe)
                                  \/ persona_put(c, pe)
          \/ \E nm \in Names, plen \in 0..MaxPlen : persona_find(c, nm, plen)
          \/ \E ty \in Types, plen \in 0..MaxPlen : persona_find_by_type(c, ty, plen)
          \/ \E pid \in Pids : persona_proc_get(c, pid)
    \/ \E pid \in Pids : ProcExit(pid) \/ \E pe \in Personas : ProcSpawn(pid, pe)

Spec == Init /\ [][Next]_vars

-----------------------------------------------------------------------------
TypeOK ==
    /\ pstate \in [Personas -> {"free", "live", "dead"}]
    /\ refcnt \in [Personas -> 0..MaxRef]
    /\ held \in [Clients -> [Personas -> 0..MaxRef]]
    /\ proc_persona \in [Pids -> Personas \cup {NONE}]

(* Every reference is accounted for: a persona's count is the kernel       *)
(* list's reference while it is allocated, plus the references clients     *)
(* hold, plus one per process running under it, and it is freed exactly   *)
(* when that reaches zero.  A find that references more personas than it   *)
(* returns, or a put of a reference the caller never got, breaks it long   *)
(* before anything is freed under a holder.                                *)
RefcountExact ==
    \A pe \in Personas :
        /\ refcnt[pe] = (IF pstate[pe] = "live" THEN 1 ELSE 0)
                        + MapThenSumSet(LAMBDA c : held[c][pe], Clients)
                        + Quantify(Pids, LAMBDA pid : proc_persona[pid] = pe)
        /\ (pstate[pe] = "free") = (refcnt[pe] = 0)
=============================================================================
