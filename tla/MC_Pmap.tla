------------------------------- MODULE MC_Pmap -------------------------------
(* The two x86_64 pmap components of i386/pmap.h checked in one run: the  *)
(* PTE word operations of PmapPte and the physmap window of PhysmapBounds. *)
(* They share no state, so a behaviour exercises one of them, chosen in    *)
(* the initial state, and the states of the run are those of the two       *)
(* models side by side rather than their product.                         *)
EXTENDS Naturals

CONSTANTS W, GB, Bases, Sizes

VARIABLES part, pte, phys_attr, req, accessed,
          physmap_base, physmap_max, panicked, pvaddr

PT == INSTANCE PmapPte
PB == INSTANCE PhysmapBounds

ptevars == <<pte, phys_attr, req, accessed>>
pbvars == <<physmap_base, physmap_max, panicked, pvaddr>>
vars == <<part, ptevars, pbvars>>

(* While the PTE part runs, the physmap sits in one of its boot states.    *)
OneBoot ==
    /\ physmap_base = CHOOSE b \in Bases : TRUE
    /\ physmap_max = physmap_base + (CHOOSE s \in Sizes : TRUE)

Init ==
    /\ PT!Init /\ PB!Init
    /\ \/ part = "pte" /\ OneBoot
       \/ part = "physmap"

Next ==
    \/ part = "pte" /\ PT!Next /\ UNCHANGED <<part, pbvars>>
    \/ part = "physmap" /\ PB!Next /\ UNCHANGED <<part, ptevars>>

Spec == Init /\ [][Next]_vars

(* The PTE words and attributes keep their types (PmapPte).               *)
TypeOK == PT!TypeOK

(* Referenced and modified bits are never lost or invented (PmapPte).     *)
RefModExact == PT!RefModExact

(* Protection changes keep the other attribute bits (PmapPte).            *)
PteAttributesIntact == PT!PteAttributesIntact

(* A compressed marker stays recognised, locked or not (PmapPte).         *)
CompressedRecognized == PT!CompressedRecognized

(* An enclosed address translates without panic (PhysmapBounds).         *)
NoPtovPanic == PB!NoPtovPanic
=============================================================================
