---------------------------- MODULE PhysmapBounds ----------------------------
(***************************************************************************)
(* The x86_64 physmap window: i386/pmap.h, NPHYSMAP, physmap_enclosed and  *)
(* PHYSMAP_PTOV_check.  physmap_base and physmap_max are set once at boot; *)
(* a caller asks physmap_enclosed and then translates the physical address *)
(* to its physmap virtual address.  Addresses are words of W bits (64 in   *)
(* the kernel) and GB is the scaled gigabyte, so the floor of 4 GB in      *)
(* NPHYSMAP is 4 * GB here.                                                *)
(***************************************************************************)
EXTENDS Naturals

CONSTANTS
    W,             \* address width in bits
    GB,            \* one gigabyte, scaled
    Bases,         \* the physmap_base values boot may choose
    Sizes          \* the physmap_max - physmap_base values boot may choose

Word == 2^W
Addr == 0..(Word - 1)
ASSUME \A b \in Bases, s \in Sizes : b + s < Word

VARIABLES physmap_base, physmap_max, panicked, pvaddr

vars == <<physmap_base, physmap_max, panicked, pvaddr>>

NONE == Word   \* no translation returned yet

MaxOf(a, b) == IF a >= b THEN a ELSE b

NPHYSMAP == MaxOf((physmap_max - physmap_base) \div GB, 4)

(* The mutant form lets the first address past the window in.              *)
physmap_enclosed_le(a) == a <= NPHYSMAP * GB
physmap_enclosed(a) == a < NPHYSMAP * GB

(* uint64_t pvaddr = (uint64_t)paddr + physmap_base, wrapping at 2^W.      *)
PtovAddr(paddr) == (paddr + physmap_base) % Word

Init ==
    /\ physmap_base \in Bases
    /\ physmap_max \in {physmap_base + s : s \in Sizes}
    /\ panicked = FALSE
    /\ pvaddr = NONE

(* PHYSMAP_PTOV(paddr): panic when pvaddr >= physmap_max, else return it.  *)
PHYSMAP_PTOV_check(paddr) ==
    /\ ~panicked
    /\ physmap_enclosed(paddr)
    /\ IF PtovAddr(paddr) >= physmap_max
         THEN panicked' = TRUE /\ UNCHANGED pvaddr
         ELSE pvaddr' = PtovAddr(paddr) /\ UNCHANGED panicked
    /\ UNCHANGED <<physmap_base, physmap_max>>

Next == \E a \in Addr : PHYSMAP_PTOV_check(a)

Spec == Init /\ [][Next]_vars

-----------------------------------------------------------------------------
(* An address physmap_enclosed accepts translates without the "PHYSMAP_PTOV *)
(* bounds exceeded" panic: the floor of 4 GB in NPHYSMAP and the integer   *)
(* division never admit an address past physmap_max.                      *)
NoPtovPanic == ~panicked
=============================================================================
