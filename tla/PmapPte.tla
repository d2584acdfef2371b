------------------------------- MODULE PmapPte -------------------------------
(***************************************************************************)
(* Page table entries of the i386/x86_64 pmap: i386/pmap.h, the PTE and    *)
(* EPT bit definitions, the inline filters pte_set_ex / pte_remove_ex, the *)
(* ref/mod conversions between EPT and physmap encodings, the is_ept       *)
(* selector macros and PTE_IS_COMPRESSED.                                  *)
(*                                                                         *)
(* One physical page is mapped by one regular and one EPT pmap, the two    *)
(* formats whose bits alias (EPT_EX is PTE_USER, EPT_WTHRU is PTE_REF,     *)
(* EPT_IPAT is PTE_MOD).  A 64-bit entry is the set of its bit positions   *)
(* in 0..63: & is \cap, | is \cup, & ~m is \.  Each action is one store    *)
(* (pmap_store_pte) of a value the header's routines compute; the pmap is  *)
(* indexed by is_ept.  Hardware walks set the ref/mod bits of the format.  *)
(***************************************************************************)
EXTENDS Naturals, FiniteSets

Bits == 0..63
BitRange(lo, hi) == {n \in Bits : lo <= n /\ n <= hi}

(* INTEL_PTE_* (regular 4-level format).                                   *)
INTEL_PTE_VALID == {0}
INTEL_PTE_WRITE == {1}
INTEL_PTE_RW == {1}
INTEL_PTE_USER == {2}
INTEL_PTE_WTHRU == {3}
INTEL_PTE_NCACHE == {4}
INTEL_PTE_REF == {5}
INTEL_PTE_MOD == {6}
INTEL_PTE_PS == {7}
INTEL_PTE_SWLOCK == {52}
INTEL_PTE_WIRED == {54}
INTEL_PTE_COMPRESSED_ALT == {61}
INTEL_PTE_COMPRESSED == {62}
INTEL_PTE_PFN == BitRange(12, 51)     \* PG_FRAME 0x000FFFFFFFFFF000
(* The mutant form shifts one bit too far (1ULL << 64).                    *)
NX_shifted_out == {64}
INTEL_PTE_NX == {63}
INTEL_PTE_INVALID == {}

(* INTEL_EPT_* (extended page table format).                               *)
INTEL_EPT_READ == {0}
INTEL_EPT_WRITE == {1}
INTEL_EPT_EX == {2}
INTEL_EPT_REF == {8}
INTEL_EPT_MOD == {9}
INTEL_EPT_CACHE_MASK == {3, 4, 5}
INTEL_EPT_NCACHE == {}
INTEL_EPT_WTHRU == {5}
INTEL_EPT_WB == {4, 5}

(* The mutant form of the compressed mask below omits the software lock.   *)
COMPRESSED_MASK_without_swlock == INTEL_PTE_COMPRESSED \cup INTEL_PTE_COMPRESSED_ALT
INTEL_PTE_COMPRESSED_MASK ==
    INTEL_PTE_COMPRESSED \cup INTEL_PTE_COMPRESSED_ALT \cup INTEL_PTE_SWLOCK

(* PTE_IS_COMPRESSED without the repair path: not valid, the compressed    *)
(* marker set, and no bit outside the mask.  When a bit outside the mask   *)
(* is set the macro calls pmap_compressed_pte_corruption_repair.           *)
PTE_IS_COMPRESSED(x) ==
    /\ x \cap INTEL_PTE_VALID = {}
    /\ INTEL_PTE_COMPRESSED \subseteq x
    /\ x \ INTEL_PTE_COMPRESSED_MASK = {}

pa_to_pte(a) == a \cap INTEL_PTE_PFN
pte_to_pa(p) == p \cap INTEL_PTE_PFN
pte_kernel_rw(p) == pa_to_pte(p) \cup INTEL_PTE_VALID \cup INTEL_PTE_RW
pte_kernel_ro(p) == pa_to_pte(p) \cup INTEL_PTE_VALID

(* The mutant form ignores is_ept and always sets the NX bit.              *)
pte_remove_ex_ignores_ept(pte, is_ept) == pte \cup INTEL_PTE_NX
pte_remove_ex(pte, is_ept) ==
    IF ~is_ept THEN pte \cup INTEL_PTE_NX ELSE pte \ INTEL_EPT_EX
pte_set_ex(pte, is_ept) ==
    IF ~is_ept THEN pte \ INTEL_PTE_NX ELSE pte \cup INTEL_EPT_EX

(* The mutant form swaps the two bits.                                     *)
ept_refmod_to_physmap_swapped(ept_pte) ==
    (IF INTEL_EPT_REF \subseteq ept_pte THEN INTEL_PTE_MOD ELSE {})
    \cup (IF INTEL_EPT_MOD \subseteq ept_pte THEN INTEL_PTE_REF ELSE {})
ept_refmod_to_physmap(ept_pte) ==
    (IF INTEL_EPT_REF \subseteq ept_pte THEN INTEL_PTE_REF ELSE {})
    \cup (IF INTEL_EPT_MOD \subseteq ept_pte THEN INTEL_PTE_MOD ELSE {})

(* The is_ept selector macros.                                             *)
PTE_VALID_MASK(e) == IF e THEN INTEL_EPT_READ \cup INTEL_EPT_WRITE \cup INTEL_EPT_EX
                          ELSE INTEL_PTE_VALID
PTE_WRITE(e) == IF e THEN INTEL_EPT_WRITE ELSE INTEL_PTE_WRITE
PTE_IS_EXECUTABLE(e, pte) ==
    IF e THEN INTEL_EPT_EX \subseteq pte ELSE INTEL_PTE_NX \cap pte = {}
PTE_NCACHE(e) == IF e THEN INTEL_EPT_NCACHE ELSE INTEL_PTE_NCACHE
PTE_WTHRU(e) == IF e THEN INTEL_EPT_WTHRU ELSE INTEL_PTE_WTHRU
PTE_REF(e) == IF e THEN INTEL_EPT_REF ELSE INTEL_PTE_REF
PTE_MOD(e) == IF e THEN INTEL_EPT_MOD ELSE INTEL_PTE_MOD

(* Cache-type bits of each format, and the types a mapping may request:    *)
(* uncached, write-through, or the default (write-back; INTEL_EPT_WB).     *)
CacheBits(e) == IF e THEN INTEL_EPT_CACHE_MASK ELSE INTEL_PTE_NCACHE \cup INTEL_PTE_WTHRU
CacheTypes(e) == {PTE_NCACHE(e), PTE_WTHRU(e), IF e THEN INTEL_EPT_WB ELSE {}}

Valid(e, pte) == pte \cap PTE_VALID_MASK(e) # {}

(* The page both pmaps map: a page-aligned physical address.               *)
Page == {12}

NoReq == [w |-> FALSE, x |-> FALSE, cache |-> {}, wired |-> FALSE]

VARIABLES
    pte,         \* pte[is_ept]: the entry mapping Page in that pmap
    phys_attr,   \* the page's collected ref/mod, physmap encoding
    req,         \* what the last enter/protect/wiring asked of pte[e]
    accessed     \* ref/mod the hardware performed since the last clear

vars == <<pte, phys_attr, req, accessed>>

Init ==
    /\ pte = [e \in BOOLEAN |-> INTEL_PTE_INVALID]
    /\ phys_attr = {}
    /\ req = [e \in BOOLEAN |-> NoReq]
    /\ accessed = {}

Unlocked(e) == INTEL_PTE_SWLOCK \cap pte[e] = {}

(* The ref/mod bits of pte[e], converted to the physmap encoding.          *)
CollectedRefMod(e) ==
    IF e THEN ept_refmod_to_physmap(pte[e] \cap (INTEL_EPT_REF \cup INTEL_EPT_MOD))
         ELSE pte[e] \cap (INTEL_PTE_REF \cup INTEL_PTE_MOD)

(* Enter the page into pmap e: pte_kernel_rw/ro (or PTE_READ/PTE_WRITE for *)
(* EPT), a cache type, the wired marker, then pte_set_ex or pte_remove_ex. *)
Enter(e, w, x, c, wired) ==
    LET base == IF e THEN pa_to_pte(Page) \cup INTEL_EPT_READ
                             \cup (IF w THEN INTEL_EPT_WRITE ELSE {})
                     ELSE IF w THEN pte_kernel_rw(Page) ELSE pte_kernel_ro(Page)
        p == base \cup c \cup (IF wired THEN INTEL_PTE_WIRED ELSE {})
    IN /\ Unlocked(e) /\ ~Valid(e, pte[e])
       /\ pte' = [pte EXCEPT ![e] = IF x THEN pte_set_ex(p, e) ELSE pte_remove_ex(p, e)]
       /\ req' = [req EXCEPT ![e] = [w |-> w, x |-> x, cache |-> c, wired |-> wired]]
       /\ UNCHANGED <<phys_attr, accessed>>

(* Protect: drop write permission (PTE_WRITE) and set or remove execute.   *)
Protect(e, dropw, x) ==
    LET p == IF dropw THEN pte[e] \ PTE_WRITE(e) ELSE pte[e]
    IN /\ Unlocked(e) /\ Valid(e, pte[e])
       /\ pte' = [pte EXCEPT ![e] = IF x THEN pte_set_ex(p, e) ELSE pte_remove_ex(p, e)]
       /\ req' = [req EXCEPT ![e].w = @ /\ ~dropw, ![e].x = x]
       /\ UNCHANGED <<phys_attr, accessed>>

(* pmap_change_wiring: set or clear INTEL_PTE_WIRED.                       *)
ChangeWiring(e, wired) ==
    /\ Unlocked(e) /\ Valid(e, pte[e])
    /\ pte' = [pte EXCEPT ![e] = IF wired THEN @ \cup INTEL_PTE_WIRED ELSE @ \ INTEL_PTE_WIRED]
    /\ req' = [req EXCEPT ![e].wired = wired]
    /\ UNCHANGED <<phys_attr, accessed>>

(* A hardware walk through pmap e sets PTE_REF(e), and PTE_MOD(e) on a     *)
(* write, which needs PTE_WRITE(e).                                        *)
HwAccess(e, write) ==
    /\ Valid(e, pte[e])
    /\ write => PTE_WRITE(e) \subseteq pte[e]
    /\ pte' = [pte EXCEPT ![e] = @ \cup PTE_REF(e) \cup (IF write THEN PTE_MOD(e) ELSE {})]
    /\ accessed' = accessed \cup INTEL_PTE_REF \cup (IF write THEN INTEL_PTE_MOD ELSE {})
    /\ UNCHANGED <<phys_attr, req>>

(* The mutant form clears the regular-format ref/mod bits whatever is_ept. *)
CollectRefMod_regular_bits(e) ==
    /\ Unlocked(e) /\ Valid(e, pte[e])
    /\ phys_attr' = phys_attr \cup CollectedRefMod(e)
    /\ pte' = [pte EXCEPT ![e] = @ \ (INTEL_PTE_REF \cup INTEL_PTE_MOD)]
    /\ UNCHANGED <<req, accessed>>

(* Move the ref/mod bits of pte[e] into the page's attributes.             *)
CollectRefMod(e) ==
    /\ Unlocked(e) /\ Valid(e, pte[e])
    /\ phys_attr' = phys_attr \cup CollectedRefMod(e)
    /\ pte' = [pte EXCEPT ![e] = @ \ (PTE_REF(e) \cup PTE_MOD(e))]
    /\ UNCHANGED <<req, accessed>>

(* Remove the mapping: collect its ref/mod into the page's attributes and *)
(* store INTEL_PTE_INVALID.                                                *)
Remove(e) ==
    /\ Unlocked(e) /\ Valid(e, pte[e])
    /\ phys_attr' = phys_attr \cup CollectedRefMod(e)
    /\ pte' = [pte EXCEPT ![e] = INTEL_PTE_INVALID]
    /\ req' = [req EXCEPT ![e] = NoReq]
    /\ UNCHANGED accessed

(* Clear the page's ref/mod everywhere: the attributes and every mapping.  *)
ClearRefMod ==
    /\ \A e \in BOOLEAN : Unlocked(e)
    /\ phys_attr' = {}
    /\ pte' = [e \in BOOLEAN |-> pte[e] \ (PTE_REF(e) \cup PTE_MOD(e))]
    /\ accessed' = {}
    /\ UNCHANGED req

(* Store the compressed marker, with or without alternate accounting, in an *)
(* invalid entry.                                                          *)
Compress(e, alt) ==
    /\ pte[e] = INTEL_PTE_INVALID
    /\ pte' = [pte EXCEPT ![e] = INTEL_PTE_COMPRESSED
                                 \cup (IF alt THEN INTEL_PTE_COMPRESSED_ALT ELSE {})]
    /\ UNCHANGED <<phys_attr, req, accessed>>

(* Drop a compressed marker (the page is decompressed or the range freed). *)
Decompress(e) ==
    /\ Unlocked(e) /\ INTEL_PTE_COMPRESSED \subseteq pte[e]
    /\ pte' = [pte EXCEPT ![e] = INTEL_PTE_INVALID]
    /\ UNCHANGED <<phys_attr, req, accessed>>

(* Take and release the software lock bit of an entry.                     *)
LockPte(e) ==
    /\ Unlocked(e)
    /\ pte' = [pte EXCEPT ![e] = @ \cup INTEL_PTE_SWLOCK]
    /\ UNCHANGED <<phys_attr, req, accessed>>

UnlockPte(e) ==
    /\ ~Unlocked(e)
    /\ pte' = [pte EXCEPT ![e] = @ \ INTEL_PTE_SWLOCK]
    /\ UNCHANGED <<phys_attr, req, accessed>>

Next ==
    \/ \E e \in BOOLEAN :
        \/ \E w, x, wired \in BOOLEAN, c \in CacheTypes(e) : Enter(e, w, x, c, wired)
        \/ \E dropw, x \in BOOLEAN : Protect(e, dropw, x)
        \/ \E wired \in BOOLEAN : ChangeWiring(e, wired)
        \/ \E write \in BOOLEAN : HwAccess(e, write)
        \/ CollectRefMod(e) \/ Remove(e)
        \/ \E alt \in BOOLEAN : Compress(e, alt)
        \/ Decompress(e) \/ LockPte(e) \/ UnlockPte(e)
    \/ ClearRefMod

Spec == Init /\ [][Next]_vars

-----------------------------------------------------------------------------
TypeOK ==
    /\ pte \in [BOOLEAN -> SUBSET Bits]
    /\ phys_attr \subseteq INTEL_PTE_REF \cup INTEL_PTE_MOD
    /\ accessed \subseteq INTEL_PTE_REF \cup INTEL_PTE_MOD
    /\ req \in [BOOLEAN -> [w : BOOLEAN, x : BOOLEAN, cache : SUBSET Bits, wired : BOOLEAN]]

(* What a live entry records as referenced/modified, read the way the      *)
(* hardware of its format writes it.                                       *)
HwRefMod(e) ==
    {b \in {"ref", "mod"} : (IF b = "ref" THEN PTE_REF(e) ELSE PTE_MOD(e)) \subseteq pte[e]}
AsPhysmap(s) == (IF "ref" \in s THEN INTEL_PTE_REF ELSE {})
                \cup (IF "mod" \in s THEN INTEL_PTE_MOD ELSE {})

(* Ref/mod is exact: through any sequence of accesses, collects, removals  *)
(* and clears on both mappings, the page's collected attributes plus the   *)
(* bits still in live entries are exactly the accesses made since the last *)
(* clear: ept_refmod_to_physmap neither loses a reference nor invents a    *)
(* modification, and clearing ref/mod bits never leaves one behind.        *)
RefModExact ==
    phys_attr \cup UNION {AsPhysmap(HwRefMod(e)) : e \in BOOLEAN} = accessed

(* Every valid entry grants exactly what its last enter/protect/wiring     *)
(* asked: write, execute (NX bit vs EPT_EX), the cache type, the wired     *)
(* marker and the frame; no filter or ref/mod update of one format touches *)
(* a bit that means something else in the other.                           *)
PteAttributesIntact ==
    \A e \in BOOLEAN : Valid(e, pte[e]) =>
        /\ (PTE_WRITE(e) \subseteq pte[e]) = req[e].w
        /\ PTE_IS_EXECUTABLE(e, pte[e]) = req[e].x
        /\ pte[e] \cap CacheBits(e) = req[e].cache
        /\ (INTEL_PTE_WIRED \subseteq pte[e]) = req[e].wired
        /\ pte_to_pa(pte[e]) = Page

(* A compressed marker, locked or not, with or without alternate           *)
(* accounting, is recognised by PTE_IS_COMPRESSED without the corruption   *)
(* repair path, and a valid entry is never taken for a compressed one.     *)
CompressedRecognized ==
    \A e \in BOOLEAN :
        /\ INTEL_PTE_COMPRESSED \subseteq pte[e] => PTE_IS_COMPRESSED(pte[e])
        /\ Valid(e, pte[e]) => ~PTE_IS_COMPRESSED(pte[e])
=============================================================================
