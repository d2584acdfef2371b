\* PmapPte has no constants; the physmap windows are those of
\* MC_PhysmapBounds.cfg: at least the 4 GB floor (8 units of a 6-bit word).
CONSTANTS
    W = 6
    GB = 2
    Bases = {8, 24, 40}
    Sizes = {8, 9, 10, 11, 12, 13, 14}
SPECIFICATION Spec
INVARIANTS
    TypeOK
    RefModExact
    PteAttributesIntact
    CompressedRecognized
    NoPtovPanic
