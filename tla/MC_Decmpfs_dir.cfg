\* 64/40/24/32-bit widths scaled to 8/5/3/4.
CONSTANTS
    W64 = 8
    W40 = 5
    W24 = 3
    W32 = 4
SPECIFICATION Spec
INVARIANT DirEntriesExact
