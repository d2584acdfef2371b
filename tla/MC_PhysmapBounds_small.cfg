\* Windows below the 4 GB floor.
CONSTANTS
    W = 6
    GB = 2
    Bases = {8, 24, 40}
    Sizes = {4, 5, 6, 7, 8}
SPECIFICATION Spec
INVARIANT NoPtovPanic
CHECK_DEADLOCK FALSE
