\* Two of the 24 EVFILT_USER fflags bits.  Limits of 2 and 3 scaled MB,
\* raised to at most 4, and a footprint up to 4: above every limit, so each
\* limit's warning level and its excess are both reached, in either state.
CONSTANTS
    FBits = {0, 1}
    Limits = {2, 3}
    MaxLimit = 4
    MaxFootprint = 4
SPECIFICATION Spec
PROPERTY TriggerReported
