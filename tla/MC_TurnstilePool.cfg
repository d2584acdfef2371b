CONSTANTS
    t1 = t1  t2 = t2  t3 = t3
    ts1 = ts1  ts2 = ts2  ts3 = ts3
    Threads = {t1, t2, t3}
    Turnstiles = {ts1, ts2, ts3}
    Proprietors = {p_slot, p_hash}
    HashedProprietors = {p_hash}
    InitialTurnstile <- MC_InitialTurnstile
    TURNSTILE_NULL = TURNSTILE_NULL
    PROPRIETOR_NULL = PROPRIETOR_NULL
SPECIFICATION Spec
INVARIANTS
    TypeOK
    PrepareResultStable
    TurnstileConservation
    StateMatchesOwnership
PROPERTY LendingRefined
