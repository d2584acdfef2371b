CONSTANTS
    t1 = t1  t2 = t2  t3 = t3
    ts1 = ts1  ts2 = ts2  ts3 = ts3
    Threads = {t1, t2, t3}
    Turnstiles = {ts1, ts2, ts3}
    e1 = e1  e2 = e2
    Events = {e1, e2}
    InitialTurnstile <- MC_InitialTurnstile
    BasePri <- MC_BasePri
    MaxHop = 10
    TURNSTILE_NULL = TURNSTILE_NULL
    PROPRIETOR_NULL = PROPRIETOR_NULL
    TURNSTILE_INHERITOR_NULL = TURNSTILE_INHERITOR_NULL
SPECIFICATION Spec
SYMMETRY MC_Symmetry
CONSTRAINT MC_TwoWalks
INVARIANTS
    TypeOK
    PriorityInheritanceAtRest
CHECK_DEADLOCK FALSE
