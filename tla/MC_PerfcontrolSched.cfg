\* Two cores and two threads, enough for a preempted thread to be picked
\* by the other core while its offcore is owed; three armings of deadlines
\* 1 and 3, and a clock that runs one tick past the later deadline, so a
\* callout may come at or after its deadline.
CONSTANTS
    c1 = c1  c2 = c2  t1 = t1  t2 = t2
    Cpus = {c1, c2}
    Threads = {t1, t2}
    NoThread = NoThread
    Deadlines = {1, 3}
    MaxTime = 4
    MaxArms = 3
SPECIFICATION Spec
INVARIANTS
    TypeOK
    DeadlineAccounting
    OffcoreBeforeRunningElsewhere
PROPERTY ArmedResolvedUnlessIdle
\* Once every thread has terminated and the bounds are used up, nothing is
\* left to do.
CHECK_DEADLOCK FALSE
