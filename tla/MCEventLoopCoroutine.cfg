\* Three tasks: one that executes, one that the worker sleeps for and one that
\* arrives with an earlier deadline.
SPECIFICATION CoroutineSpec
CONSTANTS
    Tasks = {t1, t2, t3}
    Delays <- MCDelays
    MaxTime = 1
    NoTask = NoTask
INVARIANTS
    NeverSleepsPastDeadline
PROPERTY
    GetEnds
