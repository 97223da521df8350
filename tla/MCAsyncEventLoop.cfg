\* One client, whose calls race with the worker and with the calls that
\* callbacks make on it, and three tasks: the worker can hold one while one is
\* queued and one is being started, and two that start each other can starve
\* the third.  A delay in the past and one longer than the stream's pause.
SPECIFICATION FairSpec
CONSTANTS
    Clients = {c1}
    Worker = worker
    Tasks = {t1, t2, t3}
    Delays <- MCDelays
    StreamLength = 2
    StreamDelay = 1
    None = None
INVARIANTS
    PendingInOnePlace
    NeverSleepsPastWork
    QuietAfterStop
PROPERTIES
    StopSettlesAll
    QueuedTasksSettle
