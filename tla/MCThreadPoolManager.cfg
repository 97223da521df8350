\* Up to three workers, three tasks, two outside callers: as many tasks as
\* workers or more, and any of them can be submitted from inside the pool.
SPECIFICATION FairSpec
CONSTANTS
    MaxWorkers = 3
    Callers = {c1, c2}
    Tasks = {t1, t2, t3}
    NoTask = NoTask
INVARIANTS
    TypeOK
    TaskInOnePlace
    NoLostWakeup
    DrainedBeforeDestruction
PROPERTIES
    SettlesOnce
    StartsUnlessAllBusy
    DrainsIfTasksReturn
    ImplementsTaskExecutor
