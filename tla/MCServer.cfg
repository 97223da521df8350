\* Two requests: one on the callback thread and one on a worker, or two on
\* workers that contend for the file.
SPECIFICATION Spec
CONSTANTS
    Deliveries = {d1, d2}
    None = None
INVARIANTS
    AnsweredOnce
    DispatcherOutlivesUse
    AcksAwaited
PROPERTY
    ShutdownReturns
