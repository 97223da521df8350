\* Two sequences, one of which an action may start, two threads that shut down,
\* and fewer IDs than there are submissions.
SPECIFICATION Spec
CONSTANTS
    Runs = {r1, r2}
    Count = 2
    Stoppers = {x, y}
    MaxId = 3
    MaxCalls = 1
    None = None
CHECK_DEADLOCK FALSE
INVARIANTS
    IdsInOrder
    SequenceVerdict
PROPERTY
    ShutdownReturns
