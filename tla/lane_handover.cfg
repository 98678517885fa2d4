CONSTANTS
    Ops = {o1, o2}
    None = None
    Requested = {"compaction"}
    MaxAttempts = 1
    MaxRequests = 1
    MaxTurns = 0
    QueueCap = 2
    MaxStops = 0
SPECIFICATION Spec
SYMMETRY Symmetry
INVARIANTS
    DriveOwnsOperation
    AwaitedCancellationPending
PROPERTIES
    RefinesLifecycle
