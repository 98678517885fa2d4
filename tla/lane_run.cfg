CONSTANTS
    Ops = {o1}
    None = None
    Requested = {"run", "compaction", "navigation"}
    MaxAttempts = 2
    MaxRequests = 1
    MaxTurns = 1
    QueueCap = 2
    MaxStops = 0
SPECIFICATION Spec
INVARIANTS
    TypeOK
    SignalMeansCancelled
    NoAbortedWhileRunning
    ReleasedMeansCancelled
PROPERTIES
    NoRequestAfterCancel
    CancelFreezesLeaf
