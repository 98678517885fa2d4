CONSTANTS
    Ops = {o1}
    None = None
    Requested = {"run", "compaction", "navigation"}
    MaxAttempts = 2
    MaxRequests = 2
    MaxTurns = 1
    QueueCap = 1
    MaxStops = 1
SPECIFICATION Spec
INVARIANTS
    Restorable
    AskedAtMostOnce
    OneCompactionPerTrigger
