CONSTANTS
    Ops = {o1}
    None = None
    Requested = {"run"}
    MaxAttempts = 1
    MaxRequests = 1
    MaxTurns = 1
    QueueCap = 2
    MaxStops = 0
SPECIFICATION FairSpec
PROPERTIES
    PassTerminates
    AbortReconciles
