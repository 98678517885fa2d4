CONSTANTS
    Ops = {o1}
    None = None
    Requested = {"run"}
    MaxAttempts = 2
    MaxRequests = 1
    MaxTurns = 0
    QueueCap = 2
    MaxStops = 0
SPECIFICATION Spec
INVARIANT NoUnwaitedRetry
