CONSTANTS
    Lanes = {l1, l2}
    Late = {l2}
    Calls = {c1, c2, c3}
    None = None
    MaxJobs = 2
    l1 = l1
    l2 = l2
    c1 = c1
    c2 = c2
    c3 = c3
SPECIFICATION FairSpec
PROPERTIES FaultStopsAllCalls
CHECK_DEADLOCK FALSE
