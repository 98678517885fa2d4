CONSTANTS
    NumCalls = 2
    Executions = {"sequential", "parallel"}
    MaxCrashes = 2
SPECIFICATION FairSpec
INVARIANTS
    TypeOK
    NeverRepeatedUnlessSafe
    CheckpointFromLastRun
    NoInvariantFault
    PlacedInOrder
PROPERTIES
    NoExecutionAfterCancel
    ReturnsFinished
    RefinesResults
    BatchCompletes
CHECK_DEADLOCK FALSE
