CONSTANTS
    Ids = {a, b}
    None = None
    LegacyId = LegacyId
    UsageId = UsageId
    AppendFailures = {"nothing", "part", "whole"}
    QueueCap = 2
    MaxSeq = 8
    MaxLines = 4
    MaxStops = 2
    a = a
    b = b
SPECIFICATION Spec
SYMMETRY Symmetry
INVARIANTS TypeOK ReopenAgrees AlwaysOpens
PROPERTIES RefinesAtomicStore
