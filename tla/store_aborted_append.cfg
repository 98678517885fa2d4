CONSTANTS
    Ids = {a}
    None = None
    LegacyId = LegacyId
    UsageId = UsageId
    AppendFailures = {"whole"}
    QueueCap = 2
    MaxSeq = 8
    MaxLines = 4
    MaxStops = 0
    a = a
SPECIFICATION Spec
INVARIANTS AcknowledgedKept
