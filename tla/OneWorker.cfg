SPECIFICATION FairSpec
CONSTANTS
    Workers = {w1}
    Segments = {s1, s2}
    NoSegment = NoSegment
    MaxJobs = 2
    BatchSize = 2
    ReadCount = 2
    MaxFaults = 1
    ReplyForms = {"list", "tuple"}
INVARIANTS
    TypeOK
    ActiveJobBacked
    RepeatedCallsWithinFaults
PROPERTIES
    AckOnlySettled
    FinalMeansFinal
    PendingSettles
