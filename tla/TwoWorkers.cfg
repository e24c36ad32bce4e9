SPECIFICATION Spec
CONSTANTS
    Workers = {w1, w2}
    Segments = {s1, s2}
    NoSegment = NoSegment
    MaxJobs = 2
    BatchSize = 2
    ReadCount = 2
    MaxFaults = 1
    ReplyForms = {"list"}
SYMMETRY Symmetric
INVARIANTS
    OneActiveJobPerSegment
    PublishBeforeQueued
PROPERTIES
    SlotsSpec
