SPECIFICATION Spec
CONSTANTS
    Workers = {w1}
    Segments = {s1}
    NoSegment = NoSegment
    MaxJobs = 1
    BatchSize = 2
    ReadCount = 2
    MaxFaults = 1
    ReplyForms = {"list"}
PROPERTIES
    NoRetranslation
