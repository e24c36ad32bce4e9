SPECIFICATION FairSpec
CONSTANTS
    Segments = {s1, s2}
    Texts = {old, new}
    None = none
    MaxToken = 6
    MaxJobs = 1
INVARIANTS
    TypeOK
    ShownBelongsToSegment
    OneSaveAtATime
    ShownIsStored
    MarkedUnlessJobs
PROPERTIES
    DraftSurvivesAnswers
    SaveEnds
CHECK_DEADLOCK FALSE
