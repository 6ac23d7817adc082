CONSTANTS
    Jobs = {j1, j2}
    Workers = {w1, w2}
    MaxVersion = 3
    MaxFaults = 2
    Nothing = Nothing
SPECIFICATION FairSpec
INVARIANTS
    ReportConsistent
PROPERTIES
    ConfirmedIsImmutable
    CorrectionsStay
    ExtractionEnds
CHECK_DEADLOCK FALSE
