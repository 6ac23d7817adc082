CONSTANTS
    Decisions = {d1}
    Locations = {l1}
    Facilities = {plant, f1, f2}
    Plant = plant
    MaxLeads = 2
    Landfills = {y1, y2}
    Workers = {w1}
    Readers = {p1}
    MaxAttempts = 3
    MaxFaults = 2
    None = None
SPECIFICATION FairSpec
INVARIANTS
    ResponseConsistent
PROPERTIES
    EndedResponseIsFinal
    ResponseEnds
CHECK_DEADLOCK FALSE
