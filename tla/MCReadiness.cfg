CONSTANTS
    Runs = {r1}
    Steps = 2
    Workers = {w1, w2}
    MaxFaults = 2
    Zombies = {FALSE, TRUE}
    None = None
SPECIFICATION FairSpec
INVARIANTS
    RunConsistent
    OneSuccessPerStep
    AttemptsBounded
PROPERTIES
    EndedRunIsFinal
    RunEnds
CHECK_DEADLOCK FALSE
