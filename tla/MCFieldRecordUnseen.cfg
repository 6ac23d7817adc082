CONSTANTS
    address = address
    west = west
    east = east
    p1 = p1
    p2 = p2
    q1 = q1
    q2 = q2
    None = None
    MaxLookups = 3
    Locator <- MCLocator
    Inputs <- MCInputs
    Boundaries <- MCBoundaries
    Requests <- MCRequests
    Facts <- MCFacts
    Answers <- MCAnswers
SPECIFICATION Spec
INVARIANTS
    ParcelWasEndorsed
CHECK_DEADLOCK FALSE
