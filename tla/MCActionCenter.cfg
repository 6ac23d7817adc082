CONSTANTS
    p1 = p1
    p2 = p2
    plan = plan
    draft = draft
    edited = edited
    other = other
    rel = rel
    hand = hand
    ctrl = ctrl
    None = None
    Packages = {p1, p2}
    Codes = {rel, hand, ctrl}
    Controls = {ctrl}
    Releases = {rel}
    Position <- MCPosition
    Plans = {plan}
    Snapshots <- MCSnapshots
    Payloads = {draft, edited, other}
    Addressed = {edited, other}
    Default <- MCDefault
    Requests = {r1, r2}
    Keys = {k1, k2}
    MaxRevision = 3
SPECIFICATION FairSpec
CONSTRAINT Situation
INVARIANTS
    TypeOK
    OneExecution
    ExecutedIsApproved
    ReleaseMatchesExecution
    AnswerIsStored
PROPERTIES
    DecisionFinal
    ExecutedFrozen
    ExecuteReturns
