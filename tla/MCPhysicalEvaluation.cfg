CONSTANTS
    wide = wide
    small = small
    thin = thin
    None = None
    Fields = {f1}
    Boundaries = {wide, small, thin}
    SamplesOf <- MCSamplesOf
    MaxSamples = 2
    SpecCount = 2
    Critical = {1}
    Prices = {1, 2}
    Balances = {5, 6}
    MaxCredits = 6
    Replies = {"ok", "bad", "absent", "retryable"}
    Evaluations = {e1}
    Workers = {w1, w2}
    MaxFaults = 1
SPECIFICATION FairSpec
INVARIANTS
    EvaluationConsistent
    CreditsWithinLimit
PROPERTIES
    EndedEvaluationIsFinal
    EvaluationEnds
CHECK_DEADLOCK FALSE
