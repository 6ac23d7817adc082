CONSTANTS
    None = None
    f1 = f1
    f2 = f2
    Scale = 10
    Ton = 10
    Fields = {f1, f2}
    Pack <- MCPack
    EvidenceInputs <- MCEvidenceInputs
    FieldOrder <- MCFieldOrder
    Profiles <- MCProfiles
    Outcomes <- MCOutcomes
    NoFacts <- MCNoFacts
    Quantities <- MCQuantities
    Clients = {c1}
    MaxEvaluations = 2
    MaxPlans = 1
    MaxPackages = 1
    MaxChanges = 1
SPECIFICATION Spec
CONSTRAINT Unfinished
INVARIANTS
    PackageConsistent
    AllocationSound
    PackageWithinTier
    AllocatedHasEvidence
CHECK_DEADLOCK FALSE
