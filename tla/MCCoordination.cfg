CONSTANTS
    farmer = farmer
    neighbour = neighbour
    contractor = contractor
    plant = plant
    None = None
    Workflows = {w1}
    Parties = {farmer, neighbour, contractor, plant}
    RoleOf <- MCRoleOf
    Requests = {q1, q2, q3}
SYMMETRY MCSymmetry
SPECIFICATION Spec
INVARIANTS
    TypeOK
    StatusMatchesSteps
PROPERTIES
    ActorFixed
    ImplementsSignOff
CHECK_DEADLOCK FALSE
