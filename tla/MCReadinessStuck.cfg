CONSTANTS
    Runs = {r1}
    Steps = 3
    Workers = {w1}
    MaxFaults = 1
    Zombies = {FALSE}
    None = None
SPECIFICATION Spec
INVARIANTS
    NewRunPossible
CHECK_DEADLOCK FALSE
