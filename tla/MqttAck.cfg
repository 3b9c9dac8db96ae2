SPECIFICATION Spec
CONSTANTS
    c1 = c1
    c2 = c2
    Calls = {c1, c2}
    Kinds <- MCKinds
    Echoes = TRUE
    Attempts <- MCAttempts
    MaxDrops = 1
INVARIANTS OkIsAcknowledged
CHECK_DEADLOCK FALSE
