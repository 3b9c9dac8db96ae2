SPECIFICATION FairSpec
CONSTANTS
    c1 = c1
    c2 = c2
    Calls = {c1, c2}
    Kinds <- MCKinds
    Echoes = TRUE
    Attempts <- MCAttempts
    MaxDrops = 1
PROPERTIES CallsEnd ImplementsDeviceCall
CHECK_DEADLOCK FALSE
