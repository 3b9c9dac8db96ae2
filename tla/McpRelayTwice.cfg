SPECIFICATION Spec
CONSTANTS
    RingSize = 2
    MaxPumps = 3
    MaxValues = 1
    MaxUnsubscribes = 1
INVARIANTS OneRelay
CHECK_DEADLOCK FALSE
