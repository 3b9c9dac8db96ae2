SPECIFICATION Spec
CONSTANTS
    r1 = r1
    r2 = r2
    r3 = r3
    alice = alice
    bob = bob
    stopPump = stopPump
    readings = readings
    NoToken = NoToken
    NoMessage = NoMessage
    Requests <- ThreeRequests
    Callers <- TwoCallers
    Calls <- Nothing
    Streams <- PumpStreams
    MaxStops = 1
    MaxGrants = 1
INVARIANTS ActsForItsSender OneMirrorPerStream LiveMirrorsAreRegistered CutAfterLapse
SYMMETRY Symmetry
CHECK_DEADLOCK FALSE
