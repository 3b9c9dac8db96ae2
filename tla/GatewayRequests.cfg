SPECIFICATION FairSpec
CONSTANTS
    r1 = r1
    r2 = r2
    r3 = r3
    alice = alice
    bob = bob
    stopPump = stopPump
    readings = readings
    NoToken = NoToken
    NoMessage = NoMessage
    Requests <- TwoRequests
    Callers <- OneCaller
    Calls <- PumpCalls
    Streams <- PumpStreams
    MaxStops = 1
    MaxGrants = 1
INVARIANTS ReplyTellsTheTruth
PROPERTIES ImplementsService LapsedStreamsEnd
CHECK_DEADLOCK FALSE
