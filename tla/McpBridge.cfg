SPECIFICATION PartsSpec
CONSTANTS
    RingSize = 2
    MaxPumps = 3
    MaxValues = 4
    MaxUnsubscribes = 1
    Subs = {s1, s2}
    MaxMessages = 3
    Requests = {r1, r2, r3}
    Callers = {desk, chat}
    Server = bridge
    Tools = {wipe}
    Gated = {wipe}
    Dialog = {desk}
    GatewayMode = FALSE
    TTL = 1
    MaxTime = 2
    MaxRegrants = 1
    NoTool = NoTool
    Descriptions <- FourDescriptions
    Fleets <- ThreeFleets
    Calls = {c1}
    MaxAdds = 3
INVARIANTS NoGapAnywhere RunsOnItsOwnApproval SignedInBeforeSent
PROPERTIES PumpsKeepUp ListedReachesItself FollowsTheFleet
CHECK_DEADLOCK FALSE
