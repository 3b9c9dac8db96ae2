SPECIFICATION PartsSpec
CONSTANTS
    Things <- Fleet
    MaxStarts = 2
    MaxLosses = 1
    MaxRefusals = 1
    Fleets <- TwoThings
    Deployments <- TwoDeployments
    Callers = {"alice", "bob"}
    Listed = {"alice"}
    Policies <- FourPolicies
    Requests = {r1}
    MaxRegrants = 2
INVARIANTS ServedMeansSubscribed GrantsAreExact ServedAsProjected
PROPERTIES ServesAgain
CHECK_DEADLOCK FALSE
