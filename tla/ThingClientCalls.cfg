SPECIFICATION PartsSpec
CONSTANTS
    c1 = c1
    c2 = c2
    Calls = {c1, c2}
    Affs <- Affordances
    Requests <- AllRequests
    Descriptions <- TwoDescriptions
    Policies <- TwoPolicies
    Gated = {"move"}
    Long = {"move"}
    Unlimited = Unlimited
    NoArg = NoArg
    NoCall = NoCall
    RaiseOnDeny = TRUE
    MaxChanges = 1
    Nothing = Nothing
    Actions <- SomeActions
    Arguments <- SomeArguments
    Members <- SomeMembers
    Scalars <- V0
    Depth = 4
    Specs <- SomeSpecs
INVARIANTS RecordTells HandlesAreWaited OfferedIsAccepted AcceptedIsDeclared CallFitsTheSpec
PROPERTIES NeverBeyondGrants WaitsEnd
CHECK_DEADLOCK FALSE
