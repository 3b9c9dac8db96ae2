SPECIFICATION PartsSpec
CONSTANTS
    Tokens = {t1, t2}
    Keys = {k1, k2}
    Ttl = 2
    Cooldown = 2
    Timeout = 1
    MaxTime = 3
    Calls = {c1, c2}
    Things = {calendar}
    Services = {weather}
    Margin = 1
    MaxTokens = 3
    MaxRestarts = 1
    Addresses = {a1, a2}
    Private = {a2}
    Fleet <- SomeFleet
    HostOf <- TwoHosts
    Certified = {"door"}
    Bound <- TwoBound
    ScopeOf <- TwoScopes
    Secrets <- OneSecret
    Lifetime = 2
    Retries = 1
    MaxClients = 2
    MaxClock = 1
    None = None
    Deployments <- SomeDeployments
    Bearers = {"mine", "other"}
    RolesOf <- TwoRoles
    Agent = "agent"
INVARIANTS RetiredKeysLapse StoreIsLive GoesOutAsItsOwners ServedForItsCaller
SYMMETRY Symmetry
CHECK_DEADLOCK FALSE
