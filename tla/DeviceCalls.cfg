SPECIFICATION CallsSpec
CONSTANTS
    c1 = c1
    c2 = c2
    Calls = {c1, c2}
    Kinds <- MCKinds
    Keep = 0
    MaxLost = 1
    MaxSize = 4
    Chunk = 2
    Retries = 2
    MaxHops = 1
    Limit = 3
    MaxFaults = 3
    Things = {pump, lamp}
    Names = {"go"}
    Handlers <- TwoDevices
    Streams = {s1}
    MaxBindings = 2
    MaxEmits = 3
    Urls = {"db0", "db1"}
    Forms <- ThreeForms
    Users = {u1, u2}
    NoClient = NoClient
    MaxClients = 3
    MaxCloses = 2
    Runs = {r1, r2}
    Commands <- ThreeCommands
    Arguments = {{}, {"dir"}}
    AllowLists = {{"ls", "env"}, {"python"}}
    NoList = NoList
INVARIANTS NeverTwice DownloadIsWhole EmittedIsTaken NothingLeftBehind
PROPERTIES EveryCallEnds ImplementsDeviceCall
CHECK_DEADLOCK FALSE
