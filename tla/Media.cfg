SPECIFICATION MediaSpec
CONSTANTS
    Publishes <- OneOrTwoTracks
    Depth = 1
    MaxFrames = 4
    N = 4
    MaxQueue = 2
    Retries = 1
    MaxFails = 2
    Media <- Sources
    MaxErrors = 1
INVARIANTS NothingDropped SavedIsWhole
PROPERTIES CancelledEnds ConsumerIsTold
CHECK_DEADLOCK FALSE
