SPECIFICATION FairSpec
CONSTANTS
    all = all
    some = some
    NoSource = NoSource
    Sources <- TwoSources
    HasParts <- Has
    VBTTags = {all}
    FileSize = 3
    PARTSIZE = 2
    BLOCKSIZE = 2
    MinRequests = 1
    MaxRequests = 2
    MaxControl = 1
    MaxMishaps = 1
    Mishaps = {"corrupt", "overrun", "zstream", "disconnect", "late", "drop", "pause"}
INVARIANTS RequestedAreHeld AskedOnce
PROPERTIES FileCompletes
CHECK_DEADLOCK FALSE
