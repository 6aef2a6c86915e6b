SPECIFICATION Spec
CONSTANTS
    FileSize = 8
    PARTSIZE = 3
INVARIANTS GapsApart CachesAreTrue
PROPERTIES IsMissingBytes
