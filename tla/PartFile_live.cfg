CONSTANTS
    f1 = f1
    f2 = f2
    Files = {f1, f2}
    NoFile = NoFile
    NoTask = NoTask
    NoMet = NoMet
    Parts = {1, 2}
    Numbers = {1, 2}
    Env = {"corrupt", "write", "move", "restart", "cancel"}
    MaxAge = 4
SPECIFICATION FairSpec
INVARIANTS NumbersAreOwn
PROPERTIES CompletingEnds
