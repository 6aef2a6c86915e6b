CONSTANTS
    f1 = f1
    Files = {f1}
    NoFile = NoFile
    NoTask = NoTask
    NoMet = NoMet
    Parts = {1, 2}
    Numbers = {1}
    Env = {"move", "copy"}
    MaxAge = 4
SPECIFICATION Spec
INVARIANTS CompletedIsWhole
CHECK_DEADLOCK FALSE
