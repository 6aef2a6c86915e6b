CONSTANTS
    f1 = f1
    p1 = p1
    p2 = p2
    Files = {f1}
    NoFile = NoFile
    NoTask = NoTask
    NoMet = NoMet
    Parts = {p1, p2}
    Numbers = {1}
    Env = {"corrupt", "space", "read", "move", "restart", "user", "cancel", "late"}
    MaxAge = 6
SPECIFICATION Spec
INVARIANTS OnlyHashedIsMoved CompletedIsWhole NothingIsLost CompletionIsForKnown
PROPERTIES Scheduler
