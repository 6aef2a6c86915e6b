SPECIFICATION FairSpec
CONSTANTS
    s1 = s1
    Sockets = {s1}
    Frag = 2
    Double = 2
    Sizes = {3}
    Budgets = {1, 4}
    MaxPackets = 3
    MaxEntries = 2
    Env = {"slots", "lose", "disconnect", "end", "errors"}
INVARIANTS CalledIsAlive NoneForgotten
PROPERTIES WireIsWhole ControlGoesOut PassEnds
CHECK_DEADLOCK FALSE
