SPECIFICATION FairSpec
CONSTANTS
    Bits = 4
    Ids <- Nodes
    Addrs <- Places
    K = 4
    KBASE = 1
    KK = 2
    MaxLevel = 127
    Keep = 1
    Fresh = {2}
    Offers <- FewTold
    Hellos <- FewHellos
    Files <- NodesDat
    Followed = {1}
    Env = {"consolidate", "stop"}
INVARIANTS CountsAreTrue TreeIsSound
PROPERTIES IsRoutingTable KeptAreHeard
