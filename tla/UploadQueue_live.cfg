SPECIFICATION FairSpec
CONSTANTS
  c1 = c1
  c2 = c2
  f1 = f1
  NoFile = NoFile
  Clients = {c1, c2}
  Files = {f1}
  MaxSlots = 1
  QueueSize = 2
  MaxPerDest = 3
  Dest <- OwnDest
  Twin <- NoTwins
  Identified = {}
  FriendSlot = {}
  PowerShare = {}
  IdChangers = {c1, c2}
  Env = {"age", "chat", "unshare", "download"}
INVARIANTS ListsAgree
PROPERTIES StraysLostTheirSlot FreeSlotsAreFilled DeadSlotsAreFreed
