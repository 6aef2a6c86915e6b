SPECIFICATION Spec
CONSTANTS
  c1 = c1
  c2 = c2
  f1 = f1
  NoFile = NoFile
  Clients = {c1, c2}
  Files = {f1}
  MaxSlots = 2
  QueueSize = 2
  MaxPerDest = 3
  Dest <- OwnDest
  Twin <- Twins
  Identified = {c1}
  FriendSlot = {}
  PowerShare = {}
  IdChangers = {}
  Env = {"ban", "source", "chat", "unshare", "complete", "download", "shutdown", "filter", "sockets"}
INVARIANTS SlotsHeldOnce
PROPERTIES GrantsAreShared
CHECK_DEADLOCK FALSE
