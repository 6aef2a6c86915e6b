SPECIFICATION Spec
CONSTANTS
  c1 = c1
  c2 = c2
  c3 = c3
  c4 = c4
  f1 = f1
  NoFile = NoFile
  Clients = {c1, c2, c3, c4}
  Files = {f1}
  MaxSlots = 1
  QueueSize = 1
  MaxPerDest = 3
  Dest <- OwnDest
  Twin <- NoTwins
  Identified = {}
  FriendSlot = {}
  PowerShare = {}
  IdChangers = {c1}
  Env = {"complete"}
INVARIANTS TypeOK SlotLimit QueueLimit RankIsPlace
SYMMETRY Peers
