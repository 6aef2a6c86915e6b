SPECIFICATION FairSpec
CONSTANTS
  Kinds = {"datagram", "server", "client", "accepter"}
  Outgoing <- Out
  Incoming <- In
  MAX_MESSAGE_QUEUE_LENGTH = 0
  Env = {"lost", "error"}
INVARIANTS PeerStreamIsWhole
PROPERTIES IsLink SessionSettles
CHECK_DEADLOCK FALSE
