SPECIFICATION SyncSpec
CONSTANTS
  Caller = {c1, c2}
  u1 = u1
  u2 = u2
  UUID = {u1, u2}
  Buffer <- TwoPeers
  Inbound = {"vmess"}
  Fault = {}
  None = None
INVARIANT
  HasPeerTellsTheCore
