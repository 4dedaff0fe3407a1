SPECIFICATION ServerSpec
CONSTANTS
  Controller = {s1}
  MaxStarts = 2
  Caller = {c1}
  Thread = {c1}
  NoThread = NoThread
  Key <- OneKey
  NoKey = NoKey
  u1 = u1
  UUID = {u1}
  Buffer <- OnePeer
  Inbound = {"vmess"}
  Fault = {"exit"}
  None = None
CHECK_DEADLOCK FALSE
INVARIANT
  PeerCountTellsTheCore
