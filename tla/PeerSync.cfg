SPECIFICATION SyncFairSpec
CONSTANTS
  Caller = {c1, c2}
  u1 = u1
  u2 = u2
  UUID = {u1, u2}
  Buffer <- TwoProxies
  Inbound = {"vmess"}
  Fault = {"ctx", "exit"}
  None = None
INVARIANTS
  SyncTypeOK
  Agreement
  SyncInv
PROPERTIES
  UndisturbedSuccess
  OrphanStays
  CallsReturn
