SPECIFICATION ServerFairSpec
CONSTANTS
  Controller = {s1, s2}
  MaxStarts = 2
  Caller = {c1}
  Thread = {c1, r1}
  NoThread = NoThread
  Key <- OneKey
  NoKey = NoKey
  u1 = u1
  UUID = {u1}
  Buffer <- OnePeerAndShort
  Inbound = {"vmess"}
  Fault = {"exit"}
  None = None
CHECK_DEADLOCK FALSE
INVARIANTS
  ProcTypeOK
  
  
PROPERTIES
  
  ImplementsPeerSync
  ImplementsPeerTable
  
  LooksTellTheCore
  StartUnblocksCalls
