SPECIFICATION FairSpec
CONSTANTS
  Thread = {t1, t2, t3}
  NoThread = NoThread
  Key = {k1, k2}
  NoKey = NoKey
INVARIANTS
  TypeOK
  WriterIsAlone
  RangeSeesOneMap
  WaitersHaveAHolder
  TableInv
PROPERTIES
  Linearizable
  EveryCallReturns
