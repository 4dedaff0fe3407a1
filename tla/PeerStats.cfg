SPECIFICATION StatsFairSpec
CONSTANTS
  Thread = {t1, t2}
  NoThread = NoThread
  k1 = k1
  k2 = k2
  Key = {k1, k2}
  NoKey = NoKey
  Reporter = {t1}
  Fault = {"ctx", "exit", "stuck"}
  Moving <- OneCounts
  MaxTraffic = 1
INVARIANTS
  StatsTypeOK
  StatsInv
  UsageNeverShrinks
PROPERTIES
  ImplementsPeerTable
  ReportIsSnapshot
  StatisticsReturn
  TableCallsReturn
  ReadersPassStatistics
