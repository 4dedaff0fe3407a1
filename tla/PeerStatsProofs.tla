-------------------------- MODULE PeerStatsProofs --------------------------
(***************************************************************************)
(* Theorems about PeerStats for every set of goroutines, of reporters and  *)
(* of keys, every kind of fault, and every bound on the counters.          *)
(*                                                                         *)
(* The steps of PeerStats are steps of PeerTable as long as a callback     *)
(* under way has a key of the table that the loop has not passed           *)
(* (LoopBooks), and that holds because the steps are steps of PeerTable:   *)
(* the two are shown together, and PeerTable's invariant comes with them.  *)
(***************************************************************************)
EXTENDS PeerStats, PeerTableProofs

USE ReporterType, NoThreadIsNoThread, NoKeyIsNoKey DEF lockVars, NoMethod

-----------------------------------------------------------------------------

\* A turn of the range loop with the key of the callback.
LEMMA CallbackIsVisit ==
  ASSUME TableInv, LoopBooks, NEW t \in Reporter, Asking(t),
         seen' = [seen EXCEPT ![t] = @ \cup {peer[t]}],
         UNCHANGED peers,
         \/ UNCHANGED <<lockVars, pc, method, key, result>>
         \/ Finish(t, [visited |-> seen[t] \cup {peer[t]}, outcome |-> "error"])
  PROVE  Visit(t)
<1>1. t \in Thread /\ Runs(t, "Iterate") /\ CanRead(t) /\ peer[t] \in peers \ seen[t]
  BY DEF LoopBooks, Asking, Runs, CanRead
<1> QED
  BY <1>1 DEF Visit

\* Every step is a step of the table or leaves it alone.
LEMMA StepRefines ==
  ASSUME TableInv, LoopBooks, [StatsNext]_statsVars
  PROVE  [Next]_vars
<1>1. ASSUME NEW t \in Reporter, Dialed(t) PROVE Next
  BY <1>1 DEF Dialed, Next
<1>2. ASSUME NEW t \in Reporter, GetDownlink(t) PROVE Next
  <2>1. Visit(t)
    BY <1>2, CallbackIsVisit DEF GetDownlink, CallbackDone, Move, Asking
  <2> QED
    BY <2>1 DEF Next, Step, Body
<1>3. ASSUME NEW t \in Reporter, FailCallback(t) PROVE Next
  <2>1. Visit(t)
    BY <1>3, CallbackIsVisit DEF FailCallback, CallbackDone
  <2> QED
    BY <2>1 DEF Next, Step, Body
<1>4. ASSUME NEW t \in Reporter, EndLoop(t) \/ LeaveLoop(t) PROVE Next
  BY <1>4 DEF EndLoop, LeaveLoop, Next, Step, Body
<1>5. ASSUME NEW t \in Thread, CallTable(t) \/ EnterTable(t) \/ StepTable(t)
      PROVE  Next
  BY <1>5 DEF CallTable, EnterTable, StepTable, Next, Step, Body
<1>6. ASSUME NEW t \in Reporter,
             CallStatistics(t) \/ Callback(t) \/ GetUplink(t) \/ Close(t)
      PROVE  UNCHANGED vars
  BY <1>6 DEF CallStatistics, Callback, GetUplink, Close
<1>7. ASSUME Count \/ CoreExit \/ CoreBoot \/ Hang \/ Recover
      PROVE  UNCHANGED vars
  BY <1>7 DEF Count, CoreExit, CoreBoot, Hang, Recover
<1>8. ASSUME UNCHANGED statsVars PROVE UNCHANGED vars
  BY <1>8 DEF statsVars
<1> QED
  BY <1>1, <1>2, <1>3, <1>4, <1>5, <1>6, <1>7, <1>8
     DEF StatsNext, ReportStep, CoreGone, MayFail

-----------------------------------------------------------------------------

\* A step of another goroutine leaves a callback that is under way its lock,
\* its key and the map.
LEMMA OthersLeaveCallback ==
  ASSUME TableInv, LoopBooks, NEW t \in Reporter, Asking(t),
         NEW u \in Thread, u # t,
         EnterTable(u) \/ StepTable(u) \/ CallTable(u)
  PROVE  /\ t \in readers' /\ peers' = peers
         /\ pc'[t] = pc[t] /\ method'[t] = method[t] /\ seen'[t] = seen[t]
<1> USE DEF TableInv, TypeOK, CallTypeOK, LockTypeOK
<1>1. t \in Thread /\ t \in readers /\ readers # {}
  BY DEF LoopBooks
<1>2. CASE EnterTable(u)
  BY <1>1, <1>2 DEF EnterTable, Enter, Lock, RLock
<1>3. CASE CallTable(u)
  BY <1>1, <1>3 DEF CallTable, Invoke
<1>4. CASE StepTable(u)
  <2>1. ASSUME method[u] # "Iterate" /\ Leave(u) PROVE ~IsWriter(u)
    BY <1>1, <2>1 DEF Leave, DoorIsShut
  <2>2. CASE Get(u) \/ Len(u) \/ Put(u) \/ Delete(u)
    BY <1>1, <2>2 DEF Get, Len, Put, Delete, CanWrite, Finish
  <2>3. CASE method[u] # "Iterate" /\ Leave(u)
    BY <1>1, <2>1, <2>3 DEF Leave, RUnlock
  <2> QED
    BY <1>4, <2>2, <2>3 DEF StepTable
<1> QED
  BY <1>2, <1>3, <1>4

\* Every step keeps LoopBooks.
LEMMA BooksStep ==
  ASSUME TableInv, StatsTypeOK, LoopBooks, [StatsNext]_statsVars
  PROVE  LoopBooks'
<1>t. \A t \in Reporter : t \in Thread /\ stage[t] \in
        {"none", "dial", "loop", "uplink", "downlink", "close"}
  BY DEF StatsTypeOK
<1>f. stage = [t \in Reporter |-> stage[t]] /\ peer = [t \in Reporter |-> peer[t]]
  BY DEF StatsTypeOK
<1>c. CallTypeOK /\ LockBooks
  BY DEF TableInv, TypeOK
<1>1. ASSUME NEW t \in Reporter, CallStatistics(t) PROVE LoopBooks'
  BY <1>1, <1>t, <1>f DEF CallStatistics, Move, LoopBooks, Asking, vars
<1>2. ASSUME NEW t \in Reporter, Dialed(t) PROVE LoopBooks'
  BY <1>2, <1>t, <1>f, <1>c
     DEF Dialed, Move, Invoke, LoopBooks, Asking, CallTypeOK
<1>3. ASSUME NEW t \in Reporter, Callback(t) PROVE LoopBooks'
  BY <1>3, <1>t, <1>f
     DEF Callback, Move, Runs, CanRead, LoopBooks, Asking, vars
<1>4. ASSUME NEW t \in Reporter, GetUplink(t) PROVE LoopBooks'
  BY <1>4, <1>t, <1>f DEF GetUplink, Move, LoopBooks, Asking, vars
<1>5. ASSUME NEW t \in Reporter, GetDownlink(t) PROVE LoopBooks'
  BY <1>5, <1>t, <1>f, <1>c
     DEF GetDownlink, CallbackDone, Move, LoopBooks, Asking, CallTypeOK
<1>6. ASSUME NEW t \in Reporter, FailCallback(t) PROVE LoopBooks'
  BY <1>6, <1>t, <1>f, <1>c
     DEF FailCallback, CallbackDone, Finish, LoopBooks, Asking, CallTypeOK
<1>7. ASSUME NEW t \in Reporter, EndLoop(t) PROVE LoopBooks'
  BY <1>7, <1>t, <1>f, <1>c
     DEF EndLoop, EndOfRange, Finish, LoopBooks, Asking, CallTypeOK, callVars
<1>8. ASSUME NEW t \in Reporter, LeaveLoop(t) PROVE LoopBooks'
  <2>1. method[t] = "Iterate" /\ ~IsWriter(t)
    BY <1>8 DEF LeaveLoop, Move, LoopBooks, IsWriter
  <2> QED
    BY <1>8, <2>1, <1>t, <1>f, <1>c
       DEF LeaveLoop, Leave, RUnlock, Move, LoopBooks, Asking, CallTypeOK
<1>9. ASSUME NEW t \in Reporter, Close(t) PROVE LoopBooks'
  BY <1>9, <1>t, <1>f DEF Close, Move, LoopBooks, Asking, vars
<1>10. ASSUME NEW u \in Thread, CallTable(u) \/ EnterTable(u) \/ StepTable(u)
       PROVE  LoopBooks'
  <2>1. stage' = stage /\ peer' = peer
    BY <1>10 DEF CallTable, EnterTable, StepTable, callVars
  <2>2. ~(u \in Reporter /\ Asking(u))
    BY <1>10 DEF CallTable, EnterTable, StepTable, LoopBooks, Asking, InCall,
       Enter, Get, Put, Delete, Len, Leave, Runs
  <2>3. \A t \in Reporter : Asking(t) =>
          t \in readers' /\ peers' = peers /\ pc'[t] = pc[t] /\ seen'[t] = seen[t]
    BY <1>10, <2>2, OthersLeaveCallback
  <2>4. \A t \in Thread : method'[t] = "Iterate" <=> method[t] = "Iterate"
    BY <1>10, <1>c
       DEF CallTable, EnterTable, StepTable, Invoke, Enter, Get, Put, Delete,
           Len, Finish, Leave, CallTypeOK
  <2>5. \A t \in Reporter : stage[t] = "dial" => pc'[t] = "idle"
    BY <1>10, <1>t, <1>c
       DEF CallTable, EnterTable, StepTable, InCall, Invoke, Enter, Get, Put,
           Delete, Len, Runs, Finish, Leave, CallTypeOK, LoopBooks
  <2> QED
    BY <2>1, <2>3, <2>4, <2>5 DEF LoopBooks, Asking
<1>11. ASSUME Count \/ CoreExit \/ CoreBoot \/ Hang \/ Recover PROVE LoopBooks'
  BY <1>11 DEF Count, CoreExit, CoreBoot, Hang, Recover, LoopBooks, Asking,
     vars, callVars
<1>12. ASSUME UNCHANGED statsVars PROVE LoopBooks'
  BY <1>12 DEF statsVars, vars, callVars, LoopBooks, Asking
<1> QED
  BY <1>1, <1>2, <1>3, <1>4, <1>5, <1>6, <1>7, <1>8, <1>9, <1>10, <1>11, <1>12
     DEF StatsNext, ReportStep, CoreGone, MayFail

-----------------------------------------------------------------------------

\* Every step keeps the types.
LEMMA TypesStep ==
  ASSUME TableInv, StatsTypeOK, LoopBooks, [StatsNext]_statsVars
  PROVE  StatsTypeOK'
<1> USE MaxTrafficType DEF StatsTypeOK, Move, Asking, Missing
<1>k. peers \subseteq Key
  BY DEF TableInv, TypeOK, CallTypeOK
<1>z. NoTraffic \in [Counter -> 0 .. MaxTraffic]
  BY DEF NoTraffic
<1>n. NoItems \in [Counter -> Missing .. MaxTraffic]
  BY DEF NoItems
<1>p. \A t \in Reporter : Asking(t) =>
        peer[t] \in Key /\ <<peer[t], "up">> \in Counter
  BY <1>k DEF LoopBooks, Counter
<1>1. ASSUME NEW t \in Reporter, CallStatistics(t) PROVE StatsTypeOK'
  BY <1>1 DEF CallStatistics, coreVars
<1>2. ASSUME NEW t \in Reporter, Dialed(t) PROVE StatsTypeOK'
  BY <1>2 DEF Dialed, coreVars
<1>3. ASSUME NEW t \in Reporter, Callback(t) PROVE StatsTypeOK'
  BY <1>3, <1>k DEF Callback, coreVars
<1>4. ASSUME NEW t \in Reporter, GetUplink(t) PROVE StatsTypeOK'
  <2>1. traffic[<<peer[t], "up">>] \in 0 .. MaxTraffic
    BY <1>4, <1>p DEF GetUplink
  <2> QED
    BY <1>4, <2>1 DEF GetUplink, coreVars
<1>5. ASSUME NEW t \in Reporter, GetDownlink(t) PROVE StatsTypeOK'
  <2>1. items'[t] \in [Counter -> Missing .. MaxTraffic]
    BY <1>5 DEF GetDownlink, Counter
  <2> QED
    BY <1>5, <2>1 DEF GetDownlink, CallbackDone, coreVars
<1>6. ASSUME NEW t \in Reporter, FailCallback(t) PROVE StatsTypeOK'
  BY <1>6 DEF FailCallback, CallbackDone, coreVars
<1>7. ASSUME NEW t \in Reporter, EndLoop(t) PROVE StatsTypeOK'
  BY <1>7 DEF EndLoop, callVars, coreVars
<1>8. ASSUME NEW t \in Reporter, LeaveLoop(t) PROVE StatsTypeOK'
  BY <1>8 DEF LeaveLoop, coreVars
<1>9. ASSUME NEW t \in Reporter, Close(t) PROVE StatsTypeOK'
  <2>1. last' \in [Reporter -> [Counter -> 0 .. MaxTraffic]]
    BY <1>9 DEF Close
  <2> QED
    BY <1>9, <1>n, <2>1 DEF Close, coreVars
<1>10. ASSUME NEW u \in Thread, CallTable(u) \/ EnterTable(u) \/ StepTable(u)
       PROVE  StatsTypeOK'
  BY <1>10 DEF CallTable, EnterTable, StepTable, callVars, coreVars
<1>11. ASSUME Count PROVE StatsTypeOK'
  <2>1. traffic' \in [Counter -> 0 .. MaxTraffic]
    BY <1>11, MovingType DEF Count
  <2> QED
    BY <1>11, <2>1 DEF Count, callVars
<1>12. ASSUME CoreExit PROVE StatsTypeOK'
  BY <1>12, <1>z DEF CoreExit
<1>13. ASSUME CoreBoot \/ Hang \/ Recover PROVE StatsTypeOK'
  BY <1>13 DEF CoreBoot, Hang, Recover, callVars
<1>14. ASSUME UNCHANGED statsVars PROVE StatsTypeOK'
  BY <1>14 DEF statsVars, callVars, coreVars
<1> QED
  BY <1>1, <1>2, <1>3, <1>4, <1>5, <1>6, <1>7, <1>8, <1>9, <1>10, <1>11, <1>12,
     <1>13, <1>14 DEF StatsNext, ReportStep, CoreGone, MayFail

\* Every step keeps what the usage may be.
LEMMA UsageStep ==
  ASSUME TableInv, StatsTypeOK, LoopBooks, UsageGrows, UsageNeverShrinks,
         [StatsNext]_statsVars
  PROVE  UsageGrows' /\ UsageNeverShrinks'
<1> USE MaxTrafficType
        DEF StatsTypeOK, Move, Asking, Missing, UsageGrows, UsageNeverShrinks
<1>k. peers \subseteq Key
  BY DEF TableInv, TypeOK, CallTypeOK
<1>p. \A t \in Reporter : Asking(t) => <<peer[t], "up">> \in Counter
  BY <1>k DEF LoopBooks, Counter
<1>1. ASSUME NEW t \in Reporter, CallStatistics(t)
      PROVE  UsageGrows' /\ UsageNeverShrinks'
  BY <1>1 DEF CallStatistics, coreVars
<1>2. ASSUME NEW t \in Reporter, Dialed(t)
      PROVE  UsageGrows' /\ UsageNeverShrinks'
  BY <1>2 DEF Dialed, coreVars
<1>3. ASSUME NEW t \in Reporter, Callback(t)
      PROVE  UsageGrows' /\ UsageNeverShrinks'
  BY <1>3, <1>k DEF Callback, coreVars
<1>4. ASSUME NEW t \in Reporter, GetUplink(t)
      PROVE  UsageGrows' /\ UsageNeverShrinks'
  <2>1. <<peer[t], "up">> \in Counter
    BY <1>4, <1>p DEF GetUplink
  <2>2. /\ upLink'[t] = traffic[<<peer[t], "up">>]
        /\ traffic[<<peer[t], "up">>] >= last[t][<<peer[t], "up">>]
        /\ traffic[<<peer[t], "up">>] \in Int
    BY <1>4, <2>1 DEF GetUplink
  <2>3. \A u \in Reporter \ {t} : stage'[u] = stage[u] /\ upLink'[u] = upLink[u]
    BY <1>4 DEF GetUplink
  <2>4. /\ peer' = peer /\ items' = items /\ last' = last
        /\ traffic' = traffic /\ broken' = broken
    BY <1>4 DEF GetUplink, coreVars
  <2>5. \A u \in Reporter : stage'[u] = "downlink" =>
          /\ upLink'[u] >= last[u][<<peer[u], "up">>]
          /\ u \notin broken => upLink'[u] <= traffic[<<peer[u], "up">>]
    <3> TAKE u \in Reporter
    <3> HAVE stage'[u] = "downlink"
    <3>1. CASE u = t
      <4>1. upLink'[u] \in Int /\ upLink'[u] <= traffic[<<peer[u], "up">>]
        BY <2>2, <3>1
      <4> QED
        BY <2>2, <3>1, <4>1
    <3>2. CASE u # t
      BY <2>3, <3>2
    <3> QED
      BY <3>1, <3>2
  <2> QED
    BY <2>4, <2>5
<1>5. ASSUME NEW t \in Reporter, GetDownlink(t)
      PROVE  UsageGrows' /\ UsageNeverShrinks'
  <2>1. ASSUME NEW i \in Counter, i[1] = peer[t], i[2] = "up"
        PROVE  i = <<peer[t], "up">>
    BY <2>1 DEF Counter
  <2>2. \A i \in Counter :
          items'[t][i] = IF i[1] # peer[t] THEN items[t][i]
                         ELSE IF i[2] = "up" THEN upLink[t] ELSE traffic[i]
    BY <1>5 DEF GetDownlink
  <2>3. ASSUME NEW i \in Counter
        PROVE  /\ items'[t][i] # Missing => items'[t][i] >= last[t][i]
               /\ t \notin broken => items'[t][i] <= traffic[i]
    BY <1>5, <2>1, <2>2 DEF GetDownlink
  <2>4. \A u \in Reporter \ {t} : items'[u] = items[u] /\ stage'[u] = stage[u]
                                    /\ upLink'[u] = upLink[u] /\ peer'[u] = peer[u]
    BY <1>5 DEF GetDownlink, CallbackDone
  <2> QED
    BY <1>5, <2>3, <2>4 DEF GetDownlink, CallbackDone, coreVars
<1>6. ASSUME NEW t \in Reporter, FailCallback(t)
      PROVE  UsageGrows' /\ UsageNeverShrinks'
  BY <1>6 DEF FailCallback, CallbackDone, coreVars
<1>7. ASSUME NEW t \in Reporter, EndLoop(t)
      PROVE  UsageGrows' /\ UsageNeverShrinks'
  BY <1>7 DEF EndLoop, callVars, coreVars
<1>8. ASSUME NEW t \in Reporter, LeaveLoop(t)
      PROVE  UsageGrows' /\ UsageNeverShrinks'
  BY <1>8 DEF LeaveLoop, coreVars
<1>9. ASSUME NEW t \in Reporter, Close(t)
      PROVE  UsageGrows' /\ UsageNeverShrinks'
  <2>1. \A u \in Reporter : \A i \in Counter : last'[u][i] <= traffic[i]
    BY <1>9 DEF Close
  <2>2. \A i \in Counter : items'[t][i] = Missing
    BY <1>9 DEF Close, NoItems
  <2>3. \A u \in Reporter \ {t} :
          /\ items'[u] = items[u] /\ last'[u] = last[u]
          /\ u \in broken' <=> u \in broken
          /\ stage'[u] = stage[u]
    BY <1>9 DEF Close
  <2> QED
    BY <1>9, <2>1, <2>2, <2>3 DEF Close, coreVars
<1>10. ASSUME NEW u \in Thread, CallTable(u) \/ EnterTable(u) \/ StepTable(u)
       PROVE  UsageGrows' /\ UsageNeverShrinks'
  BY <1>10 DEF CallTable, EnterTable, StepTable, callVars, coreVars
<1>11. ASSUME Count PROVE UsageGrows' /\ UsageNeverShrinks'
  <2>1. \A i \in Counter : traffic'[i] >= traffic[i]
    BY <1>11, MovingType DEF Count
  <2>2. \A i \in Counter : traffic'[i] \in Int
    BY <1>11, MovingType DEF Count
  <2> QED
    BY <1>11, <1>p, <2>1, <2>2 DEF Count, callVars
<1>12. ASSUME CoreExit PROVE UsageGrows' /\ UsageNeverShrinks'
  <2>1. \A u \in Reporter : \A i \in Counter : last'[u][i] = 0 /\ traffic'[i] = 0
    BY <1>12 DEF CoreExit, NoTraffic
  <2>2. \A u \in Reporter \ broken' : \A i \in Counter : items'[u][i] = Missing
    BY <1>12 DEF CoreExit, NoItems
  <2>3. \A u \in Reporter : stage'[u] = "downlink" =>
          u \in broken' /\ upLink'[u] >= 0 /\ <<peer'[u], "up">> \in Counter
    BY <1>12, <1>p DEF CoreExit
  <2>4. items' = items
    BY <1>12 DEF CoreExit
  <2> QED
    BY <2>1, <2>2, <2>3, <2>4
<1>13. ASSUME CoreBoot \/ Hang \/ Recover PROVE UsageGrows' /\ UsageNeverShrinks'
  BY <1>13 DEF CoreBoot, Hang, Recover, callVars
<1>14. ASSUME UNCHANGED statsVars PROVE UsageGrows' /\ UsageNeverShrinks'
  BY <1>14 DEF statsVars, callVars, coreVars
<1> QED
  BY <1>1, <1>2, <1>3, <1>4, <1>5, <1>6, <1>7, <1>8, <1>9, <1>10, <1>11, <1>12,
     <1>13, <1>14 DEF StatsNext, ReportStep, CoreGone, MayFail

-----------------------------------------------------------------------------

\* Every step keeps Collected.
LEMMA CollectedStep ==
  ASSUME TableInv, TableInv', StatsTypeOK, LoopBooks, LoopBooks', Collected,
         [StatsNext]_statsVars
  PROVE  Collected'
<1> USE DEF Move, Collected, InLoop, LoopFailed
<1>t. \A t \in Reporter : t \in Thread
  OBVIOUS
<1>f. /\ stage \in
           [Reporter -> {"none", "dial", "loop", "uplink", "downlink", "close"}]
      /\ items \in [Reporter -> [Counter -> Missing .. MaxTraffic]]
      /\ \A t \in Reporter : stage[t] = "dial" => items[t] = NoItems
  BY DEF StatsTypeOK
<1>c. CallTypeOK /\ LockBooks /\ OnlyReadersSee /\ DOMAIN result = Thread
  BY DEF TableInv, TypeOK, ResultTypeOK
<1>r. \A t \in Reporter : InLoop(t) /\ pc[t] = "leave" =>
        t \in readers
  <2>1. \A t \in Reporter : InLoop(t) => method[t] = "Iterate"
    BY DEF LoopBooks
  <2> QED
    BY <2>1, <1>t, <1>c DEF LockBooks, IsWriter
<1>1. ASSUME NEW t \in Reporter, CallStatistics(t) PROVE Collected'
  BY <1>1, <1>f DEF CallStatistics, vars
<1>2. ASSUME NEW t \in Reporter, Dialed(t) PROVE Collected'
  <2>1. pc'[t] # "leave" /\ seen'[t] = {} /\ items'[t] = NoItems
    BY <1>2, <1>f, <1>c DEF Dialed, Invoke, CallTypeOK
  <2>2. Reported(NoItems) = {}
    BY DEF Reported, NoItems, Counter
  <2>3. \A u \in Reporter \ {t} : stage'[u] = stage[u] /\ pc'[u] = pc[u]
    BY <1>2, <1>f, <1>c DEF Dialed, Invoke, CallTypeOK
  <2> QED
    BY <1>2, <2>1, <2>2, <2>3 DEF Dialed, Invoke
<1>3. ASSUME NEW t \in Reporter, Callback(t) PROVE Collected'
  BY <1>3, <1>f DEF Callback, vars
<1>4. ASSUME NEW t \in Reporter, GetUplink(t) PROVE Collected'
  BY <1>4, <1>f DEF GetUplink, vars
<1>5. ASSUME NEW t \in Reporter, GetDownlink(t) PROVE Collected'
  <2>1. /\ pc[t] = "inside" /\ peer[t] \in Key
        /\ Reported(items[t]) = seen[t]
    BY <1>5, <1>c DEF GetDownlink, LoopBooks, Asking, CallTypeOK
  <2>2. /\ upLink[t] # Missing
        /\ \A i \in Counter : traffic[i] # Missing
    BY MaxTrafficType DEF StatsTypeOK, Missing
  <2>3. \A i \in Counter :
          items'[t][i] = IF i[1] # peer[t] THEN items[t][i]
                         ELSE IF i[2] = "up" THEN upLink[t] ELSE traffic[i]
    BY <1>5, <1>f DEF GetDownlink
  <2>4. Reported(items'[t]) = seen[t] \cup {peer[t]}
    <3>1. \A k \in Key : k # peer[t] =>
            (k \in Reported(items'[t]) <=> k \in Reported(items[t]))
      BY <2>3 DEF Reported, Counter
    <3>2. peer[t] \in Reported(items'[t])
      BY <2>1, <2>2, <2>3 DEF Reported, Counter
    <3> QED
      BY <2>1, <3>1, <3>2 DEF Reported
  <2>5. seen'[t] = seen[t] \cup {peer[t]}
    BY <1>5, <1>c DEF GetDownlink, CallbackDone, CallTypeOK
  <2>6. \A u \in Reporter \ {t} : /\ stage'[u] = stage[u]
                                   /\ items'[u] = items[u]
                                   /\ seen'[u] = seen[u]
    BY <1>5, <1>f, <1>c DEF GetDownlink, CallbackDone, CallTypeOK
  <2> QED
    BY <1>5, <2>1, <2>4, <2>5, <2>6 DEF GetDownlink
<1>6. ASSUME NEW t \in Reporter, FailCallback(t) PROVE Collected'
  <2>1. pc'[t] = "leave" /\ result'[t].outcome = "error"
    BY <1>6, <1>c DEF FailCallback, Finish, CallTypeOK
  <2>2. \A u \in Reporter \ {t} :
          /\ stage'[u] = stage[u] /\ pc'[u] = pc[u]
          /\ result'[u] = result[u] /\ seen'[u] = seen[u]
    BY <1>6, <1>f, <1>c DEF FailCallback, CallbackDone, Finish, CallTypeOK
  <2> QED
    BY <1>6, <2>1, <2>2 DEF FailCallback
<1>7. ASSUME NEW t \in Reporter, EndLoop(t) PROVE Collected'
  <2>1. /\ pc[t] = "inside" /\ pc'[t] = "leave"
        /\ result'[t].outcome = "end" /\ seen[t] = peers
    BY <1>7, <1>c
       DEF EndLoop, EndOfRange, Runs, Finish, CallTypeOK, TableInv,
           RangeSeesOneMap
  <2>2. \A u \in Reporter \ {t} : pc'[u] = pc[u] /\ result'[u] = result[u]
    BY <1>7, <1>c DEF EndLoop, EndOfRange, Finish, CallTypeOK
  <2>3. stage' = stage /\ items' = items /\ peers' = peers /\ seen' = seen
    BY <1>7 DEF EndLoop, EndOfRange, callVars
  <2> QED
    BY <2>1, <2>2, <2>3
<1>8. ASSUME NEW t \in Reporter, LeaveLoop(t) PROVE Collected'
  <2>1. \A u \in Reporter \ {t} :
          /\ stage'[u] = stage[u] /\ pc'[u] = pc[u]
          /\ result'[u] = result[u] /\ seen'[u] = seen[u]
    BY <1>8, <1>f, <1>c DEF LeaveLoop, Leave, CallTypeOK
  <2>2. stage'[t] = "close" /\ items' = items /\ peers' = peers
    BY <1>8, <1>f DEF LeaveLoop, Leave
  <2> QED
    BY <2>1, <2>2
<1>9. ASSUME NEW t \in Reporter, Close(t) PROVE Collected'
  <2>1. \A u \in Reporter \ {t} : stage'[u] = stage[u] /\ items'[u] = items[u]
    BY <1>9, <1>f DEF Close
  <2> QED
    BY <1>9, <1>f, <2>1 DEF Close, vars
<1>10. ASSUME NEW u \in Thread, CallTable(u) \/ EnterTable(u) \/ StepTable(u)
       PROVE  Collected'
  <2>1. stage' = stage /\ items' = items
    BY <1>10 DEF CallTable, EnterTable, StepTable, callVars
  <2>2. ASSUME NEW t \in Reporter, InLoop(t), pc[t] = "leave", u # t
        PROVE  peers' = peers /\ pc'[t] = pc[t] /\ result'[t] = result[t]
    BY <1>10, <2>2, <1>t, <1>r, <1>c
       DEF CallTable, EnterTable, StepTable, Invoke, Enter, Get, Put, Delete,
           Len, Runs, Finish, Leave, CanWrite, CallTypeOK
  <2>3. ASSUME NEW t \in Reporter, InLoop(t), pc[t] # "leave", u # t
        PROVE  pc'[t] = pc[t]
    BY <1>10, <2>3, <1>t, <1>c
       DEF CallTable, EnterTable, StepTable, Invoke, Enter, Get, Put, Delete,
           Len, Runs, Finish, Leave, CallTypeOK
  <2>4. ASSUME NEW t \in Reporter, InLoop(t), u = t
        PROVE  pc[t] # "leave" /\ pc'[t] # "leave"
    <3>1. method[t] = "Iterate"
      BY <2>4 DEF LoopBooks
    <3> QED
      BY <1>10, <2>4, <3>1, <1>t, <1>c
         DEF CallTable, EnterTable, StepTable, InCall, Enter, Get, Put, Delete,
             Len, Runs, Leave, CallTypeOK
  <2>5. \A t \in Reporter : InLoop(t) => seen'[t] = seen[t]
    BY <1>10, <2>4, <1>t, <1>c
       DEF CallTable, EnterTable, StepTable, Invoke, Enter, Get, Put, Delete,
           Len, Leave, CallTypeOK, LoopBooks
  <2> QED
    BY <2>1, <2>2, <2>3, <2>4, <2>5
<1>11. ASSUME Count \/ CoreExit \/ CoreBoot \/ Hang \/ Recover PROVE Collected'
  BY <1>11 DEF Count, CoreExit, CoreBoot, Hang, Recover, vars, callVars
<1>12. ASSUME UNCHANGED statsVars PROVE Collected'
  BY <1>12 DEF statsVars, vars, callVars
<1> QED
  BY <1>1, <1>2, <1>3, <1>4, <1>5, <1>6, <1>7, <1>8, <1>9, <1>10, <1>11, <1>12
     DEF StatsNext, ReportStep, CoreGone, MayFail

-----------------------------------------------------------------------------

\* The initial states satisfy StatsInv.
LEMMA InitStatsInv == StatsInit => StatsInv
<1> SUFFICES ASSUME StatsInit PROVE StatsInv
  OBVIOUS
<1>1. TableInv
  BY InitTableInv DEF StatsInit
<1>2. StatsTypeOK
  BY MaxTrafficType DEF StatsInit, StatsTypeOK, NoTraffic, NoItems, Missing,
     Asking
<1>3. LoopBooks
  BY DEF StatsInit, Init, LoopBooks, Asking
<1>4. Collected
  BY DEF StatsInit, Collected, InLoop
<1>5. UsageGrows /\ UsageNeverShrinks
  BY DEF StatsInit, UsageGrows, UsageNeverShrinks, NoTraffic, NoItems, Missing
<1> QED
  BY <1>1, <1>2, <1>3, <1>4, <1>5 DEF StatsInv

\* Every step keeps StatsInv.
LEMMA NextStatsInv == StatsInv /\ [StatsNext]_statsVars => StatsInv'
<1> SUFFICES ASSUME StatsInv, [StatsNext]_statsVars PROVE StatsInv'
  OBVIOUS
<1>1. TableInv'
  BY StepRefines, NextTableInv DEF StatsInv
<1>2. StatsTypeOK'
  BY TypesStep DEF StatsInv
<1>3. LoopBooks'
  BY BooksStep DEF StatsInv
<1>4. Collected'
  BY <1>1, <1>3, CollectedStep DEF StatsInv
<1>5. UsageGrows' /\ UsageNeverShrinks'
  BY UsageStep DEF StatsInv
<1> QED
  BY <1>1, <1>2, <1>3, <1>4, <1>5 DEF StatsInv

(***************************************************************************)
(* The inductive invariant of PeerStatistics and the table under it.       *)
(***************************************************************************)
THEOREM StatsInvariant == StatsSpec => []StatsInv
<1> QED
  BY InitStatsInv, NextStatsInv, PTL DEF StatsSpec

(***************************************************************************)
(* Types, and nothing left over from an earlier call.                      *)
(***************************************************************************)
THEOREM StatsTypeCorrect == StatsSpec => []StatsTypeOK
<1>1. StatsInv => StatsTypeOK
  BY DEF StatsInv
<1> QED
  BY <1>1, StatsInvariant, PTL

(***************************************************************************)
(* What a reporter collects never falls below what this core told it.      *)
(***************************************************************************)
THEOREM UsageNeverShrinksHolds == StatsSpec => []UsageNeverShrinks
<1>1. StatsInv => UsageNeverShrinks
  BY DEF StatsInv
<1> QED
  BY <1>1, StatsInvariant, PTL

(***************************************************************************)
(* With PeerStatistics under way, whatever the core does, the table is the *)
(* one of PeerTable: the theorems about PeerTable hold of it.              *)
(***************************************************************************)
THEOREM ImplementsPeerTableHolds == StatsSpec => ImplementsPeerTable
<1>1. StatsInit => Init
  BY DEF StatsInit
<1>2. StatsInv /\ [StatsNext]_statsVars => [Next]_vars
  BY StepRefines DEF StatsInv
<1> QED
  BY <1>1, <1>2, StatsInvariant, PTL DEF StatsSpec, Spec, ImplementsPeerTable

(***************************************************************************)
(* So the methods of Peers stay linearizable under PeerStatistics.         *)
(***************************************************************************)
COROLLARY StatsLinearizable == StatsSpec => Linearizable
BY ImplementsPeerTableHolds, LinearizableHolds, PTL DEF ImplementsPeerTable

(***************************************************************************)
(* A PeerStatistics whose loop did not fail reports exactly the keys that  *)
(* are in the table when the loop lets go of the lock.                     *)
(***************************************************************************)
THEOREM ReportIsSnapshotHolds == StatsSpec => ReportIsSnapshot
<1>1. ASSUME StatsInv, StatsNext, NEW t \in Reporter,
             stage[t] = "loop" /\ stage'[t] = "close" /\ ~failed'[t]
      PROVE  Reported(items[t]) = peers
  <2> USE DEF StatsInv, StatsTypeOK, Move
  <2>1. LeaveLoop(t)
    BY <1>1
       DEF StatsNext, ReportStep, CoreGone, MayFail, CallStatistics, Dialed,
       Callback, GetUplink, GetDownlink, FailCallback, EndLoop, LeaveLoop,
       Close, CallTable, EnterTable, StepTable, Count, CoreExit, CoreBoot,
       Hang, Recover, callVars, Asking
  <2>2. pc[t] = "leave" /\ failed'[t] = (result[t].outcome = "error")
    BY <1>1, <2>1 DEF LeaveLoop, Leave
  <2> QED
    BY <1>1, <2>2 DEF Collected, InLoop, LoopFailed
<1>2. StatsInv /\ [StatsNext]_statsVars =>
        [\A t \in Reporter :
           (stage[t] = "loop" /\ stage'[t] = "close" /\ ~failed'[t]) =>
             Reported(items[t]) = peers]_statsVars
  BY <1>1
<1> QED
  BY <1>2, StatsInvariant, PTL DEF StatsSpec, ReportIsSnapshot
=============================================================================
