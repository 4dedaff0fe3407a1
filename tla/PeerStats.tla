------------------------------ MODULE PeerStats ------------------------------
(***************************************************************************)
(* PeerStatistics of the V2Ray Server (v2ray/v2ray.go) on top of the peer  *)
(* table: the only caller of Peers.Iterate.                                *)
(*                                                                         *)
(* The callback it gives to Iterate asks the core twice per peer, while    *)
(* Iterate holds the read lock of the table.  So a core that does not      *)
(* answer keeps the lock taken, and with it whoever wants to write, which  *)
(* are AddPeer and RemovePeer at their last step.                          *)
(*                                                                         *)
(* A goroutine in PeerStatistics goes through these values of stage:       *)
(*   "dial"    statsServiceClient blocks until the core listens;           *)
(*   "loop"    in s.peers.Iterate, outside the callback;                   *)
(*   "uplink", "downlink"   in the callback, waiting for that counter;     *)
(*   "close"   Iterate has returned, the deferred Close is next.           *)
(***************************************************************************)
EXTENDS PeerTable

CONSTANTS
  Reporter,     \* the goroutines that call PeerStatistics
  Fault,        \* "ctx": a context may be done; "exit": the core may exit;
                \* "stuck": the core may stop answering
  Moving,       \* bound: the counters of the core that count
  MaxTraffic    \* bound: what they count to

Counter == Key \X {"up", "down"}

ASSUME ReporterType == Reporter \subseteq Thread
ASSUME MovingType == Moving \subseteq Counter
ASSUME MaxTrafficType == MaxTraffic \in Nat

VARIABLES
  core,       \* "down", "serving", or "stuck": it runs and does not answer
  traffic,    \* the counters of the core; one it has not made yet is 0
  stage,      \* where each reporter is in PeerStatistics
  peer,       \* the key its callback was called with
  upLink,     \* the uplink its callback got
  items,      \* the counters it has collected
  failed,     \* Iterate returned an error
  broken,     \* reporters whose connection has lost its core
  returned,   \* what its last call returned
  last        \* history: the least this core may tell each reporter

callVars == <<stage, peer, upLink, items, failed, broken, returned>>
coreVars == <<core, traffic>>
statsVars == <<vars, callVars, coreVars, last>>

Missing == -1

NoItems == [i \in Counter |-> Missing]

NoTraffic == [i \in Counter |-> 0]

Reported(list) == {k \in Key : \E d \in {"up", "down"} : list[<<k, d>>] # Missing}

InCall(t) == stage[t] # "none"

Asking(t) == stage[t] \in {"uplink", "downlink"}

StatsInit ==
  /\ Init
  /\ core = "down"
  /\ traffic = NoTraffic
  /\ stage = [t \in Reporter |-> "none"]
  /\ peer = [t \in Reporter |-> NoKey]
  /\ upLink = [t \in Reporter |-> 0]
  /\ items = [t \in Reporter |-> NoItems]
  /\ failed = [t \in Reporter |-> FALSE]
  /\ broken = {}
  /\ returned = [t \in Reporter |-> "nothing"]
  /\ last = [t \in Reporter |-> NoTraffic]

Move(t, from, to) ==
  /\ stage[t] = from
  /\ stage' = [stage EXCEPT ![t] = to]

-----------------------------------------------------------------------------

\* PeerStatistics is called.
CallStatistics(t) ==
  /\ pc[t] = "idle"
  /\ Move(t, "none", "dial")
  /\ UNCHANGED <<vars, peer, upLink, items, failed, broken, returned,
                 coreVars, last>>

\* The core listens; the loop over the table is called.
Dialed(t) ==
  /\ core # "down"
  /\ Move(t, "dial", "loop")
  /\ Invoke(t) /\ method'[t] = "Iterate"
  /\ UNCHANGED <<peer, upLink, items, failed, broken, returned, coreVars, last>>

\* The range loop calls back with a key, and the callback asks for its uplink.
Callback(t) ==
  /\ Runs(t, "Iterate") /\ CanRead(t)
  /\ Move(t, "loop", "uplink")
  /\ \E k \in peers \ seen[t] : peer' = [peer EXCEPT ![t] = k]
  /\ UNCHANGED <<vars, upLink, items, failed, broken, returned, coreVars, last>>

\* Mutant: the request resets the counter (Reset_ is TRUE).
GetUplinkResetting(t) ==
  /\ core = "serving"
  /\ Move(t, "uplink", "downlink")
  /\ upLink' = [upLink EXCEPT ![t] = traffic[<<peer[t], "up">>]]
  /\ traffic' = [traffic EXCEPT ![<<peer[t], "up">>] = 0]
  /\ UNCHANGED <<vars, peer, items, failed, broken, returned, core, last>>

\* Mutant: "not found" is asked again.
GetUplinkInsisting(t) ==
  /\ core = "serving"
  /\ Move(t, "uplink", "downlink")
  /\ traffic[<<peer[t], "up">>] # 0
  /\ upLink' = [upLink EXCEPT ![t] = traffic[<<peer[t], "up">>]]
  /\ UNCHANGED <<vars, peer, items, failed, broken, returned, coreVars, last>>

\* The answer, or "not found", which is an empty Stat.
GetUplink(t) ==
  /\ core = "serving"
  /\ Move(t, "uplink", "downlink")
  /\ upLink' = [upLink EXCEPT ![t] = traffic[<<peer[t], "up">>]]
  /\ UNCHANGED <<vars, peer, items, failed, broken, returned, coreVars, last>>

\* The callback is over.
CallbackDone(t) ==
  /\ peer' = [peer EXCEPT ![t] = NoKey]
  /\ upLink' = [upLink EXCEPT ![t] = 0]
  /\ seen' = [seen EXCEPT ![t] = @ \cup {peer[t]}]
  /\ UNCHANGED <<failed, broken, returned, coreVars, last>>

\* Mutant: a peer without a counter is left out, as a comment has it.
GetDownlinkSkips(t) ==
  /\ core = "serving"
  /\ Move(t, "downlink", "loop")
  /\ items' = [items EXCEPT ![t] =
                 [i \in Counter |->
                    IF i[1] # peer[t] \/ traffic[i] = 0 THEN items[t][i]
                    ELSE IF i[2] = "up" THEN upLink[t] ELSE traffic[i]]]
  /\ CallbackDone(t)
  /\ UNCHANGED <<peers, lockVars, pc, method, key, result>>

\* The second answer is there: the peer is appended, the loop goes on.
GetDownlink(t) ==
  /\ core = "serving"
  /\ Move(t, "downlink", "loop")
  /\ items' = [items EXCEPT ![t] =
                 [i \in Counter |->
                    IF i[1] # peer[t] THEN items[t][i]
                    ELSE IF i[2] = "up" THEN upLink[t] ELSE traffic[i]]]
  /\ CallbackDone(t)
  /\ UNCHANGED <<peers, lockVars, pc, method, key, result>>

\* Mutant: an error of the core leaves the loop without the deferred unlock.
Bail(t) ==
  /\ Asking(t)
  /\ stage' = [stage EXCEPT ![t] = "loop"]
  /\ peer' = [peer EXCEPT ![t] = NoKey]
  /\ upLink' = [upLink EXCEPT ![t] = 0]
  /\ pc' = [pc EXCEPT ![t] = "idle"]
  /\ UNCHANGED <<peers, lockVars, method, key, seen, result>>
  /\ UNCHANGED <<items, failed, broken, returned, coreVars, last>>

\* An error other than "not found" ends the callback and the loop.
FailCallback(t) ==
  /\ Asking(t)
  /\ stage' = [stage EXCEPT ![t] = "loop"]
  /\ CallbackDone(t)
  /\ Finish(t, [visited |-> seen[t] \cup {peer[t]}, outcome |-> "error"])
  /\ UNCHANGED <<peers, items>>

\* Mutant: a request waits for the core to come back (WaitForReady).
CoreGoneWaits(t) == core = "serving" /\ t \in broken /\ FailCallback(t)

CoreGone(t) == core = "down" /\ FailCallback(t)

\* The context is done, or a connection that lost its core has not recovered.
MayFail(t) == ("ctx" \in Fault \/ t \in broken) /\ FailCallback(t)

EndLoop(t) ==
  /\ stage[t] = "loop"
  /\ EndOfRange(t)
  /\ UNCHANGED <<callVars, coreVars, last>>

\* The unlock that Iterate deferred, and its return.
LeaveLoop(t) ==
  /\ Move(t, "loop", "close")
  /\ Leave(t)
  /\ failed' = [failed EXCEPT ![t] = result[t].outcome = "error"]
  /\ UNCHANGED <<peer, upLink, items, broken, returned, coreVars, last>>

\* Mutant: what a call collected is still there for the next one.
CloseKeepingItems(t) ==
  /\ Move(t, "close", "none")
  /\ returned' = [returned EXCEPT ![t] = IF failed[t] THEN "nil" ELSE "items"]
  /\ failed' = [failed EXCEPT ![t] = FALSE]
  /\ broken' = broken \ {t}
  /\ UNCHANGED <<vars, peer, upLink, items, coreVars, last>>

\* The deferred Close assigns its own error, nil, to the named result err: a
\* loop that failed returns no items and no error.
Close(t) ==
  /\ Move(t, "close", "none")
  /\ returned' = [returned EXCEPT ![t] = IF failed[t] THEN "nil" ELSE "items"]
  /\ failed' = [failed EXCEPT ![t] = FALSE]
  /\ items' = [items EXCEPT ![t] = NoItems]
  /\ last' = IF failed[t] \/ t \in broken THEN last
             ELSE [last EXCEPT ![t] =
                     [i \in Counter |->
                        IF items[t][i] = Missing THEN last[t][i] ELSE items[t][i]]]
  /\ broken' = broken \ {t}
  /\ UNCHANGED <<vars, peer, upLink, coreVars>>

-----------------------------------------------------------------------------

\* The methods the other operations of the Server call.
CallTable(t) ==
  /\ t \in Reporter => ~InCall(t)
  /\ Invoke(t) /\ method'[t] # "Iterate"
  /\ UNCHANGED <<callVars, coreVars, last>>

EnterTable(t) ==
  /\ Enter(t)
  /\ UNCHANGED <<callVars, coreVars, last>>

StepTable(t) ==
  /\ \/ Get(t) \/ Put(t) \/ Delete(t) \/ Len(t)
     \/ method[t] # "Iterate" /\ Leave(t)
  /\ UNCHANGED <<callVars, coreVars, last>>

\* Traffic of a user; the core keeps counting what it counted.
Count ==
  /\ core # "down"
  /\ \E i \in Moving :
       /\ traffic[i] < MaxTraffic
       /\ traffic' = [traffic EXCEPT ![i] = @ + 1]
  /\ UNCHANGED <<vars, callVars, core, last>>

\* The counters are in memory, and the connections break.
CoreExit ==
  /\ "exit" \in Fault
  /\ core # "down"
  /\ core' = "down"
  /\ traffic' = NoTraffic
  /\ broken' = broken \cup {t \in Reporter : stage[t] \notin {"none", "dial"}}
  /\ last' = [t \in Reporter |-> NoTraffic]
  /\ UNCHANGED <<vars, stage, peer, upLink, items, failed, returned>>

CoreBoot ==
  /\ core = "down"
  /\ core' = "serving"
  /\ UNCHANGED <<vars, callVars, traffic, last>>

Hang ==
  /\ "stuck" \in Fault
  /\ core = "serving"
  /\ core' = "stuck"
  /\ UNCHANGED <<vars, callVars, traffic, last>>

Recover ==
  /\ core = "stuck"
  /\ core' = "serving"
  /\ UNCHANGED <<vars, callVars, traffic, last>>

-----------------------------------------------------------------------------

ReportStep(t) ==
  \/ Dialed(t) \/ Callback(t) \/ GetUplink(t) \/ GetDownlink(t)
  \/ CoreGone(t) \/ EndLoop(t) \/ LeaveLoop(t) \/ Close(t)

StatsNext ==
  \/ \E t \in Reporter : CallStatistics(t) \/ ReportStep(t) \/ MayFail(t)
  \/ \E t \in Thread : CallTable(t) \/ EnterTable(t) \/ StepTable(t)
  \/ Count \/ CoreExit \/ CoreBoot \/ Hang \/ Recover

StatsSpec == StatsInit /\ [][StatsNext]_statsVars

(***************************************************************************)
(* The fairness of PeerTable for the methods; a reporter runs on when it   *)
(* can, and its request is answered by a core that serves and failed by    *)
(* one that is gone.  Nothing ends the wait for a core that is stuck: the  *)
(* context of the caller need not ever be done.                            *)
(***************************************************************************)
StatsFairness ==
  /\ \A t \in Thread : WF_statsVars(StepTable(t)) /\ SF_statsVars(EnterTable(t))
  /\ \A t \in Reporter : WF_statsVars(ReportStep(t))

StatsFairSpec == StatsSpec /\ StatsFairness

-----------------------------------------------------------------------------

(***************************************************************************)
(* Types.  What a reporter has collected is what the loop has passed to    *)
(* its callback; outside a loop that is under way it has nothing.          *)
(***************************************************************************)
StatsTypeOK ==
  /\ core \in {"down", "serving", "stuck"}
  /\ traffic \in [Counter -> 0 .. MaxTraffic]
  /\ stage \in
       [Reporter -> {"none", "dial", "loop", "uplink", "downlink", "close"}]
  /\ peer \in [Reporter -> Key \cup {NoKey}]
  /\ upLink \in [Reporter -> 0 .. MaxTraffic]
  /\ items \in [Reporter -> [Counter -> Missing .. MaxTraffic]]
  /\ failed \in [Reporter -> BOOLEAN]
  /\ broken \subseteq Reporter
  /\ returned \in [Reporter -> {"nothing", "items", "nil"}]
  /\ last \in [Reporter -> [Counter -> 0 .. MaxTraffic]]
  /\ \A t \in Reporter :
       /\ stage[t] \in {"none", "dial"} => items[t] = NoItems
       /\ stage[t] # "close" => ~failed[t]
       /\ ~Asking(t) => peer[t] = NoKey

(***************************************************************************)
(* A reporter is in Iterate exactly in these stages, and a callback under  *)
(* way has a key of the table that the loop has not passed before.         *)
(***************************************************************************)
LoopBooks ==
  /\ \A t \in Thread :
       method[t] = "Iterate" <=>
         t \in Reporter /\ stage[t] \in {"loop", "uplink", "downlink"}
  /\ \A t \in Reporter :
       /\ Asking(t) => /\ pc[t] = "inside" /\ t \in readers
                       /\ peer[t] \in peers \ seen[t]
       /\ stage[t] = "dial" => pc[t] = "idle"

(***************************************************************************)
(* The table's side of PeerStatistics: with it under way, whatever the     *)
(* core does, Peers still behaves as it is specified, and the callback's   *)
(* two requests and their failures are turns of the range loop.            *)
(***************************************************************************)
ImplementsPeerTable == Spec

(***************************************************************************)
(* PeerStatistics reports one map: a loop that did not fail has collected  *)
(* every key that is in the table when it lets go of the lock, those the   *)
(* core has no counter for included, and no other.                         *)
(***************************************************************************)
ReportIsSnapshot ==
  [][\A t \in Reporter :
       (stage[t] = "loop" /\ stage'[t] = "close" /\ ~failed'[t]) =>
         Reported(items[t]) = peers]_statsVars

(***************************************************************************)
(* The usage of a peer never shrinks (Reset_ is FALSE in both requests):   *)
(* what a reporter collects is never less than what it was told before by  *)
(* the same core, whoever else asked in between.                           *)
(***************************************************************************)
UsageNeverShrinks ==
  \A t \in Reporter : \A i \in Counter :
    items[t][i] # Missing => items[t][i] >= last[t][i]

(***************************************************************************)
(* What makes ReportIsSnapshot and UsageNeverShrinks inductive.            *)
(***************************************************************************)

InLoop(t) == stage[t] \in {"loop", "uplink", "downlink"}

LoopFailed(t) == pc[t] = "leave" /\ result[t].outcome = "error"

\* A loop has reported what it has passed to the callback, and one that ended
\* has passed the whole map; the callback never stops it.
Collected ==
  \A t \in Reporter : InLoop(t) =>
    /\ pc[t] = "leave" =>
         /\ result[t].outcome \in {"end", "error"}
         /\ result[t].outcome = "end" => seen[t] = peers
    /\ ~LoopFailed(t) => Reported(items[t]) = seen[t]

\* What a reporter was told, or is being told, lies between what it was told
\* before and what the core counts now, unless that core is gone.
UsageGrows ==
  /\ \A t \in Reporter : \A i \in Counter : last[t][i] <= traffic[i]
  /\ \A t \in Reporter : stage[t] = "downlink" =>
       /\ upLink[t] >= last[t][<<peer[t], "up">>]
       /\ t \notin broken => upLink[t] <= traffic[<<peer[t], "up">>]
  /\ \A t \in Reporter \ broken : \A i \in Counter : items[t][i] <= traffic[i]

StatsInv ==
  /\ TableInv
  /\ StatsTypeOK
  /\ LoopBooks
  /\ Collected
  /\ UsageGrows
  /\ UsageNeverShrinks

(***************************************************************************)
(* PeerStatistics returns once the core serves for good.                   *)
(***************************************************************************)
StatisticsReturn ==
  <>[](core = "serving") => \A t \in Reporter : InCall(t) ~> ~InCall(t)

(***************************************************************************)
(* The read lock held over the requests (v2ray.go:328) delays Put and      *)
(* Delete, and does not block them, as long as the core answers or exits:  *)
(* every method of the table returns unless the core stays stuck.          *)
(***************************************************************************)
TableCallsReturn ==
  <>[](core # "stuck") => \A t \in Thread : pc[t] = "enter" ~> pc[t] = "idle"

(***************************************************************************)
(* Once nobody adds or removes a peer, HasPeer and PeerCount return, even  *)
(* when the core is stuck with a PeerStatistics that holds the lock.       *)
(***************************************************************************)
ReadersPassStatistics ==
  <>[](\A t \in Thread : method[t] \notin {"Put", "Delete"}) =>
    \A t \in Thread :
      (pc[t] = "enter" /\ method[t] \in {"Get", "Len"}) ~> pc[t] = "idle"

(***************************************************************************)
(* "PeerStatistics retrieves statistics for each peer connected to the     *)
(* V2Ray server" (v2ray.go:255), and returns the error of the loop         *)
(* (v2ray.go:328): a loop that failed is no success.                       *)
(***************************************************************************)
FailureIsReturned ==
  [][\A t \in Reporter :
       (stage[t] = "close" /\ failed[t] /\ stage'[t] = "none") =>
         returned'[t] = "error"]_statsVars
=============================================================================
