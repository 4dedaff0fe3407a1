---------------------------- MODULE ServerProofs ----------------------------
(***************************************************************************)
(* Theorems about Server for every set of controllers, of goroutines and   *)
(* callers among them, and of peers, and every number of starts.           *)
(*                                                                         *)
(* A step of Server is a step of Process or leaves the processes alone,    *)
(* and it is a step of PeerCalls or leaves the calls alone: so each part   *)
(* of the program is what its own module says, and all that is proved of   *)
(* the parts holds of the program.  Only up, where the two meet, needs an  *)
(* invariant of its own.                                                   *)
(***************************************************************************)
EXTENDS Server, ProcessProofs, PeerCallsProofs

\* Every step is a step of Process or leaves it alone.
LEMMA StepOfProcess == [ServerNext]_serverVars => [ProcNext]_procVars
<1>1. ASSUME ServerNext PROVE ProcNext \/ UNCHANGED procVars
  BY <1>1
     DEF ServerNext, Running, Control, StopCore, BootCore, CrashCore, CallStep,
         TableStep, ProcNext
<1> QED
  BY <1>1 DEF serverVars

\* The core of the calls goes the way of the processes, whichever step it was.
LEMMA FollowsIsChange ==
  ASSUME CoreFollows, up \in BOOLEAN
  PROVE  [CallsNext]_callsVars /\ (up' <=> Serving')
<1>0. Serving' \in BOOLEAN
  BY DEF Serving
<1>1. CASE up /\ ~Serving' /\ CoreExit /\ UNCHANGED tableVars
  BY <1>1 DEF CallsNext, CoreChange, CoreExit
<1>2. CASE ~up /\ Serving' /\ CoreBoot /\ UNCHANGED tableVars
  BY <1>2 DEF CallsNext, CoreChange, CoreBoot
<1>3. CASE up = Serving' /\ UNCHANGED callsVars
  BY <1>3 DEF callsVars, syncOnly, core
<1> QED
  BY <1>1, <1>2, <1>3 DEF CoreFollows

\* Every step is a step of PeerCalls or leaves it alone.
LEMMA StepOfCalls ==
  ASSUME up \in BOOLEAN, [ServerNext]_serverVars
  PROVE  [CallsNext]_callsVars
<1>1. ASSUME NEW c \in Controller, Control(c) PROVE UNCHANGED callsVars
  BY <1>1 DEF Control
<1>2. ASSUME NEW c \in Controller, StopCore(c) PROVE [CallsNext]_callsVars
  BY <1>2, FollowsIsChange DEF StopCore
<1>3. ASSUME NEW i \in Cmds, BootCore(i) \/ CrashCore(i)
      PROVE  [CallsNext]_callsVars
  BY <1>3, FollowsIsChange DEF BootCore, CrashCore
<1>4. ASSUME NEW c \in Caller, CallStep(c) PROVE CallsNext
  BY <1>4 DEF CallStep, CallsNext
<1>5. ASSUME NEW t \in Thread, TableStep(t) PROVE CallsNext
  BY <1>5 DEF TableStep, CallsNext
<1> QED
  BY <1>1, <1>2, <1>3, <1>4, <1>5 DEF ServerNext, serverVars

-----------------------------------------------------------------------------

\* A fork does not serve yet, and Start and Stop change no process.
LEMMA ServingStays ==
  ASSUME ProcTypeOK, NEW c \in Controller, Start(c) \/ Fork(c) \/ Stop(c)
  PROVE  Serving' <=> Serving
<1>1. \A i \in Cmds : proc'[i] = "serving" <=> proc[i] = "serving"
  BY DEF Start, Fork, Stop, ProcTypeOK
<1> QED
  BY <1>1 DEF Serving

\* No call starts or ends the core it talks to.
LEMMA CallsLeaveUp ==
  /\ \A c \in Caller : CallerNext(c) => up' = up
  /\ \A t \in Thread : ThreadNext(t) => up' = up
<1>1. ASSUME NEW c \in Caller, CallerNext(c) PROVE up' = up
  <2>1. ASSUME Begin(c) \/ Record(c) \/ GivesUp(c) PROVE up' = up
    BY <2>1
       DEF Begin, Reject, Call, Record, GivesUp, GiveUp, CoreApplyStray, core,
           syncOnly
  <2>2. ASSUME AskCore(c) PROVE up' = up
    BY <2>2
       DEF AskCore, Dialed, Send, SendFails, CoreApply, Receive, Refused, core
  <2>3. ASSUME RecordBody(c) PROVE up' = up
    BY <2>3 DEF RecordBody, Succeed
  <2> QED
    BY <1>1, <2>1, <2>2, <2>3 DEF CallerNext
<1>2. ASSUME NEW t \in Thread, ThreadNext(t) PROVE up' = up
  BY <1>2 DEF ThreadNext, Look, Wait, LookBody, Release, core, syncOnly
<1> QED
  BY <1>1, <1>2

\* So up says in every state whether a process serves.
LEMMA UpStep ==
  ASSUME ProcTypeOK, up \in BOOLEAN, up <=> Serving, [ServerNext]_serverVars
  PROVE  up' <=> Serving'
<1>1. ASSUME NEW c \in Controller, Control(c) PROVE up' <=> Serving'
  BY <1>1, ServingStays DEF Control, callsVars, syncOnly, core
<1>2. ASSUME NEW c \in Controller, StopCore(c) PROVE up' <=> Serving'
  BY <1>2, FollowsIsChange DEF StopCore
<1>3. ASSUME NEW i \in Cmds, BootCore(i) \/ CrashCore(i)
      PROVE  up' <=> Serving'
  BY <1>3, FollowsIsChange DEF BootCore, CrashCore
<1>4. ASSUME UNCHANGED procVars PROVE Serving' = Serving
  BY <1>4 DEF procVars, Serving
<1>5. ASSUME NEW c \in Caller, CallStep(c) PROVE up' <=> Serving'
  BY <1>4, <1>5, CallsLeaveUp DEF CallStep
<1>6. ASSUME NEW t \in Thread, TableStep(t) PROVE up' <=> Serving'
  BY <1>4, <1>6, CallsLeaveUp DEF TableStep
<1>7. ASSUME UNCHANGED serverVars PROVE up' <=> Serving'
  BY <1>4, <1>7 DEF serverVars, callsVars, syncOnly, core
<1> QED
  BY <1>1, <1>2, <1>3, <1>5, <1>6, <1>7 DEF ServerNext

\* A core that finds another one serving ends.
LEMMA OneServesStep ==
  ASSUME ProcTypeOK, OneServes, [ProcNext]_procVars
  PROVE  OneServes'
<1> USE DEF ProcTypeOK, OneServes
<1>1. ASSUME NEW c \in Controller, Start(c) \/ Fork(c) \/ Stop(c) \/ Kill(c)
      PROVE  \A i \in Cmds : proc'[i] = "serving" => proc[i] = "serving"
  BY <1>1 DEF Start, Fork, Stop, Kill
<1>2. ASSUME NEW i \in Cmds, Boot(i) PROVE OneServes'
  BY <1>2 DEF Boot
<1>3. ASSUME NEW i \in Cmds, Crash(i) PROVE OneServes'
  BY <1>3 DEF Crash
<1> QED
  BY <1>1, <1>2, <1>3 DEF ProcNext, procVars

\* The initial states satisfy ServerInv.
LEMMA InitServerInv == ServerInit => ServerInv
<1>1. ProcInit => OneServes /\ ~Serving
  BY DEF ProcInit, OneServes, Serving
<1>2. CallsInit => up = FALSE
  BY DEF CallsInit, SyncInit
<1> QED
  BY <1>1, <1>2, InitProcInv, InitCallsInv DEF ServerInit, ServerInv, ProcInv

\* Every step keeps ServerInv.
LEMMA NextServerInv == ServerInv /\ [ServerNext]_serverVars => ServerInv'
<1> SUFFICES ASSUME ServerInv, [ServerNext]_serverVars PROVE ServerInv'
  OBVIOUS
<1>1. up \in BOOLEAN
  BY DEF ServerInv, CallsInv, SyncInv, SyncTypeOK
<1>2. ProcInv' /\ OneServes'
  BY StepOfProcess, NextProcInv, OneServesStep DEF ServerInv, ProcInv
<1>3. CallsInv'
  BY <1>1, StepOfCalls, NextCallsInv DEF ServerInv
<1>4. up' <=> Serving'
  BY <1>1, UpStep DEF ServerInv
<1> QED
  BY <1>2, <1>3, <1>4 DEF ServerInv, ProcInv

(***************************************************************************)
(* The invariant of the whole Server: those of its parts, one core that    *)
(* serves even when Start and Stop are not called in order, and calls that *)
(* reach a core exactly when there is one.                                 *)
(***************************************************************************)
THEOREM ServerInvariant == ServerSpec => []ServerInv
<1> QED
  BY InitServerInv, NextServerInv, PTL DEF ServerSpec

(***************************************************************************)
(* Nothing that the calls do disturbs Start, Stop and their processes.     *)
(***************************************************************************)
THEOREM ServerIsProcess == ServerSpec => ProcSpec
<1> QED
  BY StepOfProcess, PTL DEF ServerSpec, ServerInit, ProcSpec

(***************************************************************************)
(* Start, Stop and the processes they make are the exits and boots of the  *)
(* one core of PeerCalls, however many processes there are.                *)
(***************************************************************************)
THEOREM ServerIsCalls == ServerSpec => CallsSpec
<1>1. ServerInv /\ [ServerNext]_serverVars => [CallsNext]_callsVars
  BY StepOfCalls DEF ServerInv, CallsInv, SyncInv, SyncTypeOK
<1> QED
  BY <1>1, ServerInvariant, PTL DEF ServerSpec, ServerInit, CallsSpec

(***************************************************************************)
(* So the Server implements PeerSync and PeerTable at once ...             *)
(***************************************************************************)
THEOREM ServerImplementsParts ==
  ServerSpec => ImplementsPeerSync /\ ImplementsPeerTable
<1> QED
  BY ServerIsCalls, ImplementsPeerSyncHolds, ImplementsPeerTableHolds, PTL

(***************************************************************************)
(* ... and what they promise, it promises: the table and the core agree on *)
(* what nothing disturbed, an undisturbed success repairs both records, a  *)
(* user only the core knows stays until somebody removes it, and what is   *)
(* read of the table is what the core has, across every Start, Stop, crash *)
(* and panic.                                                              *)
(***************************************************************************)
THEOREM ServerKeepsRecords ==
  ServerSpec => /\ []Agreement
                /\ UndisturbedSuccess
                /\ OrphanStays
                /\ LooksTellTheCore
<1>1. ServerSpec => SyncSpec
  BY ServerImplementsParts DEF ImplementsPeerSync
<1> QED
  BY <1>1, ServerIsCalls, AgreementHolds, UndisturbedSuccessHolds,
     OrphanStaysHolds, LooksTellTheCoreHolds, PTL

(***************************************************************************)
(* The table under its calls: every method takes effect in one instant,    *)
(* and no ring of waits closes on its lock, whatever happens to the core.  *)
(***************************************************************************)
THEOREM ServerKeepsTable ==
  ServerSpec => Linearizable /\ []WaitersHaveAHolder
<1>1. ServerSpec => Spec
  BY ServerImplementsParts DEF ImplementsPeerTable
<1> QED
  BY <1>1, LinearizableHolds, WaitersHaveAHolderHolds, PTL

(***************************************************************************)
(* An orderly Stop of the whole Server that returns leaves no core but     *)
(* ones that are killed, and there is one core that is not killed while    *)
(* the calls are orderly.                                                  *)
(***************************************************************************)
THEOREM ServerStops == ServerSpec => []OneCore /\ OrderlyStopStops
<1> QED
  BY ServerIsProcess, OneCoreHolds, OrderlyStopStopsHolds, PTL
=============================================================================
