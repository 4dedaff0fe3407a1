------------------------------- MODULE Server -------------------------------
(***************************************************************************)
(* The V2Ray Server (v2ray/v2ray.go) as one program: Start and Stop, which *)
(* make and kill the processes of Process, and the calls that work on the  *)
(* peers, which share the table of PeerCalls and talk to whichever process *)
(* serves the one API address of clientConn.                               *)
(*                                                                         *)
(* The two meet in up: a core that ends takes the users of its inbounds    *)
(* and the connections to it along, one that begins to serve unblocks the  *)
(* calls that wait in clientConn.  Nothing in the Server connects them:    *)
(* Stop does not touch s.peers and AddPeer does not look at s.cmd.         *)
(***************************************************************************)
EXTENDS Process, PeerCalls

ASSUME CoresExit == "exit" \in Fault

serverVars == <<procVars, callsVars>>

\* Somebody serves the API.
Serving == \E i \in Cmds : proc[i] = "serving"

ServerInit == ProcInit /\ CallsInit

-----------------------------------------------------------------------------

Running == \A c \in Controller : ctl[c] # "panic"

\* The steps of Start and Stop that only this program sees.
Control(c) ==
  /\ Start(c) \/ Fork(c) \/ Stop(c)
  /\ UNCHANGED callsVars

\* The core of the calls exits when no process is left that serves, and boots
\* when one begins to.
CoreFollows ==
  \/ up /\ ~Serving' /\ CoreExit /\ UNCHANGED tableVars
  \/ ~up /\ Serving' /\ CoreBoot /\ UNCHANGED tableVars
  \/ up = Serving' /\ UNCHANGED callsVars

\* Mutant: Stop also clears s.peers when the core has ended before.
StopCoreClearing(c) ==
  /\ Kill(c)
  /\ IF up THEN CoreFollows
     ELSE peers' = {} /\ UNCHANGED <<tableVars, syncOnly>>

StopCore(c) == Kill(c) /\ CoreFollows

BootCore(i) == Boot(i) /\ CoreFollows

CrashCore(i) == Crash(i) /\ CoreFollows

CallStep(c) == CallerNext(c) /\ UNCHANGED procVars

TableStep(t) == ThreadNext(t) /\ UNCHANGED procVars

ServerNext ==
  /\ Running
  /\ \/ \E c \in Controller : Control(c) \/ StopCore(c)
     \/ \E i \in Cmds : BootCore(i) \/ CrashCore(i)
     \/ \E c \in Caller : CallStep(c)
     \/ \E t \in Thread : TableStep(t)

ServerSpec == ServerInit /\ [][ServerNext]_serverVars

\* A goroutine in a call goes on, but for a wait for the lock.
GoesOn(t) ==
  \/ t \in Caller /\ (AskCore(t) \/ Record(t) \/ RecordBody(t))
  \/ LookBody(t) \/ Release(t)

(***************************************************************************)
(* A call runs on when it can, and gets the lock, as in PeerSync and       *)
(* PeerTable; a Stop past its check goes on to kill.  Cores that were      *)
(* forked get to serve, or end because another one does; those that were   *)
(* killed end, some time.                                                  *)
(***************************************************************************)
ServerFairness ==
  /\ \A t \in Thread :
       /\ WF_serverVars(Running /\ GoesOn(t) /\ UNCHANGED procVars)
       /\ SF_serverVars(Running /\ Wait(t) /\ UNCHANGED procVars)
  /\ WF_serverVars(Running /\ \E c \in Controller : StopCore(c))
  /\ WF_serverVars(Running /\ \E i \in Cmds : BootCore(i))
  /\ WF_serverVars(Running /\ \E i \in killed : CrashCore(i))

ServerFairSpec == ServerSpec /\ ServerFairness

-----------------------------------------------------------------------------

\* Two cores never serve at once, the second finds the port of the API taken:
\* "the core" of the calls is one process.
OneServes ==
  \A i, j \in Cmds : (proc[i] = "serving" /\ proc[j] = "serving") => i = j

\* The invariants of the parts, and what ties them to each other.
ServerInv ==
  /\ ProcTypeOK
  /\ OneCore
  /\ OneServes
  /\ up <=> Serving
  /\ CallsInv

(***************************************************************************)
(* An orderly Stop cuts every peer off in the end: the cores die of it and *)
(* take their users along, whatever calls of AddPeer are under way, which  *)
(* may still reach a core that is dying, and whatever the table says;      *)
(* unless there is a Start meanwhile, or the program panics.               *)
(***************************************************************************)
StopCutsPeers ==
  (orderly /\ \E c \in Controller : ctl[c] = "kill")
    ~> \/ users = {} /\ \A i \in Cmds : ~Alive(i)
       \/ \E c \in Controller : ctl[c] = "fork"
       \/ ~Running

(***************************************************************************)
(* A call that waits in clientConn, was caught by an exit, or waits for    *)
(* the lock of the table, returns if one of the cores started stays alive, *)
(* unless the program panics.                                              *)
(***************************************************************************)
StartUnblocksCalls ==
  (\E i \in Cmds : <>[](Alive(i) /\ Running)) =>
    \A t \in Thread : []<>Outside(t)
=============================================================================
