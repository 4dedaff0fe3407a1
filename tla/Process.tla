------------------------------ MODULE Process ------------------------------
(***************************************************************************)
(* Start and Stop of the V2Ray Server (v2ray/v2ray.go) and the processes   *)
(* of the V2Ray core they leave behind.                                    *)
(*                                                                         *)
(* Start puts a new exec.Cmd in s.cmd and then starts the command that     *)
(* s.cmd holds; Stop checks s.cmd and then kills the process of the        *)
(* command that s.cmd holds.  No lock guards s.cmd, and nobody waits for a *)
(* process: a core that was killed goes on until the signal reaches it,    *)
(* which may be after Stop has returned, and after the next Start.  The    *)
(* commands are numbered in the order they are made.                       *)
(***************************************************************************)
EXTENDS Integers, FiniteSets

CONSTANTS
  Controller,   \* the goroutines that call Start and Stop
  MaxStarts     \* bound: the calls of Start in a behaviour

ASSUME MaxStartsType == MaxStarts \in Nat

VARIABLES
  cmd,       \* the command in s.cmd, the last one made; 0 for nil
  proc,      \* the process of each command
  killed,    \* the commands whose process was killed and has not ended yet
  ctl,       \* where each controller is
  orderly    \* history: no Start met a core that was alive and not killed

procVars == <<cmd, proc, killed, ctl, orderly>>

Cmds == 1 .. MaxStarts

\* "none" before a command is started and when its start failed: its Process
\* is nil.  A process that ended is never waited for.
Alive(i) == proc[i] \in {"booting", "serving"}

\* A core that nobody has told to end.
Standing(i) == Alive(i) /\ i \notin killed

Idle(c) == ctl[c] = "idle"

ProcInit ==
  /\ cmd = 0
  /\ proc = [i \in Cmds |-> "none"]
  /\ killed = {}
  /\ ctl = [c \in Controller |-> "idle"]
  /\ orderly = TRUE

Start(c) ==
  /\ Idle(c)
  /\ cmd < MaxStarts
  /\ cmd' = cmd + 1
  /\ ctl' = [ctl EXCEPT ![c] = "fork"]
  /\ orderly' = (orderly /\ \A i \in Cmds : ~Standing(i))
  /\ UNCHANGED <<proc, killed>>

\* Mutant: Start starts a command that an earlier Start left behind.
ForkLeftBehind(c) ==
  /\ ctl[c] = "fork"
  /\ ctl' = [ctl EXCEPT ![c] = "idle"]
  /\ \/ UNCHANGED proc
     \/ \E i \in 1 .. cmd :
          proc[i] = "none" /\ proc' = [proc EXCEPT ![i] = "booting"]
  /\ UNCHANGED <<cmd, killed, orderly>>

\* s.cmd.Start() on what s.cmd holds now: it forks, it fails, or it has been
\* started already.
Fork(c) ==
  /\ ctl[c] = "fork"
  /\ ctl' = [ctl EXCEPT ![c] = "idle"]
  /\ \/ UNCHANGED proc
     \/ proc[cmd] = "none" /\ proc' = [proc EXCEPT ![cmd] = "booting"]
  /\ UNCHANGED <<cmd, killed, orderly>>

\* Mutant: Stop does not check for a nil command.
StopUnchecked(c) ==
  /\ Idle(c)
  /\ ctl' = [ctl EXCEPT ![c] = "kill"]
  /\ UNCHANGED <<cmd, proc, killed, orderly>>

\* A command that was made is killed in a second step; a nil one is an error.
Stop(c) ==
  /\ Idle(c)
  /\ ctl' = [ctl EXCEPT ![c] = IF cmd = 0 THEN "idle" ELSE "kill"]
  /\ UNCHANGED <<cmd, proc, killed, orderly>>

\* Mutant: Stop only signals a core that is already serving.
KillServing(c) ==
  /\ ctl[c] = "kill"
  /\ IF proc[cmd] = "none"
     THEN ctl' = [ctl EXCEPT ![c] = "panic"] /\ UNCHANGED killed
     ELSE /\ killed' = killed \cup {i \in {cmd} : proc[i] = "serving"}
          /\ ctl' = [ctl EXCEPT ![c] = "idle"]
  /\ UNCHANGED <<cmd, proc, orderly>>

\* Mutant: Stop interrupts the core, which may go on.
KillInterrupting(c) ==
  /\ ctl[c] = "kill"
  /\ IF proc[cmd] = "none"
     THEN ctl' = [ctl EXCEPT ![c] = "panic"] /\ UNCHANGED killed
     ELSE /\ killed' \in {killed, killed \cup {i \in {cmd} : Alive(i)}}
          /\ ctl' = [ctl EXCEPT ![c] = "idle"]
  /\ UNCHANGED <<cmd, proc, orderly>>

\* Kill on a nil Process panics; on a process that ended it does nothing.  It
\* returns when the signal is sent, whatever the core still does.
Kill(c) ==
  /\ ctl[c] = "kill"
  /\ IF proc[cmd] = "none"
     THEN ctl' = [ctl EXCEPT ![c] = "panic"] /\ UNCHANGED killed
     ELSE /\ killed' = killed \cup {i \in {cmd} : Alive(i)}
          /\ ctl' = [ctl EXCEPT ![c] = "idle"]
  /\ UNCHANGED <<cmd, proc, orderly>>

-----------------------------------------------------------------------------

\* A core that finds the port of its API taken ends, be it by one that was
\* killed and has not ended yet.
Boot(i) ==
  /\ proc[i] = "booting"
  /\ proc' = [proc EXCEPT ![i] =
                IF \E j \in Cmds : proc[j] = "serving"
                THEN "ended" ELSE "serving"]
  /\ killed' = {j \in killed : proc'[j] # "ended"}
  /\ UNCHANGED <<cmd, ctl, orderly>>

\* It crashes, or a kill takes effect.
Crash(i) ==
  /\ Alive(i)
  /\ proc' = [proc EXCEPT ![i] = "ended"]
  /\ killed' = killed \ {i}
  /\ UNCHANGED <<cmd, ctl, orderly>>

\* A panic ends the program, not the cores.
ProcNext ==
  /\ \A c \in Controller : ctl[c] # "panic"
  /\ \/ \E c \in Controller : Start(c) \/ Fork(c) \/ Stop(c) \/ Kill(c)
     \/ \E i \in Cmds : Boot(i) \/ Crash(i)

ProcSpec == ProcInit /\ [][ProcNext]_procVars

-----------------------------------------------------------------------------

(***************************************************************************)
(* Types.  A controller past its check of s.cmd finds a command in it.     *)
(***************************************************************************)
ProcTypeOK ==
  /\ cmd \in 0 .. MaxStarts
  /\ proc \in [Cmds -> {"none", "booting", "serving", "ended"}]
  /\ \A i \in Cmds : i > cmd => proc[i] = "none"
  /\ killed \subseteq {i \in Cmds : Alive(i)}
  /\ ctl \in [Controller -> {"idle", "fork", "kill", "panic"}]
  /\ orderly \in BOOLEAN
  /\ \A c \in Controller : ~Idle(c) => cmd \in Cmds

(***************************************************************************)
(* As long as no Start meets a core that is alive and not killed, s.cmd is *)
(* the only such core there is, however calls of Start and Stop overlap:   *)
(* Stop can reach it, and the port it needs can be taken only by a core    *)
(* that was killed and has not ended yet.                                  *)
(***************************************************************************)
OneCore ==
  orderly => \A i \in Cmds : Standing(i) => i = cmd

(***************************************************************************)
(* A Stop that returns, under the same premise, leaves no core but ones    *)
(* that are killed, also when it met a Start between its check of s.cmd    *)
(* and its kill.                                                           *)
(***************************************************************************)
OrderlyStopStops ==
  [][\A c \in Controller :
       (orderly /\ ctl[c] = "kill" /\ ctl'[c] = "idle") =>
         \A i \in Cmds : ~Standing(i)']_procVars

(***************************************************************************)
(* "Stop stops the V2Ray server" (v2ray.go:407): after a Stop that returns *)
(* no core is alive but ones that are killed.                              *)
(***************************************************************************)
StopStops ==
  [][\A c \in Controller :
       (ctl[c] = "kill" /\ ctl'[c] = "idle") =>
         \A i \in Cmds : ~Standing(i)']_procVars

(***************************************************************************)
(* "If the command is nil, return an error indicating that the command is  *)
(* not initialized" (v2ray.go:411): Stop reports that there is nothing to  *)
(* stop, it does not panic.                                                *)
(***************************************************************************)
StopReportsNothingToStop ==
  \A c \in Controller : ctl[c] # "panic"
=============================================================================
