--------------------------- MODULE ProcessProofs ---------------------------
(***************************************************************************)
(* Theorems about Process for every set of controllers and every number of *)
(* starts.                                                                 *)
(***************************************************************************)
EXTENDS Process, TLAPS

USE MaxStartsType

\* OneCore is inductive with the types.
ProcInv == ProcTypeOK /\ OneCore

\* The initial states satisfy ProcInv.
LEMMA InitProcInv == ProcInit => ProcInv
BY DEF ProcInit, ProcInv, ProcTypeOK, OneCore, Standing, Alive, Cmds, Idle

\* Every step keeps ProcInv.
LEMMA NextProcInv == ProcInv /\ [ProcNext]_procVars => ProcInv'
<1> SUFFICES ASSUME ProcInv, [ProcNext]_procVars PROVE ProcInv'
  OBVIOUS
<1> USE DEF ProcInv, ProcTypeOK, OneCore, Standing, Alive, Cmds, Idle
<1>1. ASSUME NEW c \in Controller, Start(c) PROVE ProcInv'
  <2>1. cmd \in Int /\ cmd' = cmd + 1 /\ cmd' \in Cmds /\ proc' = proc
    BY <1>1 DEF Start
  <2>2. ProcTypeOK'
    <3>1. \A i \in Cmds : i > cmd' => proc'[i] = "none"
      BY <2>1
    <3> QED
      BY <1>1, <2>1, <3>1 DEF Start
  <2>3. OneCore'
    BY <1>1, <2>1 DEF Start
  <2> QED
    BY <2>2, <2>3
<1>2. ASSUME NEW c \in Controller, Fork(c) PROVE ProcInv'
  BY <1>2 DEF Fork
<1>3. ASSUME NEW c \in Controller, Stop(c) PROVE ProcInv'
  BY <1>3 DEF Stop
<1>4. ASSUME NEW c \in Controller, Kill(c) PROVE ProcInv'
  BY <1>4 DEF Kill
<1>5. ASSUME NEW i \in Cmds, Boot(i) PROVE ProcInv'
  BY <1>5 DEF Boot
<1>6. ASSUME NEW i \in Cmds, Crash(i) PROVE ProcInv'
  BY <1>6 DEF Crash
<1>7. ASSUME UNCHANGED procVars PROVE ProcInv'
  BY <1>7 DEF procVars
<1> QED
  BY <1>1, <1>2, <1>3, <1>4, <1>5, <1>6, <1>7 DEF ProcNext

(***************************************************************************)
(* The types, and one core while the calls are orderly, in every state.    *)
(***************************************************************************)
THEOREM ProcInvariant == ProcSpec => []ProcInv
<1> QED
  BY InitProcInv, NextProcInv, PTL DEF ProcSpec

(***************************************************************************)
(* Types: a controller past its check of s.cmd finds a command in it.      *)
(***************************************************************************)
THEOREM ProcTypeCorrect == ProcSpec => []ProcTypeOK
<1>1. ProcInv => ProcTypeOK
  BY DEF ProcInv
<1> QED
  BY <1>1, ProcInvariant, PTL

(***************************************************************************)
(* While no Start meets a core that is alive and not killed, the core of   *)
(* s.cmd is the only such core, however Start and Stop overlap.            *)
(***************************************************************************)
THEOREM OneCoreHolds == ProcSpec => []OneCore
<1>1. ProcInv => OneCore
  BY DEF ProcInv
<1> QED
  BY <1>1, ProcInvariant, PTL

(***************************************************************************)
(* An orderly Stop that returns leaves no core but ones that are killed.   *)
(***************************************************************************)
THEOREM OrderlyStopStopsHolds == ProcSpec => OrderlyStopStops
<1>1. ASSUME ProcInv, [ProcNext]_procVars, NEW c \in Controller,
             orderly /\ ctl[c] = "kill" /\ ctl'[c] = "idle"
      PROVE  \A i \in Cmds : ~Standing(i)'
  <2>1. Kill(c) /\ proc[cmd] # "none"
    BY <1>1
       DEF ProcNext, procVars, Start, Fork, Stop, Kill, Boot, Crash, Idle,
           ProcInv, ProcTypeOK
  <2>2. ASSUME NEW i \in Cmds, i # cmd PROVE ~Standing(i)'
    <3>1. ~Standing(i)
      BY <1>1, <2>2 DEF ProcInv, OneCore
    <3> QED
      BY <2>1, <2>2, <3>1 DEF Kill, Standing, Alive
  <2>3. ASSUME NEW i \in Cmds, i = cmd PROVE ~Standing(i)'
    BY <2>1, <2>3 DEF Kill, Standing, Alive
  <2> QED
    BY <2>2, <2>3
<1>2. ProcInv /\ [ProcNext]_procVars =>
        [\A c \in Controller :
           (orderly /\ ctl[c] = "kill" /\ ctl'[c] = "idle") =>
             \A i \in Cmds : ~Standing(i)']_procVars
  BY <1>1
<1> QED
  BY <1>2, ProcInvariant, PTL DEF ProcSpec, OrderlyStopStops
=============================================================================
