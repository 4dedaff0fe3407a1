-------------------------- MODULE PeerCallsProofs --------------------------
(***************************************************************************)
(* Theorems about PeerCalls for every set of goroutines, of callers among  *)
(* them, and of peers.                                                     *)
(*                                                                         *)
(* A step of PeerCalls is a step of PeerTable or leaves the table alone,   *)
(* and it is a step of PeerSync or leaves the calls alone.  The first is   *)
(* so by itself; the second needs CallBooks, which ties a writer of the    *)
(* table to the call it belongs to.  With the two, everything that is      *)
(* proved of the parts holds of the whole.                                 *)
(***************************************************************************)
EXTENDS PeerCalls, PeerSyncProofs, PeerTableProofs

USE CallersAreThreads DEF tableVars, syncOnly

\* Every step is a step of PeerTable or leaves the table alone.
LEMMA StepOfTable == [CallsNext]_callsVars => [Next]_vars
<1>1. ASSUME NEW c \in Caller, CallerNext(c) PROVE Next \/ UNCHANGED vars
  <2>1. ASSUME Begin(c) \/ AskCore(c) \/ GivesUp(c) PROVE UNCHANGED vars
    BY <2>1
       DEF Begin, AskCore, GivesUp, Reject, Call, Dialed, Send, SendFails,
           CoreApply, Receive, Refused, GiveUp, CoreApplyStray, server, vars
  <2> QED
    BY <1>1, <2>1 DEF CallerNext, Record, RecordBody, Next, Step, Body
<1>2. ASSUME NEW t \in Thread, ThreadNext(t) PROVE Next
  BY <1>2
     DEF ThreadNext, Look, Wait, LookBody, Release, Next, Step, Body
<1>3. ASSUME CoreChange PROVE UNCHANGED vars
  BY <1>3 DEF CoreChange, CoreExit, CoreBoot, server, vars
<1> QED
  BY <1>1, <1>2, <1>3 DEF CallsNext, callsVars, vars

\* The change of the map is the one that PeerSync has the call make.
LEMMA RecordIsSuccess ==
  ASSUME CallsInv, NEW c \in Caller, RecordBody(c)
  PROVE  TablePut(c) \/ TableDelete(c)
<1>1. CASE Put(c)
  <2>1. stage[c] = "table" /\ op[c] = "AddPeer" /\ key[c] = Email(buf[c])
    BY <1>1 DEF Put, Runs, IsWriter, CallsInv, CallBooks
  <2>2. peers' = peers \cup {Email(buf[c])}
    BY <1>1, <2>1 DEF Put
  <2> QED
    BY <2>1, <2>2 DEF RecordBody, TablePut
<1>2. CASE Delete(c)
  <2>1. stage[c] = "table" /\ op[c] # "AddPeer" /\ key[c] = Email(buf[c])
    BY <1>2 DEF Delete, Runs, IsWriter, CallsInv, CallBooks
  <2>2. op[c] = "RemovePeer"
    BY <2>1 DEF CallsInv, SyncInv, SyncTypeOK, Busy
  <2>3. peers' = peers \ {Email(buf[c])}
    BY <1>2, <2>1 DEF Delete
  <2> QED
    BY <2>1, <2>2, <2>3 DEF RecordBody, TableDelete
<1> QED
  BY <1>1, <1>2 DEF RecordBody

\* Every step is a step of PeerSync or changes nothing it sees.
LEMMA StepOfSync ==
  ASSUME CallsInv, [CallsNext]_callsVars
  PROVE  [SyncNext]_syncVars
<1>1. ASSUME NEW c \in Caller, CallerNext(c)
      PROVE  SyncNext \/ UNCHANGED syncVars
  <2>1. ASSUME Begin(c) \/ AskCore(c) \/ GivesUp(c) PROVE SyncNext
    BY <2>1 DEF Begin, AskCore, GivesUp, SyncNext, Progress
  <2>2. ASSUME Record(c) PROVE UNCHANGED syncVars
    BY <2>2 DEF Record, Invoke, syncVars, server
  <2>3. ASSUME RecordBody(c) PROVE SyncNext
    BY <2>3, RecordIsSuccess DEF SyncNext, Progress
  <2> QED
    BY <1>1, <2>1, <2>2, <2>3 DEF CallerNext
<1>2. ASSUME NEW t \in Thread, ThreadNext(t) PROVE UNCHANGED syncVars
  BY <1>2
     DEF ThreadNext, Look, Wait, LookBody, Release, Invoke, Enter, Get, Len,
         Leave, syncVars, server
<1>3. ASSUME CoreChange PROVE SyncNext
  BY <1>3 DEF CoreChange, SyncNext
<1>4. ASSUME UNCHANGED callsVars PROVE UNCHANGED syncVars
  BY <1>4 DEF callsVars, syncVars, server
<1> QED
  BY <1>1, <1>2, <1>3, <1>4 DEF CallsNext

-----------------------------------------------------------------------------

\* A goroutine that is not in a method of the table has nothing in the books.
\* Only a step of its own changes what they say of one that is.
LEMMA BooksStep ==
  ASSUME CallsInv, [CallsNext]_callsVars
  PROVE  CallBooks'
<1> /\ CallTypeOK
    /\ SyncTypeOK
    /\ CallBooks
  BY DEF CallsInv, TableInv, TypeOK, SyncInv
<1> USE DEF CallBooks, IsWriter
<1>1. ASSUME NEW c \in Caller, Begin(c) PROVE CallBooks'
  BY <1>1
     DEF Begin, Outside, Reject, Call, Return, SyncTypeOK, CallTypeOK, Busy
<1>2. ASSUME NEW c \in Caller, AskCore(c) PROVE CallBooks'
  BY <1>2
     DEF AskCore, Dialed, Send, SendFails, CoreApply, Receive, Refused,
         Answered, Return, SyncTypeOK, CallTypeOK, Busy, server
<1>3. ASSUME NEW c \in Caller, GivesUp(c) PROVE CallBooks'
  BY <1>3
     DEF GivesUp, GiveUp, CoreApplyStray, Return, SyncTypeOK, CallTypeOK,
         Busy, server
<1>4. ASSUME NEW c \in Caller, Record(c) PROVE CallBooks'
  BY <1>4 DEF Record, Invoke, SyncTypeOK, CallTypeOK, Busy
<1>5. ASSUME NEW c \in Caller, RecordBody(c) PROVE CallBooks'
  BY <1>5
     DEF RecordBody, Put, Delete, Runs, Finish, Succeed, Return, SyncTypeOK,
         CallTypeOK, Busy
<1>6. ASSUME NEW t \in Thread, Look(t) PROVE CallBooks'
  BY <1>6 DEF Look, Outside, Invoke, SyncTypeOK, CallTypeOK, Busy
<1>7. ASSUME NEW t \in Thread, Wait(t) PROVE CallBooks'
  BY <1>7 DEF Wait, Enter, CallTypeOK, Busy
<1>8. ASSUME NEW t \in Thread, LookBody(t) PROVE CallBooks'
  BY <1>8 DEF LookBody, Get, Len, Runs, Finish, CallTypeOK, Busy
<1>9. ASSUME NEW t \in Thread, Release(t) PROVE CallBooks'
  BY <1>9 DEF Release, Leave, CallTypeOK, Busy
<1>10. ASSUME CoreChange PROVE CallBooks'
  BY <1>10 DEF CoreChange, CoreExit, CoreBoot, Busy, server
<1>11. ASSUME UNCHANGED callsVars PROVE CallBooks'
  BY <1>11 DEF callsVars, Busy
<1> QED
  BY <1>1, <1>2, <1>3, <1>4, <1>5, <1>6, <1>7, <1>8, <1>9, <1>10, <1>11
     DEF CallsNext, CallerNext, ThreadNext

\* The initial states satisfy CallsInv.
LEMMA InitCallsInv == CallsInit => CallsInv
<1>1. CallsInit => CallBooks
  BY DEF CallsInit, Init, CallBooks
<1> QED
  BY <1>1, InitTableInv, InitSyncInv DEF CallsInit, CallsInv

\* Every step keeps CallsInv.
LEMMA NextCallsInv == CallsInv /\ [CallsNext]_callsVars => CallsInv'
BY StepOfTable, NextTableInv, StepOfSync, NextSyncInv, BooksStep DEF CallsInv

(***************************************************************************)
(* The invariants of the table and of the calls, and that each writer of   *)
(* the table works for one call, hold of the two together.                 *)
(***************************************************************************)
THEOREM CallsInvariant == CallsSpec => []CallsInv
<1> QED
  BY InitCallsInv, NextCallsInv, PTL DEF CallsSpec

(***************************************************************************)
(* AddPeer and RemovePeer on the table with its lock behave as PeerSync    *)
(* has them behave on an atomic set.                                       *)
(***************************************************************************)
THEOREM ImplementsPeerSyncHolds == CallsSpec => ImplementsPeerSync
<1>1. CallsInv /\ [CallsNext]_callsVars => [SyncNext]_syncVars
  BY StepOfSync
<1> QED
  BY <1>1, CallsInvariant, PTL
     DEF CallsSpec, CallsInit, ImplementsPeerSync, SyncSpec

(***************************************************************************)
(* The calls use the table as PeerTable lets its callers use it.           *)
(***************************************************************************)
THEOREM ImplementsPeerTableHolds == CallsSpec => ImplementsPeerTable
<1> QED
  BY StepOfTable, PTL DEF CallsSpec, CallsInit, ImplementsPeerTable, Spec

\* A method that leaves has run its body, and one that looks has been LookBody.
LEMMA LookerLooks ==
  ASSUME CallTypeOK, [CallsNext]_callsVars, NEW t \in Thread,
         pc[t] = "inside", pc'[t] = "leave", method[t] \in {"Get", "Len"}
  PROVE  LookBody(t)
<1>1. ASSUME NEW c \in Caller, CallerNext(c) PROVE FALSE
  <2>1. ASSUME Begin(c) \/ AskCore(c) \/ GivesUp(c) PROVE FALSE
    BY <2>1 DEF Begin, AskCore, GivesUp
  <2>2. ASSUME Record(c) PROVE FALSE
    BY <2>2 DEF Record, Invoke, CallTypeOK
  <2>3. ASSUME RecordBody(c) PROVE FALSE
    BY <2>3 DEF RecordBody, Put, Delete, Runs, Finish, CallTypeOK
  <2> QED
    BY <1>1, <2>1, <2>2, <2>3 DEF CallerNext
<1>2. ASSUME NEW u \in Thread, ThreadNext(u) PROVE LookBody(t)
  BY <1>2
     DEF ThreadNext, Look, Wait, LookBody, Release, Invoke, Enter, Get, Len,
         Runs, Finish, Leave, CallTypeOK
<1>3. ASSUME CoreChange \/ UNCHANGED callsVars PROVE FALSE
  BY <1>3 DEF CoreChange, callsVars
<1> QED
  BY <1>1, <1>2, <1>3 DEF CallsNext

\* With nothing suspect and nothing under way the two records are one.
LEMMA QuietMeansEqual ==
  ASSUME SyncInv, suspect = {}, \A c \in Caller : ~Busy(c)
  PROVE  peers = users
BY DEF SyncInv, SyncTypeOK, OneStepApart, CallsOn

(***************************************************************************)
(* HasPeer and PeerCount tell what the core has when they read the map.    *)
(***************************************************************************)
THEOREM LooksTellTheCoreHolds == CallsSpec => LooksTellTheCore
<1> DEFINE Tells(t) ==
      /\ (method[t] = "Get" /\ key[t] \notin suspect /\ CallsOn(key[t]) = {}) =>
           (result'[t].found <=> key[t] \in users)
      /\ (method[t] = "Len" /\ suspect = {} /\ \A c \in Caller : ~Busy(c)) =>
           result'[t].len = Cardinality(users)
<1>1. ASSUME CallsInv, [CallsNext]_callsVars, NEW t \in Thread,
             pc[t] = "inside", pc'[t] = "leave"
      PROVE  Tells(t)
  <2> CallTypeOK /\ ResultTypeOK
    BY <1>1 DEF CallsInv, TableInv, TypeOK
  <2>1. ASSUME method[t] = "Get", key[t] \notin suspect, CallsOn(key[t]) = {}
        PROVE  result'[t].found <=> key[t] \in users
    <3>1. Get(t)
      BY <1>1, <2>1, LookerLooks DEF LookBody, Len, Runs
    <3>2. result'[t].found <=> key[t] \in peers
      BY <3>1 DEF Get, Finish, ResultTypeOK
    <3>3. key[t] \in Emails
      BY <1>1, <2>1, KeysAreEmails DEF CallTypeOK, Set!Arguments
    <3>4. key[t] \in peers <=> key[t] \in users
      BY <1>1, <2>1, <3>3 DEF CallsInv, SyncInv, OneStepApart
    <3> QED
      BY <3>2, <3>4
  <2>2. ASSUME method[t] = "Len", suspect = {}, \A c \in Caller : ~Busy(c)
        PROVE  result'[t].len = Cardinality(users)
    <3>1. Len(t)
      BY <1>1, <2>2, LookerLooks DEF LookBody, Get, Runs
    <3>2. result'[t].len = Cardinality(peers)
      BY <3>1 DEF Len, Finish, ResultTypeOK
    <3> QED
      BY <1>1, <2>2, <3>2, QuietMeansEqual DEF CallsInv
  <2> QED
    BY <2>1, <2>2
<1>2. CallsInv /\ [CallsNext]_callsVars =>
        [\A t \in Thread :
           (pc[t] = "inside" /\ pc'[t] = "leave") =>
             /\ (method[t] = "Get" /\ key[t] \notin suspect /\ CallsOn(key[t]) = {}) =>
                  (result'[t].found <=> key[t] \in users)
             /\ (method[t] = "Len" /\ suspect = {} /\ \A c \in Caller : ~Busy(c)) =>
                  result'[t].len = Cardinality(users)]_callsVars
  BY <1>1
<1> QED
  BY <1>2, CallsInvariant, PTL DEF CallsSpec, LooksTellTheCore
=============================================================================
