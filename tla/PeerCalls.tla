----------------------------- MODULE PeerCalls -----------------------------
(***************************************************************************)
(* The calls of AddPeer, RemovePeer, HasPeer and PeerCount of the V2Ray    *)
(* Server (v2ray/v2ray.go) down to the lock of s.peers: PeerSync with the  *)
(* table as it is, PeerTable, instead of an atomic set.                    *)
(*                                                                         *)
(* AddPeer and RemovePeer come to the table when the core's answer was     *)
(* accepted, HasPeer and PeerCount come to nothing else.  Each waits for   *)
(* the lock among all the others; the one change of the map, when the lock *)
(* is held, is the moment in which PeerSync has the call succeed.          *)
(***************************************************************************)
EXTENDS PeerSync, PeerTable

ASSUME CallersAreThreads == Caller \subseteq Thread
ASSUME KeysAreEmails == Key = Emails

\* What PeerTable and PeerSync each have besides the map.
tableVars == <<lockVars, pc, method, key, seen, result>>
syncOnly == <<stage, op, buf, core, history>>

callsVars == <<peers, tableVars, syncOnly>>

CallsInit == Init /\ SyncInit

\* A goroutine outside every method of the Server.
Outside(t) == pc[t] = "idle" /\ (t \in Caller => ~Busy(t))

-----------------------------------------------------------------------------

\* AddPeer or RemovePeer is called.
Begin(c) ==
  /\ Outside(c)
  /\ Reject(c) \/ Call(c)
  /\ UNCHANGED tableVars

\* Up to the core's answer the call does not touch the table.
AskCore(c) ==
  /\ \/ Dialed(c) \/ Send(c) \/ SendFails(c)
     \/ CoreApply(c) \/ Receive(c) \/ Refused(c)
  /\ UNCHANGED tableVars

\* Mutant: AddPeer changes the map without the methods of Peers.
RecordDirectly(c) ==
  /\ stage[c] = "table"
  /\ pc[c] = "idle"
  /\ peers' = IF op[c] = "AddPeer" THEN peers \cup {Email(buf[c])}
                                  ELSE peers \ {Email(buf[c])}
  /\ Succeed(c)
  /\ UNCHANGED tableVars

\* Mutant: RemovePeer leaves a peer that the core did not know in the table.
RecordIfKnown(c) ==
  /\ stage[c] = "table"
  /\ IF answer[c] = "notfound"
     THEN Succeed(c) /\ UNCHANGED <<peers, tableVars>>
     ELSE /\ Invoke(c)
          /\ method'[c] = IF op[c] = "AddPeer" THEN "Put" ELSE "Delete"
          /\ key'[c] = Email(buf[c])
          /\ UNCHANGED syncOnly

\* s.peers.Put or s.peers.Delete is called with the e-mail.
Record(c) ==
  /\ stage[c] = "table"
  /\ Invoke(c)
  /\ method'[c] = IF op[c] = "AddPeer" THEN "Put" ELSE "Delete"
  /\ key'[c] = Email(buf[c])
  /\ UNCHANGED syncOnly

\* HasPeer calls s.peers.Get, PeerCount s.peers.Len.
Look(t) ==
  /\ Outside(t)
  /\ Invoke(t)
  /\ method'[t] \in {"Get", "Len"}
  /\ UNCHANGED syncOnly

Wait(t) == Enter(t) /\ UNCHANGED syncOnly

\* The change of the map: nothing can fail after it.
RecordBody(c) == (Put(c) \/ Delete(c)) /\ Succeed(c)

LookBody(t) == (Get(t) \/ Len(t)) /\ UNCHANGED syncOnly

Release(t) == Leave(t) /\ UNCHANGED syncOnly

GivesUp(c) ==
  /\ GiveUp(c) \/ CoreApplyStray(c)
  /\ UNCHANGED tableVars

CoreChange ==
  /\ CoreExit \/ CoreBoot
  /\ UNCHANGED tableVars

CallerNext(c) == Begin(c) \/ AskCore(c) \/ Record(c) \/ RecordBody(c) \/ GivesUp(c)

ThreadNext(t) == Look(t) \/ Wait(t) \/ LookBody(t) \/ Release(t)

CallsNext ==
  \/ \E c \in Caller : CallerNext(c)
  \/ \E t \in Thread : ThreadNext(t)
  \/ CoreChange

CallsSpec == CallsInit /\ [][CallsNext]_callsVars

-----------------------------------------------------------------------------

(***************************************************************************)
(* The lock and the half-done calls of the table are invisible to          *)
(* PeerSync: what it says of AddPeer and RemovePeer on an atomic set holds *)
(* of them on the table as it is.                                          *)
(***************************************************************************)
ImplementsPeerSync == SyncSpec

(***************************************************************************)
(* The calls are callers that PeerTable allows: whatever the core does to  *)
(* them, they leave its lock and its map as its methods promise.           *)
(***************************************************************************)
ImplementsPeerTable == Spec

\* A writer of the table is the call of AddPeer or RemovePeer that the core
\* granted, with its own e-mail; whoever looks is in no such call.
CallBooks ==
  \A t \in Thread :
    pc[t] \in {"enter", "inside"} =>
      IF IsWriter(t)
      THEN /\ t \in Caller
           /\ stage[t] = "table"
           /\ method[t] = "Put" <=> op[t] = "AddPeer"
           /\ key[t] = Email(buf[t])
      ELSE t \in Caller => ~Busy(t)

CallsInv == TableInv /\ SyncInv /\ CallBooks

(***************************************************************************)
(* What HasPeer and PeerCount say is what the core has at the moment they  *)
(* read the map: of a peer that is not suspect and that no AddPeer or      *)
(* RemovePeer is working on, and of the number of peers when all are like  *)
(* that.                                                                   *)
(***************************************************************************)
LooksTellTheCore ==
  [][\A t \in Thread :
       (pc[t] = "inside" /\ pc'[t] = "leave") =>
         /\ (method[t] = "Get" /\ key[t] \notin suspect /\ CallsOn(key[t]) = {}) =>
              (result'[t].found <=> key[t] \in users)
         /\ (method[t] = "Len" /\ suspect = {} /\ \A c \in Caller : ~Busy(c)) =>
              result'[t].len = Cardinality(users)]_callsVars
=============================================================================
