----------------------------- MODULE PeerTable -----------------------------
(***************************************************************************)
(* types.Peers, the thread-safe map of v2ray/types/peer.go that every      *)
(* method of the V2Ray Server shares.                                      *)
(*                                                                         *)
(* A goroutine in a method passes through three points, kept in pc:        *)
(*   "enter"   the method was called and has not asked for the lock;       *)
(*   "inside"  the lock was asked for; the body runs once it is held;      *)
(*   "leave"   the body is over, the deferred unlock is next.              *)
(* Iterate runs its callback once per step of its body, so that the other  *)
(* goroutines are interleaved with a range loop that is half way through.  *)
(***************************************************************************)
EXTENDS RWMutex, PeerMap, Integers, FiniteSets

CONSTANTS
  Key,        \* the keys of the peers
  NoKey       \* the argument of a method that takes no key

ASSUME NoKeyIsNoKey == NoKey \notin Key

VARIABLES
  pc,            \* where each goroutine is
  method, key,   \* the method it is in and its argument
  seen,          \* the keys its range loop passed to the callback
  result         \* what its method is about to return

vars == <<peers, lockVars, pc, method, key, seen, result>>

NoMethod == "none"
NoResult == [done |-> FALSE]

-----------------------------------------------------------------------------

\* A map is compared with the set it must behave like: before its body is
\* over a method is pending, afterwards it is done with its result.
callBar ==
  [t \in Thread |->
     CASE pc[t] = "idle"  -> [phase |-> "none"]
       [] pc[t] = "leave" -> [phase |-> "done", result |-> result[t]]
       [] OTHER           ->
            [phase |-> "pending", method |-> method[t], key |-> key[t]]]

Set == INSTANCE PeerSet WITH m <- peers, call <- callBar

IsWriter(t) == method[t] \in {"Put", "Delete"}

Init ==
  /\ peers = {}
  /\ LockInit
  /\ pc = [t \in Thread |-> "idle"]
  /\ method = [t \in Thread |-> NoMethod]
  /\ key = [t \in Thread |-> NoKey]
  /\ seen = [t \in Thread |-> {}]
  /\ result = [t \in Thread |-> NoResult]

Invoke(t) ==
  /\ pc[t] = "idle"
  /\ \E name \in Set!Methods :
       /\ method' = [method EXCEPT ![t] = name]
       /\ \E k \in Set!Arguments(name) : key' = [key EXCEPT ![t] = k]
  /\ pc' = [pc EXCEPT ![t] = "enter"]
  /\ UNCHANGED <<peers, lockVars, seen, result>>

\* p.Lock() in Put and Delete, p.RLock() in the others.
Enter(t) ==
  /\ pc[t] = "enter"
  /\ IF IsWriter(t) THEN Lock(t) ELSE RLock(t)
  /\ pc' = [pc EXCEPT ![t] = "inside"]
  /\ UNCHANGED <<peers, method, key, seen, result>>

Runs(t, name) == pc[t] = "inside" /\ method[t] = name

Finish(t, r) ==
  /\ result' = [result EXCEPT ![t] = r]
  /\ pc' = [pc EXCEPT ![t] = "leave"]
  /\ UNCHANGED <<lockVars, method, key>>

Get(t) ==
  /\ Runs(t, "Get") /\ CanRead(t)
  /\ Finish(t, [found |-> key[t] \in peers])
  /\ UNCHANGED <<peers, seen>>

\* The first Put of a key wins: a key that is present keeps its Peer.
Put(t) ==
  /\ Runs(t, "Put") /\ CanWrite(t)
  /\ peers' = IF key[t] \in peers THEN peers ELSE peers \cup {key[t]}
  /\ Finish(t, [done |-> TRUE])
  /\ UNCHANGED seen

\* Mutant: Delete changes the map without taking the lock.
DeleteUnlocked(t) ==
  /\ Runs(t, "Delete")
  /\ peers' = peers \ {key[t]}
  /\ Finish(t, [done |-> TRUE])
  /\ UNCHANGED seen

Delete(t) ==
  /\ Runs(t, "Delete") /\ CanWrite(t)
  /\ peers' = peers \ {key[t]}
  /\ Finish(t, [done |-> TRUE])
  /\ UNCHANGED seen

Len(t) ==
  /\ Runs(t, "Len") /\ CanRead(t)
  /\ Finish(t, [len |-> Cardinality(peers)])
  /\ UNCHANGED <<peers, seen>>

\* Mutant: the key on which the callback cut the loop short is not counted.
VisitLosingLastKey(t) ==
  /\ Runs(t, "Iterate") /\ CanRead(t)
  /\ \E k \in peers \ seen[t] :
       /\ seen' = [seen EXCEPT ![t] = @ \cup {k}]
       /\ \/ UNCHANGED <<lockVars, pc, method, key, result>>
          \/ \E outcome \in {"stop", "error"} :
               Finish(t, [visited |-> seen[t], outcome |-> outcome])
  /\ UNCHANGED peers

\* One turn of the range loop: the map hands out its keys in any order, each
\* at most once; the callback may let the loop go on, stop it or fail it.
Visit(t) ==
  /\ Runs(t, "Iterate") /\ CanRead(t)
  /\ \E k \in peers \ seen[t] :
       /\ seen' = [seen EXCEPT ![t] = @ \cup {k}]
       /\ \/ UNCHANGED <<lockVars, pc, method, key, result>>
          \/ \E outcome \in {"stop", "error"} :
               Finish(t, [visited |-> seen[t] \cup {k}, outcome |-> outcome])
  /\ UNCHANGED peers

\* Mutant: the loop ends while the map still holds keys it has not reached.
EndOfRangeEarly(t) ==
  /\ Runs(t, "Iterate") /\ CanRead(t)
  /\ Finish(t, [visited |-> seen[t], outcome |-> "end"])
  /\ UNCHANGED <<peers, seen>>

EndOfRange(t) ==
  /\ Runs(t, "Iterate") /\ CanRead(t)
  /\ peers \subseteq seen[t]
  /\ Finish(t, [visited |-> seen[t], outcome |-> "end"])
  /\ UNCHANGED <<peers, seen>>

\* Mutant: Delete defers RUnlock where it must defer Unlock.
LeaveDeleteWithRUnlock(t) ==
  /\ pc[t] = "leave"
  /\ IF method[t] = "Put" THEN Unlock(t) ELSE RUnlock(t)
  /\ pc' = [pc EXCEPT ![t] = "idle"]
  /\ method' = [method EXCEPT ![t] = NoMethod]
  /\ key' = [key EXCEPT ![t] = NoKey]
  /\ seen' = [seen EXCEPT ![t] = {}]
  /\ result' = [result EXCEPT ![t] = NoResult]
  /\ UNCHANGED peers

\* Mutant: Len does not give the lock back.
LeaveLenLocked(t) ==
  /\ pc[t] = "leave"
  /\ IF IsWriter(t) THEN Unlock(t)
     ELSE IF method[t] = "Len" THEN UNCHANGED lockVars ELSE RUnlock(t)
  /\ pc' = [pc EXCEPT ![t] = "idle"]
  /\ method' = [method EXCEPT ![t] = NoMethod]
  /\ key' = [key EXCEPT ![t] = NoKey]
  /\ seen' = [seen EXCEPT ![t] = {}]
  /\ result' = [result EXCEPT ![t] = NoResult]
  /\ UNCHANGED peers

\* The deferred unlock, and the return.
Leave(t) ==
  /\ pc[t] = "leave"
  /\ IF IsWriter(t) THEN Unlock(t) ELSE RUnlock(t)
  /\ pc' = [pc EXCEPT ![t] = "idle"]
  /\ method' = [method EXCEPT ![t] = NoMethod]
  /\ key' = [key EXCEPT ![t] = NoKey]
  /\ seen' = [seen EXCEPT ![t] = {}]
  /\ result' = [result EXCEPT ![t] = NoResult]
  /\ UNCHANGED peers

Body(t) ==
  \/ Get(t) \/ Put(t) \/ Delete(t) \/ Len(t)
  \/ Visit(t) \/ EndOfRange(t)

Step(t) == Enter(t) \/ Body(t) \/ Leave(t)

Next == \E t \in Thread : Invoke(t) \/ Step(t)

Spec == Init /\ [][Next]_vars

(***************************************************************************)
(* A goroutine inside a method keeps running and its callback returns.     *)
(* Asking for the write lock is strongly fair because sync.Mutex, which    *)
(* orders the writers, hands over to a goroutine that waited too long.     *)
(***************************************************************************)
Fairness ==
  \A t \in Thread :
    /\ WF_vars(Step(t))
    /\ SF_vars(Enter(t))

FairSpec == Spec /\ Fairness

-----------------------------------------------------------------------------

CallTypeOK ==
  /\ peers \subseteq Key
  /\ LockTypeOK
  /\ pc \in [Thread -> {"idle", "enter", "inside", "leave"}]
  /\ method \in [Thread -> Set!Methods \cup {NoMethod}]
  /\ key \in [Thread -> Key \cup {NoKey}]
  /\ seen \in [Thread -> SUBSET Key]
  /\ \A t \in Thread :
       IF pc[t] = "idle"
       THEN method[t] = NoMethod /\ key[t] = NoKey /\ seen[t] = {}
       ELSE method[t] \in Set!Methods /\ key[t] \in Set!Arguments(method[t])

ResultTypeOK ==
  /\ DOMAIN result = Thread
  /\ \A t \in Thread :
       pc[t] = "leave" =>
         \E s \in SUBSET Key : result[t] \in Set!Results(method[t], key[t], s)

(***************************************************************************)
(* Types.  A goroutine outside every method has no method, argument or     *)
(* half-run loop left over from its last call, and what a method returns   *)
(* is something it can return for some map.                                *)
(***************************************************************************)
TypeOK == CallTypeOK /\ ResultTypeOK

(***************************************************************************)
(* The lock's book-keeping against where the goroutines are: exactly the   *)
(* readers past RLock hold it or wait for it, they wait only behind an     *)
(* owner, and the owner is the one writer past Lock.                       *)
(***************************************************************************)
LockBooks ==
  /\ \A t \in Thread :
       /\ t \in readers \cup waiting
            <=> pc[t] \in {"inside", "leave"} /\ ~IsWriter(t)
       /\ owner = t <=> pc[t] \in {"inside", "leave"} /\ IsWriter(t)
       /\ t \in waiting => pc[t] = "inside"
  /\ readers \cap waiting = {}
  /\ waiting # {} => owner # NoThread

(***************************************************************************)
(* Put and Delete run alone: when a writer is past the change to the map   *)
(* nobody else holds the lock, on either side (peer.go: Lock and RLock     *)
(* with a deferred unlock in every method).                                *)
(***************************************************************************)
WriterIsAlone ==
  \A t, u \in Thread :
    (t # u /\ IsWriter(t) /\ pc[t] = "leave") => u \notin readers /\ owner # u

(***************************************************************************)
(* The range loop of Iterate, which calls back between its turns, walks    *)
(* one map: what it has passed to the callback is still there when it goes *)
(* on, whatever Put and Delete the other goroutines have called meanwhile. *)
(***************************************************************************)
RangeSeesOneMap ==
  \A t \in Thread :
    (pc[t] = "inside" /\ method[t] = "Iterate") => seen[t] \subseteq peers

\* A goroutine in a method that has its next step to take: to ask for the lock
\* of readers is never refused, and the lock is the only thing a body waits for.
CanGo(t) ==
  \/ pc[t] = "enter" /\ (IsWriter(t) => owner = NoThread)
  \/ pc[t] = "inside" /\ IF IsWriter(t) THEN CanWrite(t) ELSE CanRead(t)
  \/ pc[t] = "leave"

Holders == readers \cup {t \in Thread : owner = t}

(***************************************************************************)
(* No deadlock: whoever waits for the lock waits for a goroutine that has  *)
(* the lock and can go on, so that no method ever returns with the lock    *)
(* and no ring of waits closes (peer.go: one lock, taken once in a method, *)
(* no method called from another).                                         *)
(***************************************************************************)
WaitersHaveAHolder ==
  \A t \in Thread :
    (pc[t] # "idle" /\ ~CanGo(t)) => \E u \in Holders : CanGo(u)

(***************************************************************************)
(* What makes WriterIsAlone and RangeSeesOneMap inductive.                 *)
(***************************************************************************)

\* A writer that ran its body found no reader and has let none in since.
DoorIsShut ==
  \A t \in Thread : (pc[t] = "leave" /\ IsWriter(t)) => readers = {}

\* A reader that waits has not begun its range loop.
OnlyReadersSee ==
  \A t \in Thread : seen[t] # {} => t \in readers

TableInv ==
  TypeOK /\ LockBooks /\ DoorIsShut /\ OnlyReadersSee /\ RangeSeesOneMap

(***************************************************************************)
(* Every method of Peers behaves as if it took effect in one instant       *)
(* between its call and its return.                                        *)
(***************************************************************************)
Linearizable == Set!Spec

(***************************************************************************)
(* Every call returns: readers do not starve behind a stream of Put and    *)
(* Delete, nor writers behind a stream of Get, Len and Iterate.            *)
(***************************************************************************)
EveryCallReturns ==
  \A t \in Thread : pc[t] = "enter" ~> pc[t] = "idle"
=============================================================================
