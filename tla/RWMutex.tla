------------------------------ MODULE RWMutex ------------------------------
(***************************************************************************)
(* The reader/writer lock embedded in types.Peers.  It is Go's             *)
(* sync.RWMutex, which is not part of the repository: what is modelled is  *)
(* the contract the code in src/ relies on.                                *)
(*                                                                         *)
(*   - Lock first becomes the owner, which shuts the door on new readers,  *)
(*     and then waits for the readers already inside to leave;             *)
(*   - RLock enters at once when there is no owner and otherwise waits;    *)
(*   - Unlock lets in every reader that waited, before the next owner can  *)
(*     be chosen, so that a stream of writers cannot starve a reader.      *)
(*                                                                         *)
(* The operators are fragments: each one says what one call does to the    *)
(* three variables of the lock and nothing else.                           *)
(***************************************************************************)

CONSTANTS
  Thread,     \* the goroutines
  NoThread    \* the owner of a lock nobody is writing under

ASSUME NoThreadIsNoThread == NoThread \notin Thread

VARIABLES
  readers,    \* goroutines holding the read lock
  waiting,    \* goroutines blocked in RLock behind an owner
  owner       \* goroutine that holds, or is next to hold, the write lock

lockVars == <<readers, waiting, owner>>

LockTypeOK ==
  /\ readers \subseteq Thread
  /\ waiting \subseteq Thread
  /\ owner \in Thread \cup {NoThread}

LockInit ==
  /\ readers = {}
  /\ waiting = {}
  /\ owner = NoThread

CanRead(t) == t \in readers

CanWrite(t) == owner = t /\ readers = {}

RLock(t) ==
  /\ \/ /\ owner = NoThread
        /\ readers' = readers \cup {t}
        /\ UNCHANGED waiting
     \/ /\ owner # NoThread
        /\ waiting' = waiting \cup {t}
        /\ UNCHANGED readers
  /\ UNCHANGED owner

RUnlock(t) ==
  /\ readers' = readers \ {t}
  /\ UNCHANGED <<waiting, owner>>

Lock(t) ==
  /\ owner = NoThread
  /\ owner' = t
  /\ UNCHANGED <<readers, waiting>>

Unlock(t) ==
  /\ owner' = NoThread
  /\ readers' = waiting
  /\ waiting' = {}
=============================================================================
