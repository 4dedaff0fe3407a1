------------------------------ MODULE PeerSet ------------------------------
(***************************************************************************)
(* What types.Peers promises its callers: a set of keys on which every     *)
(* method takes effect in one instant between its call and its return.     *)
(*                                                                         *)
(* A Peer is identified by its key (its Email is its only field), so the   *)
(* Go map from keys to Peers is the set of its keys.                       *)
(***************************************************************************)
EXTENDS Integers, FiniteSets

CONSTANTS
  Thread,   \* the goroutines that call the methods
  Key,      \* the keys of the peers
  NoKey     \* the argument of a method that takes no key

VARIABLES
  m,        \* the keys in the map
  call      \* per goroutine: no call, one in progress, one with its result

setVars == <<m, call>>

Methods == {"Get", "Put", "Delete", "Len", "Iterate"}

\* The keys a method can be called with.
Arguments(method) == IF method \in {"Len", "Iterate"} THEN {NoKey} ELSE Key

(***************************************************************************)
(* The map after a method, and the results the method may give, when it    *)
(* takes effect on the map s.                                              *)
(***************************************************************************)
After(method, k, s) ==
  CASE method = "Put"    -> s \cup {k}
    [] method = "Delete" -> s \ {k}
    [] OTHER             -> s

\* An Iterate that runs to the end has passed every key to its callback; one
\* that the callback stops or fails has passed it some keys, and at least one.
Results(method, k, s) ==
  CASE method = "Get"     -> {[found |-> k \in s]}
    [] method = "Len"     -> {[len |-> Cardinality(s)]}
    [] method = "Iterate" ->
         {[visited |-> s, outcome |-> "end"]}
           \cup [visited: (SUBSET s) \ {{}}, outcome: {"stop", "error"}]
    [] OTHER              -> {[done |-> TRUE]}

NoCall == [phase |-> "none"]

Pending(method, k) == [phase |-> "pending", method |-> method, key |-> k]

Done(r) == [phase |-> "done", result |-> r]

Init ==
  /\ m = {}
  /\ call = [t \in Thread |-> NoCall]

Invoke(t, method, k) ==
  /\ call[t] = NoCall
  /\ call' = [call EXCEPT ![t] = Pending(method, k)]
  /\ UNCHANGED m

TakeEffect(t, method, k) ==
  /\ call[t] = Pending(method, k)
  /\ \E r \in Results(method, k, m) : call' = [call EXCEPT ![t] = Done(r)]
  /\ m' = After(method, k, m)

Return(t) ==
  /\ call[t].phase = "done"
  /\ call' = [call EXCEPT ![t] = NoCall]
  /\ UNCHANGED m

Next ==
  \E t \in Thread :
    \/ \E method \in Methods : \E k \in Arguments(method) :
         Invoke(t, method, k) \/ TakeEffect(t, method, k)
    \/ Return(t)

Spec == Init /\ [][Next]_setVars
=============================================================================
