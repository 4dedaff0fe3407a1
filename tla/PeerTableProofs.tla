-------------------------- MODULE PeerTableProofs --------------------------
(***************************************************************************)
(* Theorems about PeerTable for every set of goroutines and of keys.       *)
(***************************************************************************)
EXTENDS PeerTable, TLAPS

USE NoThreadIsNoThread, NoKeyIsNoKey DEF lockVars, NoMethod

\* PeerSet counts as PeerTable does.
LEMMA SameCardinality ==
  ASSUME NEW s
  PROVE  Set!Cardinality(s) = Cardinality(s)
BY DEF Set!Cardinality, Cardinality

\* The initial states satisfy TableInv.
LEMMA InitTableInv == Init => TableInv
BY
   DEF Init, LockInit, TableInv, TypeOK, CallTypeOK, ResultTypeOK,
       LockTypeOK, LockBooks, DoorIsShut,
   OnlyReadersSee, RangeSeesOneMap, IsWriter

\* Every step keeps TableInv: one step per action, and for each action one per
\* conjunct.
LEMMA NextTableInv == TableInv /\ [Next]_vars => TableInv'
<1> SUFFICES ASSUME TableInv, [Next]_vars PROVE TableInv'
  OBVIOUS
<1> USE DEF TableInv, TypeOK
<1>1. ASSUME NEW t \in Thread, Invoke(t) PROVE TableInv'
  <2>1. CallTypeOK'
    BY <1>1 DEF Invoke, Set!Methods, Set!Arguments, CallTypeOK, LockTypeOK
  <2>2. ResultTypeOK'
    BY <1>1 DEF Invoke, Set!Methods, Set!Arguments, CallTypeOK, ResultTypeOK
  <2>3. LockBooks'
    BY <1>1
       DEF Invoke, Set!Methods, Set!Arguments, CallTypeOK, LockTypeOK,
           LockBooks, IsWriter
  <2>4. DoorIsShut'
    BY <1>1
       DEF Invoke, Set!Methods, Set!Arguments, CallTypeOK, LockTypeOK,
           LockBooks, DoorIsShut, IsWriter
  <2>5. OnlyReadersSee'
    BY <1>1
       DEF Invoke, Set!Methods, Set!Arguments, CallTypeOK, LockTypeOK,
           LockBooks, OnlyReadersSee, IsWriter
  <2>6. RangeSeesOneMap'
    BY <1>1
       DEF Invoke, Set!Methods, Set!Arguments, CallTypeOK, LockTypeOK,
           LockBooks, OnlyReadersSee, RangeSeesOneMap, IsWriter
  <2> QED
    BY <2>1, <2>2, <2>3, <2>4, <2>5, <2>6
<1>2. ASSUME NEW t \in Thread, Enter(t) PROVE TableInv'
  <2>1. CallTypeOK'
    BY <1>2
       DEF Enter, RLock, Lock, Set!Methods, Set!Arguments, CallTypeOK,
           LockTypeOK
  <2>2. ResultTypeOK'
    BY <1>2 DEF Enter, RLock, Lock, CallTypeOK, ResultTypeOK
  <2>3. LockBooks'
    BY <1>2 DEF Enter, RLock, Lock, CallTypeOK, LockTypeOK, LockBooks, IsWriter
  <2>4. DoorIsShut'
    BY <1>2
       DEF Enter, RLock, Lock, CallTypeOK, LockTypeOK, LockBooks, DoorIsShut,
           IsWriter
  <2>5. OnlyReadersSee'
    BY <1>2
       DEF Enter, RLock, Lock, CallTypeOK, LockTypeOK, LockBooks,
           OnlyReadersSee, IsWriter
  <2>6. RangeSeesOneMap'
    BY <1>2
       DEF Enter, RLock, Lock, CallTypeOK, LockTypeOK, LockBooks,
           OnlyReadersSee, RangeSeesOneMap, IsWriter
  <2> QED
    BY <2>1, <2>2, <2>3, <2>4, <2>5, <2>6
<1>3. ASSUME NEW t \in Thread, Get(t) PROVE TableInv'
  <2>1. CallTypeOK'
    BY <1>3
       DEF Get, Runs, Finish, CanRead, Set!Methods, Set!Arguments,
           CallTypeOK, LockTypeOK
  <2>2. ResultTypeOK'
    <3>1. result'[t] \in Set!Results(method[t], key[t], peers)
      BY <1>3 DEF Get, Runs, Finish, ResultTypeOK, Set!Results
    <3> QED
      BY <1>3, <3>1 DEF Get, Runs, Finish, CanRead, CallTypeOK, ResultTypeOK
  <2>3. LockBooks'
    BY <1>3
       DEF Get, Runs, Finish, CanRead, CallTypeOK, LockTypeOK, LockBooks,
           IsWriter
  <2>4. DoorIsShut'
    BY <1>3
       DEF Get, Runs, Finish, CanRead, CallTypeOK, LockTypeOK, LockBooks,
           DoorIsShut, IsWriter
  <2>5. OnlyReadersSee'
    BY <1>3
       DEF Get, Runs, Finish, CanRead, CallTypeOK, LockTypeOK, LockBooks,
           OnlyReadersSee, IsWriter
  <2>6. RangeSeesOneMap'
    BY <1>3
       DEF Get, Runs, Finish, CanRead, CallTypeOK, LockTypeOK, LockBooks,
           OnlyReadersSee, RangeSeesOneMap, IsWriter
  <2> QED
    BY <2>1, <2>2, <2>3, <2>4, <2>5, <2>6
<1>4. ASSUME NEW t \in Thread, Put(t) PROVE TableInv'
  <2>1. CallTypeOK'
    BY <1>4
       DEF Put, Runs, Finish, CanWrite, Set!Methods, Set!Arguments,
           CallTypeOK, LockTypeOK
  <2>2. ResultTypeOK'
    <3>1. result'[t] \in Set!Results(method[t], key[t], peers)
      BY <1>4 DEF Put, Runs, Finish, ResultTypeOK, Set!Results
    <3> QED
      BY <1>4, <3>1 DEF Put, Runs, Finish, CanWrite, CallTypeOK, ResultTypeOK
  <2>3. LockBooks'
    BY <1>4
       DEF Put, Runs, Finish, CanWrite, CallTypeOK, LockTypeOK, LockBooks,
           IsWriter
  <2>4. DoorIsShut'
    BY <1>4
       DEF Put, Runs, Finish, CanWrite, CallTypeOK, LockTypeOK, LockBooks,
           DoorIsShut, IsWriter
  <2>5. OnlyReadersSee'
    BY <1>4
       DEF Put, Runs, Finish, CanWrite, CallTypeOK, LockTypeOK, LockBooks,
           OnlyReadersSee, IsWriter
  <2>6. RangeSeesOneMap'
    BY <1>4
       DEF Put, Runs, Finish, CanWrite, CallTypeOK, LockTypeOK, LockBooks,
           OnlyReadersSee, RangeSeesOneMap, IsWriter
  <2> QED
    BY <2>1, <2>2, <2>3, <2>4, <2>5, <2>6
<1>5. ASSUME NEW t \in Thread, Delete(t) PROVE TableInv'
  <2>1. CallTypeOK'
    BY <1>5
       DEF Delete, Runs, Finish, CanWrite, Set!Methods, Set!Arguments,
           CallTypeOK, LockTypeOK
  <2>2. ResultTypeOK'
    <3>1. result'[t] \in Set!Results(method[t], key[t], peers)
      BY <1>5 DEF Delete, Runs, Finish, ResultTypeOK, Set!Results
    <3> QED
      BY <1>5, <3>1
         DEF Delete, Runs, Finish, CanWrite, CallTypeOK, ResultTypeOK
  <2>3. LockBooks'
    BY <1>5
       DEF Delete, Runs, Finish, CanWrite, CallTypeOK, LockTypeOK, LockBooks,
           IsWriter
  <2>4. DoorIsShut'
    BY <1>5
       DEF Delete, Runs, Finish, CanWrite, CallTypeOK, LockTypeOK, LockBooks,
           DoorIsShut, IsWriter
  <2>5. OnlyReadersSee'
    BY <1>5
       DEF Delete, Runs, Finish, CanWrite, CallTypeOK, LockTypeOK, LockBooks,
           OnlyReadersSee, IsWriter
  <2>6. RangeSeesOneMap'
    BY <1>5
       DEF Delete, Runs, Finish, CanWrite, CallTypeOK, LockTypeOK, LockBooks,
           OnlyReadersSee, RangeSeesOneMap, IsWriter
  <2> QED
    BY <2>1, <2>2, <2>3, <2>4, <2>5, <2>6
<1>6. ASSUME NEW t \in Thread, Len(t) PROVE TableInv'
  <2>1. CallTypeOK'
    BY <1>6
       DEF Len, Runs, Finish, CanRead, Set!Methods, Set!Arguments,
           CallTypeOK, LockTypeOK
  <2>2. ResultTypeOK'
    <3>1. result'[t] = [len |-> Cardinality(peers)] /\ method[t] = "Len"
      BY <1>6 DEF Len, Runs, Finish, ResultTypeOK
    <3>2. result'[t] \in Set!Results(method[t], key[t], peers)
      BY <3>1, SameCardinality DEF Set!Results
    <3> QED
      BY <1>6, <3>2 DEF Len, Runs, Finish, CanRead, CallTypeOK, ResultTypeOK
  <2>3. LockBooks'
    BY <1>6
       DEF Len, Runs, Finish, CanRead, CallTypeOK, LockTypeOK, LockBooks,
           IsWriter
  <2>4. DoorIsShut'
    BY <1>6
       DEF Len, Runs, Finish, CanRead, CallTypeOK, LockTypeOK, LockBooks,
           DoorIsShut, IsWriter
  <2>5. OnlyReadersSee'
    BY <1>6
       DEF Len, Runs, Finish, CanRead, CallTypeOK, LockTypeOK, LockBooks,
           OnlyReadersSee, IsWriter
  <2>6. RangeSeesOneMap'
    BY <1>6
       DEF Len, Runs, Finish, CanRead, CallTypeOK, LockTypeOK, LockBooks,
           OnlyReadersSee, RangeSeesOneMap, IsWriter
  <2> QED
    BY <2>1, <2>2, <2>3, <2>4, <2>5, <2>6
<1>7. ASSUME NEW t \in Thread, Visit(t) PROVE TableInv'
  <2>1. CallTypeOK'
    BY <1>7
       DEF Visit, Runs, Finish, CanRead, Set!Methods, Set!Arguments,
           CallTypeOK, LockTypeOK
  <2>2. ResultTypeOK'
    <3>1. PICK k \in peers \ seen[t] :
            /\ seen' = [seen EXCEPT ![t] = @ \cup {k}]
            /\ \/ UNCHANGED <<lockVars, pc, method, key, result>>
               \/ \E outcome \in {"stop", "error"} :
                    Finish(t, [visited |-> seen[t] \cup {k}, outcome |-> outcome])
      BY <1>7 DEF Visit
    <3>2. seen[t] \cup {k} \in (SUBSET peers) \ {{}}
      BY <1>7 DEF Visit, Runs, RangeSeesOneMap
    <3>3. pc'[t] = "leave" => result'[t] \in Set!Results(method[t], key[t], peers)
      BY <1>7, <3>1, <3>2
         DEF Visit, Runs, Finish, CallTypeOK, ResultTypeOK, Set!Results
    <3> QED
      BY <1>7, <3>3 DEF Visit, Runs, Finish, CanRead, CallTypeOK, ResultTypeOK
  <2>3. LockBooks'
    BY <1>7
       DEF Visit, Runs, Finish, CanRead, CallTypeOK, LockTypeOK, LockBooks,
           IsWriter
  <2>4. DoorIsShut'
    BY <1>7
       DEF Visit, Runs, Finish, CanRead, CallTypeOK, LockTypeOK, LockBooks,
           DoorIsShut, IsWriter
  <2>5. OnlyReadersSee'
    BY <1>7
       DEF Visit, Runs, Finish, CanRead, CallTypeOK, LockTypeOK, LockBooks,
           OnlyReadersSee, IsWriter
  <2>6. RangeSeesOneMap'
    BY <1>7
       DEF Visit, Runs, Finish, CanRead, CallTypeOK, LockTypeOK, LockBooks,
           OnlyReadersSee, RangeSeesOneMap, IsWriter
  <2> QED
    BY <2>1, <2>2, <2>3, <2>4, <2>5, <2>6
<1>8. ASSUME NEW t \in Thread, EndOfRange(t) PROVE TableInv'
  <2>1. CallTypeOK'
    BY <1>8
       DEF EndOfRange, Runs, Finish, CanRead, Set!Methods, Set!Arguments,
           CallTypeOK, LockTypeOK
  <2>2. ResultTypeOK'
    <3>1. seen[t] = peers
      BY <1>8 DEF EndOfRange, Runs, RangeSeesOneMap
    <3>2. result'[t] \in Set!Results(method[t], key[t], peers)
      BY <1>8, <3>1 DEF EndOfRange, Runs, Finish, ResultTypeOK, Set!Results
    <3> QED
      BY <1>8, <3>2
         DEF EndOfRange, Runs, Finish, CanRead, CallTypeOK, ResultTypeOK
  <2>3. LockBooks'
    BY <1>8
       DEF EndOfRange, Runs, Finish, CanRead, CallTypeOK, LockTypeOK,
           LockBooks, IsWriter
  <2>4. DoorIsShut'
    BY <1>8
       DEF EndOfRange, Runs, Finish, CanRead, CallTypeOK, LockTypeOK,
           LockBooks, DoorIsShut, IsWriter
  <2>5. OnlyReadersSee'
    BY <1>8
       DEF EndOfRange, Runs, Finish, CanRead, CallTypeOK, LockTypeOK,
           LockBooks, OnlyReadersSee, IsWriter
  <2>6. RangeSeesOneMap'
    BY <1>8
       DEF EndOfRange, Runs, Finish, CanRead, CallTypeOK, LockTypeOK,
           LockBooks, OnlyReadersSee, RangeSeesOneMap, IsWriter
  <2> QED
    BY <2>1, <2>2, <2>3, <2>4, <2>5, <2>6
<1>9. ASSUME NEW t \in Thread, Leave(t) PROVE TableInv'
  <2>1. CallTypeOK'
    BY <1>9
       DEF Leave, RUnlock, Unlock, Set!Methods, Set!Arguments, CallTypeOK,
           LockTypeOK
  <2>2. ResultTypeOK'
    BY <1>9 DEF Leave, RUnlock, Unlock, CallTypeOK, ResultTypeOK
  <2>3. LockBooks'
    BY <1>9
       DEF Leave, RUnlock, Unlock, CallTypeOK, LockTypeOK, LockBooks,
           DoorIsShut, IsWriter
  <2>4. DoorIsShut'
    BY <1>9
       DEF Leave, RUnlock, Unlock, CallTypeOK, LockTypeOK, LockBooks,
           DoorIsShut, IsWriter
  <2>5. OnlyReadersSee'
    BY <1>9
       DEF Leave, RUnlock, Unlock, CallTypeOK, LockTypeOK, LockBooks,
           DoorIsShut, OnlyReadersSee, IsWriter
  <2>6. RangeSeesOneMap'
    BY <1>9
       DEF Leave, RUnlock, Unlock, CallTypeOK, LockTypeOK, LockBooks,
           OnlyReadersSee, RangeSeesOneMap, IsWriter
  <2> QED
    BY <2>1, <2>2, <2>3, <2>4, <2>5, <2>6
<1>10. ASSUME UNCHANGED vars PROVE TableInv'
  <2>1. CallTypeOK'
    BY <1>10 DEF vars, Set!Methods, Set!Arguments, CallTypeOK, LockTypeOK
  <2>2. ResultTypeOK'
    BY <1>10 DEF vars, CallTypeOK, ResultTypeOK
  <2>3. LockBooks'
    BY <1>10 DEF vars, CallTypeOK, LockTypeOK, LockBooks, IsWriter
  <2>4. DoorIsShut'
    BY <1>10 DEF vars, CallTypeOK, LockTypeOK, LockBooks, DoorIsShut, IsWriter
  <2>5. OnlyReadersSee'
    BY <1>10
       DEF vars, CallTypeOK, LockTypeOK, LockBooks, OnlyReadersSee, IsWriter
  <2>6. RangeSeesOneMap'
    BY <1>10
       DEF vars, CallTypeOK, LockTypeOK, LockBooks, OnlyReadersSee,
           RangeSeesOneMap, IsWriter
  <2> QED
    BY <2>1, <2>2, <2>3, <2>4, <2>5, <2>6
<1> QED
  BY <1>1, <1>2, <1>3, <1>4, <1>5, <1>6, <1>7, <1>8, <1>9, <1>10
     DEF Next, Step, Body

-----------------------------------------------------------------------------

(***************************************************************************)
(* The lock's books and the map's discipline hold in every reachable       *)
(* state, whatever goroutines call which methods.                          *)
(***************************************************************************)
THEOREM TableInvariant == Spec => []TableInv
<1> QED
  BY InitTableInv, NextTableInv, PTL DEF Spec

(***************************************************************************)
(* The variables keep their types.                                         *)
(***************************************************************************)
THEOREM TypeCorrect == Spec => []TypeOK
<1>1. TableInv => TypeOK
  BY DEF TableInv
<1> QED
  BY <1>1, TableInvariant, PTL

(***************************************************************************)
(* Put and Delete run alone (peer.go).                                     *)
(***************************************************************************)
THEOREM WriterIsAloneHolds == Spec => []WriterIsAlone
<1>1. TableInv => WriterIsAlone
  BY DEF TableInv, TypeOK, CallTypeOK, LockTypeOK, LockBooks, DoorIsShut,
     WriterIsAlone
<1> QED
  BY <1>1, TableInvariant, PTL

(***************************************************************************)
(* A range loop of Iterate walks one map, whatever is called meanwhile.    *)
(***************************************************************************)
THEOREM RangeSeesOneMapHolds == Spec => []RangeSeesOneMap
<1>1. TableInv => RangeSeesOneMap
  BY DEF TableInv
<1> QED
  BY <1>1, TableInvariant, PTL

\* A goroutine that reads is past RLock, and so can go on.
LEMMA ReadersGo ==
  ASSUME TableInv, NEW r \in readers
  PROVE  r \in Holders /\ CanGo(r)
BY DEF TableInv, TypeOK, CallTypeOK, LockTypeOK, LockBooks, Holders, CanGo,
   CanRead

\* An owner that no reader keeps waiting can go on.
LEMMA OwnerGoes ==
  ASSUME TableInv, owner # NoThread, readers = {}
  PROVE  owner \in Holders /\ CanGo(owner)
BY DEF TableInv, TypeOK, CallTypeOK, LockTypeOK, LockBooks, Holders, CanGo,
   CanWrite

(***************************************************************************)
(* No ring of waits on the lock of the table: behind an owner stand the    *)
(* readers it waits for, and they wait for nobody.                         *)
(***************************************************************************)
THEOREM WaitersHaveAHolderHolds == Spec => []WaitersHaveAHolder
<1>1. ASSUME TableInv, NEW t \in Thread, pc[t] # "idle", ~CanGo(t)
      PROVE  \E u \in Holders : CanGo(u)
  <2>1. CASE readers # {}
    BY <1>1, <2>1, ReadersGo
  <2>2. CASE readers = {}
    <3>1. owner # NoThread
      <4>1. CASE pc[t] = "enter"
        BY <1>1, <4>1 DEF CanGo
      <4>2. CASE pc[t] = "inside"
        BY <1>1, <2>2, <4>2
           DEF CanGo, CanWrite, CanRead, TableInv, LockBooks
      <4> QED
        BY <1>1, <4>1, <4>2 DEF CanGo, TableInv, TypeOK, CallTypeOK
    <3> QED
      BY <1>1, <2>2, <3>1, OwnerGoes
  <2> QED
    BY <2>1, <2>2
<1>2. TableInv => WaitersHaveAHolder
  BY <1>1 DEF WaitersHaveAHolder
<1> QED
  BY <1>2, TableInvariant, PTL

-----------------------------------------------------------------------------

\* What the abstract set sees of a goroutine, before a step and after it.
LEMMA BarOf ==
  ASSUME NEW t \in Thread
  PROVE  /\ pc[t] = "idle" => callBar[t] = Set!NoCall
         /\ pc[t] \in {"enter", "inside"} =>
              callBar[t] = Set!Pending(method[t], key[t])
         /\ pc[t] = "leave" => callBar[t] = Set!Done(result[t])
         /\ pc'[t] = "idle" => callBar'[t] = Set!NoCall
         /\ pc'[t] \in {"enter", "inside"} =>
              callBar'[t] = Set!Pending(method'[t], key'[t])
         /\ pc'[t] = "leave" => callBar'[t] = Set!Done(result'[t])
BY DEF callBar, Set!NoCall, Set!Pending, Set!Done

\* A step of one goroutine changes what is seen of that goroutine alone.
LEMMA BarStep ==
  ASSUME NEW t \in Thread,
         \A u \in Thread \ {t} : /\ pc'[u] = pc[u]
                                 /\ method'[u] = method[u]
                                 /\ key'[u] = key[u]
                                 /\ result'[u] = result[u]
  PROVE  callBar' = [callBar EXCEPT ![t] = callBar'[t]]
<1> DEFINE Bar(u) ==
     CASE pc[u] = "idle"  -> [phase |-> "none"]
       [] pc[u] = "leave" -> [phase |-> "done", result |-> result[u]]
       [] OTHER           ->
            [phase |-> "pending", method |-> method[u], key |-> key[u]]
<1>1. \A u \in Thread \ {t} : Bar(u)' = Bar(u)
  OBVIOUS
<1>2. callBar = [u \in Thread |-> Bar(u)] /\ callBar' = [u \in Thread |-> Bar(u)']
  BY DEF callBar
<1> HIDE DEF Bar
<1> QED
  BY <1>1, <1>2

\* The body of a method that ends takes effect on the abstract set.
LEMMA EffectStep ==
  ASSUME TableInv, TableInv', NEW t \in Thread, NEW r, pc[t] = "inside",
         Finish(t, r), r \in Set!Results(method[t], key[t], peers),
         peers' = Set!After(method[t], key[t], peers)
  PROVE  Set!Next
<1> CallTypeOK /\ CallTypeOK' /\ ResultTypeOK
  BY DEF TableInv, TypeOK
<1>1. pc'[t] = "leave" /\ result'[t] = r
  BY DEF Finish, CallTypeOK, ResultTypeOK
<1>2. callBar' = [callBar EXCEPT ![t] = callBar'[t]]
  BY BarStep DEF Finish, CallTypeOK, ResultTypeOK
<1>3. callBar[t] = Set!Pending(method[t], key[t]) /\ callBar'[t] = Set!Done(r)
  BY <1>1, BarOf
<1>4. Set!TakeEffect(t, method[t], key[t])
  BY <1>2, <1>3 DEF Set!TakeEffect
<1>5. method[t] \in Set!Methods /\ key[t] \in Set!Arguments(method[t])
  BY DEF CallTypeOK
<1> QED
  BY <1>4, <1>5 DEF Set!Next

\* The initial states are initial states of the abstract set.
LEMMA InitRefines == Init => Set!Init
BY DEF Init, Set!Init, callBar, Set!NoCall

\* Every step is a step of the abstract set or changes nothing it sees.
LEMMA NextRefines ==
  ASSUME TableInv, TableInv', [Next]_vars
  PROVE  [Set!Next]_(Set!setVars)
<1> CallTypeOK /\ CallTypeOK' /\ ResultTypeOK
  BY DEF TableInv, TypeOK
<1>1. ASSUME NEW t \in Thread, Invoke(t) PROVE Set!Next
  <2>1. PICK name \in Set!Methods : \E k \in Set!Arguments(name) :
          method' = [method EXCEPT ![t] = name] /\ key' = [key EXCEPT ![t] = k]
    BY <1>1 DEF Invoke
  <2>2. PICK k \in Set!Arguments(name) :
          method' = [method EXCEPT ![t] = name] /\ key' = [key EXCEPT ![t] = k]
    BY <2>1
  <2>3. callBar' = [callBar EXCEPT ![t] = callBar'[t]]
    BY <1>1, <2>2, BarStep DEF Invoke, CallTypeOK
  <2>4. callBar[t] = Set!NoCall /\ callBar'[t] = Set!Pending(name, k)
    BY <1>1, <2>2, BarOf DEF Invoke, CallTypeOK
  <2>5. Set!Invoke(t, name, k)
    BY <1>1, <2>3, <2>4 DEF Invoke, Set!Invoke
  <2> QED
    BY <2>5 DEF Set!Next
<1>2. ASSUME NEW t \in Thread, Enter(t) PROVE UNCHANGED Set!setVars
  <2>1. callBar' = [callBar EXCEPT ![t] = callBar'[t]]
    BY <1>2, BarStep DEF Enter, CallTypeOK
  <2>2. callBar'[t] = callBar[t]
    BY <1>2, BarOf DEF Enter, CallTypeOK
  <2>3. callBar' = callBar
    BY <2>1, <2>2 DEF callBar
  <2> QED
    BY <1>2, <2>3 DEF Enter, Set!setVars
<1>3. ASSUME NEW t \in Thread, Get(t) PROVE Set!Next
  <2>1. /\ [found |-> key[t] \in peers] \in Set!Results(method[t], key[t], peers)
        /\ peers = Set!After(method[t], key[t], peers)
    BY <1>3 DEF Get, Runs, Set!Results, Set!After
  <2> QED
    BY <1>3, <2>1, EffectStep DEF Get, Runs
<1>4. ASSUME NEW t \in Thread, Put(t) PROVE Set!Next
  <2>1. /\ [done |-> TRUE] \in Set!Results(method[t], key[t], peers)
        /\ peers' = Set!After(method[t], key[t], peers)
    BY <1>4 DEF Put, Runs, Set!Results, Set!After
  <2> QED
    BY <1>4, <2>1, EffectStep DEF Put, Runs
<1>5. ASSUME NEW t \in Thread, Delete(t) PROVE Set!Next
  <2>1. /\ [done |-> TRUE] \in Set!Results(method[t], key[t], peers)
        /\ peers' = Set!After(method[t], key[t], peers)
    BY <1>5 DEF Delete, Runs, Set!Results, Set!After
  <2> QED
    BY <1>5, <2>1, EffectStep DEF Delete, Runs
<1>6. ASSUME NEW t \in Thread, Len(t) PROVE Set!Next
  <2>1. method[t] = "Len"
    BY <1>6 DEF Len, Runs
  <2>2. /\ [len |-> Cardinality(peers)] \in Set!Results(method[t], key[t], peers)
        /\ peers = Set!After(method[t], key[t], peers)
    BY <2>1, SameCardinality DEF Set!Results, Set!After
  <2> QED
    BY <1>6, <2>2, EffectStep DEF Len, Runs
<1>7. ASSUME NEW t \in Thread, Visit(t)
      PROVE  Set!Next \/ UNCHANGED Set!setVars
  <2>1. PICK k \in peers \ seen[t] :
          \/ UNCHANGED <<lockVars, pc, method, key, result>>
          \/ \E outcome \in {"stop", "error"} :
               Finish(t, [visited |-> seen[t] \cup {k}, outcome |-> outcome])
    BY <1>7 DEF Visit
  <2>2. CASE UNCHANGED <<lockVars, pc, method, key, result>>
    BY <1>7, <2>2 DEF Visit, callBar, Set!setVars
  <2>3. ASSUME NEW outcome \in {"stop", "error"},
               Finish(t, [visited |-> seen[t] \cup {k}, outcome |-> outcome])
        PROVE  Set!Next
    <3>1. seen[t] \cup {k} \in (SUBSET peers) \ {{}}
      BY <1>7 DEF Visit, Runs, TableInv, RangeSeesOneMap
    <3>2. method[t] = "Iterate" /\ pc[t] = "inside" /\ peers' = peers
      BY <1>7 DEF Visit, Runs
    <3>3. /\ [visited |-> seen[t] \cup {k}, outcome |-> outcome]
               \in Set!Results(method[t], key[t], peers)
          /\ peers = Set!After(method[t], key[t], peers)
      BY <3>1, <3>2 DEF Set!Results, Set!After
    <3> QED
      BY <2>3, <3>2, <3>3, EffectStep
  <2> QED
    BY <2>1, <2>2, <2>3
<1>8. ASSUME NEW t \in Thread, EndOfRange(t) PROVE Set!Next
  <2>1. seen[t] = peers /\ method[t] = "Iterate"
    BY <1>8 DEF EndOfRange, Runs, TableInv, RangeSeesOneMap
  <2>2. /\ [visited |-> seen[t], outcome |-> "end"]
             \in Set!Results(method[t], key[t], peers)
        /\ peers = Set!After(method[t], key[t], peers)
    BY <2>1 DEF Set!Results, Set!After
  <2> QED
    BY <1>8, <2>2, EffectStep DEF EndOfRange, Runs
<1>9. ASSUME NEW t \in Thread, Leave(t) PROVE Set!Next
  <2>1. callBar' = [callBar EXCEPT ![t] = callBar'[t]]
    BY <1>9, BarStep DEF Leave, CallTypeOK, ResultTypeOK
  <2>2. callBar[t] = Set!Done(result[t]) /\ callBar'[t] = Set!NoCall
    BY <1>9, BarOf DEF Leave, CallTypeOK
  <2>3. Set!Return(t)
    BY <1>9, <2>1, <2>2 DEF Leave, Set!Return, Set!Done
  <2> QED
    BY <2>3 DEF Set!Next
<1>10. ASSUME UNCHANGED vars PROVE UNCHANGED Set!setVars
  BY <1>10 DEF vars, callBar, Set!setVars
<1> QED
  BY <1>1, <1>2, <1>3, <1>4, <1>5, <1>6, <1>7, <1>8, <1>9, <1>10
     DEF Next, Step, Body

(***************************************************************************)
(* Every method of Peers behaves as if it took effect in one instant: the  *)
(* table implements the atomic set (types.Peers, v2ray/types/peer.go).     *)
(***************************************************************************)
THEOREM LinearizableHolds == Spec => Linearizable
<1>1. Init => Set!Init
  BY InitRefines
<1>2. TableInv /\ TableInv' /\ [Next]_vars => [Set!Next]_(Set!setVars)
  BY NextRefines
<1> QED
  BY <1>1, <1>2, TableInvariant, PTL DEF Spec, Linearizable, Set!Spec
=============================================================================
