-------------------------- MODULE ABCIQueryProofs --------------------------
(***************************************************************************)
(* Theorems about ABCIQuery for every set of clients, of QueryOptions and  *)
(* of endpoints, and for every value a setting can take.                   *)
(***************************************************************************)
EXTENDS ABCIQuery, TLAPS

USE NilIsNoOptions, SettingsType DEF call, history, unpacking

\* A timeout in seconds is a natural number.
LEMMA SecondsType ==
  ASSUME NEW d \in Nat
  PROVE  UIntSecondsFromDuration(d) \in Nat
BY DEF UIntSecondsFromDuration

(***************************************************************************)
(* What the answers of the node and the results of queries are.            *)
(***************************************************************************)

Items == Seq(Item)

\* A response is a list of items.
LEMMA ResponseType ==
  ASSUME NEW e, NEW items \in Responses(e)
  PROVE  items \in Items
<1>1. items \in {<<>>, <<"first">>, <<"foreign">>, <<"first", "second">>,
                 <<"first", "foreign">>, <<"foreign", "second">>}
  BY DEF Responses
<1>2. /\ <<>> \in Items /\ <<"first">> \in Items /\ <<"foreign">> \in Items
      /\ <<"first", "second">> \in Items /\ <<"first", "foreign">> \in Items
      /\ <<"foreign", "second">> \in Items
  BY DEF Items, Item
<1> QED
  BY <1>1, <1>2

\* The answers that hold no item.
LEMMA EmptyAnswers ==
  ASSUME NEW a \in Failures \cup {NilResult, Garbled, Refusal}
  PROVE  a.code \in {0, 1} /\ a.items = <<>>
<1>1. NilResult.code = 0 /\ NilResult.items = <<>>
  BY DEF NilResult
<1>2. Garbled.code = 0 /\ Garbled.items = <<>>
  BY DEF Garbled, NilResult
<1>3. Refusal.code = 1 /\ Refusal.items = <<>>
  BY DEF Refusal, NilResult
<1> QED
  BY <1>1, <1>2, <1>3 DEF Failures

\* An answer holds a code and items.
LEMMA AnswerType ==
  ASSUME NEW e, NEW a \in Answers(e)
  PROVE  a.code \in {0, 1} /\ a.items \in Items
<1>1. CASE a \notin Messages(e)
  <2>1. a.code \in {0, 1} /\ a.items = <<>>
    BY <1>1, EmptyAnswers DEF Answers
  <2> QED
    BY <2>1 DEF Items
<1>2. CASE a \in Messages(e)
  <2>1. a.code = 0 /\ a.items \in Responses(e)
    BY <1>2 DEF Messages
  <2> QED
    BY <2>1, ResponseType
<1> QED
  BY <1>1, <1>2

-----------------------------------------------------------------------------

(***************************************************************************)
(* The types, and with them the options, the results and the decoding of   *)
(* queries.                                                                *)
(***************************************************************************)
QueryInv ==
  TypeOK /\ OneSetOfOptions /\ AttemptsShareAPage /\ DecodedSoFar

\* The results a query can end with.
Results ==
  [outcome : {"none", "ok", "failed", "exhausted"}, code : {0, 1},
   items : Items]

\* What an error returns is a result.
LEMMA ErrType ==
  ASSUME NEW outcome \in {"none", "failed", "exhausted"}
  PROVE  Err(outcome) \in Results
<1>1. <<>> \in Items
  BY DEF Items
<1> QED
  BY <1>1 DEF Err, NoResult, Results

\* What a query returns that has nothing to decode is a result.
LEMMA FinalType ==
  ASSUME NEW e, NEW a \in Answers(e)
  PROVE  (IF Usable(e, a) THEN Ok(a.code, a.items) ELSE Err("failed")) \in Results
<1>1. Ok(a.code, a.items) \in Results
  BY AnswerType DEF Ok, Results
<1> QED
  BY <1>1, ErrType

\* The initial states satisfy QueryInv.
LEMMA InitQueryInv == Init => QueryInv
<1>1. NoResult \in Results
  BY DEF NoResult, Results, Items
<1> QED
  BY <1>1 DEF Init, QueryInv, TypeOK, OneSetOfOptions, AttemptsShareAPage,
     DecodedSoFar, Running, Asking, Results, Items, NoResult, NoReply

\* What a goroutine decoded changes with its own variables only.
LEMMA DecodedStays ==
  ASSUME NEW c, UNCHANGED <<reply[c], res[c], at[c]>>
  PROVE  DecodedTo(c)' <=> DecodedTo(c)
BY DEF DecodedTo

\* A query that returns a result keeps QueryInv.
LEMMA ReturnQueryInv ==
  ASSUME QueryInv, NEW c \in Client, NEW r \in Results, Return(c, r),
         UNCHANGED opts
  PROVE  QueryInv'
<1> USE DEF QueryInv, TypeOK, OneSetOfOptions, AttemptsShareAPage,
            Running, Asking
<1>1. TypeOK'
  BY DEF Return, Forget, Results, Items, NoReply
<1>2. OneSetOfOptions'
  BY DEF Return, Forget
<1>3. DecodedSoFar'
  <2>1. ASSUME NEW d \in Client \ {c} PROVE DecodedTo(d)' <=> DecodedTo(d)
    BY DecodedStays DEF Return
  <2> QED
    BY <2>1 DEF Return, DecodedSoFar
<1>4. AttemptsShareAPage'
  BY DEF Return, Forget
<1> QED
  BY <1>1, <1>2, <1>3, <1>4

\* With... leaves options of their type.
LEMMA WithType ==
  ASSUME opts \in [Options -> Settings], NEW c \in Client, With(c)
  PROVE  \E h \in Options, new \in Settings : Change(c, h, new)
BY DEF With, Settings

\* Steps outside the loop leave what is decoded.
LEMMA DecodedSoFarStays ==
  ASSUME QueryInv, UNCHANGED unpacking,
         \A d \in Client : pc'[d] = "unpack" => pc[d] = "unpack"
  PROVE  DecodedSoFar'
<1>1. \A d \in Client : DecodedTo(d)' <=> DecodedTo(d)
  BY DecodedStays
<1> QED
  BY <1>1 DEF QueryInv, DecodedSoFar

\* An item that can be decoded keeps QueryInv.
LEMMA UnpackAnyQueryInv ==
  ASSUME QueryInv, NEW c \in Client, UnpackAny(c)
  PROVE  QueryInv'
<1> DEFINE item == reply[c].items[at[c]]
<1>1. /\ pc' = pc /\ reply' = reply /\ pc[c] = "unpack"
      /\ item \in {"first", "second"}
      /\ res' = [res EXCEPT ![c] = [res[c] EXCEPT ![at[c]] = item]]
      /\ at' = [at EXCEPT ![c] = at[c] + 1]
      /\ at[c] <= Len(reply[c].items)
  BY DEF UnpackAny, AtItem
<1>2. /\ DecodedTo(c) /\ res[c] \in Seq(Item) /\ at \in [Client -> Nat]
      /\ res \in [Client -> Seq(Item)]
  BY <1>1 DEF QueryInv, TypeOK, DecodedSoFar
<1>3. at[c] \in 1 .. Len(res[c]) /\ item \in Item
  BY <1>1, <1>2 DEF DecodedTo, Item
<1> HIDE DEF item
<1>4. /\ res'[c] = [res[c] EXCEPT ![at[c]] = item]
      /\ at'[c] = at[c] + 1
  BY <1>1, <1>2
<1>5. res'[c] \in Seq(Item) /\ Len(res'[c]) = Len(res[c])
  BY <1>2, <1>3, <1>4
<1>6. res' \in [Client -> Seq(Item)]
  BY <1>1, <1>2, <1>4, <1>5
<1>7. at' \in [Client -> Nat]
  BY <1>1, <1>2
<1>8. UNCHANGED <<opts, pc, ep, handle, request, tries, timeout, reply, result,
                  asked, errors, touched>>
  BY DEF UnpackAny
<1>9. TypeOK'
  BY <1>1, <1>6, <1>7, <1>8 DEF QueryInv, TypeOK, Running, Asking
<1>10. OneSetOfOptions' /\ AttemptsShareAPage'
  BY <1>8 DEF QueryInv, OneSetOfOptions, AttemptsShareAPage, Asking
<1>11. DecodedTo(c)'
  <2>1. ASSUME NEW i \in 1 .. at[c]
        PROVE  res'[c][i] = reply[c].items[i] /\ reply[c].items[i] # "foreign"
    <3>1. CASE i = at[c]
      BY <1>1, <1>2, <1>3, <1>4, <3>1 DEF item
    <3>2. CASE i # at[c]
      <4>1. i \in 1 .. at[c] - 1
        BY <1>3, <3>2
      <4>2. res'[c][i] = res[c][i]
        BY <1>2, <1>3, <1>4, <3>2, <4>1
      <4> QED
        BY <1>2, <4>1, <4>2 DEF DecodedTo
    <3> QED
      BY <3>1, <3>2
  <2>2. at'[c] - 1 = at[c] /\ at'[c] \in 1 .. Len(res'[c]) + 1
    BY <1>2, <1>3, <1>4, <1>5
  <2> QED
    BY <1>1, <1>2, <1>5, <2>1, <2>2 DEF DecodedTo
<1>12. DecodedSoFar'
  <2>1. ASSUME NEW d \in Client \ {c} PROVE DecodedTo(d)' <=> DecodedTo(d)
    BY <1>1, <1>2, DecodedStays
  <2> QED
    BY <1>1, <1>11, <2>1 DEF QueryInv, DecodedSoFar
<1> QED
  BY <1>9, <1>10, <1>12 DEF QueryInv

\* So does an answer whose items are to be decoded: nothing is decoded yet.
LEMMA UnpackQueryInv ==
  ASSUME QueryInv, NEW c \in Client, NEW a \in Answers(ep[c]), Unpack(c, a),
         pc[c] = "wait"
  PROVE  QueryInv'
<1> DEFINE holes == [i \in 1 .. Len(a.items) |-> "nil"]
           new == [code |-> a.code, items |-> a.items]
<1>1. a.code \in {0, 1} /\ a.items \in Seq(Item)
  BY AnswerType DEF Items
<1>2. holes \in Seq(Item) /\ Len(holes) = Len(a.items) /\ Len(a.items) \in Nat
  BY <1>1 DEF Item
<1>3. new \in [code : {0, 1}, items : Seq(Item)] /\ new.items = a.items
  BY <1>1
<1>4. /\ res' = [res EXCEPT ![c] = holes] /\ reply' = [reply EXCEPT ![c] = new]
      /\ at' = [at EXCEPT ![c] = 1] /\ pc' = [pc EXCEPT ![c] = "unpack"]
      /\ Forget(c) /\ UNCHANGED <<opts, ep, result>>
  BY DEF Unpack
<1> HIDE DEF holes, new
<1>5. TypeOK'
  <2>1. /\ res' \in [Client -> Seq(Item)] /\ at' \in [Client -> Nat]
        /\ reply' \in [Client -> [code : {0, 1}, items : Seq(Item)]]
    BY <1>2, <1>3, <1>4 DEF QueryInv, TypeOK
  <2>2. \A d \in Client :
          pc'[d] # "unpack" => reply'[d] = NoReply /\ res'[d] = <<>> /\ at'[d] = 0
    BY <1>4 DEF QueryInv, TypeOK
  <2> QED
    BY <1>4, <2>1, <2>2 DEF QueryInv, TypeOK, Running, Asking, Forget
<1>6. OneSetOfOptions' /\ AttemptsShareAPage'
  BY <1>4 DEF QueryInv, TypeOK, OneSetOfOptions, AttemptsShareAPage, Asking, Forget
<1>7. DecodedTo(c)'
  <2>1. res'[c] = holes /\ reply'[c] = new /\ at'[c] = 1
    BY <1>4 DEF QueryInv, TypeOK
  <2> QED
    BY <1>2, <1>3, <2>1 DEF DecodedTo
<1>8. DecodedSoFar'
  <2>1. ASSUME NEW d \in Client \ {c} PROVE DecodedTo(d)' <=> DecodedTo(d)
    BY <1>4, DecodedStays DEF QueryInv, TypeOK
  <2> QED
    BY <1>4, <1>7, <2>1 DEF QueryInv, TypeOK, DecodedSoFar
<1> QED
  BY <1>5, <1>6, <1>8 DEF QueryInv

\* Every step keeps QueryInv.
LEMMA NextQueryInv == QueryInv /\ [Next]_vars => QueryInv'
<1> SUFFICES ASSUME QueryInv, [Next]_vars PROVE QueryInv'
  OBVIOUS
<1> USE DEF QueryInv, TypeOK, OneSetOfOptions, AttemptsShareAPage,
            Running, Asking
<1>1. ASSUME NEW c \in Client, With(c) PROVE QueryInv'
  <2>1. PICK h \in Options, new \in Settings : Change(c, h, new)
    BY <1>1, WithType
  <2>2. UNCHANGED <<pc, ep, handle, request, tries, timeout, unpacking, result,
                    asked, errors>>
    BY <2>1 DEF Change
  <2>3. TypeOK'
    BY <2>1, <2>2 DEF Change
  <2>4. OneSetOfOptions'
    BY <2>1, <2>2 DEF Change
  <2>5. AttemptsShareAPage' /\ DecodedSoFar'
    BY <2>2, DecodedSoFarStays
  <2> QED
    BY <2>3, <2>4, <2>5
<1>2. ASSUME NEW c \in Client, Query(c) PROVE QueryInv'
  <2>1. PICK h \in Options, e \in Endpoint :
          /\ handle' = [handle EXCEPT ![c] = h]
          /\ ep' = [ep EXCEPT ![c] = e]
          /\ request' = [request EXCEPT ![c] = PageRequest(e, opts[h])]
    BY <1>2 DEF Query
  <2>2. PageRequest(e, opts[h]) \in Page \cup {NoPage}
    BY DEF PageRequest, Settings
  <2>3. NoResult \in Results
    BY DEF NoResult, Results, Items
  <2>4. TypeOK'
    BY <1>2, <2>1, <2>2, <2>3 DEF Query, Results, Items
  <2>5. OneSetOfOptions'
    <3>1. /\ ep'[c] = e /\ handle'[c] = h /\ opts' = opts
          /\ request'[c] = PageRequest(e, opts[h]) /\ pc'[c] = "built"
          /\ asked'[c] = {} /\ tries'[c] = 0
      BY <1>2, <2>1 DEF Query
    <3>2. opts[h].MaxRetries \in Int
      BY DEF Settings
    <3>3. \A d \in Client \ {c} :
            /\ ep'[d] = ep[d] /\ handle'[d] = handle[d]
            /\ request'[d] = request[d] /\ pc'[d] = pc[d]
      BY <1>2, <2>1 DEF Query
    <3>4. PageRequest(ep'[c], opts'[handle'[c]]) = request'[c]
      BY <3>1
    <3> QED
      BY <1>2, <3>1, <3>2, <3>3, <3>4 DEF Query
  <2>7. AttemptsShareAPage'
    BY <1>2, <2>1 DEF Query
  <2>6. DecodedSoFar'
    BY <1>2, DecodedSoFarStays DEF Query
  <2> QED
    BY <2>4, <2>5, <2>6, <2>7
<1>10. ASSUME NEW c \in Client, Connect(c) PROVE QueryInv'
  <2>1. UIntSecondsFromDuration(opts[handle[c]].Timeout) \in Nat
    BY <1>10, SecondsType DEF Connect, Settings
  <2>2. TypeOK'
    BY <1>10, <2>1 DEF Connect
  <2>3. OneSetOfOptions'
    BY <1>10, <2>1 DEF Connect
  <2>4. AttemptsShareAPage'
    BY <1>10 DEF Connect
  <2>5. DecodedSoFar'
    BY <1>10, DecodedSoFarStays DEF Connect
  <2> QED
    BY <2>2, <2>3, <2>4, <2>5
<1>11. ASSUME NEW c \in Client, ConnectFails(c) PROVE QueryInv'
  BY <1>11, ErrType, ReturnQueryInv DEF ConnectFails
<1>3. ASSUME NEW c \in Client, QueryNil(c) PROVE QueryInv'
  BY <1>3, ErrType, ReturnQueryInv DEF QueryNil
<1>4. ASSUME NEW c \in Client, Attempt(c) PROVE QueryInv'
  <2>1. opts[handle[c]].Height \in Int
    BY <1>4 DEF Attempt, Ask, Settings
  <2>2. TypeOK'
    BY <1>4, <2>1 DEF Attempt, Ask
  <2>3. OneSetOfOptions'
    BY <1>4, <2>1 DEF Attempt, Ask, MoreAttempts
  <2>4. AttemptsShareAPage'
    BY <1>4 DEF Attempt, Ask
  <2>5. DecodedSoFar'
    BY <1>4, DecodedSoFarStays DEF Attempt, Ask
  <2> QED
    BY <2>2, <2>3, <2>4, <2>5
<1>5. ASSUME NEW c \in Client, Exhausted(c) PROVE QueryInv'
  BY <1>5, ErrType, ReturnQueryInv DEF Exhausted
<1>6. ASSUME NEW c \in Client, NEW a, pc[c] = "wait", Retry(c, a)
      PROVE  QueryInv'
  <2>1. TypeOK'
    BY <1>6 DEF Retry, Retryable
  <2>2. OneSetOfOptions'
    <3>1. ASSUME c \notin touched
          PROVE  tries[c] + 1 <= IF opts[handle[c]].MaxRetries < 0 THEN 0
                                 ELSE opts[handle[c]].MaxRetries
      <4>1. opts[handle[c]].MaxRetries \in Int /\ tries[c] \in Nat
        BY <1>6 DEF Settings
      <4>2. tries[c] < opts[handle[c]].MaxRetries
        BY <1>6, <3>1
      <4> QED
        BY <4>1, <4>2
    <3>2. /\ UNCHANGED <<opts, ep, handle, request, timeout, asked, touched>>
          /\ tries' = [tries EXCEPT ![c] = tries[c] + 1]
          /\ pc' = [pc EXCEPT ![c] = "loop"]
      BY <1>6 DEF Retry
    <3> QED
      BY <1>6, <3>1, <3>2
  <2>3. AttemptsShareAPage'
    BY <1>6 DEF Retry
  <2>5. DecodedSoFar'
    BY <1>6, DecodedSoFarStays DEF Retry
  <2> QED
    BY <2>1, <2>2, <2>3, <2>5
<1>7. ASSUME NEW c \in Client, pc[c] = "wait", NEW a \in Answers(ep[c]),
             Finish(c, a)
      PROVE  QueryInv'
  BY <1>7, FinalType, ReturnQueryInv DEF Finish
<1>8. ASSUME NEW c \in Client, TimeOut(c) PROVE QueryInv'
  BY <1>8, ErrType, ReturnQueryInv DEF TimeOut
<1>12. ASSUME NEW c \in Client, pc[c] = "wait", NEW a \in Answers(ep[c]),
              Unpack(c, a)
       PROVE  QueryInv'
  BY <1>12, UnpackQueryInv
<1>13. ASSUME NEW c \in Client, UnpackAny(c) PROVE QueryInv'
  BY <1>13, UnpackAnyQueryInv
<1>14. ASSUME NEW c \in Client, UnpackFails(c) PROVE QueryInv'
  BY <1>14, ErrType, ReturnQueryInv DEF UnpackFails
<1>15. ASSUME NEW c \in Client, Unpacked(c) PROVE QueryInv'
  <2>1. Ok(reply[c].code, res[c]) \in Results
    BY DEF Ok, Results, Items
  <2> QED
    BY <1>15, <2>1, ReturnQueryInv DEF Unpacked
<1>9. ASSUME UNCHANGED vars PROVE QueryInv'
  <2>1. DecodedSoFar'
    BY <1>9, DecodedSoFarStays DEF vars
  <2> QED
    BY <1>9, <2>1 DEF vars
<1> QED
  BY <1>1, <1>2, <1>3, <1>4, <1>5, <1>6, <1>7, <1>8, <1>9, <1>10, <1>11,
     <1>12, <1>13, <1>14, <1>15
     DEF Next, Step, Answer

(***************************************************************************)
(* QueryInv holds in every reachable state.                                *)
(***************************************************************************)
THEOREM QueryInvariance == Spec => []QueryInv
<1> QED
  BY InitQueryInv, NextQueryInv, PTL DEF Spec

\* No step of another goroutine touches the result of a query.
LEMMA OthersLeaveResult ==
  ASSUME QueryInv, NEW c \in Client, NEW d \in Client \ {c},
         \/ With(d) \/ QueryNil(d) \/ Query(d) \/ ConnectFails(d)
         \/ Answer(d) \/ Step(d)
  PROVE  result'[c] = result[c]
<1> USE DEF QueryInv, TypeOK
<1>1. ASSUME NEW r, Return(d, r) PROVE result'[c] = result[c]
  BY <1>1 DEF Return
<1>2. ASSUME With(d) \/ Query(d) \/ Connect(d) \/ Attempt(d) \/ UnpackAny(d)
      PROVE  result'[c] = result[c]
  BY <1>2 DEF With, Change, Query, Connect, Attempt, Ask, UnpackAny
<1>3. ASSUME NEW a, Retry(d, a) \/ Unpack(d, a) PROVE result'[c] = result[c]
  BY <1>3 DEF Retry, Unpack
<1> QED
  BY <1>1, <1>2, <1>3
     DEF QueryNil, ConnectFails, Answer, Finish, Step, Exhausted, TimeOut,
         UnpackFails, Unpacked

\* A query of an endpoint with items to decode succeeds at the end of its loop.
LEMMA OnlyUnpackedSucceeds ==
  ASSUME QueryInv, [Next]_vars, NEW c \in Client, Running(c),
         Shape[ep[c]].any, result'[c].outcome = "ok"
  PROVE  Unpacked(c)
<1> USE DEF QueryInv, TypeOK, Running, Asking
<1>1. result[c].outcome = "none"
  BY DEF NoResult
<1>2. ASSUME NEW r, Return(c, r) PROVE r.outcome = "ok"
  BY <1>2 DEF Return
<1>3. /\ ~With(c) /\ ~QueryNil(c) /\ ~Query(c)
  BY DEF With, Change, QueryNil, Query
<1>4. ~Connect(c) /\ ~Attempt(c) /\ ~UnpackAny(c)
  BY <1>1 DEF Connect, Attempt, Ask, UnpackAny
<1>5. ~ConnectFails(c) /\ ~Exhausted(c) /\ ~TimeOut(c) /\ ~UnpackFails(c)
  BY <1>2 DEF ConnectFails, Exhausted, TimeOut, UnpackFails, Err, NoResult
<1>6. ~Answer(c)
  <2>1. ASSUME NEW a, Retry(c, a) \/ Unpack(c, a) PROVE FALSE
    BY <1>1, <2>1 DEF Retry, Unpack
  <2>2. ASSUME NEW a, Finish(c, a) PROVE FALSE
    BY <1>2, <2>2 DEF Finish, Err, NoResult
  <2> QED
    BY <2>1, <2>2 DEF Answer
<1>7. ~UNCHANGED vars
  BY <1>1 DEF vars
<1> QED
  <2>1. PICK d \in Client :
          \/ With(d) \/ QueryNil(d) \/ Query(d) \/ ConnectFails(d)
          \/ Answer(d) \/ Step(d)
    BY <1>7 DEF Next
  <2>2. d = c
    BY <1>1, <2>1, OthersLeaveResult
  <2> QED
    BY <1>3, <1>4, <1>5, <1>6, <2>1, <2>2 DEF Step

(***************************************************************************)
(* The types of ABCIQuery.                                                 *)
(***************************************************************************)
THEOREM TypeCorrect == Spec => []TypeOK
<1>1. QueryInv => TypeOK
  BY DEF QueryInv
<1> QED
  BY <1>1, QueryInvariance, PTL

(***************************************************************************)
(* A query whose QueryOptions nobody changes runs with one height, one     *)
(* budget of attempts and one timeout (ABCIQueryWithOptions, query.go).    *)
(***************************************************************************)
THEOREM OneSetOfOptionsHolds == Spec => []OneSetOfOptions
<1>1. QueryInv => OneSetOfOptions
  BY DEF QueryInv
<1> QED
  BY <1>1, QueryInvariance, PTL

(***************************************************************************)
(* All attempts of one query ask for one page, whatever happens to the     *)
(* options meanwhile (QueryGRPC marshals the request once, query.go:74).   *)
(***************************************************************************)
THEOREM AttemptsShareAPageHolds == Spec => []AttemptsShareAPage
<1>1. QueryInv => AttemptsShareAPage
  BY DEF QueryInv
<1> QED
  BY <1>1, QueryInvariance, PTL

(***************************************************************************)
(* An endpoint that decodes items returns all of them or an error (the     *)
(* loops over UnpackAny in auth.go and subscription.go).                   *)
(***************************************************************************)
THEOREM AllItemsDecodedHolds == Spec => AllItemsDecoded
<1> DEFINE Whole(c) == /\ result'[c].items = reply[c].items
                       /\ "foreign" \notin ToSet(reply[c].items)
<1>1. ASSUME QueryInv, [Next]_vars, NEW c \in Client, Running(c),
             Shape[ep[c]].any, result'[c].outcome = "ok"
      PROVE  Whole(c)
  <2>1. Unpacked(c)
    BY <1>1, OnlyUnpackedSucceeds
  <2>2. /\ result'[c].items = res[c]
        /\ at[c] > Len(reply[c].items) /\ pc[c] = "unpack"
    BY <1>1, <2>1 DEF Unpacked, Return, Ok, QueryInv, TypeOK
  <2>3. /\ res[c] \in Seq(Item) /\ reply[c].items \in Seq(Item)
        /\ Len(res[c]) = Len(reply[c].items)
        /\ \A i \in 1 .. Len(reply[c].items) :
             res[c][i] = reply[c].items[i] /\ reply[c].items[i] # "foreign"
    BY <1>1, <2>2 DEF QueryInv, TypeOK, DecodedSoFar, DecodedTo
  <2>4. res[c] = reply[c].items
    BY <2>3
  <2>5. "foreign" \notin ToSet(reply[c].items)
    BY <2>3 DEF ToSet
  <2> QED
    BY <2>2, <2>4, <2>5
<1>2. QueryInv /\ [Next]_vars =>
        [\A c \in Client :
           (Running(c) /\ Shape[ep[c]].any /\ result'[c].outcome = "ok") =>
             Whole(c)]_vars
  BY <1>1
<1> QED
  BY <1>2, QueryInvariance, PTL DEF Spec, AllItemsDecoded

\* A query that returns has no attempts to count any more.
LEMMA ReturnBounded ==
  ASSUME QueryInv, AttemptsBounded, NEW c \in Client, NEW r, Return(c, r)
  PROVE  AttemptsBounded'
BY DEF QueryInv, TypeOK, AttemptsBounded, Return, Forget

\* With... is called with one of the limits, or leaves the limit alone.
LEMMA WithKeepsBudgets ==
  ASSUME QueryInv, BudgetsKnown, NEW c \in Client, With(c)
  PROVE  BudgetsKnown' /\ UNCHANGED call
<1>1. PICK h \in Options, new \in Settings :
        Change(c, h, new) /\ new.MaxRetries \in Budgets
  <2>1. PICK h \in Options :
          \/ \E v \in Height : Change(c, h, [opts[h] EXCEPT !.Height = v])
          \/ \E v \in MaxRetries : Change(c, h, [opts[h] EXCEPT !.MaxRetries = v])
          \/ \E v \in Timeout : Change(c, h, [opts[h] EXCEPT !.Timeout = v])
          \/ \E v \in Page : Change(c, h, [opts[h] EXCEPT !.Page = v])
    BY DEF With
  <2>2. opts[h] \in Settings /\ opts[h].MaxRetries \in Budgets
    BY DEF QueryInv, TypeOK, BudgetsKnown
  <2>3. ASSUME NEW v \in Height, Change(c, h, [opts[h] EXCEPT !.Height = v])
        PROVE  \E new \in Settings :
                 Change(c, h, new) /\ new.MaxRetries \in Budgets
    BY <2>2, <2>3 DEF Settings
  <2>4. ASSUME NEW v \in MaxRetries,
               Change(c, h, [opts[h] EXCEPT !.MaxRetries = v])
        PROVE  \E new \in Settings :
                 Change(c, h, new) /\ new.MaxRetries \in Budgets
    BY <2>2, <2>4 DEF Settings, Budgets
  <2>5. ASSUME NEW v \in Timeout, Change(c, h, [opts[h] EXCEPT !.Timeout = v])
        PROVE  \E new \in Settings :
                 Change(c, h, new) /\ new.MaxRetries \in Budgets
    BY <2>2, <2>5 DEF Settings
  <2>6. ASSUME NEW v \in Page, Change(c, h, [opts[h] EXCEPT !.Page = v])
        PROVE  \E new \in Settings :
                 Change(c, h, new) /\ new.MaxRetries \in Budgets
    BY <2>2, <2>6 DEF Settings
  <2> QED
    BY <2>1, <2>3, <2>4, <2>5, <2>6
<1> QED
  BY <1>1 DEF Change, QueryInv, TypeOK, BudgetsKnown

\* Every step keeps the number of attempts below a limit that was given.
LEMMA BudgetStep ==
  ASSUME QueryInv, BudgetsKnown, AttemptsBounded, [Next]_vars
  PROVE  BudgetsKnown' /\ AttemptsBounded'
<1>1. ASSUME NEW c \in Client, With(c) PROVE BudgetsKnown' /\ AttemptsBounded'
  BY <1>1, WithKeepsBudgets DEF AttemptsBounded
<1>2. ASSUME UNCHANGED vars PROVE BudgetsKnown' /\ AttemptsBounded'
  BY <1>2 DEF vars, BudgetsKnown, AttemptsBounded
<1>3. ASSUME UNCHANGED opts PROVE BudgetsKnown'
  BY <1>3 DEF BudgetsKnown
<1>4. ASSUME NEW c \in Client, NEW r, Return(c, r), UNCHANGED opts
      PROVE  BudgetsKnown' /\ AttemptsBounded'
  BY <1>3, <1>4, ReturnBounded
<1>5. ASSUME NEW c \in Client, Query(c) \/ Connect(c)
      PROVE  BudgetsKnown' /\ AttemptsBounded'
  BY <1>3, <1>5 DEF Query, Connect, AttemptsBounded, QueryInv, TypeOK
<1>6. ASSUME NEW c \in Client, Attempt(c)
      PROVE  BudgetsKnown' /\ AttemptsBounded'
  <2>1. opts[handle[c]].MaxRetries \in Budgets
    BY <1>6 DEF Attempt, Ask, QueryInv, TypeOK, Asking, BudgetsKnown
  <2> QED
    BY <1>3, <1>6, <2>1
       DEF Attempt, Ask, MoreAttempts, AttemptsBounded, QueryInv, TypeOK
<1>8. ASSUME NEW c \in Client, NEW a, pc[c] = "wait", Unpack(c, a)
      PROVE  BudgetsKnown' /\ AttemptsBounded'
  BY <1>3, <1>8 DEF Unpack, Forget, AttemptsBounded, QueryInv, TypeOK
<1>9. ASSUME NEW c \in Client, UnpackAny(c)
      PROVE  BudgetsKnown' /\ AttemptsBounded'
  BY <1>3, <1>9 DEF UnpackAny, AttemptsBounded
<1>7. ASSUME NEW c \in Client, NEW a, pc[c] = "wait", Retry(c, a)
      PROVE  BudgetsKnown' /\ AttemptsBounded'
  <2>1. Budgets \subseteq Int
    BY DEF Budgets, Settings
  <2> QED
    BY <1>3, <1>7, <2>1 DEF Retry, Retryable, AttemptsBounded, QueryInv, TypeOK
<1> QED
  BY <1>1, <1>2, <1>4, <1>5, <1>6, <1>7, <1>8, <1>9
     DEF Next, QueryNil, ConnectFails, Answer, Finish, Step, Exhausted, TimeOut,
         UnpackFails, Unpacked

(***************************************************************************)
(* A query is never tried more often than one of the limits it was given,  *)
(* whoever changes the options it shares while it runs (query.go:26).      *)
(***************************************************************************)
THEOREM AttemptsBoundedHolds == Spec => []AttemptsBounded
<1>1. Init => BudgetsKnown /\ AttemptsBounded
  BY DEF Init, BudgetsKnown, Budgets, AttemptsBounded
<1>2. QueryInv /\ BudgetsKnown /\ AttemptsBounded /\ [Next]_vars =>
        BudgetsKnown' /\ AttemptsBounded'
  BY BudgetStep
<1> QED
  BY <1>1, <1>2, QueryInvariance, PTL DEF Spec

(***************************************************************************)
(* "reached max retry limit" means that the whole budget was spent on      *)
(* errors worth another attempt (query.go:25-49).                          *)
(***************************************************************************)
THEOREM ExhaustedMeansRetriedHolds == Spec => ExhaustedMeansRetried
<1> DEFINE Retried(c) ==
      LET limit == opts[handle[c]].MaxRetries IN
        /\ tries[c] = IF limit < 0 THEN 0 ELSE limit
        /\ errors[c] \subseteq {"eof", "html"}
<1>1. ASSUME QueryInv, [Next]_vars, NEW c \in Client \ touched,
             pc[c] = "loop" /\ result'[c].outcome = "exhausted"
      PROVE  Retried(c)
  <2> USE DEF QueryInv, TypeOK, Running, Asking
  <2>1. Exhausted(c)
    <3>1. result[c].outcome = "none"
      BY <1>1 DEF NoResult
    <3>2. ASSUME NEW d \in Client \ {c},
                 \/ With(d) \/ QueryNil(d) \/ Query(d) \/ ConnectFails(d)
                 \/ Answer(d) \/ Step(d)
          PROVE  result'[c] = result[c]
      BY <1>1, <3>2, OthersLeaveResult
    <3>3. With(c) => result'[c] = result[c]
      BY DEF With, Change
    <3>4. UNCHANGED vars => result'[c] = result[c]
      BY DEF vars
    <3>5. /\ ~QueryNil(c) /\ ~Query(c) /\ ~ConnectFails(c) /\ ~Connect(c)
          /\ ~Answer(c) /\ ~TimeOut(c)
          /\ ~UnpackAny(c) /\ ~UnpackFails(c) /\ ~Unpacked(c)
      BY <1>1 DEF QueryNil, Query, ConnectFails, Connect, Answer, TimeOut,
         UnpackAny, UnpackFails, Unpacked, AtItem
    <3>6. Attempt(c) => result'[c] = result[c]
      BY DEF Attempt, Ask
    <3> QED
      BY <1>1, <3>1, <3>2, <3>3, <3>4, <3>5, <3>6 DEF Next, Step
  <2>2. tries[c] <= IF opts[handle[c]].MaxRetries < 0 THEN 0
                    ELSE opts[handle[c]].MaxRetries
    BY <1>1 DEF OneSetOfOptions
  <2>3. opts[handle[c]].MaxRetries \in Int /\ tries[c] \in Nat
    BY <1>1 DEF Settings
  <2>4. ~(tries[c] < opts[handle[c]].MaxRetries)
    BY <2>1 DEF Exhausted, MoreAttempts
  <2>5. errors[c] \subseteq {"eof", "html"}
    BY <1>1
  <2> QED
    BY <2>2, <2>3, <2>4, <2>5
<1>2. QueryInv /\ [Next]_vars =>
        [\A c \in Client \ touched :
           (pc[c] = "loop" /\ result'[c].outcome = "exhausted") =>
             Retried(c)]_vars
  BY <1>1
<1> QED
  BY <1>2, QueryInvariance, PTL DEF Spec, ExhaustedMeansRetried
=============================================================================
