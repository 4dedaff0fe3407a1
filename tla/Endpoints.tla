----------------------------- MODULE Endpoints -----------------------------
(***************************************************************************)
(* The query methods of client/*.go.  All but two are one program: build a *)
(* request, send it with QueryGRPC, return what the response holds.  They  *)
(* differ in whether the request carries a page, whether the response      *)
(* holds one item or a list, and whether the items are Any values that     *)
(* UnpackAny still has to decode, one by one.                              *)
(***************************************************************************)
EXTENDS Sequences, SequencesExt

One == [page |-> FALSE, list |-> FALSE, any |-> FALSE, raw |-> FALSE]
List == [One EXCEPT !.page = TRUE, !.list = TRUE]
AnyOne == [One EXCEPT !.any = TRUE]
AnyList == [List EXCEPT !.any = TRUE]

\* QueryKey and QuerySubspace hand out the node's response as it is.
Raw == [One EXCEPT !.raw = TRUE]

StoreEndpoints == [QueryKey |-> Raw, QuerySubspace |-> Raw]

AuthEndpoints == [Account |-> AnyOne, Accounts |-> AnyList]

NodeEndpoints == [Node |-> One, Nodes |-> List, NodesForPlan |-> List]

PlanEndpoints == [Plan |-> One, Plans |-> List, PlansForProvider |-> List]

ProviderEndpoints == [Provider |-> One, Providers |-> List]

SessionEndpoints ==
  [Session                           |-> One,
   Sessions                          |-> List,
   SessionsForAccount                |-> List,
   SessionsForNode                   |-> List,
   SessionsForSubscription           |-> List,
   SessionsForSubscriptionAllocation |-> List]

SubscriptionEndpoints ==
  [Subscription            |-> AnyOne,
   Subscriptions           |-> AnyList,
   SubscriptionsForAccount |-> AnyList,
   SubscriptionsForNode    |-> AnyList,
   SubscriptionsForPlan    |-> AnyList]

AllocationEndpoints ==
  [SubscriptionAllocation        |-> One,
   SubscriptionAllocations       |-> List,
   SubscriptionPayout            |-> One,
   SubscriptionPayouts           |-> List,
   SubscriptionPayoutsForAccount |-> List,
   SubscriptionPayoutsForNode    |-> List]

Tables ==
  {StoreEndpoints, AuthEndpoints, NodeEndpoints, PlanEndpoints,
   ProviderEndpoints, SessionEndpoints, SubscriptionEndpoints,
   AllocationEndpoints}

AllEndpoints == UNION {DOMAIN table : table \in Tables}

Shape ==
  [e \in AllEndpoints |-> (CHOOSE table \in Tables : e \in DOMAIN table)[e]]

(***************************************************************************)
(* Responses.  Their items are told apart by their place; one is "foreign" *)
(* when it is an Any of a type that the registry of NewInterfaceRegistry   *)
(* does not have.  The node gives every Any in a list its type; the one    *)
(* item of Account or Subscription may be missing, which UnpackAny lets    *)
(* pass and leaves a nil result.                                           *)
(***************************************************************************)
Responses(e) ==
  {<<>>, <<"first">>}
    \cup (IF Shape[e].any THEN {<<"foreign">>} ELSE {})
    \cup (IF Shape[e].list THEN {<<"first", "second">>} ELSE {})
    \cup (IF Shape[e].any /\ Shape[e].list
          THEN {<<"first", "foreign">>, <<"foreign", "second">>} ELSE {})
=============================================================================
