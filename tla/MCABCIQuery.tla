---------------------------- MODULE MCABCIQuery ----------------------------
(***************************************************************************)
(* Instances of ABCIQuery for TLC.  The default of 60 attempts is cut to   *)
(* two, heights are 0 (the latest) and one other, and a timeout is a whole *)
(* number of seconds or none.                                              *)
(***************************************************************************)
EXTENDS ABCIQuery

CONSTANT p1

TwoAttempts ==
  [Height |-> 0, MaxRetries |-> 2, Timeout |-> 15000, Page |-> p1]

NoneOrThree == {-1, 0, 3}

\* A raw response, a single message, a list of items to decode: the responses
\* of the other shapes are among theirs.
SomeEndpoints == {"QueryKey", "Node", "Accounts"}

GRPCEndpoints == AllEndpoints \ DOMAIN StoreEndpoints
=============================================================================
