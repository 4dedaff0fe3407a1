------------------------------- MODULE Enums -------------------------------
(***************************************************************************)
(* The other two byte enumerations of the SDK: Transport (v2ray/types/     *)
(* transport.go) and ServiceType (types/service.go).  Each has a switch    *)
(* from values to names and a second switch from names to values, kept     *)
(* apart by hand; here they are two tables.                                *)
(***************************************************************************)
EXTENDS Proxy

TransportUnspecified == 0

\* The names of TransportTCP, the value after it, and so on.
TransportNames ==
  <<"tcp", "mkcp", "websocket", "http", "domainsocket", "quic", "gun", "grpc">>

TransportString(t) ==
  IF t \in DOMAIN TransportNames THEN TransportNames[t] ELSE ""

TransportValues ==
  [tcp |-> 1, mkcp |-> 2, websocket |-> 3, http |-> 4, domainsocket |-> 5,
   quic |-> 6, gun |-> 7, grpc |-> 8]

NewTransportFromString(v) ==
  IF v \in DOMAIN TransportValues THEN TransportValues[v]
                                  ELSE TransportUnspecified

-----------------------------------------------------------------------------

ServiceTypeUnspecified == 0

ServiceTypeNames == <<"wireguard", "v2ray">>

ServiceTypeString(s) ==
  IF s \in DOMAIN ServiceTypeNames THEN ServiceTypeNames[s] ELSE ""

ServiceTypeValues == [wireguard |-> 1, v2ray |-> 2]

ServiceTypeFromString(v) ==
  IF v \in DOMAIN ServiceTypeValues THEN ServiceTypeValues[v]
                                    ELSE ServiceTypeUnspecified
=============================================================================
