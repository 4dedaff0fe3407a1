----------------------------- MODULE EnumsProofs -----------------------------
(***************************************************************************)
(* The two switches of each enumeration agree: a value survives the way    *)
(* through its name, and a name the way through its value.  What has no    *)
(* name becomes the unspecified value, and what has no value the empty     *)
(* name.                                                                   *)
(***************************************************************************)
EXTENDS Enums, TLAPS

\* The names are the ones that have values, and the other way round.
LEMMA TransportTables ==
  /\ DOMAIN TransportNames = 1 .. 8
  /\ \A t \in 1 .. 8 : /\ TransportNames[t] \in DOMAIN TransportValues
                       /\ TransportValues[TransportNames[t]] = t
  /\ \A v \in DOMAIN TransportValues :
       /\ TransportValues[v] \in 1 .. 8
       /\ TransportNames[TransportValues[v]] = v
<1>1. DOMAIN TransportNames = 1 .. 8
  BY DEF TransportNames
<1>2. \A t \in 1 .. 8 : /\ TransportNames[t] \in DOMAIN TransportValues
                        /\ TransportValues[TransportNames[t]] = t
  BY DEF TransportNames, TransportValues
<1>3. \A v \in DOMAIN TransportValues :
        /\ TransportValues[v] \in 1 .. 8
        /\ TransportNames[TransportValues[v]] = v
  BY DEF TransportNames, TransportValues
<1> QED
  BY <1>1, <1>2, <1>3

\* "" is the name of no transport.
LEMMA NoEmptyTransport == "" \notin DOMAIN TransportValues
BY DEF TransportValues

(***************************************************************************)
(* Every byte: the eight transports survive the way through their names,   *)
(* the other 248 become TransportUnspecified (transport.go:28 and 52).     *)
(***************************************************************************)
THEOREM TransportRoundTrip ==
  \A t \in Byte :
    NewTransportFromString(TransportString(t)) =
      IF t \in 1 .. 8 THEN t ELSE TransportUnspecified
BY TransportTables, NoEmptyTransport DEF NewTransportFromString, TransportString

(***************************************************************************)
(* Every string: the eight names survive the way through their values, any *)
(* other one, in whatever letters, becomes the empty name.                 *)
(***************************************************************************)
THEOREM TransportNameRoundTrip ==
  \A v \in STRING :
    TransportString(NewTransportFromString(v)) =
      IF v \in DOMAIN TransportValues THEN v ELSE ""
<1>1. TransportUnspecified \notin 1 .. 8
  BY DEF TransportUnspecified
<1> QED
  BY <1>1, TransportTables DEF NewTransportFromString, TransportString

(***************************************************************************)
(* The same of ServiceType (service.go:20 and 32), both ways.              *)
(***************************************************************************)
THEOREM ServiceTypeRoundTrip ==
  /\ \A s \in Byte :
       ServiceTypeFromString(ServiceTypeString(s)) =
         IF s \in 1 .. 2 THEN s ELSE ServiceTypeUnspecified
  /\ \A v \in STRING :
       ServiceTypeString(ServiceTypeFromString(v)) =
         IF v \in DOMAIN ServiceTypeValues THEN v ELSE ""
<1>1. /\ DOMAIN ServiceTypeNames = 1 .. 2
      /\ \A s \in 1 .. 2 : /\ ServiceTypeNames[s] \in DOMAIN ServiceTypeValues
                           /\ ServiceTypeValues[ServiceTypeNames[s]] = s
  BY DEF ServiceTypeNames, ServiceTypeValues
<1>2. \A v \in DOMAIN ServiceTypeValues :
        /\ ServiceTypeValues[v] \in 1 .. 2
        /\ ServiceTypeNames[ServiceTypeValues[v]] = v
  BY DEF ServiceTypeNames, ServiceTypeValues
<1>3. "" \notin DOMAIN ServiceTypeValues
  BY DEF ServiceTypeValues
<1>4. ServiceTypeUnspecified \notin 1 .. 2
  BY DEF ServiceTypeUnspecified
<1>5. ASSUME NEW s \in Byte
      PROVE  ServiceTypeFromString(ServiceTypeString(s)) =
               IF s \in 1 .. 2 THEN s ELSE ServiceTypeUnspecified
  BY <1>1, <1>3 DEF ServiceTypeFromString, ServiceTypeString
<1>6. ASSUME NEW v \in STRING
      PROVE  ServiceTypeString(ServiceTypeFromString(v)) =
               IF v \in DOMAIN ServiceTypeValues THEN v ELSE ""
  BY <1>1, <1>2, <1>4 DEF ServiceTypeFromString, ServiceTypeString
<1> QED
  BY <1>5, <1>6

(***************************************************************************)
(* The same of Proxy (proxy.go:21 and 55), both ways.                      *)
(***************************************************************************)
THEOREM ProxyRoundTrip ==
  /\ \A p \in Byte :
       ProxyFromString(String(p)) =
         IF p = ProxyVMess THEN p ELSE ProxyUnspecified
  /\ \A s \in STRING :
       String(ProxyFromString(s)) = IF s = "vmess" THEN s ELSE ""
<1>1. ProxyUnspecified # ProxyVMess
  BY DEF ProxyUnspecified, ProxyVMess
<1>2. \A p \in Byte : ProxyFromString(String(p)) =
                        IF p = ProxyVMess THEN p ELSE ProxyUnspecified
  BY <1>1 DEF ProxyFromString, String
<1>3. \A s \in STRING : String(ProxyFromString(s)) = IF s = "vmess" THEN s ELSE ""
  BY <1>1 DEF ProxyFromString, String
<1> QED
  BY <1>2, <1>3
=============================================================================
