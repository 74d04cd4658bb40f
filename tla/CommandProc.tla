----------------------------- MODULE CommandProc -----------------------------
(***************************************************************************)
(* CommandProc: one client request at a time is dispatched to a handler,   *)
(* which runs to its end, while what the handlers use changes on its own.  *)
(*                                                                         *)
(* The four families of handlers below share no variable, here or in the   *)
(* code, so that a behaviour of CommandProc is one of each, interleaved: a *)
(* behaviour of this specification has the requests of one family.         *)
(***************************************************************************)
EXTENDS WmiAccess, RegistryAccess, EcRequests, PowerControl

CONSTANTS DefaultNamespace,   \* ROOT\CIMV2
          MaxRequests         \* bound: requests served

ASSUME DefaultAssumption  == DefaultNamespace \in Namespaces
ASSUME RequestsAssumption == MaxRequests \in Nat

VARIABLES family,             \* of the requests
          served

vars == <<wmiVars, regVars, ecVars, powerVars, family, served>>

Init ==
  /\ WmiInit /\ RegInit /\ EcInit /\ PowerInit
  /\ family \in {"wmi", "registry", "ec", "power"} /\ served = 0

-----------------------------------------------------------------------------
(* processCommand *)

\* A request arrives; each begins when the one before it is answered.
Arrives(f) == family = f /\ served < MaxRequests /\ served' = served + 1
Works(f)   == family = f /\ UNCHANGED served

WmiOnly == UNCHANGED <<regVars, ecVars, powerVars, family>>
RegOnly == UNCHANGED <<wmiVars, ecVars, powerVars, family>>
EcOnly  == UNCHANGED <<wmiVars, regVars, powerVars, family>>
PowerOnly == UNCHANGED <<wmiVars, regVars, ecVars, family>>

\* handleWmiQuery; no request runs execMethod in this version, which any user of
\* WmiAccess may.
HandleWmi ==
  /\ Arrives("wmi") /\ WmiOnly
  /\ \E ns \in Namespaces \cup {""}, op \in {"query", "method"} :
       Call(op, IF ns = "" THEN DefaultNamespace ELSE ns)

\* handleRegistryRead, handleRegistryWrite and handleRegistryDelete.
RegCalls == [op : {"read"}, name : Names, type : Types, data : {0}]
       \cup [op : {"write"}, name : Names, type : Types, data : Lengths]
       \cup [op : {"delete"}, name : Names \cup {""}, type : {"SZ"}, data : {0}]

HandleRegistry == Arrives("registry") /\ RegOnly /\ \E c \in RegCalls : RegRequest(c)

HandleEc ==
  /\ Arrives("ec") /\ EcOnly
  /\ \E c \in EcCalls, tooLong \in BOOLEAN : EcRequest(c, tooLong)

HandlePower == Arrives("power") /\ PowerOnly /\ \E a \in Actions : PowerRequest(a)

\* The destructor deletes the EC manager, and then its members.
DestroyEc  == Works("ec") /\ EcOnly /\ ecPc = "idle" /\ CloseEc
DestroyWmi == Works("wmi") /\ WmiOnly /\ Deinitialize

Next ==
  \/ HandleWmi      \/ (Works("wmi") /\ WmiStep /\ WmiOnly) \/ DestroyWmi
  \/ HandleRegistry \/ (Works("registry") /\ RegStep /\ RegOnly)
  \/ HandleEc       \/ (Works("ec") /\ EcStep /\ EcOnly) \/ DestroyEc
  \/ HandlePower    \/ (Works("power") /\ PowerStep /\ PowerOnly)

Spec == Init /\ [][Next]_vars

-----------------------------------------------------------------------------
(* Properties *)

TypeOK == WmiTypeOK /\ RegTypeOK /\ EcTypeOK /\ PowerTypeOK /\ served \in 0..MaxRequests

\* Whichever call of a handler fails, nothing is left open when it returns: no
\* registry key, no token, no interface of WMI but the ones that are kept; and
\* none of these either once the service has destroyed CommandProc.
NothingLeaks ==
  /\ regPc = "idle" => hKeys = 0
  /\ powerPc \notin {"adjust"} => tokens = 0
  /\ WmiKeepsFields
  /\ wmiPc = "closed" => \A i \in DOMAIN held : held[i] = 0
=============================================================================
