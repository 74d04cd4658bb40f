------------------------------ MODULE WmiAccess ------------------------------
(***************************************************************************)
(* WmiAccess: COM, one cached connection to a namespace of the WMI service, *)
(* and calls that run over it, one at a time under m_mutex.  Every call of  *)
(* an interface may fail, and between any two of them the WMI service may   *)
(* be restarted: the proxies of the old one are dead, the new one knows     *)
(* nothing of them.                                                         *)
(*                                                                         *)
(* Objects are counted, not told apart; the properties of an object are    *)
(* copied locally and released with it, in the step that receives it.      *)
(***************************************************************************)
EXTENDS Naturals

CONSTANTS Namespaces,    \* WMI namespaces
          MaxRows,       \* bound: objects a query finds
          MaxRestarts    \* bound: restarts of the WMI service

\* The empty name stands for no namespace.
ASSUME NamespacesAssumption == "" \notin Namespaces
ASSUME WmiBoundsAssumption  == {MaxRows, MaxRestarts} \subseteq Nat

VARIABLES
  comInitialized, isInitialized,
  svc, currentNamespace,   \* m_pSvc: the proxy it points to; m_currentNamespace
  wmiPc, wmiCall,          \* the call in progress
  rows, left,              \* objects in results; objects still to come
  wmiAnswer,               \* what the last call returned
  restarts,                \* of the WMI service
  (* ghost *)
  held                     \* references held, per interface of COM and WMI

wmiVars == <<comInitialized, isInitialized, svc, currentNamespace, wmiPc, wmiCall,
             rows, left, wmiAnswer, restarts, held>>

NoSvc == [ns |-> "", made |-> 0, secured |-> FALSE]
NoCall == [op |-> "none", ns |-> ""]

Fields == {"com", "locator", "services"}       \* kept from call to call
Locals == {"enum", "class", "in", "out", "instance"}
Interfaces == Fields \cup Locals

WmiInit ==
  /\ comInitialized = FALSE /\ isInitialized = FALSE
  /\ svc = NoSvc /\ currentNamespace = ""
  /\ wmiPc = "new" /\ wmiCall = NoCall /\ rows = 0 /\ left = 0
  /\ wmiAnswer = [op |-> "none", ok |-> TRUE, rows |-> 0]
  /\ restarts = 0
  /\ held = [i \in Interfaces |-> 0]

-----------------------------------------------------------------------------
(* References and returns.  An operator named ..Fault is a plausible bug in the *)
(* one that follows it; no specification uses it.                               *)

Acquired(S) == [i \in DOMAIN held |-> held[i] + (IF i \in S THEN 1 ELSE 0)]

\* Release() of the interfaces of S, and of those alone.
ReleasedRefs(S) == [i \in DOMAIN held |-> held[i] - (IF i \in S THEN 1 ELSE 0)]

Alive == svc # NoSvc /\ svc.made = restarts

\* The call returns.
Returns(ok) ==
  /\ wmiPc' = "idle" /\ wmiCall' = NoCall /\ rows' = 0 /\ left' = 0
  /\ wmiAnswer' = [op |-> wmiCall.op, ok |-> ok, rows |-> rows]

InitVars == <<comInitialized, isInitialized>>
ConnVars == <<svc, currentNamespace>>

-----------------------------------------------------------------------------
(* initialize and deinitialize *)

\* What initialize() holds when it returns (the fault: the failure of
\* CoCreateInstance leaves COM initialised).
InitHeldFault(com, sec, create) ==
  [i \in DOMAIN held |-> CASE i = "com" -> IF com = "ok" /\ sec THEN 1 ELSE 0
                           [] i = "locator" -> IF com # "failed" /\ sec /\ create THEN 1 ELSE 0
                           [] OTHER -> 0]
InitHeld(com, sec, create) ==
  [i \in DOMAIN held |-> CASE i = "com" -> IF com = "ok" /\ sec /\ create THEN 1 ELSE 0
                           [] i = "locator" -> IF com # "failed" /\ sec /\ create THEN 1 ELSE 0
                           [] OTHER -> 0]

\* CoInitializeEx (which may find another mode: no uninitialising then),
\* CoInitializeSecurity, CoCreateInstance; a failure uninitialises COM.
Initialize(com, sec, create) ==
  /\ wmiPc = "new" /\ wmiPc' = "idle"
  /\ isInitialized' = (com # "failed" /\ sec /\ create)
  /\ comInitialized' = (com = "ok" /\ sec /\ create)
  /\ held' = InitHeld(com, sec, create)
  /\ UNCHANGED <<ConnVars, wmiCall, rows, left, wmiAnswer, restarts>>

Deinitialize ==
  /\ wmiPc = "idle" /\ wmiPc' = "closed"
  /\ isInitialized' = FALSE /\ comInitialized' = FALSE
  /\ svc' = NoSvc /\ currentNamespace' = ""
  /\ held' = ReleasedRefs((IF svc # NoSvc THEN {"services"} ELSE {})
                     \cup (IF isInitialized THEN {"locator"} ELSE {})
                     \cup (IF comInitialized THEN {"com"} ELSE {}))
  /\ UNCHANGED <<wmiCall, rows, left, wmiAnswer, restarts>>

-----------------------------------------------------------------------------
(* connectServer *)

First(op) == IF op = "query" THEN "execQuery" ELSE "getObject"

\* The connection there is serves the namespace (the fault: any other, too).
ReusableFault(ns) == svc # NoSvc
Reusable(ns) == svc # NoSvc /\ currentNamespace = ns

\* query and execMethod begin: the connection there is, or, after
\* disconnectServer, a new one.
Call(op, ns) ==
  /\ wmiPc = "idle"
  /\ IF ~isInitialized
     THEN /\ wmiAnswer' = [op |-> op, ok |-> FALSE, rows |-> 0]
          /\ UNCHANGED <<ConnVars, wmiPc, wmiCall, held>>
     ELSE /\ wmiCall' = [op |-> op, ns |-> ns]
          /\ UNCHANGED wmiAnswer
          /\ IF Reusable(ns)
             THEN wmiPc' = First(op) /\ UNCHANGED <<ConnVars, held>>
             ELSE /\ wmiPc' = "connect"
                  /\ svc' = NoSvc /\ currentNamespace' = ""
                  /\ held' = ReleasedRefs(IF svc # NoSvc THEN {"services"} ELSE {})
  /\ UNCHANGED <<InitVars, rows, left, restarts>>

ConnectServer(ok) ==
  /\ wmiPc = "connect"
  /\ IF ok THEN /\ svc' = [ns |-> wmiCall.ns, made |-> restarts, secured |-> FALSE]
                /\ held' = Acquired({"services"})
                /\ wmiPc' = "blanket"
                /\ UNCHANGED <<wmiCall, rows, left, wmiAnswer>>
           ELSE Returns(FALSE) /\ UNCHANGED <<svc, held>>
  /\ UNCHANGED <<InitVars, currentNamespace, restarts>>

\* CoSetProxyBlanket; without it the proxy is given up, and m_pSvc with it.
SetProxyBlanket(ok) ==
  /\ wmiPc = "blanket"
  /\ IF ok THEN /\ svc' = [svc EXCEPT !.secured = TRUE]
                /\ currentNamespace' = wmiCall.ns
                /\ wmiPc' = First(wmiCall.op)
                /\ UNCHANGED <<wmiCall, rows, left, wmiAnswer, held>>
           ELSE /\ Returns(FALSE)
                /\ svc' = NoSvc /\ held' = ReleasedRefs({"services"})
                /\ UNCHANGED currentNamespace
  /\ UNCHANGED <<InitVars, restarts>>

-----------------------------------------------------------------------------
(* query *)

\* ExecQuery returns an enumerator, or fails, as every call of a dead proxy
\* does; the connection is kept for the next call.
ExecQuery(ok) ==
  /\ wmiPc = "execQuery" /\ (ok => Alive)
  /\ IF ok THEN /\ wmiPc' = "next" /\ left' \in 0..MaxRows
                /\ held' = Acquired({"enum"})
                /\ UNCHANGED <<wmiCall, rows, wmiAnswer>>
           ELSE Returns(FALSE) /\ UNCHANGED held
  /\ UNCHANGED <<InitVars, ConnVars, restarts>>

\* An object gives a row unless none of its properties is asked for.
NextObject ==
  /\ wmiPc = "next" /\ left > 0 /\ Alive
  /\ left' = left - 1 /\ rows' \in {rows, rows + 1}
  /\ UNCHANGED <<InitVars, ConnVars, wmiPc, wmiCall, wmiAnswer, restarts, held>>

\* Next returns no object: at the end, or because it failed, which query()
\* does not tell from the end.
NoMoreObjects(end) ==
  /\ wmiPc = "next" /\ (end => left = 0 /\ Alive)
  /\ Returns(TRUE)
  /\ held' = ReleasedRefs({"enum"})
  /\ UNCHANGED <<InitVars, ConnVars, restarts>>

-----------------------------------------------------------------------------
(* execMethod *)

GetObject(ok) ==
  /\ wmiPc = "getObject" /\ (ok => Alive)
  /\ IF ok THEN /\ wmiPc' = "getMethod" /\ held' = Acquired({"class"})
                /\ UNCHANGED <<wmiCall, rows, left, wmiAnswer>>
           ELSE Returns(FALSE) /\ UNCHANGED held
  /\ UNCHANGED <<InitVars, ConnVars, restarts>>

\* GetMethod gives the definitions of parameters the method has.
GetMethod(ok, defs) ==
  /\ wmiPc = "getMethod"
  /\ IF ok THEN /\ held' = Acquired(defs)
                /\ wmiPc' = IF "in" \in defs THEN "spawn" ELSE "execMethod"
                /\ UNCHANGED <<wmiCall, rows, left, wmiAnswer>>
           ELSE Returns(FALSE) /\ held' = ReleasedRefs({"class"})
  /\ UNCHANGED <<InitVars, ConnVars, restarts>>

MethodRefs == {i \in {"class", "in", "out", "instance"} : held[i] > 0}

\* SpawnInstance and the Puts; a parameter that cannot be put is left out.
SpawnInstance(ok) ==
  /\ wmiPc = "spawn"
  /\ IF ok THEN /\ wmiPc' = "execMethod" /\ held' = Acquired({"instance"})
                /\ UNCHANGED <<wmiCall, rows, left, wmiAnswer>>
           ELSE Returns(FALSE) /\ held' = ReleasedRefs(MethodRefs)
  /\ UNCHANGED <<InitVars, ConnVars, restarts>>

\* ExecMethod, the release of everything that led to it, and the copy of its
\* output parameters.
ExecMethod(ok) ==
  /\ wmiPc = "execMethod" /\ (ok => Alive)
  /\ Returns(ok)
  /\ held' = ReleasedRefs(MethodRefs)
  /\ UNCHANGED <<InitVars, ConnVars, restarts>>

-----------------------------------------------------------------------------
\* The WMI service is restarted (external).
RestartWmi ==
  /\ restarts < MaxRestarts /\ restarts' = restarts + 1
  /\ UNCHANGED <<InitVars, ConnVars, wmiPc, wmiCall, rows, left, wmiAnswer, held>>

WmiStep ==
  \/ \E com \in {"ok", "changedMode", "failed"}, sec, create \in BOOLEAN :
       Initialize(com, sec, create)
  \/ \E ok \in BOOLEAN : \/ ConnectServer(ok) \/ SetProxyBlanket(ok)
                         \/ ExecQuery(ok)     \/ NoMoreObjects(ok)
                         \/ GetObject(ok)     \/ SpawnInstance(ok) \/ ExecMethod(ok)
  \/ \E ok \in BOOLEAN, defs \in SUBSET {"in", "out"} : GetMethod(ok, defs)
  \/ NextObject \/ RestartWmi

-----------------------------------------------------------------------------
(* Properties *)

Proxies == [ns : Namespaces \cup {""}, made : 0..MaxRestarts, secured : BOOLEAN]
Calls   == [op : {"none", "query", "method"}, ns : Namespaces \cup {""}]
Answers == [op : {"none", "query", "method"}, ok : BOOLEAN, rows : 0..MaxRows]

WmiTypeOK ==
  /\ {comInitialized, isInitialized} \subseteq BOOLEAN
  /\ svc \in Proxies
  /\ currentNamespace \in Namespaces \cup {""}
  /\ wmiPc \in {"new", "idle", "closed", "connect", "blanket", "execQuery", "next",
                "getObject", "getMethod", "spawn", "execMethod"}
  /\ wmiCall \in Calls
  /\ {rows, left} \subseteq 0..MaxRows /\ restarts \in 0..MaxRestarts
  /\ wmiAnswer \in Answers
  /\ held \in [Interfaces -> {0, 1}]

\* Whatever fails, a call of WmiAccess leaves what it found: between calls the
\* references held are those of the fields, one each, and after the destructor
\* there is none.
WmiKeepsFields ==
  wmiPc \in {"idle", "closed"} =>
    \A i \in DOMAIN held :
      held[i] = IF \/ i = "com" /\ comInitialized
                   \/ i = "locator" /\ isInitialized
                   \/ i = "services" /\ svc # NoSvc THEN 1 ELSE 0

\* Every query and every method call goes to the namespace it names, through a
\* proxy whose security is set, whatever failed in the calls before it.
ProxyIsReady ==
  wmiPc \in {"execQuery", "getObject", "execMethod", "next"} =>
    svc.secured /\ svc.ns = wmiCall.ns
=============================================================================
