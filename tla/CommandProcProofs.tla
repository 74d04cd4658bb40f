-------------------------- MODULE CommandProcProofs --------------------------
(***************************************************************************)
(* Proofs about CommandProc, for any number of requests of any kind,       *)
(* whatever fails, whenever the WMI service is restarted, and whatever     *)
(* other processes do to the registry: the types, that nothing leaks, and  *)
(* what the clients are told.  The families of handlers share no variable, *)
(* so each has an invariant of its own.                                     *)
(***************************************************************************)
EXTENDS CommandProc, TLAPS

-----------------------------------------------------------------------------
(* The invariants *)

\* A request has at most the one token, while it adjusts it.
PowerInv ==
  /\ PowerTypeOK
  /\ tokens = 1 <=> powerPc = "adjust"
  /\ ErrorIsOwn

\* A request has the key open from openKey on; clients are told what the key holds.
RegInv ==
  /\ RegTypeOK
  /\ hKeys = 1 <=> regPc \in {"read", "readData", "write", "delete"}
  /\ regPc \notin {"idle", "deleteKey"} => regCall.name \in Names
  /\ regPc \in {"read", "write", "delete"} => regCall.op = regPc
  /\ regPc = "readData" => regCall.op = "read"
  /\ regPc = "open" => regCall.op \in {"read", "write", "delete"}
  /\ regCall.op = "write" => regCall.data \in Lengths
  /\ expected = store
  /\ RegistryReadsBack

\* Which references each place of a call holds, ...
HeldInv ==
  /\ (held["com"] = 1 <=> comInitialized) /\ (held["locator"] = 1 <=> isInitialized)
  /\ held["services"] = 1 <=> svc # NoSvc
  /\ held["enum"] = 1 <=> wmiPc = "next"
  /\ held["class"] = 1 <=> wmiPc \in {"getMethod", "spawn", "execMethod"}
  /\ \A i \in {"in", "out"} : held[i] = 1 => wmiPc \in {"spawn", "execMethod"}
  /\ held["instance"] = 1 => wmiPc = "execMethod"
  /\ wmiPc \in {"new", "closed"} =>
       ~comInitialized /\ ~isInitialized /\ svc = NoSvc

\* ... and which connection: the one there is serves currentNamespace, and a call
\* that has one goes there.
ConnInv ==
  /\ wmiPc = "connect" => svc = NoSvc
  /\ wmiPc = "blanket" => svc # NoSvc /\ svc.ns = wmiCall.ns
  /\ wmiPc # "blanket" /\ svc # NoSvc => svc.secured /\ svc.ns = currentNamespace
  /\ wmiPc \in {"execQuery", "next", "getObject", "getMethod", "spawn", "execMethod"} =>
       svc # NoSvc /\ currentNamespace = wmiCall.ns
  /\ wmiPc \notin {"new", "idle", "closed"} => wmiCall.ns \in Namespaces
  /\ wmiPc # "next" => rows = 0 /\ left = 0
  /\ rows + left <= MaxRows

WmiInv == WmiTypeOK /\ HeldInv /\ ConnInv

\* What a cell may hold once the request in progress has returned, and what the
\* commands left behind may still write to it.
MayHold(s)  == possible[s] \cup Writes(Command(ecCall), s)
Harmless(c) == \A s \in Spaces : Writes(c, s) \subseteq MayHold(s)

Outcomes == [status : {"none", "SUCCESS", "ERROR"}, data : Bytes, behind : EcCmds \cup {NoEc}]

\* A command that succeeded is the last of the queue: what may come after it is
\* what the EC had in the background then, or an earlier attempt at it.
DoneInv ==
  ecPc = "wait" /\ ecDone # NotDone =>
    /\ emiQueue = <<>>
    /\ ecDone.status = "SUCCESS" =>
         /\ inHand = NoEc /\ slow \in {NoEc, ecDone.behind, Command(ecCall)}
         /\ ecCall.op \in WriteOps =>
              acpi[Command(ecCall).ns]
                \in Writes(ecDone.behind, Command(ecCall).ns) \cup {ecCall.data}
         /\ ecCall.op = "acpiRead" => ecDone.data \in possible[ecCall.ns]

QueueInv ==
  /\ emiQueue \in Seq(EcCmds)
  /\ ecPc = "wait" /\ ecDone = NotDone =>
       emiQueue # <<>> /\ emiQueue[Len(emiQueue)] = Command(ecCall)
  /\ ecPc # "wait" => ecDone = NotDone
  /\ ecDone \in Outcomes

CellsInv ==
  /\ \A s \in Spaces : acpi[s] \in MayHold(s)
  /\ Harmless(inHand) /\ Harmless(slow)
  /\ \A i \in DOMAIN emiQueue : Harmless(emiQueue[i])

EcInv == EcTypeOK /\ QueueInv /\ CellsInv /\ DoneInv /\ AcpiReadsBack

IInv == PowerInv /\ RegInv /\ WmiInv /\ EcInv /\ served \in 0..MaxRequests

\* What each family may do.
PowerNext == PowerStep \/ (\E a \in Actions : PowerRequest(a)) \/ UNCHANGED powerVars
WmiNext   == \/ WmiStep \/ Deinitialize \/ UNCHANGED wmiVars
             \/ \E op \in {"query", "method"}, ns \in Namespaces : Call(op, ns)
EcNext    == \/ EcStep \/ (ecPc = "idle" /\ CloseEc) \/ UNCHANGED ecVars
             \/ \E c \in EcCalls, tooLong \in BOOLEAN : EcRequest(c, tooLong)
RegNext   == RegStep \/ (\E c \in RegCalls : RegRequest(c)) \/ UNCHANGED regVars

-----------------------------------------------------------------------------
(* Power and display *)

\* A step of a power request keeps its type, its token and its own error.
LEMMA PowerStepInv ==
  ASSUME PowerInv, PowerNext
  PROVE  PowerInv'
<1> USE PowerBoundsAssumption DEF PowerInv, PowerTypeOK, ErrorIsOwn
<1>1. ASSUME NEW a \in Actions, PowerRequest(a) PROVE PowerInv'
  <2>1. powerPc' \in {"token", "available", "call"}
    BY <1>1 DEF PowerRequest
  <2>2. powerCount' \in 0..MaxPower
    BY <1>1 DEF PowerRequest
  <2> QED BY <1>1, <2>1, <2>2 DEF PowerRequest
<1>2. ASSUME NEW call \in {"token", "luid", "adjusted", "assigned", "available", "windows"},
             FailsAt(call), tokens' = 0, UNCHANGED <<action, powerCount>>
      PROVE  PowerInv'
  <2>1. lastError' = [request |-> powerCount, call |-> call] /\ powerCount \in 0..MaxPower
    BY <1>2 DEF FailsAt, Error
  <2>2. lastError' \in Errors
    BY <2>1 DEF Errors
  <2>3. powerAnswer'.error.request = powerAnswer'.request /\ powerAnswer'.request = powerCount
        /\ powerAnswer'.result = 1 /\ powerPc' = "idle"
    BY <1>2, <2>1 DEF FailsAt
  <2> QED BY <1>2, <2>1, <2>2, <2>3
<1>3. ASSUME NEW ok \in BOOLEAN, OpenToken(ok) PROVE PowerInv'
  <2>1. tokens = 0
    BY <1>3 DEF OpenToken
  <2>2. CASE ok
    BY <1>3, <2>1, <2>2 DEF OpenToken
  <2>3. CASE ~ok
    BY <1>2, <1>3, <2>1, <2>3 DEF OpenToken
  <2> QED BY <2>2, <2>3
<1>4. ASSUME NEW outcome \in {"luid", "adjusted", "assigned", "ok"}, AdjustToken(outcome)
      PROVE  PowerInv'
  <2>1. tokens' = 0
    BY <1>4 DEF AdjustToken, TokensLeft
  <2>2. CASE outcome = "ok"
    BY <1>4, <2>1, <2>2 DEF AdjustToken
  <2>3. CASE outcome # "ok"
    BY <1>2, <1>4, <2>1, <2>3 DEF AdjustToken
  <2> QED BY <2>2, <2>3
<1>5. ASSUME NEW ok \in BOOLEAN, HibernateAvailable(ok) PROVE PowerInv'
  <2>1. tokens = 0 /\ tokens' = 0
    BY <1>5 DEF HibernateAvailable
  <2>2. CASE ok
    BY <1>5, <2>1, <2>2 DEF HibernateAvailable
  <2>3. CASE ~ok
    BY <1>2, <1>5, <2>1, <2>3 DEF HibernateAvailable
  <2> QED BY <2>2, <2>3
<1>6. ASSUME NEW ok \in BOOLEAN, CallWindows(ok) PROVE PowerInv'
  <2>1. tokens = 0 /\ tokens' = 0 /\ UNCHANGED <<action, powerCount>>
    BY <1>6 DEF CallWindows
  <2>2. CASE action = "unknown"
    BY <1>6, <2>1, <2>2 DEF CallWindows
  <2>3. CASE action # "unknown" /\ ok
    BY <1>6, <2>1, <2>3 DEF CallWindows, Succeeds
  <2>4. CASE action # "unknown" /\ ~ok
    BY <1>2, <1>6, <2>1, <2>4 DEF CallWindows
  <2> QED BY <2>2, <2>3, <2>4
<1>7. CASE UNCHANGED powerVars
  BY <1>7 DEF powerVars
<1> QED BY <1>1, <1>3, <1>4, <1>5, <1>6, <1>7 DEF PowerNext, PowerStep

-----------------------------------------------------------------------------
(* Registry access *)

\* A step of a registry request keeps its type and its handle, and answers a
\* read with what the key holds.
LEMMA RegStepInv ==
  ASSUME RegInv, RegNext
  PROVE  RegInv'
<1> USE LengthsAssumption, RegBoundsAssumption
    DEF RegInv, RegTypeOK
<1>a. ASSUME UNCHANGED regAnswer PROVE RegistryReadsBack'
  BY <1>a DEF RegistryReadsBack
<1>b. ASSUME NEW ok, NEW v, NEW w, Answer(ok, v, w),
             keyExists' \in BOOLEAN, store' \in [Names -> Cells],
             foreign' = foreign, expected' = store', RegistryReadsBack'
      PROVE  RegInv'
  <2>1. NoReg \in Requests /\ NoReg.op = "none" /\ Absent \in Cells
    BY DEF NoReg, Requests, Types, Strings, Cells
  <2>2. /\ regPc' = "idle" /\ regCall' = NoReg /\ seen' = Absent /\ hKeys' = 0 /\ orphan' = FALSE
    BY <1>b DEF Answer, Closed
  <2>5. foreign' \in 0..MaxForeign /\ hKeys' \in 0..1
    BY <1>b, <2>2
  <2>6. regCall' \in Requests /\ seen' \in Cells /\ orphan' \in BOOLEAN
    BY <2>1, <2>2
  <2>7. keyExists' \in BOOLEAN /\ store' \in [Names -> Cells]
    BY <1>b
  <2>3. RegTypeOK'
    BY <2>2, <2>5, <2>6, <2>7
  <2>4. regPc' = "idle" /\ regCall'.op = "none" /\ hKeys' = 0
    BY <2>1, <2>2
  <2> HIDE DEF RegTypeOK
  <2> QED BY <1>b, <2>3, <2>4
<1>c. ASSUME Fails PROVE RegistryReadsBack'
  BY <1>c DEF Fails, Answer, RegistryReadsBack
<1>1. ASSUME NEW c \in RegCalls, RegRequest(c) PROVE RegInv'
  <2>1. /\ c \in Requests
        /\ c.op \in {"read", "write", "delete"}
        /\ c.name \in Names \/ (c.op = "delete" /\ c.name = "")
        /\ c.op = "write" => c.data \in Lengths
    BY DEF RegCalls, Requests, Types, Strings
  <2>2. RegistryReadsBack'
    BY <1>1 DEF RegRequest, NoRegAnswer, NoReg, RegistryReadsBack
  <2>3. /\ regPc = "idle" /\ regPc' \in {"deleteKey", "open"} /\ regCall' = c
        /\ regPc' = "open" => c.name \in Names
        /\ UNCHANGED <<keyExists, store, seen, foreign, orphan, hKeys, expected>>
    BY <1>1, <2>1 DEF RegRequest
  <2> QED BY <2>1, <2>2, <2>3
<1>2. ASSUME NEW ok \in BOOLEAN, OpenKey(ok) PROVE RegInv'
  <2>1. CASE ok
    <3>1. hKeys' = 1 /\ regPc' = regCall.op /\ keyExists' = TRUE
          /\ UNCHANGED <<regCall, seen, orphan, regAnswer, store, foreign, expected>>
      <4>1. hKeys = 0
        BY <1>2 DEF OpenKey
      <4> QED BY <1>2, <2>1, <4>1 DEF OpenKey
    <3>2. regPc = "open"
      BY <1>2 DEF OpenKey
    <3> QED BY <1>a, <3>1, <3>2
  <2>2. CASE ~ok
    BY <1>b, <1>c, <1>2, <2>2 DEF OpenKey, Fails
  <2> QED BY <2>1, <2>2
<1>3. CASE QueryValue
  <2>1. /\ regPc = "read" /\ UNCHANGED <<keyExists, store, foreign, expected>>
        /\ regCall.op = "read" /\ regCall.name \in Names
    BY <1>3 DEF QueryValue
  <2> DEFINE v == store[regCall.name]
  <2>2. CASE Fails
    BY <1>b, <1>c, <2>1, <2>2 DEF Fails
  <2>3. CASE Found(v) /\ Readable(regCall, v)
    <3>1. RegistryReadsBack'
      BY <2>1, <2>3 DEF RegistryReadsBack, Found, Answer, Readable, Retyped
    <3> QED BY <1>b, <2>1, <2>3, <3>1 DEF Found
  <2>4. CASE seen' = v /\ regPc' = "readData" /\ UNCHANGED <<regCall, hKeys, orphan, regAnswer>>
    BY <1>a, <2>1, <2>4
  <2> QED BY <1>3, <2>2, <2>3, <2>4 DEF QueryValue
<1>4. CASE QueryData
  <2>1. /\ regPc = "readData" /\ UNCHANGED <<keyExists, store, foreign, expected>>
        /\ regCall.op = "read" /\ regCall.name \in Names
    BY <1>4 DEF QueryData
  <2> DEFINE v == store[regCall.name]
             got == IF regCall.type = "BINARY" THEN [v EXCEPT !.data = seen.data] ELSE v
  <2>2. CASE Fails
    BY <1>b, <1>c, <2>1, <2>2 DEF Fails
  <2>3. CASE Answer(TRUE, got, Unknown)
    <3>1. RegistryReadsBack'
      BY <2>3 DEF RegistryReadsBack, Answer
    <3> QED BY <1>b, <2>1, <2>3, <3>1
  <2>4. CASE Found(got) /\ got = v /\ ~Retyped(regCall, v)
    <3>1. RegistryReadsBack'
      BY <2>1, <2>4 DEF RegistryReadsBack, Found, Answer, Retyped
    <3> QED BY <1>b, <2>1, <2>4, <3>1 DEF Found
  <2> QED BY <1>4, <2>2, <2>3, <2>4 DEF QueryData
<1>5. ASSUME NEW ok \in BOOLEAN, SetValue(ok) PROVE RegInv'
  <2>1. /\ Answer(ok, Absent, Unknown) /\ UNCHANGED <<keyExists, foreign>>
        /\ regCall.name \in Names /\ regCall.data \in Lengths
    BY <1>5 DEF SetValue
  <2> DEFINE v == [type |-> StoredType(regCall.type), data |-> regCall.data]
  <2>2. v \in Cells
    BY <2>1 DEF Cells, Values, Requests, StoredType, Types, Strings
  <2>3. expected' = store' /\ store' \in [Names -> Cells]
    BY <1>5, <2>2 DEF SetValue, Expect
  <2>4. RegistryReadsBack'
    BY <2>1 DEF Answer, RegistryReadsBack
  <2> QED BY <1>b, <2>1, <2>3, <2>4
<1>6. ASSUME NEW ok \in BOOLEAN, DeleteValue(ok) \/ DeleteKey(ok) PROVE RegInv'
  <2>1. /\ Answer(ok, Absent, Unknown) /\ UNCHANGED foreign /\ keyExists' \in BOOLEAN
        /\ expected' = store' /\ store' \in [Names -> Cells]
    <3>1. Empty \in [Names -> Cells] /\ Absent \in Cells
      BY DEF Empty, Cells
    <3>2. CASE DeleteValue(ok)
      <4>1. UNCHANGED <<store, expected>> \/
              (store' = [store EXCEPT ![regCall.name] = Absent] /\ Expect(regCall.name, Absent))
        BY <3>2 DEF DeleteValue
      <4>2. expected' = store' /\ store' \in [Names -> Cells]
        BY <3>1, <4>1 DEF Expect
      <4> QED BY <3>2, <4>2 DEF DeleteValue
    <3>3. CASE DeleteKey(ok)
      BY <3>1, <3>3 DEF DeleteKey
    <3> QED BY <1>6, <3>2, <3>3
  <2>2. RegistryReadsBack'
    BY <2>1 DEF Answer, RegistryReadsBack
  <2> QED BY <1>b, <2>1, <2>2
<1>7. CASE ForeignDelete \/ \E n \in Names, v \in Values \cup {Absent} : ForeignWrite(n, v)
  <2>1. /\ foreign' \in 0..MaxForeign
        /\ UNCHANGED <<regPc, regCall, seen, regAnswer, hKeys>>
    BY <1>7 DEF ForeignDelete, ForeignWrite, Foreign
  <2>2. CASE ForeignDelete
    <3>1. Empty \in [Names -> Cells]
      BY DEF Empty, Cells
    <3>2. keyExists' = FALSE /\ orphan' \in BOOLEAN /\ store' = Empty /\ expected' = Empty
      BY <2>2 DEF ForeignDelete
    <3> QED BY <1>a, <2>1, <3>1, <3>2
  <2>3. ASSUME NEW n \in Names, NEW v \in Values \cup {Absent}, ForeignWrite(n, v) PROVE RegInv'
    <3>1. v \in Cells
      BY DEF Cells
    <3>2. keyExists' = TRUE /\ orphan' = orphan /\ store' = [store EXCEPT ![n] = v]
          /\ expected' = [expected EXCEPT ![n] = v]
      BY <2>3 DEF ForeignWrite, Expect
    <3>3. expected' = store' /\ store' \in [Names -> Cells]
      BY <3>1, <3>2
    <3> QED BY <1>a, <2>1, <3>2, <3>3
  <2> QED BY <1>7, <2>2, <2>3
<1>8. CASE UNCHANGED regVars
  BY <1>a, <1>8 DEF regVars
<1> QED BY <1>1, <1>2, <1>3, <1>4, <1>5, <1>6, <1>7, <1>8 DEF RegNext, RegStep

-----------------------------------------------------------------------------
(* WMI access *)

\* The interfaces, by name.
LEMMA InterfaceNames ==
  Interfaces = {"com", "locator", "services", "enum", "class", "in", "out", "instance"}
BY DEF Interfaces, Fields, Locals

\* References that were not held are acquired once.
LEMMA AcquiredRefs ==
  ASSUME held \in [Interfaces -> {0, 1}], NEW S, \A i \in S \cap Interfaces : held[i] = 0
  PROVE  /\ Acquired(S) \in [Interfaces -> {0, 1}]
         /\ \A i \in Interfaces : Acquired(S)[i] = 1 <=> held[i] = 1 \/ i \in S
<1>1. \A i \in Interfaces : Acquired(S)[i] = held[i] + (IF i \in S THEN 1 ELSE 0)
  BY DEF Acquired
<1>2. \A i \in Interfaces : held[i] \in {0, 1}
  OBVIOUS
<1>3. \A i \in Interfaces : Acquired(S)[i] = 1 <=> held[i] = 1 \/ i \in S
  BY <1>1, <1>2
<1>6. \A i \in Interfaces : Acquired(S)[i] \in {0, 1}
  BY <1>1, <1>2
<1>4. Acquired(S) = [i \in Interfaces |-> Acquired(S)[i]]
  <2>1. DOMAIN held = Interfaces
    OBVIOUS
  <2> QED BY <2>1 DEF Acquired
<1>5. Acquired(S) \in [Interfaces -> {0, 1}]
  <2> DEFINE f == Acquired(S)
  <2>1. f = [i \in Interfaces |-> f[i]]
    BY <1>4
  <2>2. \A i \in Interfaces : f[i] \in {0, 1}
    BY <1>6
  <2> HIDE DEF f
  <2>3. f \in [Interfaces -> {0, 1}]
    BY <2>1, <2>2
  <2> QED BY <2>3 DEF f
<1> QED BY <1>3, <1>5

\* References that were held are released, and the others stay.
LEMMA ReleasedRefsLeft ==
  ASSUME held \in [Interfaces -> {0, 1}], NEW S, \A i \in S \cap Interfaces : held[i] = 1
  PROVE  /\ ReleasedRefs(S) \in [Interfaces -> {0, 1}]
         /\ \A i \in Interfaces : ReleasedRefs(S)[i] = 1 <=> held[i] = 1 /\ i \notin S
<1>1. \A i \in Interfaces : ReleasedRefs(S)[i] = held[i] - (IF i \in S THEN 1 ELSE 0)
  BY DEF ReleasedRefs
<1>2. \A i \in Interfaces : held[i] \in {0, 1}
  OBVIOUS
<1>3. \A i \in Interfaces : ReleasedRefs(S)[i] = 1 <=> held[i] = 1 /\ i \notin S
  BY <1>1, <1>2
<1>6. \A i \in Interfaces : ReleasedRefs(S)[i] \in {0, 1}
  BY <1>1, <1>2
<1>4. ReleasedRefs(S) = [i \in Interfaces |-> ReleasedRefs(S)[i]]
  <2>1. DOMAIN held = Interfaces
    OBVIOUS
  <2> QED BY <2>1 DEF ReleasedRefs
<1>5. ReleasedRefs(S) \in [Interfaces -> {0, 1}]
  <2> DEFINE f == ReleasedRefs(S)
  <2>1. f = [i \in Interfaces |-> f[i]]
    BY <1>4
  <2>2. \A i \in Interfaces : f[i] \in {0, 1}
    BY <1>6
  <2> HIDE DEF f
  <2>3. f \in [Interfaces -> {0, 1}]
    BY <2>1, <2>2
  <2> QED BY <2>3 DEF f
<1> QED BY <1>3, <1>5

\* A call that returns forgets what it asked for, and tells what it counted.
LEMMA ReturnsEffect ==
  ASSUME WmiTypeOK, NEW ok \in BOOLEAN, Returns(ok)
  PROVE  wmiPc' = "idle" /\ wmiCall' \in Calls /\ wmiAnswer' \in Answers /\ rows' = 0 /\ left' = 0
<1>1. wmiCall.op \in {"none", "query", "method"} /\ rows \in 0..MaxRows
  BY DEF WmiTypeOK, Calls
<1>2. [op |-> wmiCall.op, ok |-> ok, rows |-> rows] \in Answers
  BY <1>1 DEF Answers
<1>3. NoCall \in Calls
  BY DEF NoCall, Calls
<1> QED BY <1>2, <1>3 DEF Returns

\* initialize, deinitialize and the start of a call.
LEMMA WmiOpenStep ==
  ASSUME WmiInv,
         \/ \E com \in {"ok", "changedMode", "failed"}, sec, create \in BOOLEAN :
              Initialize(com, sec, create)
         \/ Deinitialize
         \/ \E op \in {"query", "method"}, ns \in Namespaces : Call(op, ns)
  PROVE  WmiInv'
<1>b. MaxRows \in Nat /\ MaxRestarts \in Nat
  BY WmiBoundsAssumption
<1>z. 0 \in 0..MaxRows
  BY <1>b
<1>u. 0 # 1
  OBVIOUS
<1>n. NoSvc \in Proxies
  BY <1>b DEF NoSvc, Proxies
<1> USE NamespacesAssumption
    DEF WmiInv, WmiTypeOK, HeldInv, ConnInv
<1>0. NoSvc \in Proxies /\ 0 \in 0..MaxRows
  BY <1>n, <1>z
<1>1. ASSUME NEW com \in {"ok", "changedMode", "failed"},
             NEW sec \in BOOLEAN, NEW create \in BOOLEAN, Initialize(com, sec, create)
      PROVE  WmiInv'
  <2>1. /\ held'["com"] = 1 <=> comInitialized'
        /\ held'["locator"] = 1 <=> isInitialized'
        /\ \A i \in Interfaces \ {"com", "locator"} : held'[i] = 0
        /\ held' \in [Interfaces -> {0, 1}]
        /\ comInitialized' \in BOOLEAN /\ isInitialized' \in BOOLEAN
    BY <1>1, InterfaceNames DEF Initialize, InitHeld
  <2>2. /\ wmiPc = "new" /\ wmiPc' = "idle"
        /\ UNCHANGED <<svc, currentNamespace, wmiCall, rows, left, wmiAnswer, restarts>>
    BY <1>1 DEF Initialize, ConnVars
  <2>3. WmiTypeOK'
    BY <2>1, <2>2
  <2>4. /\ svc = NoSvc /\ held'["services"] = 0 /\ held'["enum"] = 0 /\ held'["class"] = 0
        /\ held'["in"] = 0 /\ held'["out"] = 0 /\ held'["instance"] = 0
    BY <2>1, <2>2, InterfaceNames
  <2>5. HeldInv'
    <3>1. svc' = NoSvc /\ wmiPc' = "idle"
      BY <2>2, <2>4
    <3> HIDE DEF WmiInv, WmiTypeOK, ConnInv, HeldInv
    <3>2. (held'["com"] = 1 <=> comInitialized') /\ (held'["locator"] = 1 <=> isInitialized')
      BY <2>1
    <3>3. /\ held'["services"] # 1 /\ held'["enum"] # 1 /\ held'["class"] # 1
          /\ held'["in"] # 1 /\ held'["out"] # 1 /\ held'["instance"] # 1
      BY <2>4, <1>u
    <3>4. \A i \in {"in", "out"} : held'[i] # 1
      BY <3>3
    <3> QED BY <3>1, <3>2, <3>3, <3>4 DEF HeldInv
  <2>6. ConnInv'
    BY <2>2, <2>4
  <2> QED BY <2>3, <2>5, <2>6
<1>2. CASE Deinitialize
  <2> DEFINE S == (IF svc # NoSvc THEN {"services"} ELSE {})
                     \cup (IF isInitialized THEN {"locator"} ELSE {})
                     \cup (IF comInitialized THEN {"com"} ELSE {})
  <2>1. /\ wmiPc = "idle" /\ wmiPc' = "closed" /\ ~isInitialized' /\ ~comInitialized'
        /\ isInitialized' \in BOOLEAN /\ comInitialized' \in BOOLEAN
        /\ svc' = NoSvc /\ currentNamespace' = "" /\ held' = ReleasedRefs(S)
        /\ UNCHANGED <<wmiCall, rows, left, wmiAnswer, restarts>>
    BY <1>2 DEF Deinitialize
  <2>2. \A i \in S \cap Interfaces : held[i] = 1
    OBVIOUS
  <2> HIDE DEF S
  <2>3. /\ held' \in [Interfaces -> {0, 1}]
        /\ \A i \in Interfaces : held'[i] = 1 <=> held[i] = 1 /\ i \notin S
    BY <2>1, <2>2, ReleasedRefsLeft
  <2>4. \A i \in Interfaces : held'[i] # 1
    <3>1. /\ held["com"] = 1 => "com" \in S
          /\ held["locator"] = 1 => "locator" \in S
          /\ held["services"] = 1 => "services" \in S
      BY DEF S
    <3>2. \A i \in {"enum", "class", "in", "out", "instance"} : held[i] # 1
      BY <2>1
    <3> QED BY <2>3, <3>1, <3>2, InterfaceNames
  <2> QED BY <1>0, <2>1, <2>3, <2>4, InterfaceNames
<1>3. ASSUME NEW op \in {"query", "method"}, NEW ns \in Namespaces, Call(op, ns)
      PROVE  WmiInv'
  <2>1. /\ wmiPc = "idle"
        /\ UNCHANGED <<comInitialized, isInitialized, rows, left, restarts>>
        /\ [op |-> op, ns |-> ns] \in Calls /\ [op |-> op, ok |-> FALSE, rows |-> 0] \in Answers
    BY <1>0, <1>3 DEF Call, InitVars, Calls, Answers
  <2>2. CASE ~isInitialized
    <3>1. /\ wmiAnswer' = [op |-> op, ok |-> FALSE, rows |-> 0]
          /\ UNCHANGED <<svc, currentNamespace, wmiPc, wmiCall, held>>
      BY <1>3, <2>2 DEF Call, ConnVars
    <3> QED BY <2>1, <3>1
  <2>3. CASE isInitialized /\ Reusable(ns)
    <3>1. /\ wmiCall' = [op |-> op, ns |-> ns] /\ wmiCall'.ns = ns
          /\ wmiPc' \in {"execQuery", "getObject"}
          /\ UNCHANGED <<svc, currentNamespace, wmiAnswer, held>>
      <4>1. wmiCall' = [op |-> op, ns |-> ns] /\ wmiPc' = First(op)
            /\ UNCHANGED <<svc, currentNamespace, wmiAnswer, held>>
        BY <1>3, <2>3 DEF Call, ConnVars
      <4> QED BY <4>1 DEF First
    <3> QED BY <2>1, <2>3, <3>1 DEF Reusable
  <2>4. CASE isInitialized /\ ~Reusable(ns)
    <3> DEFINE S == IF svc # NoSvc THEN {"services"} ELSE {}
    <3>1. /\ wmiCall' = [op |-> op, ns |-> ns] /\ wmiCall'.ns = ns
          /\ wmiPc' = "connect" /\ svc' = NoSvc /\ currentNamespace' = ""
          /\ held' = ReleasedRefs(S) /\ UNCHANGED wmiAnswer
      <4>1. wmiCall' = [op |-> op, ns |-> ns] /\ UNCHANGED wmiAnswer
        BY <1>3, <2>4 DEF Call
      <4> QED BY <1>3, <2>4, <4>1 DEF Call
    <3>2. \A i \in S \cap Interfaces : held[i] = 1
      OBVIOUS
    <3> HIDE DEF S
    <3>3. /\ held' \in [Interfaces -> {0, 1}]
          /\ \A i \in Interfaces : held'[i] = 1 <=> held[i] = 1 /\ i \notin S
      BY <3>1, <3>2, ReleasedRefsLeft
    <3> QED BY <1>0, <2>1, <3>1, <3>3, InterfaceNames DEF S
  <2> QED BY <2>2, <2>3, <2>4
<1> QED BY <1>1, <1>2, <1>3

\* connectServer, query and execMethod, and a restart of the WMI service.
LEMMA WmiCallStep ==
  ASSUME WmiInv,
         \/ \E ok \in BOOLEAN : \/ ConnectServer(ok) \/ SetProxyBlanket(ok)
                                \/ ExecQuery(ok)     \/ NoMoreObjects(ok)
                                \/ GetObject(ok)     \/ SpawnInstance(ok) \/ ExecMethod(ok)
         \/ \E ok \in BOOLEAN, defs \in SUBSET {"in", "out"} : GetMethod(ok, defs)
         \/ NextObject \/ RestartWmi
  PROVE  WmiInv'
<1>b. MaxRows \in Nat /\ MaxRestarts \in Nat
  BY WmiBoundsAssumption
<1>z. 0 \in 0..MaxRows
  BY <1>b
<1>n. NoSvc \in Proxies
  BY <1>b DEF NoSvc, Proxies
<1>f. /\ rows \in 0..MaxRows /\ left \in 0..MaxRows /\ rows + left <= MaxRows
      /\ restarts \in 0..MaxRestarts
  BY DEF WmiInv, WmiTypeOK, ConnInv
<1>h. held \in [Interfaces -> {0, 1}]
  BY DEF WmiInv, WmiTypeOK
<1>0. \A i \in Interfaces : held[i] = 0 <=> held[i] # 1
  BY <1>h
<1>i. \A i \in Interfaces : held[i] > 0 <=> held[i] = 1
  BY <1>h
<1>v. \A p : p.ns \in Namespaces => p # NoSvc
  <2>1. NoSvc.ns \notin Namespaces
    BY NamespacesAssumption DEF NoSvc
  <2> QED BY <2>1
<1>s. ASSUME NEW S, \A i \in S : held[i] = 1, held' = ReleasedRefs(S)
      PROVE  /\ held' \in [Interfaces -> {0, 1}]
             /\ \A i \in Interfaces : held'[i] = 1 <=> held[i] = 1 /\ i \notin S
  BY <1>h, <1>s, ReleasedRefsLeft
<1>x. \A n \in 0..MaxRows : 0 + n <= MaxRows
  BY <1>b
<1>y. left > 0 /\ left' = left - 1 /\ rows' \in {rows, rows + 1} =>
        left' \in 0..MaxRows /\ rows' \in 0..MaxRows /\ rows' + left' <= MaxRows
  <2> SUFFICES ASSUME left > 0, left' = left - 1, rows' = rows \/ rows' = rows + 1
               PROVE  left' \in 0..MaxRows /\ rows' \in 0..MaxRows /\ rows' + left' <= MaxRows
    OBVIOUS
  <2>1. rows \in Nat /\ left \in Nat /\ rows + left <= MaxRows
    BY <1>f
  <2> QED BY <1>b, <2>1
<1>w. restarts < MaxRestarts => restarts + 1 \in 0..MaxRestarts
  BY <1>b, <1>f
<1> USE DEF WmiInv, WmiTypeOK, HeldInv, ConnInv
\* A step that keeps the fields, and returns with no local reference.
<1>r. ASSUME NEW ok \in BOOLEAN, Returns(ok),
             wmiPc \notin {"new", "idle", "closed", "connect", "blanket"},
             UNCHANGED <<comInitialized, isInitialized, svc, currentNamespace, restarts>>,
             held' \in [Interfaces -> {0, 1}],
             \A i \in Fields : held'[i] = 1 <=> held[i] = 1,
             \A i \in Locals : held'[i] # 1
      PROVE  WmiInv'
  <2>1. wmiPc' = "idle" /\ wmiCall' \in Calls /\ wmiAnswer' \in Answers /\ rows' = 0 /\ left' = 0
    BY <1>r, ReturnsEffect
  <2>2. 0 + 0 <= MaxRows
    BY <1>x, <1>z
  <2>3. /\ \A i \in {"com", "locator", "services"} : held'[i] = 1 <=> held[i] = 1
        /\ \A i \in {"enum", "class", "in", "out", "instance"} : held'[i] # 1
    BY <1>r DEF Fields, Locals
  <2> QED BY <1>r, <1>z, <2>1, <2>2, <2>3
<1>1. ASSUME NEW ok \in BOOLEAN, ConnectServer(ok) PROVE WmiInv'
  <2>1. /\ wmiPc = "connect" /\ svc = NoSvc /\ wmiCall.ns \in Namespaces
        /\ UNCHANGED <<comInitialized, isInitialized, currentNamespace, restarts>>
    BY <1>1 DEF ConnectServer, InitVars
  <2>2. CASE ok
    <3>1. /\ svc' = [ns |-> wmiCall.ns, made |-> restarts, secured |-> FALSE]
          /\ held' = Acquired({"services"}) /\ wmiPc' = "blanket"
          /\ UNCHANGED <<wmiCall, rows, left, wmiAnswer>>
      BY <1>1, <2>2 DEF ConnectServer
    <3>2. svc' \in Proxies /\ svc'.ns = wmiCall.ns
      BY <2>1, <3>1 DEF Proxies
    <3>3. svc' # NoSvc
      BY <1>v, <2>1, <3>2
    <3>4. \A i \in {"services"} \cap Interfaces : held[i] = 0
      BY <1>0, <2>1
    <3>5. /\ held' \in [Interfaces -> {0, 1}]
          /\ \A i \in Interfaces : held'[i] = 1 <=> held[i] = 1 \/ i \in {"services"}
      BY <3>1, <3>4, AcquiredRefs
    <3> QED BY <2>1, <3>1, <3>2, <3>3, <3>5, InterfaceNames
  <2>3. CASE ~ok
    <3>1. UNCHANGED <<svc, held>> /\ Returns(FALSE)
      BY <1>1, <2>3 DEF ConnectServer
    <3>2. wmiPc' = "idle" /\ wmiCall' \in Calls /\ wmiAnswer' \in Answers /\ rows' = 0 /\ left' = 0
      BY <3>1, ReturnsEffect
    <3> QED BY <1>b, <1>z, <2>1, <3>1, <3>2
  <2> QED BY <2>2, <2>3
<1>2. ASSUME NEW ok \in BOOLEAN, SetProxyBlanket(ok) PROVE WmiInv'
  <2>1. /\ wmiPc = "blanket" /\ svc # NoSvc /\ svc.ns = wmiCall.ns /\ wmiCall.ns \in Namespaces
        /\ UNCHANGED <<comInitialized, isInitialized, restarts>>
    BY <1>2 DEF SetProxyBlanket, InitVars
  <2>2. CASE ok
    <3>1. /\ svc' = [svc EXCEPT !.secured = TRUE] /\ currentNamespace' = wmiCall.ns
          /\ wmiPc' = First(wmiCall.op)
          /\ UNCHANGED <<wmiCall, rows, left, wmiAnswer, held>>
      BY <1>2, <2>2 DEF SetProxyBlanket
    <3>2. svc' \in Proxies /\ svc'.ns = wmiCall.ns /\ svc'.secured
      BY <2>1, <3>1 DEF Proxies
    <3>3. svc' # NoSvc
      BY <1>v, <2>1, <3>2
    <3>4. wmiPc' \in {"execQuery", "getObject"}
      BY <3>1 DEF First
    <3> QED BY <2>1, <3>1, <3>2, <3>3, <3>4
  <2>3. CASE ~ok
    <3>1. svc' = NoSvc /\ held' = ReleasedRefs({"services"}) /\ UNCHANGED currentNamespace /\ Returns(FALSE)
      BY <1>2, <2>3 DEF SetProxyBlanket
    <3>2. wmiPc' = "idle" /\ wmiCall' \in Calls /\ wmiAnswer' \in Answers /\ rows' = 0 /\ left' = 0
      BY <3>1, ReturnsEffect
    <3>3. \A i \in {"services"} : held[i] = 1
      BY <2>1
    <3>4. /\ held' \in [Interfaces -> {0, 1}]
          /\ \A i \in Interfaces : held'[i] = 1 <=> held[i] = 1 /\ i \notin {"services"}
      BY <1>s, <3>1, <3>3
    <3> QED BY <1>b, <1>n, <1>z, <2>1, <3>1, <3>2, <3>4, InterfaceNames
  <2> QED BY <2>2, <2>3
\* A step of a call that has its connection and goes on with more references.
<1>a. ASSUME NEW S \in SUBSET Locals, held' = Acquired(S), \A i \in S : held[i] # 1
      PROVE  /\ held' \in [Interfaces -> {0, 1}]
             /\ \A i \in Interfaces : held'[i] = 1 <=> held[i] = 1 \/ i \in S
  <2>1. \A i \in S \cap Interfaces : held[i] = 0
    BY <1>0, <1>a
  <2> QED BY <1>a, <2>1, AcquiredRefs
<1>e. ASSUME NEW S \in SUBSET Locals, held' = ReleasedRefs(S), \A i \in S : held[i] = 1,
             \A i \in Locals \ S : held[i] # 1
      PROVE  /\ held' \in [Interfaces -> {0, 1}]
             /\ \A i \in Fields : held'[i] = 1 <=> held[i] = 1
             /\ \A i \in Locals : held'[i] # 1
  <2>1. /\ held' \in [Interfaces -> {0, 1}]
        /\ \A i \in Interfaces : held'[i] = 1 <=> held[i] = 1 /\ i \notin S
    BY <1>e, ReleasedRefsLeft
  <2>2. Fields \cap Locals = {}
    BY DEF Fields, Locals
  <2> QED BY <1>e, <2>1, <2>2 DEF Interfaces
<1>3. ASSUME NEW ok \in BOOLEAN, ExecQuery(ok) PROVE WmiInv'
  <2>1. /\ wmiPc = "execQuery" /\ UNCHANGED <<comInitialized, isInitialized, restarts, svc, currentNamespace>>
    BY <1>3 DEF ExecQuery, InitVars, ConnVars
  <2>2. CASE ok
    <3>1. /\ wmiPc' = "next" /\ left' \in 0..MaxRows /\ held' = Acquired({"enum"})
          /\ UNCHANGED <<wmiCall, rows, wmiAnswer>>
      BY <1>3, <2>2 DEF ExecQuery
    <3>2. {"enum"} \in SUBSET Locals /\ \A i \in {"enum"} : held[i] # 1
      BY <2>1 DEF Locals
    <3>3. /\ held' \in [Interfaces -> {0, 1}]
          /\ \A i \in Interfaces : held'[i] = 1 <=> held[i] = 1 \/ i \in {"enum"}
      BY <1>a, <3>1, <3>2
    <3>4. rows + left' <= MaxRows
      BY <1>x, <2>1, <3>1
    <3> QED BY <2>1, <3>1, <3>3, <3>4, InterfaceNames
  <2>3. CASE ~ok
    <3>1. Returns(FALSE) /\ UNCHANGED held
      BY <1>3, <2>3 DEF ExecQuery
    <3>2. \A i \in Locals : held'[i] # 1
      BY <2>1, <3>1 DEF Locals
    <3> QED BY <1>r, <2>1, <3>1, <3>2
  <2> QED BY <2>2, <2>3
<1>4. CASE NextObject
  <2>1. /\ wmiPc = "next" /\ left > 0 /\ left' = left - 1 /\ rows' \in {rows, rows + 1}
        /\ UNCHANGED <<comInitialized, isInitialized, svc, currentNamespace, wmiPc, wmiCall,
                       wmiAnswer, restarts, held>>
    BY <1>4 DEF NextObject, InitVars, ConnVars
  <2>3. left' \in 0..MaxRows /\ rows' \in 0..MaxRows /\ rows' + left' <= MaxRows
    BY <1>y, <2>1
  <2> QED BY <2>1, <2>3
<1>5. ASSUME NEW end \in BOOLEAN, NoMoreObjects(end) PROVE WmiInv'
  <2>1. /\ wmiPc = "next" /\ Returns(TRUE) /\ held' = ReleasedRefs({"enum"})
        /\ UNCHANGED <<comInitialized, isInitialized, svc, currentNamespace, restarts>>
    BY <1>5 DEF NoMoreObjects, InitVars, ConnVars
  <2>2. /\ {"enum"} \in SUBSET Locals /\ \A i \in {"enum"} : held[i] = 1
        /\ \A i \in Locals \ {"enum"} : held[i] # 1
    BY <2>1 DEF Locals
  <2> QED BY <1>e, <1>r, <2>1, <2>2
<1>6. ASSUME NEW ok \in BOOLEAN, GetObject(ok) PROVE WmiInv'
  <2>1. /\ wmiPc = "getObject" /\ UNCHANGED <<comInitialized, isInitialized, restarts, svc, currentNamespace>>
    BY <1>6 DEF GetObject, InitVars, ConnVars
  <2>2. CASE ok
    <3>1. /\ wmiPc' = "getMethod" /\ held' = Acquired({"class"})
          /\ UNCHANGED <<wmiCall, rows, left, wmiAnswer>>
      BY <1>6, <2>2 DEF GetObject
    <3>2. {"class"} \in SUBSET Locals /\ \A i \in {"class"} : held[i] # 1
      BY <2>1 DEF Locals
    <3>3. /\ held' \in [Interfaces -> {0, 1}]
          /\ \A i \in Interfaces : held'[i] = 1 <=> held[i] = 1 \/ i \in {"class"}
      BY <1>a, <3>1, <3>2
    <3> QED BY <2>1, <3>1, <3>3, InterfaceNames, ZenonT(40)
  <2>3. CASE ~ok
    <3>1. Returns(FALSE) /\ UNCHANGED held
      BY <1>6, <2>3 DEF GetObject
    <3>2. \A i \in Locals : held'[i] # 1
      BY <2>1, <3>1 DEF Locals
    <3> QED BY <1>r, <2>1, <3>1, <3>2
  <2> QED BY <2>2, <2>3
<1>7. ASSUME NEW ok \in BOOLEAN, NEW defs \in SUBSET {"in", "out"}, GetMethod(ok, defs) PROVE WmiInv'
  <2>1. /\ wmiPc = "getMethod" /\ UNCHANGED <<comInitialized, isInitialized, restarts, svc, currentNamespace>>
    BY <1>7 DEF GetMethod, InitVars, ConnVars
  <2>2. CASE ok
    <3>1. /\ wmiPc' \in {"spawn", "execMethod"} /\ held' = Acquired(defs)
          /\ UNCHANGED <<wmiCall, rows, left, wmiAnswer>>
      BY <1>7, <2>2 DEF GetMethod
    <3>2. defs \in SUBSET Locals /\ \A i \in defs : held[i] # 1
      BY <2>1 DEF Locals
    <3>3. /\ held' \in [Interfaces -> {0, 1}]
          /\ \A i \in Interfaces : held'[i] = 1 <=> held[i] = 1 \/ i \in defs
      BY <1>a, <3>1, <3>2
    <3> QED BY <2>1, <3>1, <3>3, InterfaceNames, ZenonT(40)
  <2>3. CASE ~ok
    <3>1. Returns(FALSE) /\ held' = ReleasedRefs({"class"})
      BY <1>7, <2>3 DEF GetMethod
    <3>2. /\ {"class"} \in SUBSET Locals /\ \A i \in {"class"} : held[i] = 1
          /\ \A i \in Locals \ {"class"} : held[i] # 1
      BY <2>1 DEF Locals
    <3> QED BY <1>e, <1>r, <2>1, <3>1, <3>2
  <2> QED BY <2>2, <2>3
<1>m. wmiPc \in {"spawn", "execMethod"} =>
        /\ MethodRefs \in SUBSET Locals /\ \A i \in MethodRefs : held[i] = 1
        /\ \A i \in Locals \ MethodRefs : held[i] # 1
  <2>1. MethodRefs = {i \in {"class", "in", "out", "instance"} : held[i] = 1}
    BY <1>i, InterfaceNames DEF MethodRefs
  <2> QED BY <2>1 DEF Locals
<1>8. ASSUME NEW ok \in BOOLEAN, SpawnInstance(ok) PROVE WmiInv'
  <2>1. /\ wmiPc = "spawn" /\ UNCHANGED <<comInitialized, isInitialized, restarts, svc, currentNamespace>>
    BY <1>8 DEF SpawnInstance, InitVars, ConnVars
  <2>2. CASE ok
    <3>1. /\ wmiPc' = "execMethod" /\ held' = Acquired({"instance"})
          /\ UNCHANGED <<wmiCall, rows, left, wmiAnswer>>
      BY <1>8, <2>2 DEF SpawnInstance
    <3>2. {"instance"} \in SUBSET Locals /\ \A i \in {"instance"} : held[i] # 1
      BY <2>1 DEF Locals
    <3>3. /\ held' \in [Interfaces -> {0, 1}]
          /\ \A i \in Interfaces : held'[i] = 1 <=> held[i] = 1 \/ i \in {"instance"}
      BY <1>a, <3>1, <3>2
    <3> QED BY <2>1, <3>1, <3>3, InterfaceNames, ZenonT(40)
  <2>3. CASE ~ok
    <3>1. Returns(FALSE) /\ held' = ReleasedRefs(MethodRefs)
      BY <1>8, <2>3 DEF SpawnInstance
    <3> QED BY <1>e, <1>m, <1>r, <2>1, <3>1
  <2> QED BY <2>2, <2>3
<1>9. ASSUME NEW ok \in BOOLEAN, ExecMethod(ok) PROVE WmiInv'
  <2>1. /\ wmiPc = "execMethod" /\ Returns(ok) /\ held' = ReleasedRefs(MethodRefs)
        /\ UNCHANGED <<comInitialized, isInitialized, svc, currentNamespace, restarts>>
    BY <1>9 DEF ExecMethod, InitVars, ConnVars
  <2> QED BY <1>e, <1>m, <1>r, <2>1
<1>10. CASE RestartWmi
  <2>1. restarts' \in 0..MaxRestarts
    BY <1>w, <1>10 DEF RestartWmi
  <2> QED BY <1>10, <2>1 DEF RestartWmi, InitVars, ConnVars
<1> QED BY <1>1, <1>2, <1>3, <1>4, <1>5, <1>6, <1>7, <1>8, <1>9, <1>10

\* A step of WmiAccess keeps its references and its connection.
LEMMA WmiStepInv == ASSUME WmiInv, WmiNext PROVE WmiInv'
<1>1. CASE UNCHANGED wmiVars
  BY <1>1 DEF wmiVars, WmiInv, WmiTypeOK, HeldInv, ConnInv
<1> QED BY <1>1, WmiOpenStep, WmiCallStep DEF WmiNext, WmiStep

-----------------------------------------------------------------------------
(* EC requests *)

\* What the proofs need of a call, and of the command that is built for it.
LEMMA EcCallFields ==
  \A c \in EcCalls :
    /\ c.op \in EcOps /\ c.ns \in Spaces /\ c.data \in Bytes /\ c # NoEc
    /\ Command(c) \in EcCmds /\ Command(c).data = c.data
    /\ Command(c).op = "write" <=> c.op \in WriteOps
    /\ Command(c).op = "read" <=> c.op = "acpiRead"
    /\ c.op # "acpiQueueWrite" => Command(c).ns = c.ns
<1> SUFFICES ASSUME NEW c \in EcCalls
             PROVE  /\ c.op \in EcOps /\ c.ns \in Spaces /\ c.data \in Bytes /\ c # NoEc
                    /\ Command(c) \in EcCmds /\ Command(c).data = c.data
                    /\ Command(c).op = "write" <=> c.op \in WriteOps
                    /\ Command(c).op = "read" <=> c.op = "acpiRead"
                    /\ c.op # "acpiQueueWrite" => Command(c).ns = c.ns
  OBVIOUS
<1> USE BytesAssumption DEF EcOps, WriteOps, InfoOps, PlainOps, Spaces
<1>1. /\ c.op \in EcOps /\ c.ns \in Spaces /\ c.data \in Bytes
      /\ c.op \in WriteOps \/ c.data = 0
      /\ c.op \in WriteOps \/ c.op = "acpiRead" \/ c.ns = 0
  BY DEF EcCalls
<1>2. c # NoEc
  <2>1. c.op # "none"
    BY <1>1
  <2> QED BY <2>1 DEF NoEc
<1> DEFINE ns == IF c.op = "acpiQueueWrite" THEN 0 ELSE c.ns
<1>3. ns \in Spaces /\ (c.op # "acpiQueueWrite" => ns = c.ns)
  BY <1>1
<1>4. Command(c) =
        [op |-> IF c.op \in WriteOps THEN "write" ELSE IF c.op = "acpiRead" THEN "read" ELSE "other",
         ns |-> ns, data |-> c.data]
  BY DEF Command, CommandOf
<1> HIDE DEF ns
<1>5. CASE c.op \in WriteOps
  <2>1. Command(c) = [op |-> "write", ns |-> ns, data |-> c.data]
    BY <1>4, <1>5
  <2> QED BY <1>1, <1>2, <1>3, <1>5, <2>1 DEF EcCmds
<1>6. CASE c.op = "acpiRead"
  <2>1. Command(c) = [op |-> "read", ns |-> ns, data |-> c.data]
    BY <1>4, <1>6
  <2> QED BY <1>1, <1>2, <1>3, <1>6, <2>1 DEF EcCmds
<1>7. CASE c.op \notin WriteOps /\ c.op # "acpiRead"
  <2>1. Command(c) = [op |-> "other", ns |-> ns, data |-> c.data]
    BY <1>4, <1>7
  <2> QED BY <1>1, <1>2, <1>3, <1>7, <2>1 DEF EcCmds
<1> QED BY <1>5, <1>6, <1>7

\* What a command writes: nothing if there is none, its data to its own cell
\* otherwise.
LEMMA WrittenCells ==
  /\ \A s \in Spaces : Writes(NoEc, s) = {} /\ Writes(Command(NoEc), s) = {}
  /\ \A c \in EcCmds \cup {NoEc}, s \in Spaces : Writes(c, s) \subseteq Bytes
  /\ \A c \in EcCalls, s \in Spaces :
       Writes(Command(c), s) = IF c.op \in WriteOps /\ Command(c).ns = s THEN {c.data} ELSE {}
<1>1. NoEc.op = "none" /\ Command(NoEc).op = "other"
  BY DEF NoEc, Command, CommandOf, WriteOps
<1>2. \A c \in EcCmds \cup {NoEc} : c.data \in Bytes
  BY BytesAssumption DEF EcCmds, NoEc
<1> QED BY <1>1, <1>2, EcCallFields DEF Writes

\* The rest of a queue.
LEMMA TailFacts ==
  ASSUME NEW S, NEW q \in Seq(S), q # <<>>
  PROVE  /\ Tail(q) \in Seq(S) /\ Head(q) = q[1] /\ 1 \in DOMAIN q /\ q[1] \in S
         /\ \A i \in DOMAIN Tail(q) : i + 1 \in DOMAIN q /\ Tail(q)[i] = q[i + 1]
         /\ Len(q) = 1 => Tail(q) = <<>>
         /\ Len(q) # 1 => Tail(q) # <<>> /\ Tail(q)[Len(Tail(q))] = q[Len(q)]
<1>1. Len(q) \in Nat \ {0} /\ DOMAIN q = 1..Len(q)
  OBVIOUS
<1>2. Tail(q) \in Seq(S) /\ Len(Tail(q)) = Len(q) - 1 /\ DOMAIN Tail(q) = 1..(Len(q) - 1)
  BY <1>1
<1>3. \A i \in 1..(Len(q) - 1) : Tail(q)[i] = q[i + 1] /\ i + 1 \in 1..Len(q)
  BY <1>1
<1>4. Head(q) = q[1] /\ 1 \in DOMAIN q /\ q[1] \in S
  BY <1>1
<1>5. Len(q) = 1 => Tail(q) = <<>>
  BY <1>2
<1>6. ASSUME Len(q) # 1 PROVE Tail(q) # <<>> /\ Tail(q)[Len(Tail(q))] = q[Len(q)]
  <2>1. Len(q) - 1 \in 1..(Len(q) - 1)
    BY <1>1, <1>6
  <2>2. (Len(q) - 1) + 1 = Len(q)
    BY <1>1
  <2>3. 1 \in DOMAIN Tail(q)
    BY <1>1, <1>2, <1>6
  <2>4. DOMAIN <<>> = {}
    OBVIOUS
  <2>5. Tail(q) # <<>>
    BY <2>3, <2>4, Zenon
  <2>6. Tail(q)[Len(Tail(q))] = q[Len(q)]
    BY <1>2, <1>3, <2>1, <2>2
  <2> QED BY <2>5, <2>6
<1> QED BY <1>1, <1>2, <1>3, <1>4, <1>5, <1>6

\* What may be written after a failure was possible all along; and what clients
\* know is always a set of bytes.
LEMMA ExpectedCells ==
  ASSUME EcTypeOK, ecCall \in EcCalls, NEW behind \in EcCmds \cup {NoEc}
  PROVE  /\ \A ok \in BOOLEAN : Expected(ecCall, ok, behind) \in [Spaces -> SUBSET Bytes]
         /\ \A s \in Spaces : MayHold(s) \subseteq Expected(ecCall, FALSE, behind)[s]
         /\ ecCall.op = "acpiQueueWrite" /\ ecCall.ns # 0 =>
              \A ok \in BOOLEAN : Expected(ecCall, ok, behind) = [s \in Spaces |-> Bytes]
         /\ ecCall.op \in WriteOps /\ ~(ecCall.op = "acpiQueueWrite" /\ ecCall.ns # 0) =>
              Command(ecCall).ns = ecCall.ns
              /\ Expected(ecCall, TRUE, behind) =
                   [possible EXCEPT ![ecCall.ns] = Writes(behind, ecCall.ns) \cup {ecCall.data}]
         /\ ecCall.op \notin WriteOps =>
              \A ok \in BOOLEAN : Expected(ecCall, ok, behind) = possible
<1>1. /\ ecCall.ns \in Spaces /\ ecCall.data \in Bytes
      /\ ecCall.op # "acpiQueueWrite" => Command(ecCall).ns = ecCall.ns
      /\ ecCall.op = "acpiQueueWrite" => Command(ecCall).ns = 0
  BY EcCallFields DEF Command, CommandOf
<1>2. possible \in [Spaces -> SUBSET Bytes]
  BY DEF EcTypeOK
<1>3. /\ \A s \in Spaces : Writes(behind, s) \subseteq Bytes
      /\ \A s \in Spaces :
           Writes(Command(ecCall), s) =
             IF ecCall.op \in WriteOps /\ Command(ecCall).ns = s THEN {ecCall.data} ELSE {}
  BY WrittenCells
<1>4. CASE ecCall.op = "acpiQueueWrite" /\ ecCall.ns # 0
  <2>1. \A ok \in BOOLEAN : Expected(ecCall, ok, behind) = [s \in Spaces |-> Bytes]
    BY <1>4 DEF Expected
  <2>2. \A s \in Spaces : MayHold(s) \subseteq Bytes
    BY <1>1, <1>2, <1>3 DEF MayHold
  <2> QED BY <1>4, <2>1, <2>2 DEF WriteOps
<1>5. CASE ecCall.op \in WriteOps /\ ~(ecCall.op = "acpiQueueWrite" /\ ecCall.ns # 0)
  <2>1. Command(ecCall).ns = ecCall.ns
    BY <1>1, <1>5
  <2>2. Expected(ecCall, TRUE, behind) =
          [possible EXCEPT ![ecCall.ns] = Writes(behind, ecCall.ns) \cup {ecCall.data}]
    BY <1>5 DEF Expected
  <2>3. Expected(ecCall, FALSE, behind) = [possible EXCEPT ![ecCall.ns] = @ \cup {ecCall.data}]
    BY <1>5 DEF Expected
  <2>4. \A s \in Spaces : MayHold(s) \subseteq Expected(ecCall, FALSE, behind)[s]
    BY <1>1, <1>2, <1>3, <2>1, <2>3 DEF MayHold
  <2>5. \A ok \in BOOLEAN : Expected(ecCall, ok, behind) \in [Spaces -> SUBSET Bytes]
    <3>0. /\ Writes(behind, ecCall.ns) \cup {ecCall.data} \in SUBSET Bytes
          /\ possible[ecCall.ns] \cup {ecCall.data} \in SUBSET Bytes
      BY <1>1, <1>2, <1>3
    <3>e. \A v \in SUBSET Bytes : [possible EXCEPT ![ecCall.ns] = v] \in [Spaces -> SUBSET Bytes]
      BY <1>2
    <3>1. Expected(ecCall, TRUE, behind) \in [Spaces -> SUBSET Bytes]
      <4> DEFINE v == Writes(behind, ecCall.ns) \cup {ecCall.data}
      <4>1. v \in SUBSET Bytes /\ Expected(ecCall, TRUE, behind) = [possible EXCEPT ![ecCall.ns] = v]
        BY <2>2, <3>0
      <4> HIDE DEF v
      <4> QED BY <3>e, <4>1
    <3>2. Expected(ecCall, FALSE, behind) \in [Spaces -> SUBSET Bytes]
      <4> DEFINE v == possible[ecCall.ns] \cup {ecCall.data}
      <4>1. v \in SUBSET Bytes /\ Expected(ecCall, FALSE, behind) = [possible EXCEPT ![ecCall.ns] = v]
        BY <2>3, <3>0
      <4> HIDE DEF v
      <4> QED BY <3>e, <4>1
    <3> QED BY <3>1, <3>2
  <2> QED BY <1>5, <2>1, <2>2, <2>4, <2>5
<1>6. CASE ecCall.op \notin WriteOps
  <2>1. ecCall.op # "acpiQueueWrite"
    BY <1>6 DEF WriteOps
  <2>2. \A ok \in BOOLEAN : Expected(ecCall, ok, behind) = possible
    BY <1>6, <2>1 DEF Expected
  <2> QED BY <1>2, <1>3, <1>6, <2>1, <2>2 DEF MayHold
<1> QED BY <1>4, <1>5, <1>6

\* The handler that waits returns: nothing is left of its call but what clients
\* know of the cells.
LEMMA EcReturnsInv ==
  ASSUME EcInv, ecPc = "wait", NEW status, NEW data,
         EcReturns(ecCall, status, data),
         UNCHANGED <<ecReady, emiQueue, inHand, slow, acpi>>,
         possible' \in [Spaces -> SUBSET Bytes],
         \/ \A s \in Spaces : MayHold(s) \subseteq possible'[s]
         \/ /\ \A s \in Spaces : acpi[s] \in possible'[s] /\ Writes(slow, s) \subseteq possible'[s]
            /\ emiQueue = <<>> /\ inHand = NoEc,
         ecCall.op = "acpiRead" /\ status = "SUCCESS" => data \in possible'[ecCall.ns]
  PROVE  EcInv'
<1>1. /\ ecPc' = "idle" /\ ecCall' = NoEc /\ ecDone' = NotDone
      /\ ecAnswer' = [call |-> ecCall, status |-> status, data |-> data]
      /\ UNCHANGED <<ecReady, emiQueue, inHand, slow, acpi>>
  BY DEF EcReturns
<1>2. NotDone \in Outcomes
  BY BytesAssumption DEF NotDone, Outcomes
<1>3. EcTypeOK'
  BY <1>1 DEF EcInv, EcTypeOK
<1>4. QueueInv'
  BY <1>1, <1>2 DEF EcInv, QueueInv
<1>5. CellsInv'
  <2>1. \A s \in Spaces : MayHold(s)' = possible'[s]
    BY <1>1, WrittenCells DEF MayHold, Command, CommandOf, Writes
  <2>2. /\ \A s \in Spaces : acpi[s] \in MayHold(s)
        /\ Harmless(inHand) /\ Harmless(slow)
        /\ \A i \in DOMAIN emiQueue : Harmless(emiQueue[i])
    BY DEF EcInv, CellsInv
  <2> DEFINE Fits(c) == \A s \in Spaces : Writes(c, s) \subseteq possible'[s]
  <2>3. ASSUME NEW c, Fits(c) PROVE Harmless(c)'
    BY <2>1, <2>3 DEF Harmless, Writes
  <2>4. /\ \A s \in Spaces : acpi[s] \in possible'[s]
        /\ Fits(inHand) /\ Fits(slow) /\ \A i \in DOMAIN emiQueue : Fits(emiQueue[i])
    <3>1. CASE \A s \in Spaces : MayHold(s) \subseteq possible'[s]
      BY <2>2, <3>1 DEF Harmless
    <3>2. CASE /\ \A s \in Spaces : acpi[s] \in possible'[s] /\ Writes(slow, s) \subseteq possible'[s]
               /\ emiQueue = <<>> /\ inHand = NoEc
      BY <3>2, WrittenCells
    <3> QED BY <3>1, <3>2
  <2>5. \A s \in Spaces : acpi'[s] \in MayHold(s)'
    BY <1>1, <2>1, <2>4
  <2>6. Harmless(inHand)' /\ Harmless(slow)' /\ \A i \in DOMAIN emiQueue' : Harmless(emiQueue[i])'
    BY <1>1, <2>1, <2>4 DEF Harmless, Writes
  <2> QED BY <2>5, <2>6 DEF CellsInv
<1>6. DoneInv'
  BY <1>1 DEF DoneInv
<1>7. AcpiReadsBack'
  BY <1>1 DEF AcpiReadsBack
<1> QED BY <1>3, <1>4, <1>5, <1>6, <1>7 DEF EcInv

\* A handler begins, or answers at once.
LEMMA EcRequestInv ==
  ASSUME EcInv, NEW c \in EcCalls, NEW tooLong \in BOOLEAN, EcRequest(c, tooLong)
  PROVE  EcInv'
<1>0. EcTypeOK /\ QueueInv /\ CellsInv /\ DoneInv /\ AcpiReadsBack
  BY DEF EcInv
<1>1. /\ ecPc = "idle" /\ ecCall = NoEc /\ ecDone = NotDone
      /\ UNCHANGED <<ecReady, inHand, slow, acpi, possible>>
  BY <1>0 DEF EcRequest, EcTypeOK, QueueInv
<1>2. c # NoEc /\ Command(c) \in EcCmds
  BY EcCallFields
<1>3. \A s \in Spaces : MayHold(s) = possible[s]
  BY <1>1, WrittenCells DEF MayHold
<1>4. CASE ~ecReady \/ tooLong
  <2>1. /\ ecPc' = "idle" /\ ecCall' = ecCall /\ ecDone' = ecDone /\ emiQueue' = emiQueue
        /\ ecAnswer'.status # "SUCCESS"
    BY <1>1, <1>4 DEF EcRequest, EcReturns
  <2>2. EcTypeOK'
    BY <1>0, <1>1, <2>1 DEF EcTypeOK
  <2>3. QueueInv'
    BY <1>0, <1>1, <2>1 DEF QueueInv
  <2>4. CellsInv'
    BY <1>0, <1>1, <2>1 DEF CellsInv, Harmless, MayHold, Writes, Command, CommandOf
  <2>5. DoneInv' /\ AcpiReadsBack'
    BY <2>1 DEF DoneInv, AcpiReadsBack
  <2> QED BY <2>2, <2>3, <2>4, <2>5 DEF EcInv
<1>5. CASE ~(~ecReady \/ tooLong)
  <2>1. /\ ecPc' = "wait" /\ ecCall' = c /\ emiQueue' = Append(emiQueue, Command(c))
        /\ ecAnswer' = NoEcAnswer /\ ecDone' = ecDone
    BY <1>5 DEF EcRequest
  <2>2. /\ emiQueue' \in Seq(EcCmds) /\ DOMAIN emiQueue' = 1..Len(emiQueue')
        /\ Len(emiQueue') = Len(emiQueue) + 1 /\ Len(emiQueue) \in Nat
        /\ \A i \in 1..Len(emiQueue) : emiQueue'[i] = emiQueue[i] /\ i \in DOMAIN emiQueue
        /\ emiQueue'[Len(emiQueue')] = Command(c)
    BY <1>0, <1>2, <2>1 DEF QueueInv
  <2>3. \A i \in DOMAIN emiQueue' : emiQueue'[i] = Command(c) \/ \E j \in DOMAIN emiQueue : emiQueue'[i] = emiQueue[j]
    BY <2>2
  <2>4. emiQueue' # <<>>
    <3>1. Len(emiQueue') # 0
      BY <2>2
    <3>2. Len(<<>>) = 0
      OBVIOUS
    <3> QED BY <3>1, <3>2
  <2>5. EcTypeOK'
    <3>1. \A i \in DOMAIN emiQueue' : emiQueue'[i] \in EcCmds
      BY <1>0, <1>2, <2>3 DEF EcTypeOK
    <3> QED BY <1>0, <1>1, <1>2, <2>1, <2>4, <3>1 DEF EcTypeOK
  <2>6. QueueInv'
    <3>1. Command(ecCall)' = Command(c)
      BY <2>1 DEF Command, CommandOf
    <3> QED BY <1>0, <1>1, <2>1, <2>2, <2>4, <3>1 DEF QueueInv
  <2>7. CellsInv'
    <3> DEFINE Cell(s) == possible[s] \cup Writes(Command(c), s)
               Fits(d) == \A s \in Spaces : Writes(d, s) \subseteq Cell(s)
    <3>1. \A s \in Spaces : MayHold(s)' = Cell(s)
      BY <1>1, <2>1 DEF MayHold, Writes, Command, CommandOf
    <3>2. \A s \in Spaces : acpi'[s] \in Cell(s)
      BY <1>0, <1>1, <1>3 DEF CellsInv
    <3>3. ASSUME NEW d, Harmless(d) PROVE Fits(d)
      BY <1>3, <3>3 DEF Harmless
    <3>4. Fits(Command(c))
      OBVIOUS
    <3>5. Fits(inHand) /\ Fits(slow) /\ \A i \in DOMAIN emiQueue : Fits(emiQueue[i])
      <4> HIDE DEF Fits
      <4> QED BY <1>0, <3>3 DEF CellsInv
    <3>6. \A i \in DOMAIN emiQueue' : Fits(emiQueue'[i])
      <4> HIDE DEF Fits
      <4> QED BY <2>3, <3>4, <3>5
    <3>7. (\A s \in Spaces : acpi[s] \in MayHold(s))'
      BY <3>1, <3>2
    <3>8. Harmless(inHand)' /\ Harmless(slow)'
      BY <1>1, <3>1, <3>5 DEF Harmless, Writes
    <3>9. (\A i \in DOMAIN emiQueue : Harmless(emiQueue[i]))'
      BY <3>1, <3>6 DEF Harmless, Writes
    <3> QED BY <3>7, <3>8, <3>9 DEF CellsInv
  <2>8. DoneInv' /\ AcpiReadsBack'
    BY <1>1, <2>1 DEF DoneInv, AcpiReadsBack, NoEcAnswer, NoEc
  <2> QED BY <2>5, <2>6, <2>7, <2>8 DEF EcInv
<1> QED BY <1>4, <1>5

\* The command processor is told what became of its command, or gives up.
LEMMA EcWaitInv ==
  ASSUME EcInv, EcTimesOut \/ \E short \in BOOLEAN : EcCompletes(short)
  PROVE  EcInv'
<1>0. EcTypeOK /\ QueueInv /\ CellsInv /\ DoneInv
  BY DEF EcInv
<1>1. /\ ecPc = "wait" /\ ecCall \in EcCalls
      /\ UNCHANGED <<ecReady, emiQueue, inHand, slow, acpi>>
  BY <1>0 DEF EcTimesOut, EcCompletes, EcTypeOK
<1>2. ecDone.behind \in EcCmds \cup {NoEc}
  BY <1>0 DEF QueueInv, Outcomes
<1>3. ASSUME NEW behind \in EcCmds \cup {NoEc}
      PROVE  /\ \A ok \in BOOLEAN : Expected(ecCall, ok, behind) \in [Spaces -> SUBSET Bytes]
             /\ \A s \in Spaces : MayHold(s) \subseteq Expected(ecCall, FALSE, behind)[s]
  BY <1>0, <1>1, ExpectedCells
<1>4. CASE EcTimesOut
  <2>1. EcReturns(ecCall, "TIMEOUT", 0) /\ possible' = Expected(ecCall, FALSE, NoEc)
    BY <1>4 DEF EcTimesOut
  <2> QED BY <1>1, <1>3, <2>1, EcReturnsInv
<1>5. ASSUME NEW short \in BOOLEAN, EcCompletes(short) PROVE EcInv'
  <2> DEFINE ok == ecDone.status = "SUCCESS"
             told == IF ~ok \/ (ecCall.op = "peciRead" /\ short) THEN 0
                     ELSE IF short THEN "indeterminate" ELSE ecDone.data
             behind == ecDone.behind
  <2>1. /\ EcReturns(ecCall, ecDone.status, told) /\ possible' = Expected(ecCall, ok, behind)
        /\ ecDone # NotDone /\ (short => ecCall.op \in InfoOps)
    BY <1>5 DEF EcCompletes
  <2>2. CASE ~ok
    <3>1. possible' = Expected(ecCall, FALSE, behind)
      BY <2>1, <2>2
    <3> HIDE DEF told, behind
    <3>2. behind \in EcCmds \cup {NoEc}
      BY <1>2 DEF behind
    <3> QED BY <1>1, <1>3, <2>1, <2>2, <3>1, <3>2, EcReturnsInv
  <2>3. CASE ok
    <3>1. /\ emiQueue = <<>> /\ inHand = NoEc /\ possible' = Expected(ecCall, TRUE, behind)
          /\ slow \in {NoEc, behind, Command(ecCall)}
          /\ ecCall.op \in WriteOps =>
               acpi[Command(ecCall).ns] \in Writes(behind, Command(ecCall).ns) \cup {ecCall.data}
          /\ ecCall.op = "acpiRead" => ecDone.data \in possible[ecCall.ns]
      BY <1>0, <1>1, <2>1, <2>3 DEF DoneInv
    <3> HIDE DEF behind
    <3>b. behind \in EcCmds \cup {NoEc}
      BY <1>2 DEF behind
    <3>2. \A s \in Spaces : acpi[s] \in MayHold(s) /\ Writes(slow, s) \subseteq MayHold(s)
      BY <1>0 DEF CellsInv, Harmless
    <3>3. acpi \in [Spaces -> Bytes] /\ possible \in [Spaces -> SUBSET Bytes] /\ slow \in EcCmds \cup {NoEc}
      BY <1>0 DEF EcTypeOK
    <3>w. \A s \in Spaces :
            Writes(Command(ecCall), s) =
              IF ecCall.op \in WriteOps /\ Command(ecCall).ns = s THEN {ecCall.data} ELSE {}
      BY <1>1, WrittenCells
    <3>4. \A s \in Spaces : acpi[s] \in possible'[s] /\ Writes(slow, s) \subseteq possible'[s]
      <4>1. CASE ecCall.op = "acpiQueueWrite" /\ ecCall.ns # 0
        <5>1. possible' = [s \in Spaces |-> Bytes]
          BY <1>0, <1>1, <3>1, <3>b, <4>1, ExpectedCells
        <5> QED BY <3>3, <5>1, WrittenCells
      <4>2. CASE ecCall.op \in WriteOps /\ ~(ecCall.op = "acpiQueueWrite" /\ ecCall.ns # 0)
        <5>1. /\ Command(ecCall).ns = ecCall.ns
              /\ possible' = [possible EXCEPT ![ecCall.ns] =
                                Writes(behind, ecCall.ns) \cup {ecCall.data}]
          BY <1>0, <1>1, <3>1, <3>b, <4>2, ExpectedCells
        <5>2. ASSUME NEW s \in Spaces
              PROVE  acpi[s] \in possible'[s] /\ Writes(slow, s) \subseteq possible'[s]
          <6>1. CASE s = ecCall.ns
            <7>1. possible'[s] = Writes(behind, s) \cup {ecCall.data}
              BY <3>3, <5>1, <6>1
            <7>2. Writes(slow, s) \subseteq Writes(behind, s) \cup {ecCall.data}
              BY <3>1, <3>w, WrittenCells
            <7> QED BY <3>1, <4>2, <5>1, <6>1, <7>1, <7>2
          <6>2. CASE s # ecCall.ns
            <7>1. MayHold(s) = possible[s]
              BY <3>w, <5>1, <6>2 DEF MayHold
            <7>2. possible'[s] = possible[s]
              BY <3>3, <5>1, <6>2
            <7> QED BY <3>2, <7>1, <7>2
          <6> QED BY <6>1, <6>2
        <5> QED BY <5>2
      <4>3. CASE ecCall.op \notin WriteOps
        <5>1. possible' = possible
          BY <1>0, <1>1, <3>1, <3>b, <4>3, ExpectedCells
        <5> QED BY <3>2, <3>w, <4>3, <5>1 DEF MayHold
      <4> QED BY <4>1, <4>2, <4>3
    <3>5. ecCall.op = "acpiRead" => told \in possible'[ecCall.ns]
      <4> SUFFICES ASSUME ecCall.op = "acpiRead" PROVE told \in possible'[ecCall.ns]
        OBVIOUS
      <4>1. ecCall.op \notin WriteOps \cup InfoOps
        BY DEF WriteOps, InfoOps
      <4>2. possible' = possible /\ told = ecDone.data
        BY <1>0, <1>1, <2>1, <2>3, <3>1, <3>b, <4>1, ExpectedCells
      <4> QED BY <3>1, <4>2
    <3>6. possible' \in [Spaces -> SUBSET Bytes]
      BY <1>3, <3>1, <3>b
    <3> HIDE DEF told
    <3> QED BY <1>1, <2>1, <3>1, <3>4, <3>5, <3>6, EcReturnsInv
  <2> QED BY <2>2, <2>3
<1> QED BY <1>4, <1>5

\* A command that is executed changes the cell it writes, and no other.
LEMMA ExecutedCells ==
  ASSUME EcTypeOK, CellsInv, NEW c \in EcCmds \cup {NoEc}, Harmless(c), Executed(c)
  PROVE  /\ acpi' \in [Spaces -> Bytes]
         /\ \A s \in Spaces :
              /\ acpi'[s] \in MayHold(s)
              /\ acpi'[s] = acpi[s] \/ acpi'[s] \in Writes(c, s)
              /\ Writes(c, s) # {} => acpi'[s] = c.data
<1>1. \A s \in Spaces : Writes(c, s) \subseteq Bytes /\ Writes(c, s) \subseteq {c.data}
  BY WrittenCells DEF Writes
<1>2. \A s \in Spaces : acpi'[s] = IF Writes(c, s) = {} THEN acpi[s] ELSE c.data
  BY DEF Executed
<1>3. \A s \in Spaces : acpi'[s] = acpi[s] \/ (acpi'[s] \in Writes(c, s) /\ acpi'[s] = c.data)
  BY <1>1, <1>2
<1>4. \A s \in Spaces : acpi[s] \in Bytes /\ acpi[s] \in MayHold(s) /\ Writes(c, s) \subseteq MayHold(s)
  BY DEF EcTypeOK, CellsInv, Harmless
<1>5. acpi' \in [Spaces -> Bytes]
  <2>1. acpi' = [s \in Spaces |-> acpi'[s]]
    BY DEF Executed
  <2> QED BY <1>1, <1>3, <1>4, <2>1
<1> QED BY <1>2, <1>3, <1>4, <1>5

\* The EMI thread is done with a command: it is executed, or left to the EC.
LEMMA EmiCommandInv ==
  ASSUME EcInv, \E handed, stray \in BOOLEAN : EmiAnswered(stray) \/ EmiFails(handed, stray)
  PROVE  EcInv'
<1>0. EcTypeOK /\ QueueInv /\ CellsInv /\ DoneInv /\ AcpiReadsBack
  BY DEF EcInv
<1>1. /\ emiQueue # <<>> /\ emiQueue' = Tail(emiQueue)
      /\ UNCHANGED <<ecReady, ecPc, ecCall, ecAnswer, possible>>
  BY DEF EmiAnswered, EmiFails
<1> DEFINE c == Head(emiQueue)
<1>2. /\ emiQueue' \in Seq(EcCmds) /\ c = emiQueue[1] /\ 1 \in DOMAIN emiQueue /\ c \in EcCmds
      /\ \A i \in DOMAIN emiQueue' : i + 1 \in DOMAIN emiQueue /\ emiQueue'[i] = emiQueue[i + 1]
      /\ Len(emiQueue) = 1 => emiQueue' = <<>>
      /\ Len(emiQueue) # 1 => emiQueue' # <<>> /\ emiQueue'[Len(emiQueue')] = emiQueue[Len(emiQueue)]
  BY <1>0, <1>1, TailFacts DEF QueueInv
<1>3. Harmless(c) /\ \A i \in DOMAIN emiQueue' : Harmless(emiQueue'[i])
  BY <1>0, <1>2 DEF CellsInv
<1>4. ecPc = "wait" => ecDone = NotDone
  BY <1>0, <1>1 DEF DoneInv
<1>5. \A i \in DOMAIN emiQueue' : emiQueue'[i] \in EcCmds
  BY <1>0, <1>2 DEF EcTypeOK
<1>6. ecPc = "wait" /\ Len(emiQueue) = 1 => c = Command(ecCall)
  BY <1>0, <1>2, <1>4 DEF QueueInv
<1>7. /\ inHand \in EcCmds \cup {NoEc} /\ Harmless(inHand)
      /\ slow \in EcCmds \cup {NoEc} /\ Harmless(slow)
  BY <1>0 DEF EcTypeOK, CellsInv
<1>8. acpi \in [Spaces -> Bytes] /\ \A s \in Spaces : acpi[s] \in MayHold(s)
  BY <1>0 DEF EcTypeOK, CellsInv
<1> HIDE DEF c
\* What the two have in common.
<1>9. ASSUME NEW status \in {"SUCCESS", "ERROR"}, NEW data \in Bytes, Completes(status, data),
             inHand' \in {inHand, c}, slow' \in {slow, c}, acpi' \in [Spaces -> Bytes],
             \A s \in Spaces : acpi'[s] \in MayHold(s),
             ecPc = "wait" /\ Len(emiQueue) = 1 /\ status = "SUCCESS" =>
               /\ inHand' = NoEc
               /\ ecCall.op \in WriteOps => acpi'[Command(ecCall).ns] = ecCall.data
               /\ ecCall.op = "acpiRead" => data \in possible[ecCall.ns]
      PROVE  EcInv'
  <2>1. ecPc = "wait" /\ Len(emiQueue) = 1 =>
          ecDone' = [status |-> status, data |-> data, behind |-> slow]
    BY <1>9 DEF Completes
  <2>2. ~(ecPc = "wait" /\ Len(emiQueue) = 1) => ecDone' = ecDone
    BY <1>9 DEF Completes
  <2>3. [status |-> status, data |-> data, behind |-> slow] # NotDone
    BY <1>9 DEF NotDone
  <2>4. [status |-> status, data |-> data, behind |-> slow] \in Outcomes
    BY <1>7, <1>9 DEF Outcomes
  <2>5. inHand' \in EcCmds \cup {NoEc} /\ slow' \in EcCmds \cup {NoEc}
    BY <1>2, <1>7, <1>9
  <2>6. EcTypeOK'
    BY <1>0, <1>1, <1>2, <1>5, <1>9, <2>1, <2>2, <2>3, <2>5 DEF EcTypeOK
  <2>7. QueueInv'
    BY <1>0, <1>1, <1>2, <1>4, <2>1, <2>2, <2>3, <2>4 DEF QueueInv, Command, CommandOf
  <2>8. CellsInv'
    <3>1. \A s \in Spaces : MayHold(s)' = MayHold(s)
      BY <1>1 DEF MayHold, Writes, Command, CommandOf
    <3>2. Harmless(inHand') /\ Harmless(slow')
      BY <1>3, <1>7, <1>9
    <3>3. (\A s \in Spaces : acpi[s] \in MayHold(s))'
      BY <1>9, <3>1
    <3>4. Harmless(inHand)' /\ Harmless(slow)'
      BY <3>1, <3>2 DEF Harmless, Writes
    <3>5. (\A i \in DOMAIN emiQueue : Harmless(emiQueue[i]))'
      BY <1>3, <3>1 DEF Harmless, Writes
    <3> QED BY <3>3, <3>4, <3>5 DEF CellsInv
  <2>9. DoneInv'
    <3>1. ASSUME ecPc = "wait", ecDone' # NotDone
          PROVE  Len(emiQueue) = 1 /\ emiQueue' = <<>> /\ c = Command(ecCall)
      BY <1>2, <1>4, <1>6, <2>2, <3>1
    <3>2. Command(ecCall)' = Command(ecCall)
      BY <1>1 DEF Command, CommandOf
    <3>3. ASSUME ecPc = "wait", ecDone' # NotDone, status = "SUCCESS"
          PROVE  /\ inHand' = NoEc /\ slow' \in {NoEc, ecDone'.behind, Command(ecCall)}
                 /\ ecCall.op \in WriteOps => acpi'[Command(ecCall).ns] = ecCall.data
                 /\ ecCall.op = "acpiRead" => ecDone'.data \in possible[ecCall.ns]
      BY <1>9, <2>1, <3>1, <3>3
    <3>4. ecPc = "wait" /\ ecDone' # NotDone => ecDone'.status = status
      BY <2>1, <3>1
    <3> QED BY <1>1, <3>1, <3>2, <3>3, <3>4 DEF DoneInv
  <2>10. AcpiReadsBack'
    BY <1>0, <1>1 DEF AcpiReadsBack
  <2> QED BY <2>6, <2>7, <2>8, <2>9, <2>10 DEF EcInv
<1>10. ASSUME NEW stray \in BOOLEAN, EmiAnswered(stray) PROVE EcInv'
  <2> DEFINE data == IF c.op = "read" THEN acpi[c.ns] ELSE 0
  <2>1. /\ Executed(c) /\ inHand = NoEc /\ inHand' = inHand /\ slow' \in {slow, c}
        /\ Completes("SUCCESS", data)
    BY <1>10 DEF EmiAnswered, c
  <2>2. data \in Bytes
    <3>1. c.op = "read" => c.ns \in Spaces
      BY <1>2 DEF EcCmds
    <3> QED BY <1>8, <3>1, BytesAssumption
  <2>3. /\ acpi' \in [Spaces -> Bytes]
        /\ \A s \in Spaces : acpi'[s] \in MayHold(s) /\ (Writes(c, s) # {} => acpi'[s] = c.data)
    BY <1>0, <1>2, <1>3, <2>1, ExecutedCells
  <2>4. ASSUME ecPc = "wait", Len(emiQueue) = 1
        PROVE  /\ ecCall.op \in WriteOps => acpi'[Command(ecCall).ns] = ecCall.data
               /\ ecCall.op = "acpiRead" => data \in possible[ecCall.ns]
    <3>1. ecCall \in EcCalls
      BY <1>0, <2>4 DEF EcTypeOK
    <3>2. c = Command(ecCall) /\ c.data = ecCall.data
      BY <1>6, <2>4, <3>1, EcCallFields
    <3>3. ASSUME ecCall.op \in WriteOps PROVE acpi'[Command(ecCall).ns] = ecCall.data
      <4>1. c.op = "write" /\ c.ns \in Spaces
        <5>1. c.op = "write"
          BY <3>1, <3>2, <3>3, EcCallFields
        <5> QED BY <1>2, <5>1 DEF EcCmds
      <4>2. Writes(c, c.ns) # {}
        BY <4>1 DEF Writes
      <4> QED BY <2>3, <3>2, <4>1, <4>2
    <3>4. ecCall.op = "acpiRead" => data \in possible[ecCall.ns]
      <4> SUFFICES ASSUME ecCall.op = "acpiRead" PROVE data \in possible[ecCall.ns]
        OBVIOUS
      <4>1. c.op = "read" /\ c.ns = ecCall.ns /\ ecCall.ns \in Spaces /\ ecCall.op \notin WriteOps
        BY <3>1, <3>2, EcCallFields DEF WriteOps
      <4>2. data = acpi[ecCall.ns] /\ MayHold(ecCall.ns) = possible[ecCall.ns]
        BY <3>1, <4>1, WrittenCells DEF MayHold
      <4> QED BY <1>8, <4>1, <4>2
    <3> QED BY <3>3, <3>4
  <2> HIDE DEF data
  <2> QED BY <1>9, <2>1, <2>2, <2>3, <2>4
<1>11. ASSUME NEW handed \in BOOLEAN, NEW stray \in BOOLEAN, EmiFails(handed, stray) PROVE EcInv'
  <2>1. inHand' \in {inHand, c} /\ slow' \in {slow, c} /\ Completes("ERROR", 0) /\ acpi' = acpi
    BY <1>11 DEF EmiFails, c
  <2> QED BY <1>8, <1>9, <2>1, BytesAssumption
<1> QED BY <1>10, <1>11

\* The EC is done with what nobody waits for: it has executed or refused it, or
\* goes on with it in the background.
LEMMA EcLateInv ==
  ASSUME EcInv, EcAnswersLate \/ EcSlowDone
  PROVE  EcInv'
<1>0. EcTypeOK /\ QueueInv /\ CellsInv /\ DoneInv /\ AcpiReadsBack
  BY DEF EcInv
<1>1. UNCHANGED <<ecReady, ecPc, ecCall, emiQueue, ecDone, ecAnswer, possible>>
  BY DEF EcAnswersLate, EcSlowDone
<1>2. /\ inHand \in EcCmds \cup {NoEc} /\ Harmless(inHand)
      /\ slow \in EcCmds \cup {NoEc} /\ Harmless(slow) /\ Harmless(NoEc)
      /\ acpi \in [Spaces -> Bytes] /\ \A s \in Spaces : acpi[s] \in MayHold(s)
  BY <1>0, WrittenCells DEF EcTypeOK, CellsInv, Harmless
<1>3. /\ \A s \in Spaces : MayHold(s)' = MayHold(s)
      /\ Command(ecCall)' = Command(ecCall)
  BY <1>1 DEF MayHold, Writes, Command, CommandOf
<1>4. ASSUME inHand' \in {inHand, NoEc}, slow' \in {slow, inHand, NoEc}, acpi' \in [Spaces -> Bytes],
             \A s \in Spaces : acpi'[s] \in MayHold(s), DoneInv'
      PROVE  EcInv'
  <2>1. EcTypeOK'
    BY <1>0, <1>1, <1>2, <1>4 DEF EcTypeOK
  <2>2. QueueInv'
    BY <1>0, <1>1, <1>3 DEF QueueInv
  <2>3. CellsInv'
    <3>1. Harmless(inHand') /\ Harmless(slow') /\ \A i \in DOMAIN emiQueue' : Harmless(emiQueue'[i])
      BY <1>0, <1>1, <1>2, <1>4 DEF CellsInv
    <3>2. (\A s \in Spaces : acpi[s] \in MayHold(s))'
      BY <1>3, <1>4
    <3>3. Harmless(inHand)' /\ Harmless(slow)'
      BY <1>3, <3>1 DEF Harmless, Writes
    <3>4. (\A i \in DOMAIN emiQueue : Harmless(emiQueue[i]))'
      BY <1>3, <3>1 DEF Harmless, Writes
    <3> QED BY <3>2, <3>3, <3>4 DEF CellsInv
  <2>4. AcpiReadsBack'
    BY <1>0, <1>1 DEF AcpiReadsBack
  <2> QED BY <1>4, <2>1, <2>2, <2>3, <2>4 DEF EcInv
\* While the EC has a command in hand nothing has succeeded that is not told yet.
<1>5. CASE EcAnswersLate
  <2>1. /\ inHand # NoEc /\ inHand' = NoEc /\ slow' \in {slow, inHand}
        /\ Executed(inHand) \/ acpi' = acpi
    BY <1>5 DEF EcAnswersLate
  <2>2. acpi' \in [Spaces -> Bytes] /\ \A s \in Spaces : acpi'[s] \in MayHold(s)
    BY <1>0, <1>2, <2>1, ExecutedCells
  <2>3. DoneInv'
    BY <1>0, <1>1, <2>1 DEF DoneInv
  <2> QED BY <1>4, <2>1, <2>2, <2>3
<1>6. CASE EcSlowDone
  <2>1. slow' = NoEc /\ inHand' = inHand /\ Executed(slow)
    BY <1>6 DEF EcSlowDone
  <2>2. /\ acpi' \in [Spaces -> Bytes]
        /\ \A s \in Spaces : acpi'[s] \in MayHold(s) /\ (acpi'[s] = acpi[s] \/ acpi'[s] \in Writes(slow, s))
    BY <1>0, <1>2, <2>1, ExecutedCells
  <2>3. DoneInv'
    <3> DEFINE s == Command(ecCall).ns
               Told == Writes(ecDone.behind, s) \cup {ecCall.data}
    <3>1. ASSUME ecPc = "wait", ecDone # NotDone, ecDone.status = "SUCCESS", ecCall.op \in WriteOps
          PROVE  acpi'[s] \in Told
      <4>1. /\ acpi[s] \in Told /\ slow \in {NoEc, ecDone.behind, Command(ecCall)}
        BY <1>0, <3>1 DEF DoneInv
      <4>2. ecCall \in EcCalls
        BY <1>0, <3>1 DEF EcTypeOK
      <4>3. s \in Spaces
        BY <4>2, EcCallFields DEF EcCmds, Spaces
      <4>4. Writes(slow, s) \subseteq Told
        BY <4>1, <4>2, <4>3, WrittenCells
      <4> QED BY <2>2, <4>1, <4>3, <4>4
    <3>2. \A t : Writes(ecDone.behind, t)' = Writes(ecDone.behind, t)
      BY <1>1 DEF Writes
    <3> QED BY <1>0, <1>1, <1>3, <2>1, <3>1, <3>2 DEF DoneInv, Writes
  <2> QED BY <1>4, <2>1, <2>2, <2>3
<1> QED BY <1>5, <1>6

\* A step of the EC handlers, the EMI thread or the EC keeps what the cells may hold.
LEMMA EcStepInv == ASSUME EcInv, EcNext PROVE EcInv'
<1>0. EcTypeOK /\ QueueInv /\ CellsInv /\ DoneInv /\ AcpiReadsBack
  BY DEF EcInv
<1>1. CASE UNCHANGED ecVars
  <2>1. EcTypeOK' /\ AcpiReadsBack'
    BY <1>0, <1>1 DEF ecVars, EcTypeOK, AcpiReadsBack
  <2>2. QueueInv'
    BY <1>0, <1>1 DEF ecVars, QueueInv, Command, CommandOf
  <2>3. CellsInv'
    BY <1>0, <1>1 DEF ecVars, CellsInv, Harmless, MayHold, Writes
  <2>4. DoneInv'
    BY <1>0, <1>1 DEF ecVars, DoneInv, Harmless, MayHold, Writes
  <2> QED BY <2>1, <2>2, <2>3, <2>4 DEF EcInv
<1>2. ASSUME NEW ok \in BOOLEAN, InitializeEc(ok) PROVE EcInv'
  <2>1. EcTypeOK' /\ AcpiReadsBack'
    BY <1>0, <1>2 DEF InitializeEc, EcTypeOK, AcpiReadsBack
  <2>2. QueueInv'
    BY <1>0, <1>2 DEF InitializeEc, EcTypeOK, QueueInv, Command, CommandOf
  <2>3. CellsInv'
    BY <1>0, <1>2 DEF InitializeEc, CellsInv, Harmless, MayHold, Writes
  <2>4. DoneInv'
    BY <1>0, <1>2 DEF InitializeEc, DoneInv, Harmless, MayHold, Writes
  <2> QED BY <2>1, <2>2, <2>3, <2>4 DEF EcInv
<1>3. CASE ecPc = "idle" /\ CloseEc
  <2>1. /\ ecPc = "idle" /\ ecPc' = "closed" /\ ecReady' = FALSE /\ emiQueue' = <<>>
        /\ UNCHANGED <<ecCall, ecDone, inHand, slow, acpi, ecAnswer, possible>>
    BY <1>3 DEF CloseEc
  <2>2. <<>> \in Seq(EcCmds) /\ DOMAIN <<>> = {}
    OBVIOUS
  <2>3. EcTypeOK'
    BY <1>0, <2>1, <2>2 DEF EcTypeOK
  <2>4. QueueInv'
    BY <1>0, <2>1, <2>2 DEF QueueInv
  <2>5. CellsInv'
    BY <1>0, <2>1, <2>2 DEF CellsInv, Harmless, MayHold, Writes, Command, CommandOf
  <2>6. DoneInv' /\ AcpiReadsBack'
    BY <1>0, <2>1 DEF DoneInv, AcpiReadsBack
  <2> QED BY <2>3, <2>4, <2>5, <2>6 DEF EcInv
<1> QED BY <1>1, <1>2, <1>3, EcRequestInv, EcWaitInv, EmiCommandInv, EcLateInv
        DEF EcNext, EcStep

-----------------------------------------------------------------------------
(* The inductive invariant *)

\* Nothing is open, queued or known at the start.
LEMMA InitIInv == Init => IInv
<1> SUFFICES ASSUME Init PROVE IInv
  OBVIOUS
<1>1. PowerInv
  <2>1. /\ lastError = NoError /\ powerPc = "idle" /\ action = "unknown" /\ tokens = 0
        /\ powerAnswer = [request |-> 0, result |-> 0, error |-> NoError] /\ powerCount = 0
    BY DEF Init, PowerInit
  <2>2. 0 \in 0..MaxPower
    BY PowerBoundsAssumption
  <2>3. NoError \in Errors
    BY <2>2 DEF NoError, Errors
  <2>4. powerAnswer.request = 0 /\ powerAnswer.result = 0
    BY <2>1
  <2>5. PowerTypeOK
    BY <2>1, <2>2, <2>3, <2>4 DEF PowerTypeOK, Actions
  <2> QED BY <2>1, <2>4, <2>5 DEF PowerInv, ErrorIsOwn
<1>2. RegInv
  <2>1. /\ keyExists = FALSE /\ store = Empty /\ regPc = "idle" /\ regCall = NoReg
        /\ seen = Absent /\ regAnswer = NoRegAnswer /\ foreign = 0 /\ hKeys = 0
        /\ orphan = FALSE /\ expected = Empty
    BY DEF Init, RegInit
  <2>2. NoReg \in Requests /\ NoReg.op = "none"
    BY DEF NoReg, Requests, Types, Strings
  <2>3. Absent \in Cells /\ Empty \in [Names -> Cells]
    BY DEF Empty, Cells
  <2>4. 0 \in 0..MaxForeign
    BY RegBoundsAssumption
  <2>5. RegTypeOK
    <3>1. store \in [Names -> Cells] /\ seen \in Cells /\ regCall \in Requests
      BY <2>1, <2>2, <2>3
    <3>2. foreign \in 0..MaxForeign /\ hKeys \in 0..1
      BY <2>1, <2>4
    <3>3. /\ keyExists \in BOOLEAN /\ orphan \in BOOLEAN
          /\ regPc \in {"idle", "open", "read", "readData", "write", "delete", "deleteKey"}
      BY <2>1
    <3> QED BY <3>1, <3>2, <3>3 DEF RegTypeOK
  <2>6. RegistryReadsBack
    BY <2>1 DEF RegistryReadsBack, NoRegAnswer, NoReg
  <2> QED BY <2>1, <2>2, <2>5, <2>6 DEF RegInv
<1>3. WmiInv
  <2>1. /\ comInitialized = FALSE /\ isInitialized = FALSE /\ svc = NoSvc
        /\ currentNamespace = "" /\ wmiPc = "new" /\ wmiCall = NoCall /\ rows = 0 /\ left = 0
        /\ wmiAnswer = [op |-> "none", ok |-> TRUE, rows |-> 0] /\ restarts = 0
        /\ held = [i \in Interfaces |-> 0]
    BY DEF Init, WmiInit
  <2>2. 0 \in 0..MaxRows /\ 0 \in 0..MaxRestarts /\ 0 + 0 <= MaxRows
    BY WmiBoundsAssumption
  <2>3. NoSvc \in Proxies
    BY <2>2 DEF NoSvc, Proxies
  <2>4. NoCall \in Calls
    BY DEF NoCall, Calls
  <2>5. [op |-> "none", ok |-> TRUE, rows |-> 0] \in Answers
    BY <2>2 DEF Answers
  <2>6. held \in [Interfaces -> {0, 1}] /\ \A i \in Interfaces : held[i] # 1
    <3>1. held = [i \in Interfaces |-> 0]
      BY <2>1
    <3> QED BY <3>1
  <2>7. WmiTypeOK
    BY <2>1, <2>2, <2>3, <2>4, <2>5, <2>6 DEF WmiTypeOK
  <2>8. HeldInv
    BY <2>1, <2>6, InterfaceNames DEF HeldInv
  <2>9. ConnInv
    BY <2>1, <2>2 DEF ConnInv
  <2> QED BY <2>7, <2>8, <2>9 DEF WmiInv
<1>4. EcInv
  <2>1. /\ ecReady = FALSE /\ ecPc = "new" /\ ecCall = NoEc /\ emiQueue = <<>>
        /\ ecDone = NotDone /\ inHand = NoEc /\ slow = NoEc /\ acpi = [s \in Spaces |-> 0]
        /\ ecAnswer = NoEcAnswer /\ possible = [s \in Spaces |-> Bytes]
    BY DEF Init, EcInit
  <2>2. NoEc.op # "acpiRead" /\ \A s \in Spaces : Writes(NoEc, s) = {}
    BY WrittenCells DEF NoEc
  <2>3. NotDone \in Outcomes
    BY BytesAssumption DEF NotDone, Outcomes
  <2>4. <<>> \in Seq(EcCmds) /\ DOMAIN <<>> = {}
    OBVIOUS
  <2>5. EcTypeOK
    BY <2>1, <2>4, BytesAssumption DEF EcTypeOK
  <2>6. QueueInv
    BY <2>1, <2>3, <2>4 DEF QueueInv
  <2>7. CellsInv
    BY <2>1, <2>2, <2>4, BytesAssumption DEF CellsInv, MayHold, Harmless
  <2>8. DoneInv /\ AcpiReadsBack
    BY <2>1, <2>2 DEF DoneInv, AcpiReadsBack, NoEcAnswer
  <2> QED BY <2>5, <2>6, <2>7, <2>8 DEF EcInv
<1>5. served \in 0..MaxRequests
  BY RequestsAssumption DEF Init
<1> QED BY <1>1, <1>2, <1>3, <1>4, <1>5 DEF IInv

\* Each step is one of a family, and leaves the others alone.
LEMMA FamilySteps ==
  ASSUME [Next]_vars
  PROVE  PowerNext /\ RegNext /\ WmiNext /\ EcNext
<1> USE DEF PowerNext, RegNext, WmiNext, EcNext, WmiOnly, RegOnly, EcOnly, PowerOnly, Arrives, Works
<1>1. CASE HandleWmi
  <2>1. PICK ns \in Namespaces \cup {""} :
          \E op \in {"query", "method"} : Call(op, IF ns = "" THEN DefaultNamespace ELSE ns)
    BY <1>1 DEF HandleWmi
  <2>2. (IF ns = "" THEN DefaultNamespace ELSE ns) \in Namespaces
    BY DefaultAssumption
  <2>3. \E op \in {"query", "method"}, n \in Namespaces : Call(op, n)
    BY <2>1, <2>2
  <2> QED BY <1>1, <2>3 DEF HandleWmi
<1>2. CASE Works("wmi") /\ WmiStep /\ WmiOnly
  BY <1>2
<1>3. CASE DestroyWmi
  BY <1>3 DEF DestroyWmi
<1>4. CASE HandleRegistry
  BY <1>4 DEF HandleRegistry
<1>5. CASE Works("registry") /\ RegStep /\ RegOnly
  BY <1>5
<1>6. CASE HandleEc
  BY <1>6 DEF HandleEc
<1>7. CASE Works("ec") /\ EcStep /\ EcOnly
  BY <1>7
<1>8. CASE DestroyEc
  BY <1>8 DEF DestroyEc
<1>9. CASE HandlePower
  BY <1>9 DEF HandlePower
<1>10. CASE Works("power") /\ PowerStep /\ PowerOnly
  BY <1>10
<1>11. CASE UNCHANGED vars
  BY <1>11 DEF vars
<1> QED BY <1>1, <1>2, <1>3, <1>4, <1>5, <1>6, <1>7, <1>8, <1>9, <1>10, <1>11 DEF Next

\* Every step keeps the invariant.
LEMMA StepIInv == IInv /\ [Next]_vars => IInv'
<1> SUFFICES ASSUME IInv, [Next]_vars PROVE IInv'
  OBVIOUS
<1>1. PowerNext /\ RegNext /\ WmiNext /\ EcNext
  BY FamilySteps
<1>2. PowerInv' /\ RegInv' /\ WmiInv' /\ EcInv'
  BY <1>1, PowerStepInv, RegStepInv, WmiStepInv, EcStepInv DEF IInv
<1>3. served' = served \/ (served < MaxRequests /\ served' = served + 1)
  BY DEF Next, vars, HandleWmi, HandleRegistry, HandleEc, HandlePower, DestroyEc, DestroyWmi,
         Arrives, Works
<1>4. served' \in 0..MaxRequests
  BY <1>3, RequestsAssumption DEF IInv
<1> QED BY <1>2, <1>4 DEF IInv

-----------------------------------------------------------------------------
(* The theorems *)

\* The invariant holds of every behaviour of CommandProc.
THEOREM Invariance == Spec => []IInv
<1> QED BY InitIInv, StepIInv, PTL DEF Spec

\* The state of the dispatcher and of its four families has its types.
THEOREM TypeCorrect == Spec => []TypeOK
<1>1. IInv => TypeOK
  BY DEF IInv, PowerInv, RegInv, WmiInv, EcInv, TypeOK
<1> QED BY <1>1, Invariance, PTL

\* Whichever call of a handler fails, it leaves no registry key, token or WMI
\* interface open, and the service leaves none when it destroys CommandProc.
THEOREM NoLeaks == Spec => []NothingLeaks
<1>1. ASSUME IInv PROVE NothingLeaks
  <2>1. regPc = "idle" => hKeys = 0
    BY <1>1 DEF IInv, RegInv, RegTypeOK
  <2>2. powerPc # "adjust" => tokens = 0
    BY <1>1 DEF IInv, PowerInv, PowerTypeOK
  <2>3. WmiTypeOK /\ HeldInv
    BY <1>1 DEF IInv, WmiInv
  <2>4. held \in [Interfaces -> {0, 1}]
    BY <2>3 DEF WmiTypeOK
  <2>5. WmiKeepsFields
    BY <2>3, <2>4 DEF WmiKeepsFields, HeldInv, Interfaces, Fields, Locals
  <2>6. wmiPc = "closed" => \A i \in DOMAIN held : held[i] = 0
    BY <2>3, <2>4 DEF HeldInv, Interfaces, Fields, Locals
  <2> QED BY <2>1, <2>2, <2>5, <2>6 DEF NothingLeaks
<1> QED BY <1>1, Invariance, PTL

\* A call goes to a proxy of its own namespace that has its security set.
THEOREM ReadyProxy == Spec => []ProxyIsReady
<1>1. IInv => ProxyIsReady
  BY DEF IInv, WmiInv, ConnInv, ProxyIsReady
<1> QED BY <1>1, Invariance, PTL

\* Clients read what the registry holds, unless another process changed it meanwhile.
THEOREM RegistryTold == Spec => []RegistryReadsBack
<1>1. IInv => RegistryReadsBack
  BY DEF IInv, RegInv
<1> QED BY <1>1, Invariance, PTL

\* A read of the EC's memory tells what the last write that succeeded wrote, what
\* one that failed after it wrote, or what the one command writes that the EC had in
\* the background when that write was answered.
THEOREM AcpiTold == Spec => []AcpiReadsBack
<1>1. IInv => AcpiReadsBack
  BY DEF IInv, EcInv
<1> QED BY <1>1, Invariance, PTL

\* The error a power request reports is that of its own call, not an earlier one's.
THEOREM OwnError == Spec => []ErrorIsOwn
<1>1. IInv => ErrorIsOwn
  BY DEF IInv, PowerInv
<1> QED BY <1>1, Invariance, PTL
=============================================================================
