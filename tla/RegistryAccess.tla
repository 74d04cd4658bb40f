---------------------------- MODULE RegistryAccess ----------------------------
(***************************************************************************)
(* RegistryAccess and CommandProc's three registry handlers, on one key of *)
(* the registry that other processes change as well.  A request opens the  *)
(* key, reads, writes or deletes, and closes it; a string or a block is    *)
(* read by two calls, of the size and of the data, and the value may be    *)
(* another one at the second.                                              *)
(*                                                                         *)
(* Strings and blocks are told apart by their length, integers by a        *)
(* number.  The empty name is the key's default value, and means the whole *)
(* key in a deletion.                                                      *)
(***************************************************************************)
EXTENDS Naturals

CONSTANTS Names,       \* names of values
          Lengths,     \* lengths of strings and blocks, and numbers
          MaxForeign   \* bound: changes by other processes

ASSUME LengthsAssumption   == Lengths \subseteq Nat
ASSUME RegBoundsAssumption == MaxForeign \in Nat

Strings == {"SZ", "EXPAND_SZ"}
Types   == Strings \cup {"DWORD", "QWORD", "BINARY", "MULTI_SZ"}
Values  == [type : Types, data : Lengths]
Absent  == [type |-> "none", data |-> 0]

VARIABLES
  keyExists, store,    \* the registry: the key and its values
  regPc, regCall,      \* the request in progress
  seen,                \* the value that gave dataSize, after the first call
  regAnswer,           \* with "wanted", a ghost
  foreign,             \* changes by other processes
  orphan,              \* the key was deleted while the request has it open
  (* ghosts *)
  hKeys,               \* handles that are open
  expected             \* the values, by what requests said and were told

regVars == <<keyExists, store, regPc, regCall, seen, regAnswer, foreign,
             orphan, hKeys, expected>>

NoReg   == [op |-> "none", name |-> "", type |-> "SZ", data |-> 0]
Empty   == [n \in Names |-> Absent]
Unknown == [type |-> "unknown", data |-> 0]
NoRegAnswer == [call |-> NoReg, ok |-> FALSE, value |-> Absent, wanted |-> Unknown]

RegInit ==
  /\ keyExists = FALSE /\ store = Empty
  /\ regPc = "idle" /\ regCall = NoReg /\ seen = Absent
  /\ regAnswer = NoRegAnswer
  /\ foreign = 0 /\ hKeys = 0 /\ orphan = FALSE
  /\ expected = Empty

-----------------------------------------------------------------------------
(* Helpers.  An operator named ..Fault is a plausible bug in the one that     *)
(* follows it; no specification uses it.                                      *)

\* Bytes of a value; a string has its terminator.
Size(v) == CASE v.type = "DWORD"  -> 4
             [] v.type = "QWORD"  -> 8
             [] v.type = "BINARY" -> v.data
             [] OTHER             -> v.data + 1

\* The type a write stores: handleRegistryWrite makes a string of what it does
\* not know.
StoredType(t) == IF t = "MULTI_SZ" THEN "SZ" ELSE t

\* The types a read of type t takes.
Accepted(t) == IF t \in Strings THEN Strings ELSE {t}
Retyped(c, v) == v.type \notin Accepted(c.type)

\* The request is answered, after closeKey.
Closed(n) == 0

Answer(ok, v, wanted) ==
  /\ regPc' = "idle" /\ regCall' = NoReg /\ seen' = Absent
  /\ hKeys' = Closed(hKeys) /\ orphan' = FALSE
  /\ regAnswer' = [call |-> regCall, ok |-> ok, value |-> v, wanted |-> wanted]
Fails == Answer(FALSE, Absent, Unknown)
Found(v) == Answer(TRUE, v, expected[regCall.name])

Expect(n, v) == expected' = [expected EXCEPT ![n] = v]

-----------------------------------------------------------------------------
(* The handlers' calls *)

\* del and deleteKey do not open the key.
RegRequest(c) ==
  /\ regPc = "idle"
  /\ regCall' = c
  /\ regPc' = IF c.op = "delete" /\ c.name = "" THEN "deleteKey" ELSE "open"
  /\ regAnswer' = NoRegAnswer
  /\ UNCHANGED <<keyExists, store, seen, foreign, orphan, hKeys, expected>>

\* openKey; to write, it creates a key that it cannot open.  It may be refused.
OpenKey(ok) ==
  /\ regPc = "open"
  /\ ok => keyExists \/ regCall.op = "write"
  /\ IF ok THEN /\ hKeys' = hKeys + 1 /\ keyExists' = TRUE
                /\ regPc' = regCall.op
                /\ UNCHANGED <<regCall, seen, orphan, regAnswer>>
           ELSE Fails /\ UNCHANGED keyExists
  /\ UNCHANGED <<store, foreign, expected>>

\* readDwordValue and readQwordValue: one call; or, for a string or a block, the
\* first of two.  No other type is read.  The fault: the type is not compared.
ReadableFault(c, v) == v # Absent /\ c.type # "MULTI_SZ"
Readable(c, v) == ~Retyped(c, v) /\ c.type # "MULTI_SZ"

QueryValue ==
  /\ regPc = "read"
  /\ LET v == store[regCall.name]
     IN  CASE orphan \/ ~Readable(regCall, v) -> Fails
           [] OTHER ->
                IF regCall.type \in {"DWORD", "QWORD"} \/ Size(v) = 0
                THEN Found(v)
                ELSE /\ seen' = v /\ regPc' = "readData"
                     /\ UNCHANGED <<regCall, hKeys, orphan, regAnswer>>
  /\ UNCHANGED <<keyExists, store, foreign, expected>>

\* The second call fails when the buffer has become too small.  The type is not
\* compared again, and a block keeps the length of the first call.
QueryData ==
  /\ regPc = "readData"
  /\ LET v == store[regCall.name]
         got == IF regCall.type = "BINARY" THEN [v EXCEPT !.data = seen.data] ELSE v
     IN  IF orphan \/ v = Absent \/ Size(v) > Size(seen) THEN Fails
         ELSE IF Retyped(regCall, v) \/ got # v THEN Answer(TRUE, got, Unknown)
         ELSE Found(got)
  /\ UNCHANGED <<keyExists, store, foreign, expected>>

\* RegSetValueEx, whole or not at all.
SetValue(ok) ==
  /\ regPc = "write"
  /\ ok => ~orphan
  /\ LET v == [type |-> StoredType(regCall.type), data |-> regCall.data]
     IN  IF ok THEN /\ store' = [store EXCEPT ![regCall.name] = v]
                    /\ Expect(regCall.name, v)
               ELSE UNCHANGED <<store, expected>>
  /\ Answer(ok, Absent, Unknown)
  /\ UNCHANGED <<keyExists, foreign>>

\* deleteValue (a value that is not there cannot be deleted).
DeleteValue(ok) ==
  /\ regPc = "delete"
  /\ ok => ~orphan /\ store[regCall.name] # Absent
  /\ IF ok THEN store' = [store EXCEPT ![regCall.name] = Absent] /\ Expect(regCall.name, Absent)
           ELSE UNCHANGED <<store, expected>>
  /\ Answer(ok, Absent, Unknown)
  /\ UNCHANGED <<keyExists, foreign>>

\* deleteKey, by RegDeleteKeyEx.
DeleteKey(ok) ==
  /\ regPc = "deleteKey"
  /\ ok => keyExists
  /\ IF ok THEN keyExists' = FALSE /\ store' = Empty /\ expected' = Empty
           ELSE UNCHANGED <<keyExists, store, expected>>
  /\ Answer(ok, Absent, Unknown)
  /\ UNCHANGED <<foreign>>

-----------------------------------------------------------------------------
(* Other processes (external): what they do to a value changes what clients can *)
(* expect.                                                                      *)

Foreign == /\ foreign < MaxForeign /\ foreign' = foreign + 1
           /\ UNCHANGED <<regPc, regCall, seen, regAnswer, hKeys>>

ForeignWrite(n, v) ==
  /\ Foreign
  /\ keyExists' = TRUE /\ store' = [store EXCEPT ![n] = v] /\ Expect(n, v)
  /\ UNCHANGED orphan

ForeignDelete ==
  /\ Foreign
  /\ keyExists /\ keyExists' = FALSE /\ store' = Empty /\ expected' = Empty
  /\ orphan' = (hKeys > 0)

RegStep ==
  \/ \E ok \in BOOLEAN : OpenKey(ok) \/ SetValue(ok) \/ DeleteValue(ok) \/ DeleteKey(ok)
  \/ QueryValue \/ QueryData
  \/ ForeignDelete
  \/ \E n \in Names, v \in Values \cup {Absent} : ForeignWrite(n, v)

-----------------------------------------------------------------------------
(* Properties *)

Requests == [op : {"none", "read", "write", "delete"}, name : Names \cup {""},
             type : Types, data : Lengths \cup {0}]
Cells == Values \cup {Absent}

RegTypeOK ==
  /\ keyExists \in BOOLEAN /\ store \in [Names -> Cells]
  /\ regPc \in {"idle", "open", "read", "readData", "write", "delete", "deleteKey"}
  /\ regCall \in Requests
  /\ foreign \in 0..MaxForeign /\ hKeys \in 0..1
  /\ orphan \in BOOLEAN /\ seen \in Cells

\* A read that succeeds tells what the key holds, by the requests that were
\* answered with success and what other processes did: the value last written
\* to that name, of a type that the read asked for, whatever failed in between;
\* not one that was deleted with its key.  A string or a block that changes
\* between its two calls comes out as the new one.  (Excused: a value whose
\* type changes between the two calls is taken for one of the first type, and a
\* block that shrinks keeps its old length.)
RegistryReadsBack ==
  LET a == regAnswer
  IN  a.call.op = "read" /\ a.ok /\ a.wanted # Unknown =>
        a.value = a.wanted /\ a.value.type \in Accepted(a.call.type)
=============================================================================
