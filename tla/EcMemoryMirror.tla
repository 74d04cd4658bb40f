--------------------------- MODULE EcMemoryMirror ----------------------------
(***************************************************************************)
(* The EC memory mirror: one ECMemoryWriter, in the service, publishes the *)
(* EC's memory in a named shared mapping, ECMemoryReaders of other         *)
(* processes copy it, and a named mutex keeps them apart.  Any of them may *)
(* die at any moment, and the service comes back.                          *)
(*                                                                         *)
(* The payload is told apart by the update that wrote it, in two parts     *)
(* that are written and copied one after the other: "head" is timestamp,   *)
(* dataSize and the first bytes, "tail" the rest.  A wait that times out   *)
(* (100 ms) returns false and changes nothing: it is no action here.       *)
(***************************************************************************)
EXTENDS Naturals

CONSTANTS Writer,       \* the service's process
          Readers,      \* the clients' processes
          MaxRetries,   \* of readMemory: 3
          MaxUpdates,   \* bound: updates the service publishes
          MaxDeaths     \* bound: processes that are killed

ASSUME ProcessesAssumption == Writer \notin Readers /\ "free" \notin Readers \cup {Writer}
ASSUME BoundsAssumption == {MaxRetries, MaxUpdates, MaxDeaths} \subseteq Nat

Procs == Readers \cup {Writer}

VARIABLES
  mem,        \* *m_pData: its version and the updates its two parts are from
  mapped,     \* processes with a view of the mapping (which lives as long)
  mutex,      \* the named mutex: owner, recursion count, abandoned by a dead owner
  opened,     \* processes with a handle of it (it lives as long)
  pc,         \* of each process
  copy,       \* readMemory's v1, v2 and localCopy
  retries,    \* readMemory's counter
  updates, deaths,
  (* ghosts *)
  broken,     \* a part is out of step: the writer is clearing, or died writing
  kept,       \* processes that own the mutex because they met it abandoned
  got         \* what each reader was last told with success

vars == <<mem, mapped, mutex, opened, pc, copy, retries, updates, deaths,
          broken, kept, got>>

Zeros  == [version |-> 0, head |-> 0, tail |-> 0]
Free   == [owner |-> "free", count |-> 0, abandoned |-> FALSE]
NoCopy == [v1 |-> 0, v2 |-> 0, head |-> 0, tail |-> 0, excused |-> FALSE]

Init ==
  /\ mem = Zeros /\ mapped = {} /\ mutex = Free /\ opened = {}
  /\ pc = [p \in Procs |-> "closed"]
  /\ copy = [r \in Readers |-> NoCopy] /\ retries = [r \in Readers |-> 0]
  /\ updates = 0 /\ deaths = 0
  /\ broken = FALSE /\ kept = {} /\ got = [r \in Readers |-> NoCopy]

Goto(p, label) == pc' = [pc EXCEPT ![p] = label]

\* The end of a call of r's, and of its local variables.
Ends(r) == /\ Goto(r, "open")
           /\ copy' = [copy EXCEPT ![r] = NoCopy] /\ retries' = [retries EXCEPT ![r] = 0]

ReadVars  == <<copy, retries, got>>
BoundVars == <<updates, deaths>>

-----------------------------------------------------------------------------
(* The mutex (Windows).  An operator named ..Fault is a plausible bug in the   *)
(* one that follows it; no specification uses it.                              *)

\* WaitForSingleObject returns WAIT_OBJECT_0.
Granted(p) ==
  /\ p \in opened
  /\ mutex.owner = p \/ (mutex.owner = "free" /\ ~mutex.abandoned)
  /\ mutex' = [mutex EXCEPT !.owner = p, !.count = @ + 1]

\* It returns WAIT_ABANDONED: the caller owns the mutex, and takes this for a
\* failure.
TakesAbandoned(p) ==
  /\ p \in opened /\ mutex.owner = "free" /\ mutex.abandoned
  /\ mutex' = [owner |-> p, count |-> 1, abandoned |-> FALSE]
  /\ kept' = kept \cup {p}

\* ReleaseMutex (the fault: it is left out).
ReleasedFault(m) == m
Released(m) == IF m.count = 1 THEN Free ELSE [m EXCEPT !.count = @ - 1]

\* The handles of p are closed; an object without handles is gone.
Closes(p) ==
  /\ mapped' = mapped \ {p} /\ opened' = opened \ {p}
  /\ Goto(p, "closed")
  /\ IF p \in Readers THEN /\ copy' = [copy EXCEPT ![p] = NoCopy]
                            /\ retries' = [retries EXCEPT ![p] = 0]
                            /\ got' = [got EXCEPT ![p] = NoCopy]
                       ELSE UNCHANGED ReadVars

\* close(), or a destructor: ownership stays with the thread.
Close(p) ==
  /\ pc[p] = "open" /\ Closes(p)
  /\ mutex' = IF opened' = {} THEN Free ELSE mutex
  /\ kept'  = IF opened' = {} THEN {} ELSE kept
  /\ UNCHANGED <<mem, broken, BoundVars>>

\* The process is killed: a mutex it owns is abandoned.
Die(p) ==
  /\ deaths < MaxDeaths /\ deaths' = deaths + 1
  /\ pc[p] # "closed" \/ mutex.owner = p
  /\ Closes(p)
  /\ mutex' = IF opened' = {} THEN Free
              ELSE IF mutex.owner = p THEN [Free EXCEPT !.abandoned = TRUE] ELSE mutex
  /\ kept' = IF opened' = {} THEN {} ELSE kept \ {p}
  /\ broken' = (broken \/ pc[p] \in {"writeHead", "writeTail", "clear", "clearTail", "clearHead"})
  /\ UNCHANGED <<mem, updates>>

-----------------------------------------------------------------------------
(* ECMemoryWriter *)

\* create(): the mapping, which may be an old one that readers still have.  A
\* failure undoes what was done, and is no step.
CreateMapping ==
  /\ pc[Writer] = "closed"
  /\ mapped' = mapped \cup {Writer}
  /\ mem' = IF mapped = {} THEN Zeros ELSE mem
  /\ broken' = TRUE
  /\ Goto(Writer, "clear")
  /\ UNCHANGED <<mutex, opened, kept, ReadVars, BoundVars>>

\* ZeroMemory, without the mutex, which is created later; in whatever order
\* the library clears the parts.
ClearHead ==
  /\ pc[Writer] \in {"clear", "clearHead"}
  /\ mem' = [mem EXCEPT !.version = 0, !.head = 0]
  /\ Goto(Writer, IF pc[Writer] = "clear" THEN "clearTail" ELSE "cleared")
  /\ broken' = (pc[Writer] = "clear")
  /\ UNCHANGED <<mapped, mutex, opened, kept, ReadVars, BoundVars>>

ClearTail ==
  /\ pc[Writer] \in {"clear", "clearTail"}
  /\ mem' = [mem EXCEPT !.tail = 0]
  /\ Goto(Writer, IF pc[Writer] = "clear" THEN "clearHead" ELSE "cleared")
  /\ broken' = (pc[Writer] = "clear")
  /\ UNCHANGED <<mapped, mutex, opened, kept, ReadVars, BoundVars>>

\* CreateMutexW: the existing one, as its owner left it, or a new one; or a
\* failure, and create() unmaps and closes.
CreateMutex(ok) ==
  /\ pc[Writer] = "cleared"
  /\ IF ok THEN opened' = opened \cup {Writer} /\ Goto(Writer, "open") /\ UNCHANGED mapped
           ELSE mapped' = mapped \ {Writer} /\ Goto(Writer, "closed") /\ UNCHANGED opened
  /\ UNCHANGED <<mem, mutex, broken, kept, ReadVars, BoundVars>>

\* updateMemory: the mutex, then version, then the parts.  Data that is too
\* large is refused before that.
Update ==
  /\ pc[Writer] = "open" /\ updates < MaxUpdates
  /\ Granted(Writer)
  /\ updates' = updates + 1
  /\ mem' = [mem EXCEPT !.version = @ + 1]
  /\ Goto(Writer, "writeHead")
  /\ UNCHANGED <<mapped, opened, broken, kept, ReadVars, deaths>>

UpdateAbandoned ==
  /\ pc[Writer] = "open" /\ updates < MaxUpdates
  /\ TakesAbandoned(Writer)
  /\ UNCHANGED <<mem, mapped, opened, pc, broken, ReadVars, BoundVars>>

WriteHead ==
  /\ pc[Writer] = "writeHead"
  /\ mem' = [mem EXCEPT !.head = updates]
  /\ Goto(Writer, "writeTail")
  /\ UNCHANGED <<mapped, mutex, opened, broken, kept, ReadVars, BoundVars>>

WriteTail ==
  /\ pc[Writer] = "writeTail"
  /\ mem' = [mem EXCEPT !.tail = updates]
  /\ mutex' = Released(mutex)
  /\ Goto(Writer, "open")
  /\ broken' = FALSE
  /\ UNCHANGED <<mapped, opened, kept, ReadVars, BoundVars>>

-----------------------------------------------------------------------------
(* ECMemoryReader *)

\* open(): mapping and mutex must both exist.
Open(r) ==
  /\ pc[r] = "closed" /\ mapped # {} /\ opened # {}
  /\ mapped' = mapped \cup {r} /\ opened' = opened \cup {r}
  /\ Goto(r, "open")
  /\ UNCHANGED <<mem, mutex, broken, kept, ReadVars, BoundVars>>

\* readMemory waits for the mutex, first or again.
Lock(r) ==
  /\ pc[r] \in {"open", "again"}
  /\ Granted(r)
  /\ Goto(r, "copyHead")
  /\ UNCHANGED <<mem, mapped, opened, broken, kept, ReadVars, BoundVars>>

\* The wait for a retry times out: readMemory returns false.
LockTimesOut(r) ==
  /\ pc[r] = "again" /\ mutex.owner \notin {"free", r}
  /\ Ends(r)
  /\ UNCHANGED <<mem, mapped, mutex, opened, broken, kept, got, BoundVars>>

\* readMemory, or getVersion, meets an abandoned mutex.
LockAbandoned(r) ==
  /\ pc[r] \in {"open", "again"}
  /\ TakesAbandoned(r)
  /\ Ends(r)
  /\ UNCHANGED <<mem, mapped, opened, broken, got, BoundVars>>

CopyHead(r) ==
  /\ pc[r] = "copyHead"
  /\ copy' = [copy EXCEPT ![r] = [NoCopy EXCEPT !.v1 = mem.version, !.head = mem.head,
                                                !.excused = broken]]
  /\ Goto(r, "copyTail")
  /\ UNCHANGED <<mem, mapped, mutex, opened, broken, kept, retries, got, BoundVars>>

CopyTail(r) ==
  /\ pc[r] = "copyTail"
  /\ copy' = [copy EXCEPT ![r] = [v1 |-> @.v1, v2 |-> mem.version, head |-> @.head,
                                   tail |-> mem.tail, excused |-> @.excused \/ broken]]
  /\ Goto(r, "check")
  /\ UNCHANGED <<mem, mapped, mutex, opened, broken, kept, retries, got, BoundVars>>

\* while (v1 != v2) (the fault: the copy is taken as it is).
ConsistentFault(c) == TRUE
Consistent(c) == c.v1 = c.v2

\* ReleaseMutex; the last copy is thrown away whatever it is.
Check(r) ==
  /\ pc[r] = "check"
  /\ mutex' = Released(mutex)
  /\ IF retries[r] + 1 > MaxRetries THEN Ends(r) /\ UNCHANGED got
     ELSE IF Consistent(copy[r]) THEN Ends(r) /\ got' = [got EXCEPT ![r] = copy[r]]
     ELSE /\ Goto(r, "again") /\ retries' = [retries EXCEPT ![r] = @ + 1]
          /\ UNCHANGED <<copy, got>>
  /\ UNCHANGED <<mem, mapped, opened, broken, kept, BoundVars>>

-----------------------------------------------------------------------------
Next ==
  \/ \E p \in Procs : Close(p) \/ Die(p)
  \/ CreateMapping \/ ClearHead \/ ClearTail
  \/ \E ok \in BOOLEAN : CreateMutex(ok)
  \/ Update \/ UpdateAbandoned \/ WriteHead \/ WriteTail
  \/ \E r \in Readers : \/ Open(r)  \/ Lock(r)     \/ LockTimesOut(r) \/ LockAbandoned(r)
                        \/ CopyHead(r) \/ CopyTail(r) \/ Check(r)

Spec == Init /\ [][Next]_vars

-----------------------------------------------------------------------------
(* Properties *)

Copies == [v1 : Nat, v2 : Nat, head : Nat, tail : Nat, excused : BOOLEAN]

TypeOK ==
  /\ mem \in [version : Nat, head : Nat, tail : Nat]
  /\ mapped \subseteq Procs /\ opened \subseteq mapped /\ kept \subseteq Procs
  /\ mutex \in [owner : Procs \cup {"free"}, count : 0..2, abandoned : BOOLEAN]
  /\ mutex.owner = "free" <=> mutex.count = 0
  /\ pc[Writer] \in {"closed", "clear", "clearHead", "clearTail", "cleared",
                     "open", "writeHead", "writeTail"}
  /\ \A r \in Readers : pc[r] \in {"closed", "open", "again", "copyHead", "copyTail", "check"}
  /\ copy \in [Readers -> Copies] /\ got \in [Readers -> Copies]
  /\ retries \in [Readers -> 0..MaxRetries]
  /\ updates \in 0..MaxUpdates /\ deaths \in 0..MaxDeaths /\ broken \in BOOLEAN

\* A reader that is told success has one update whole, "Local copy for atomic
\* read", although a service that comes back clears the mapping without the
\* mutex: a copy around a whole clearing is caught by the version.  (What is
\* not caught, and excused here: a copy made in the middle of the clearing, and
\* one of what a writer that died in updateMemory left.)
ReadsAreWhole == \A r \in Readers : got[r].head = got[r].tail \/ got[r].excused

\* Between its calls no process holds the mutex, however the calls end, unless
\* it met the mutex abandoned: WAIT_ABANDONED grants it, and both classes take
\* that for a failure and never release it.
MutexGivenBack ==
  \A p \in Procs : mutex.owner = p /\ pc[p] \in {"closed", "open", "again"} => p \in kept
=============================================================================
