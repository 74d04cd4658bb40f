------------------------ MODULE EcMemoryMirrorProofs -------------------------
(***************************************************************************)
(* Proofs about EcMemoryMirror, for every set of readers and any number of *)
(* updates, retries and deaths: the types, who keeps the mutex, and that a *)
(* reader is told success with one whole update.                           *)
(***************************************************************************)
EXTENDS EcMemoryMirror, TLAPS

Writing  == {"writeHead", "writeTail"}
Clearing == {"clear", "clearHead", "clearTail"}
Reading  == {"copyHead", "copyTail", "check"}
Critical == Writing \cup Reading

\* The types of TypeOK, without the bound on the recursion of the mutex.
MemTypes ==
  /\ mem \in [version : Nat, head : Nat, tail : Nat]
  /\ updates \in 0..MaxUpdates /\ deaths \in 0..MaxDeaths
HandleTypes ==
  /\ mapped \subseteq Procs /\ opened \subseteq mapped /\ kept \subseteq Procs
MutexType ==
  mutex \in [owner : Procs \cup {"free"}, count : Nat, abandoned : BOOLEAN]
BrokenType == broken \in BOOLEAN
PcTypes ==
  /\ pc \in [Procs -> Critical \cup Clearing \cup {"closed", "cleared", "open", "again"}]
  /\ pc[Writer] \in Writing \cup Clearing \cup {"closed", "cleared", "open"}
  /\ \A r \in Readers : pc[r] \in Reading \cup {"closed", "open", "again"}
CopyTypes ==
  /\ copy \in [Readers -> Copies] /\ got \in [Readers -> Copies]
  /\ retries \in [Readers -> 0..MaxRetries]
Types == MemTypes /\ HandleTypes /\ MutexType /\ BrokenType /\ PcTypes /\ CopyTypes

\* What each process has open.
HandleInv ==
  /\ \A p \in Procs : pc[p] \in Critical => p \in opened
  /\ pc[Writer] \in Clearing \cup {"cleared"} => Writer \in mapped /\ Writer \notin opened
  /\ pc[Writer] = "closed" => Writer \notin opened

\* How often p owns the mutex: once inside a call, and once if it met the mutex
\* abandoned.
Owns(p) == (IF pc[p] \in Critical THEN 1 ELSE 0) + (IF p \in kept THEN 1 ELSE 0)

MutexInv ==
  /\ mutex.owner = "free" <=> mutex.count = 0
  /\ \A p \in Procs : mutex.owner = p => mutex.count = Owns(p)
  /\ \A p \in Procs : pc[p] \in Critical \/ p \in kept => mutex.owner = p

\* The shared memory: whole unless it is being written or cleared, and empty at
\* version 0.
WholeInv ==
  /\ ~broken /\ pc[Writer] \notin Writing =>
       mem.head = mem.tail /\ (mem.version = 0 => mem.head = 0)
  /\ pc[Writer] \in Clearing => broken
  /\ pc[Writer] \in Writing => ~broken /\ mem.version > 0
  /\ pc[Writer] = "writeTail" => mem.head = updates
  /\ pc[Writer] \in {"cleared", "open"} => ~broken
  /\ pc[Writer] = "clearHead" => mem.tail = 0
  /\ pc[Writer] = "clearTail" => mem.head = 0 /\ mem.version = 0

\* A copy in progress, unless it is excused: the memory is still the one its
\* first part is of, or has been cleared.
CopyInv ==
  \A r \in Readers :
    /\ pc[r] = "copyTail" /\ ~copy[r].excused =>
         /\ \/ copy[r].head = mem.head /\ copy[r].v1 = mem.version
            \/ mem.head = 0 /\ mem.version = 0
         /\ copy[r].v1 = 0 => copy[r].head = 0
    /\ pc[r] = "check" /\ ~copy[r].excused /\ copy[r].v1 = copy[r].v2 =>
         copy[r].head = copy[r].tail

IInv == Types /\ HandleInv /\ MutexInv /\ WholeInv /\ CopyInv /\ ReadsAreWhole

-----------------------------------------------------------------------------
USE ProcessesAssumption, BoundsAssumption
USE DEF vars, ReadVars, BoundVars, Procs, Writing, Clearing, Reading, Critical

\* A wait that is granted raises the count, and makes the caller the owner.
LEMMA GrantedEffect ==
  ASSUME MutexType, NEW p \in Procs, Granted(p)
  PROVE  /\ MutexType' /\ p \in opened
         /\ mutex.owner \in {p, "free"} /\ mutex'.owner = p
         /\ mutex'.count = mutex.count + 1
<1>1. mutex' = [owner |-> p, count |-> mutex.count + 1, abandoned |-> mutex.abandoned]
  BY DEF Granted, MutexType
<1> QED BY <1>1 DEF Granted, MutexType

\* A release lowers the count, and frees the mutex with the last one.
LEMMA ReleasedEffect ==
  ASSUME MutexType, mutex.count > 0, mutex' = Released(mutex)
  PROVE  /\ MutexType' /\ mutex'.count = mutex.count - 1
         /\ mutex'.owner = IF mutex.count = 1 THEN "free" ELSE mutex.owner
<1>1. CASE mutex.count = 1
  BY <1>1 DEF Released, Free, MutexType
<1>2. CASE mutex.count # 1
  <2>1. mutex' = [owner |-> mutex.owner, count |-> mutex.count - 1,
                  abandoned |-> mutex.abandoned]
    BY <1>2 DEF Released, MutexType
  <2> QED BY <1>2, <2>1 DEF MutexType
<1> QED BY <1>1, <1>2

\* A process inside a call owns the mutex.
LEMMA CriticalOwns ==
  ASSUME MutexType, MutexInv, NEW p \in Procs, pc[p] \in Critical
  PROVE  /\ mutex.owner = p /\ mutex.count > 0 /\ mutex.count \in {1, 2}
         /\ mutex.count = 1 <=> p \notin kept
BY DEF MutexType, MutexInv, Owns

\* The memory and the counters keep their types.
LEMMA MemTypesStep == IInv /\ [Next]_vars => MemTypes'
<1> SUFFICES ASSUME Types, HandleInv, MutexInv, [Next]_vars PROVE MemTypes'
  BY DEF IInv
<1> USE DEF Types, MemTypes
<1>1. ASSUME NEW p \in Procs, Close(p) PROVE MemTypes'
  BY <1>1 DEF Close
<1>2. ASSUME NEW p \in Procs, Die(p) PROVE MemTypes'
  BY <1>2 DEF Die
<1>3. CASE CreateMapping
  BY <1>3 DEF CreateMapping, Zeros
<1>4. CASE ClearHead \/ ClearTail
  <2>1. CASE ClearHead
    BY <2>1 DEF ClearHead
  <2>2. CASE ClearTail
    BY <2>2 DEF ClearTail
  <2> QED BY <1>4, <2>1, <2>2
<1>5. ASSUME NEW ok \in BOOLEAN, CreateMutex(ok) PROVE MemTypes'
  BY <1>5 DEF CreateMutex
<1>6. CASE Update
  BY <1>6 DEF Update
<1>7. CASE UpdateAbandoned
  BY <1>7 DEF UpdateAbandoned
<1>8. CASE WriteHead \/ WriteTail
  BY <1>8 DEF WriteHead, WriteTail
<1>9. ASSUME NEW r \in Readers, Open(r) \/ Lock(r) \/ LockTimesOut(r) PROVE MemTypes'
  BY <1>9 DEF Open, Lock, LockTimesOut
<1>10. ASSUME NEW r \in Readers, LockAbandoned(r) \/ CopyHead(r) \/ CopyTail(r) \/ Check(r) PROVE MemTypes'
  BY <1>10 DEF LockAbandoned, CopyHead, CopyTail, Check
<1>11. CASE UNCHANGED vars
  BY <1>11
<1> QED BY <1>1, <1>2, <1>3, <1>4, <1>5, <1>6, <1>7, <1>8, <1>9, <1>10, <1>11 DEF Next

\* The sets of processes keep their types.
LEMMA HandleTypesStep == IInv /\ [Next]_vars => HandleTypes'
<1> SUFFICES ASSUME Types, HandleInv, MutexInv, [Next]_vars PROVE HandleTypes'
  BY DEF IInv
<1> USE DEF Types, HandleTypes
<1>1. ASSUME NEW p \in Procs, Close(p) \/ Die(p) PROVE HandleTypes'
  BY <1>1 DEF Close, Die, Closes
<1>2. CASE CreateMapping \/ ClearHead \/ ClearTail
  BY <1>2 DEF CreateMapping, ClearHead, ClearTail
<1>3. ASSUME NEW ok \in BOOLEAN, CreateMutex(ok) PROVE HandleTypes'
  BY <1>3 DEF CreateMutex, HandleInv
<1>4. CASE Update \/ UpdateAbandoned
  BY <1>4 DEF Update, UpdateAbandoned, TakesAbandoned
<1>5. CASE WriteHead \/ WriteTail
  BY <1>5 DEF WriteHead, WriteTail
<1>6. ASSUME NEW r \in Readers, Open(r) \/ Lock(r) \/ LockTimesOut(r) PROVE HandleTypes'
  BY <1>6 DEF Open, Lock, LockTimesOut
<1>7. ASSUME NEW r \in Readers, LockAbandoned(r) PROVE HandleTypes'
  BY <1>7 DEF LockAbandoned, TakesAbandoned
<1>8. ASSUME NEW r \in Readers, CopyHead(r) \/ CopyTail(r) \/ Check(r) PROVE HandleTypes'
  BY <1>8 DEF CopyHead, CopyTail, Check
<1>9. CASE UNCHANGED vars
  BY <1>9
<1> QED BY <1>1, <1>2, <1>3, <1>4, <1>5, <1>6, <1>7, <1>8, <1>9 DEF Next

\* The mutex keeps its type.
LEMMA MutexTypeStep == IInv /\ [Next]_vars => MutexType'
<1> SUFFICES ASSUME Types, HandleInv, MutexInv, [Next]_vars PROVE MutexType'
  BY DEF IInv
<1>0. MutexType
  BY DEF Types
<1>1. ASSUME NEW p \in Procs, Close(p) PROVE MutexType'
  BY <1>0, <1>1 DEF Close, Free, MutexType
<1>2. ASSUME NEW p \in Procs, Die(p) PROVE MutexType'
  BY <1>0, <1>2 DEF Die, Free, MutexType
<1>3. CASE CreateMapping \/ ClearHead \/ ClearTail
  BY <1>0, <1>3 DEF CreateMapping, ClearHead, ClearTail, MutexType
<1>4. ASSUME NEW ok \in BOOLEAN, CreateMutex(ok) PROVE MutexType'
  BY <1>0, <1>4 DEF CreateMutex, MutexType
<1>5. CASE Update
  BY <1>0, <1>5, GrantedEffect DEF Update
<1>6. CASE UpdateAbandoned
  BY <1>0, <1>6 DEF UpdateAbandoned, TakesAbandoned, MutexType
<1>7. CASE WriteHead
  BY <1>0, <1>7 DEF WriteHead, MutexType
<1>8. CASE WriteTail
  BY <1>0, <1>8, CriticalOwns, ReleasedEffect DEF WriteTail
<1>9. ASSUME NEW r \in Readers, Open(r) \/ LockTimesOut(r) \/ CopyHead(r) \/ CopyTail(r) PROVE MutexType'
  BY <1>0, <1>9 DEF Open, LockTimesOut, CopyHead, CopyTail, MutexType
<1>10. ASSUME NEW r \in Readers, Lock(r) PROVE MutexType'
  BY <1>0, <1>10, GrantedEffect DEF Lock
<1>11. ASSUME NEW r \in Readers, LockAbandoned(r) PROVE MutexType'
  BY <1>0, <1>11 DEF LockAbandoned, TakesAbandoned, MutexType
<1>12. ASSUME NEW r \in Readers, Check(r) PROVE MutexType'
  BY <1>0, <1>12, CriticalOwns, ReleasedEffect DEF Check
<1>13. CASE UNCHANGED vars
  BY <1>0, <1>13 DEF MutexType
<1> QED BY <1>1, <1>2, <1>3, <1>4, <1>5, <1>6, <1>7, <1>8, <1>9, <1>10, <1>11, <1>12, <1>13 DEF Next

\* The ghost broken keeps its type.
LEMMA BrokenTypeStep == IInv /\ [Next]_vars => BrokenType'
<1> SUFFICES ASSUME Types, HandleInv, MutexInv, [Next]_vars PROVE BrokenType'
  BY DEF IInv
<1> USE DEF Types, BrokenType
<1>1. ASSUME NEW p \in Procs, Close(p) \/ Die(p) PROVE BrokenType'
  BY <1>1 DEF Close, Die
<1>2. CASE CreateMapping \/ ClearHead \/ ClearTail
  BY <1>2 DEF CreateMapping, ClearHead, ClearTail
<1>3. ASSUME NEW ok \in BOOLEAN, CreateMutex(ok) PROVE BrokenType'
  BY <1>3 DEF CreateMutex
<1>4. CASE Update \/ UpdateAbandoned \/ WriteHead \/ WriteTail
  BY <1>4 DEF Update, UpdateAbandoned, WriteHead, WriteTail
<1>5. ASSUME NEW r \in Readers, Open(r) \/ Lock(r) \/ LockTimesOut(r) \/ LockAbandoned(r) PROVE BrokenType'
  BY <1>5 DEF Open, Lock, LockTimesOut, LockAbandoned
<1>6. ASSUME NEW r \in Readers, CopyHead(r) \/ CopyTail(r) \/ Check(r) PROVE BrokenType'
  BY <1>6 DEF CopyHead, CopyTail, Check
<1>7. CASE UNCHANGED vars
  BY <1>7
<1> QED BY <1>1, <1>2, <1>3, <1>4, <1>5, <1>6, <1>7 DEF Next

\* The program counters keep their types.
LEMMA PcTypesStep == IInv /\ [Next]_vars => PcTypes'
<1> SUFFICES ASSUME Types, HandleInv, MutexInv, [Next]_vars PROVE PcTypes'
  BY DEF IInv
<1> USE DEF Types, PcTypes, Goto
<1>1. ASSUME NEW p \in Procs, Close(p) \/ Die(p) PROVE PcTypes'
  BY <1>1 DEF Close, Die, Closes
<1>2. CASE CreateMapping
  BY <1>2 DEF CreateMapping
<1>3. CASE ClearHead \/ ClearTail
  <2>1. CASE ClearHead
    BY <2>1 DEF ClearHead
  <2>2. CASE ClearTail
    BY <2>2 DEF ClearTail
  <2> QED BY <1>3, <2>1, <2>2
<1>4. ASSUME NEW ok \in BOOLEAN, CreateMutex(ok) PROVE PcTypes'
  BY <1>4 DEF CreateMutex
<1>5. CASE Update \/ UpdateAbandoned \/ WriteHead \/ WriteTail
  BY <1>5 DEF Update, UpdateAbandoned, WriteHead, WriteTail
<1>6. ASSUME NEW r \in Readers, Open(r) \/ Lock(r) PROVE PcTypes'
  BY <1>6 DEF Open, Lock
<1>7. ASSUME NEW r \in Readers, LockTimesOut(r) \/ LockAbandoned(r) PROVE PcTypes'
  BY <1>7 DEF LockTimesOut, LockAbandoned, Ends
<1>8. ASSUME NEW r \in Readers, CopyHead(r) \/ CopyTail(r) PROVE PcTypes'
  BY <1>8 DEF CopyHead, CopyTail
<1>9. ASSUME NEW r \in Readers, Check(r) PROVE PcTypes'
  BY <1>9 DEF Check, Ends
<1>10. CASE UNCHANGED vars
  BY <1>10
<1> QED BY <1>1, <1>2, <1>3, <1>4, <1>5, <1>6, <1>7, <1>8, <1>9, <1>10 DEF Next

\* The copies keep their types.
LEMMA CopyTypesStep == IInv /\ [Next]_vars => CopyTypes'
<1> SUFFICES ASSUME Types, HandleInv, MutexInv, [Next]_vars PROVE CopyTypes'
  BY DEF IInv
<1> USE DEF Types, CopyTypes, Copies, NoCopy
<1>1. ASSUME NEW p \in Procs, Close(p) \/ Die(p) PROVE CopyTypes'
  <2>1. Closes(p)
    BY <1>1 DEF Close, Die
  <2>2. CASE p \in Readers
    <3>1. NoCopy \in Copies /\ 0 \in 0..MaxRetries
      OBVIOUS
    <3>2. /\ copy' = [copy EXCEPT ![p] = NoCopy] /\ got' = [got EXCEPT ![p] = NoCopy]
          /\ retries' = [retries EXCEPT ![p] = 0]
      BY <2>1, <2>2 DEF Closes
    <3> QED BY <2>2, <3>1, <3>2
  <2>3. CASE p \notin Readers
    BY <2>1, <2>3 DEF Closes
  <2> QED BY <2>2, <2>3
<1>2. CASE CreateMapping \/ ClearHead \/ ClearTail
  BY <1>2 DEF CreateMapping, ClearHead, ClearTail
<1>3. ASSUME NEW ok \in BOOLEAN, CreateMutex(ok) PROVE CopyTypes'
  BY <1>3 DEF CreateMutex
<1>4. CASE Update \/ UpdateAbandoned \/ WriteHead \/ WriteTail
  BY <1>4 DEF Update, UpdateAbandoned, WriteHead, WriteTail
<1>5. ASSUME NEW r \in Readers, Open(r) \/ Lock(r) PROVE CopyTypes'
  BY <1>5 DEF Open, Lock
<1>6. ASSUME NEW r \in Readers, LockTimesOut(r) PROVE CopyTypes'
  BY <1>6 DEF LockTimesOut, Ends
<1>7. ASSUME NEW r \in Readers, LockAbandoned(r) PROVE CopyTypes'
  BY <1>7 DEF LockAbandoned, Ends
<1>8. ASSUME NEW r \in Readers, CopyHead(r) PROVE CopyTypes'
  BY <1>8 DEF CopyHead, MemTypes, BrokenType
<1>9. ASSUME NEW r \in Readers, CopyTail(r) PROVE CopyTypes'
  <2> DEFINE new == [v1 |-> copy[r].v1, v2 |-> mem.version, head |-> copy[r].head,
                     tail |-> mem.tail, excused |-> copy[r].excused \/ broken]
  <2>1. copy' = [copy EXCEPT ![r] = new]
    BY <1>9 DEF CopyTail
  <2>2. new \in Copies
    <3>1. (copy[r].excused \/ broken) \in BOOLEAN
      OBVIOUS
    <3> QED BY <3>1 DEF MemTypes
  <2>3. UNCHANGED <<retries, got>>
    BY <1>9 DEF CopyTail
  <2> HIDE DEF new
  <2> QED BY <2>1, <2>2, <2>3
<1>10. ASSUME NEW r \in Readers, Check(r) PROVE CopyTypes'
  <2>1. CASE retries[r] + 1 > MaxRetries \/ Consistent(copy[r])
    <3>1. NoCopy \in Copies /\ 0 \in 0..MaxRetries /\ copy[r] \in Copies
      OBVIOUS
    <3>2. /\ copy' = [copy EXCEPT ![r] = NoCopy] /\ retries' = [retries EXCEPT ![r] = 0]
          /\ got' = got \/ got' = [got EXCEPT ![r] = copy[r]]
      BY <1>10, <2>1 DEF Check, Ends
    <3> HIDE DEF Copies, NoCopy
    <3> QED BY <3>1, <3>2
  <2>2. CASE ~(retries[r] + 1 > MaxRetries \/ Consistent(copy[r]))
    <3>1. retries[r] + 1 \in 0..MaxRetries
      BY <2>2
    <3> QED BY <1>10, <2>2, <3>1 DEF Check
  <2> QED BY <2>1, <2>2
<1>11. CASE UNCHANGED vars
  BY <1>11
<1> QED BY <1>1, <1>2, <1>3, <1>4, <1>5, <1>6, <1>7, <1>8, <1>9, <1>10, <1>11 DEF Next

\* Every step keeps what the processes have open.
LEMMA HandleStep == IInv /\ [Next]_vars => HandleInv'
<1> SUFFICES ASSUME Types, HandleInv, MutexInv, [Next]_vars PROVE HandleInv'
  BY DEF IInv
<1> USE DEF Types, HandleTypes, PcTypes, HandleInv, Goto
<1>1. ASSUME NEW p \in Procs, Close(p) PROVE HandleInv'
  BY <1>1 DEF Close, Closes
<1>2. ASSUME NEW p \in Procs, Die(p) PROVE HandleInv'
  BY <1>2 DEF Die, Closes
<1>3. CASE CreateMapping \/ ClearHead \/ ClearTail
  BY <1>3 DEF CreateMapping, ClearHead, ClearTail
<1>5. ASSUME NEW ok \in BOOLEAN, CreateMutex(ok) PROVE HandleInv'
  BY <1>5 DEF CreateMutex
<1>6. CASE Update \/ UpdateAbandoned \/ WriteHead \/ WriteTail
  BY <1>6 DEF Update, UpdateAbandoned, Granted, WriteHead, WriteTail
<1>8. ASSUME NEW r \in Readers, Open(r) PROVE HandleInv'
  BY <1>8 DEF Open
<1>9. ASSUME NEW r \in Readers, Lock(r) PROVE HandleInv'
  BY <1>9 DEF Lock, Granted
<1>10. ASSUME NEW r \in Readers,
              LockTimesOut(r) \/ LockAbandoned(r) \/ CopyHead(r) \/ CopyTail(r) \/ Check(r)
       PROVE HandleInv'
  BY <1>10 DEF LockTimesOut, LockAbandoned, CopyHead, CopyTail, Check, Ends
<1>13. CASE UNCHANGED vars
  BY <1>13
<1> QED BY <1>1, <1>2, <1>3, <1>5, <1>6, <1>8, <1>9, <1>10, <1>13 DEF Next

\* The mutex is owned as often as calls and abandonment account for.
LEMMA MutexStep == IInv /\ [Next]_vars => MutexInv'
<1> SUFFICES ASSUME Types, HandleInv, MutexInv, [Next]_vars PROVE MutexInv'
  BY DEF IInv
<1> USE DEF Types, HandleTypes, PcTypes, MutexType, MutexInv, Owns, Goto
<1>1. ASSUME NEW p \in Procs, Close(p) PROVE MutexInv'
  BY <1>1 DEF Close, Closes, Free, HandleInv
<1>2. ASSUME NEW p \in Procs, Die(p) PROVE MutexInv'
  BY <1>2 DEF Die, Closes, Free, HandleInv
<1>3. CASE CreateMapping \/ ClearHead \/ ClearTail
  <2>1. pc[Writer] \notin Critical /\ pc'[Writer] \notin Critical
    BY <1>3 DEF CreateMapping, ClearHead, ClearTail
  <2>2. \A p \in Readers : pc'[p] = pc[p]
    BY <1>3 DEF CreateMapping, ClearHead, ClearTail
  <2>3. UNCHANGED <<mutex, kept>>
    BY <1>3 DEF CreateMapping, ClearHead, ClearTail
  <2> QED BY <2>1, <2>2, <2>3
<1>5. ASSUME NEW ok \in BOOLEAN, CreateMutex(ok) PROVE MutexInv'
  BY <1>5 DEF CreateMutex
<1>6. CASE Update \/ UpdateAbandoned
  <2>1. CASE Update
    <3>1. Granted(Writer) /\ UNCHANGED kept /\ pc[Writer] = "open"
      BY <2>1 DEF Update
    <3>2. pc'[Writer] \in Critical /\ \A p \in Readers : pc'[p] = pc[p]
      BY <2>1 DEF Update
    <3> QED BY <3>1, <3>2, GrantedEffect
  <2>2. CASE UpdateAbandoned
    BY <2>2 DEF UpdateAbandoned, TakesAbandoned
  <2> QED BY <1>6, <2>1, <2>2
<1>7. CASE WriteHead \/ WriteTail
  <2>1. CASE WriteHead
    BY <2>1 DEF WriteHead
  <2>2. CASE WriteTail
    <3>1. mutex' = Released(mutex) /\ pc[Writer] = "writeTail" /\ UNCHANGED kept
      BY <2>2 DEF WriteTail
    <3>2. pc'[Writer] \notin Critical /\ \A p \in Readers : pc'[p] = pc[p]
      BY <2>2 DEF WriteTail
    <3> QED BY <3>1, <3>2, CriticalOwns, ReleasedEffect
  <2> QED BY <1>7, <2>1, <2>2
<1>8. ASSUME NEW r \in Readers, Open(r) \/ LockTimesOut(r) \/ CopyHead(r) \/ CopyTail(r)
      PROVE MutexInv'
  BY <1>8 DEF Open, LockTimesOut, CopyHead, CopyTail, Ends
<1>9. ASSUME NEW r \in Readers, Lock(r) \/ LockAbandoned(r) PROVE MutexInv'
  <2>1. CASE Lock(r)
    <3>1. Granted(r) /\ UNCHANGED kept /\ pc[r] \in {"open", "again"}
      BY <2>1 DEF Lock
    <3>2. pc'[r] \in Critical /\ \A p \in Procs \ {r} : pc'[p] = pc[p]
      BY <2>1 DEF Lock
    <3> QED BY <3>1, <3>2, GrantedEffect
  <2>2. CASE LockAbandoned(r)
    BY <2>2 DEF LockAbandoned, TakesAbandoned, Ends
  <2> QED BY <1>9, <2>1, <2>2
<1>10. ASSUME NEW r \in Readers, Check(r) PROVE MutexInv'
  <2>1. mutex' = Released(mutex) /\ pc[r] = "check" /\ UNCHANGED kept
    BY <1>10 DEF Check
  <2>2. pc'[r] \notin Critical /\ \A p \in Procs \ {r} : pc'[p] = pc[p]
    <3>1. \/ pc' = [pc EXCEPT ![r] = "open"] \/ pc' = [pc EXCEPT ![r] = "again"]
      BY <1>10 DEF Check, Ends
    <3> QED BY <3>1
  <2> QED BY <2>1, <2>2, CriticalOwns, ReleasedEffect
<1>13. CASE UNCHANGED vars
  BY <1>13
<1> QED BY <1>1, <1>2, <1>3, <1>5, <1>6, <1>7, <1>8, <1>9, <1>10, <1>13 DEF Next

\* The memory is whole, being written or being cleared.
LEMMA WholeStep == IInv /\ [Next]_vars => WholeInv'
<1> SUFFICES ASSUME Types, WholeInv, [Next]_vars PROVE WholeInv'
  BY DEF IInv
<1> USE DEF Types, MemTypes, PcTypes, WholeInv
<1>0. ASSUME UNCHANGED <<mem, broken, updates>>, pc'[Writer] = pc[Writer] PROVE WholeInv'
  BY <1>0
<1>1. ASSUME NEW p \in Procs, Close(p) PROVE WholeInv'
  <2>1. /\ UNCHANGED <<mem, broken, updates>>
        /\ pc'[Writer] = IF p = Writer THEN "closed" ELSE pc[Writer]
        /\ pc[p] = "open"
    BY <1>1 DEF Close, Closes, Goto
  <2> QED BY <2>1
<1>2. ASSUME NEW p \in Procs, Die(p) PROVE WholeInv'
  <2>1. /\ UNCHANGED <<mem, updates>>
        /\ pc'[Writer] = IF p = Writer THEN "closed" ELSE pc[Writer]
        /\ broken' = (broken \/ pc[p] \in Writing \cup Clearing)
    BY <1>2 DEF Die, Closes, Goto
  <2>2. CASE p = Writer
    BY <2>1, <2>2
  <2>3. CASE p # Writer
    BY <2>1, <2>3
  <2> QED BY <2>2, <2>3
<1>3. CASE CreateMapping
  <2>1. pc'[Writer] = "clear" /\ broken'
    BY <1>3 DEF CreateMapping, Goto
  <2> QED BY <2>1
<1>4. CASE ClearHead
  <2>1. mem'.version = 0 /\ mem'.head = 0 /\ mem'.tail = mem.tail
    BY <1>4 DEF ClearHead
  <2>2. CASE pc[Writer] = "clear"
    <3>1. pc'[Writer] = "clearTail" /\ broken'
      BY <1>4, <2>2 DEF ClearHead, Goto
    <3> QED BY <2>1, <3>1
  <2>3. CASE pc[Writer] = "clearHead"
    <3>1. pc'[Writer] = "cleared" /\ ~broken'
      BY <1>4, <2>3 DEF ClearHead, Goto
    <3> QED BY <2>1, <2>3, <3>1
  <2> QED BY <1>4, <2>2, <2>3 DEF ClearHead
<1>5. CASE ClearTail
  <2>1. mem'.version = mem.version /\ mem'.head = mem.head /\ mem'.tail = 0
    BY <1>5 DEF ClearTail
  <2>2. CASE pc[Writer] = "clear"
    <3>1. pc'[Writer] = "clearHead" /\ broken'
      BY <1>5, <2>2 DEF ClearTail, Goto
    <3> QED BY <2>1, <3>1
  <2>3. CASE pc[Writer] = "clearTail"
    <3>1. pc'[Writer] = "cleared" /\ ~broken'
      BY <1>5, <2>3 DEF ClearTail, Goto
    <3> QED BY <2>1, <2>3, <3>1
  <2> QED BY <1>5, <2>2, <2>3 DEF ClearTail
<1>6. ASSUME NEW ok \in BOOLEAN, CreateMutex(ok) PROVE WholeInv'
  <2>1. /\ UNCHANGED <<mem, broken, updates>>
        /\ pc[Writer] = "cleared" /\ pc'[Writer] \in {"open", "closed"}
    BY <1>6 DEF CreateMutex, Goto
  <2> QED BY <2>1
<1>7. CASE Update
  <2>1. /\ mem'.version = mem.version + 1 /\ UNCHANGED broken
        /\ pc[Writer] = "open" /\ pc'[Writer] = "writeHead"
    BY <1>7 DEF Update, Goto
  <2> QED BY <2>1
<1>8. CASE UpdateAbandoned
  BY <1>0, <1>8 DEF UpdateAbandoned
<1>9. CASE WriteHead
  <2>1. /\ mem'.version = mem.version /\ mem'.head = updates /\ UNCHANGED <<broken, updates>>
        /\ pc[Writer] = "writeHead" /\ pc'[Writer] = "writeTail"
    BY <1>9 DEF WriteHead, Goto
  <2> QED BY <2>1
<1>10. CASE WriteTail
  <2>1. /\ mem'.version = mem.version /\ mem'.head = mem.head /\ mem'.tail = updates
        /\ ~broken' /\ pc[Writer] = "writeTail" /\ pc'[Writer] = "open"
    BY <1>10 DEF WriteTail, Goto
  <2> QED BY <2>1
<1>11. ASSUME NEW r \in Readers,
              Open(r) \/ Lock(r) \/ LockTimesOut(r) \/ LockAbandoned(r) \/ CopyHead(r)
              \/ CopyTail(r) \/ Check(r)
       PROVE  WholeInv'
  <2>1. UNCHANGED <<mem, broken, updates>>
    BY <1>11 DEF Open, Lock, LockTimesOut, LockAbandoned, CopyHead, CopyTail, Check
  <2>2. \E label : pc' = [pc EXCEPT ![r] = label]
    BY <1>11 DEF Open, Lock, LockTimesOut, LockAbandoned, CopyHead, CopyTail, Check, Ends, Goto
  <2> QED BY <1>0, <2>1, <2>2
<1>12. CASE UNCHANGED vars
  BY <1>12
<1> QED BY <1>1, <1>2, <1>3, <1>4, <1>5, <1>6, <1>7, <1>8, <1>9, <1>10, <1>11, <1>12
        DEF Next

\* While a reader copies, the memory changes by a clearing or not at all.
LEMMA CopyStep == IInv /\ [Next]_vars => CopyInv'
<1> SUFFICES ASSUME Types, HandleInv, MutexInv, WholeInv, CopyInv, [Next]_vars,
                    NEW r \in Readers
             PROVE  /\ pc'[r] = "copyTail" /\ ~copy'[r].excused =>
                         /\ \/ copy'[r].head = mem'.head /\ copy'[r].v1 = mem'.version
                            \/ mem'.head = 0 /\ mem'.version = 0
                         /\ copy'[r].v1 = 0 => copy'[r].head = 0
                    /\ pc'[r] = "check" /\ ~copy'[r].excused /\ copy'[r].v1 = copy'[r].v2 =>
                         copy'[r].head = copy'[r].tail
  BY DEF IInv, CopyInv
<1> USE DEF Types, MemTypes, PcTypes, CopyInv
<1> DEFINE Goal == /\ pc'[r] = "copyTail" /\ ~copy'[r].excused =>
                         /\ \/ copy'[r].head = mem'.head /\ copy'[r].v1 = mem'.version
                            \/ mem'.head = 0 /\ mem'.version = 0
                         /\ copy'[r].v1 = 0 => copy'[r].head = 0
                   /\ pc'[r] = "check" /\ ~copy'[r].excused /\ copy'[r].v1 = copy'[r].v2 =>
                         copy'[r].head = copy'[r].tail
<1>0. ASSUME pc'[r] = pc[r] /\ copy'[r] = copy[r],
             \/ mem'.head = mem.head /\ mem'.version = mem.version
             \/ mem'.head = 0 /\ mem'.version = 0
      PROVE  Goal
  BY <1>0
<1>1. ASSUME pc'[r] \notin {"copyTail", "check"} PROVE Goal
  BY <1>1
<1>2. pc[r] \in Critical => pc[Writer] \notin Writing
  BY DEF MutexInv
<1> HIDE DEF Goal
<1>3. ASSUME NEW p \in Procs, Close(p) \/ Die(p) PROVE Goal
  <2>1. UNCHANGED mem /\ Closes(p)
    BY <1>3 DEF Close, Die
  <2>2. CASE p = r
    <3>1. pc'[r] = "closed"
      BY <2>1, <2>2 DEF Closes, Goto
    <3> QED BY <1>1, <3>1
  <2>3. CASE p # r
    <3>1. pc'[r] = pc[r]
      BY <2>1, <2>3 DEF Closes, Goto
    <3>2. copy'[r] = copy[r]
      <4>1. CASE p \in Readers
        BY <2>1, <2>3, <4>1 DEF Closes, CopyTypes
      <4>2. CASE p \notin Readers
        BY <2>1, <4>2 DEF Closes
      <4> QED BY <4>1, <4>2
    <3> QED BY <1>0, <2>1, <3>1, <3>2
  <2> QED BY <2>2, <2>3
<1>4. CASE CreateMapping
  <2>1. pc'[r] = pc[r] /\ copy'[r] = copy[r]
    BY <1>4 DEF CreateMapping, Goto, ReadVars
  <2>2. mem' \in {mem, Zeros}
    BY <1>4 DEF CreateMapping
  <2> QED BY <1>0, <2>1, <2>2 DEF Zeros
<1>5. CASE ClearHead \/ ClearTail
  <2>1. pc'[r] = pc[r] /\ copy'[r] = copy[r]
    BY <1>5 DEF ClearHead, ClearTail, Goto, ReadVars
  <2>2. CASE ClearHead
    <3>1. mem'.head = 0 /\ mem'.version = 0
      BY <2>2 DEF ClearHead
    <3> QED BY <1>0, <2>1, <3>1
  <2>3. CASE ClearTail
    <3>1. mem'.head = mem.head /\ mem'.version = mem.version
      BY <2>3 DEF ClearTail
    <3> QED BY <1>0, <2>1, <3>1
  <2> QED BY <1>5, <2>2, <2>3
<1>6. ASSUME NEW ok \in BOOLEAN, CreateMutex(ok) PROVE Goal
  <2>1. copy'[r] = copy[r] /\ UNCHANGED mem
    BY <1>6 DEF CreateMutex, ReadVars
  <2>2. \E label : pc' = [pc EXCEPT ![Writer] = label]
    BY <1>6 DEF CreateMutex, Goto
  <2>3. pc'[r] = pc[r]
    BY <2>2
  <2> QED BY <1>0, <2>1, <2>3
<1>7. CASE Update
  <2>1. pc'[r] = pc[r] /\ copy'[r] = copy[r] /\ Granted(Writer)
    BY <1>7 DEF Update, Goto, ReadVars
  <2>2. mutex.owner # r
    BY <2>1 DEF Granted
  <2>3. pc[r] \notin Critical
    BY <2>2 DEF MutexInv
  <2> QED BY <1>1, <2>1, <2>3
<1>8. CASE UpdateAbandoned
  <2>1. pc'[r] = pc[r] /\ copy'[r] = copy[r] /\ UNCHANGED mem
    BY <1>8 DEF UpdateAbandoned, ReadVars
  <2> QED BY <1>0, <2>1
<1>9. CASE WriteHead \/ WriteTail
  <2>1. pc'[r] = pc[r] /\ pc[Writer] \in Writing
    BY <1>9 DEF WriteHead, WriteTail, Goto
  <2> QED BY <1>1, <1>2, <2>1
<1>10. ASSUME NEW q \in Readers \ {r},
              Open(q) \/ Lock(q) \/ LockTimesOut(q) \/ LockAbandoned(q) \/ CopyHead(q)
              \/ CopyTail(q) \/ Check(q)
       PROVE  Goal
  <2>1. UNCHANGED mem
    BY <1>10 DEF Open, Lock, LockTimesOut, LockAbandoned, CopyHead, CopyTail, Check
  <2>2. \E label : pc' = [pc EXCEPT ![q] = label]
    BY <1>10 DEF Open, Lock, LockTimesOut, LockAbandoned, CopyHead, CopyTail, Check, Ends, Goto
  <2>3. UNCHANGED copy \/ \E c : copy' = [copy EXCEPT ![q] = c]
    BY <1>10 DEF Open, Lock, LockTimesOut, LockAbandoned, CopyHead, CopyTail, Check, Ends,
                 ReadVars
  <2>4. pc'[r] = pc[r]
    BY <2>2
  <2>5. copy'[r] = copy[r]
    BY <2>3 DEF CopyTypes
  <2> QED BY <1>0, <2>1, <2>4, <2>5
<1>11. CASE Open(r) \/ Lock(r) \/ LockTimesOut(r) \/ LockAbandoned(r) \/ Check(r)
  <2>1. pc'[r] \in {"open", "copyHead", "again"}
    BY <1>11 DEF Open, Lock, LockTimesOut, LockAbandoned, Check, Ends, Goto
  <2> QED BY <1>1, <2>1
<1>12. CASE CopyHead(r)
  <2>1. /\ UNCHANGED mem /\ pc[r] = "copyHead" /\ pc'[r] = "copyTail"
        /\ copy'[r].v1 = mem.version /\ copy'[r].head = mem.head /\ copy'[r].excused = broken
    BY <1>12 DEF CopyHead, Goto, CopyTypes, NoCopy
  <2> QED BY <1>2, <2>1 DEF Goal, WholeInv
<1>13. CASE CopyTail(r)
  <2>1. /\ pc[r] = "copyTail" /\ pc'[r] = "check"
        /\ copy'[r] = [v1 |-> copy[r].v1, v2 |-> mem.version, head |-> copy[r].head,
                       tail |-> mem.tail, excused |-> copy[r].excused \/ broken]
    BY <1>13 DEF CopyTail, Goto, CopyTypes
  <2>2. copy'[r].excused = (copy[r].excused \/ broken)
    BY <2>1
  <2>3. copy'[r].head = copy[r].head /\ copy'[r].tail = mem.tail
        /\ copy'[r].v1 = copy[r].v1 /\ copy'[r].v2 = mem.version
    BY <2>1
  <2>4. broken \/ (mem.head = mem.tail /\ (mem.version = 0 => mem.head = 0))
    <3>1. pc[Writer] \notin Writing
      BY <1>2, <2>1
    <3> QED BY ONLY <3>1, WholeInv DEF WholeInv
  <2>5. CASE copy[r].excused \/ broken
    <3>1. copy'[r].excused
      BY <2>2, <2>5
    <3> QED BY <2>1, <3>1 DEF Goal
  <2>6. CASE ~copy[r].excused /\ ~broken
    <3>1. copy[r].v1 = mem.version => copy[r].head = mem.tail
      BY <2>1, <2>4, <2>6
    <3> QED BY <2>1, <2>3, <3>1 DEF Goal
  <2> QED BY <2>5, <2>6
<1>14. CASE UNCHANGED vars
  BY <1>0, <1>14
<1> QED BY <1>3, <1>4, <1>5, <1>6, <1>7, <1>8, <1>9, <1>10, <1>11, <1>12, <1>13, <1>14
        DEF Next, Goal

\* What a reader is told is a copy that passed.
LEMMA ReadsStep == IInv /\ [Next]_vars => ReadsAreWhole'
<1> SUFFICES ASSUME Types, CopyInv, ReadsAreWhole, [Next]_vars PROVE ReadsAreWhole'
  BY DEF IInv
<1> USE DEF Types, CopyTypes, ReadsAreWhole
<1>0. ASSUME UNCHANGED got PROVE ReadsAreWhole'
  BY <1>0
<1>1. ASSUME NEW p \in Procs, Close(p) \/ Die(p) PROVE ReadsAreWhole'
  <2>1. UNCHANGED got \/ (p \in Readers /\ got' = [got EXCEPT ![p] = NoCopy])
    BY <1>1 DEF Close, Die, Closes, ReadVars
  <2> QED BY <2>1 DEF NoCopy
<1>2. ASSUME NEW r \in Readers, Check(r) PROVE ReadsAreWhole'
  <2>1. UNCHANGED got \/ (/\ pc[r] = "check" /\ copy[r].v1 = copy[r].v2
                          /\ got' = [got EXCEPT ![r] = copy[r]])
    BY <1>2 DEF Check, Consistent
  <2> QED BY <2>1 DEF CopyInv
<1>3. CASE \/ CreateMapping \/ ClearHead \/ ClearTail \/ Update \/ UpdateAbandoned
           \/ WriteHead \/ WriteTail \/ \E ok \in BOOLEAN : CreateMutex(ok)
           \/ \E r \in Readers : Open(r) \/ Lock(r) \/ LockTimesOut(r) \/ LockAbandoned(r)
                                \/ CopyHead(r) \/ CopyTail(r)
  BY <1>0, <1>3 DEF CreateMapping, ClearHead, ClearTail, Update, UpdateAbandoned, WriteHead,
                    WriteTail, CreateMutex, Open, Lock, LockTimesOut, LockAbandoned, CopyHead,
                    CopyTail, ReadVars
<1>4. CASE UNCHANGED vars
  BY <1>0, <1>4
<1> QED BY <1>1, <1>2, <1>3, <1>4 DEF Next

-----------------------------------------------------------------------------
\* A system in which nothing is open yet satisfies all of it.
LEMMA InitIInv == Init => IInv
<1> SUFFICES ASSUME Init PROVE IInv
  OBVIOUS
<1> USE DEF Init, Zeros, Free, NoCopy
<1>1. Types
  <2>0. 0 \in 0..MaxRetries /\ 0 \in 0..MaxUpdates /\ 0 \in 0..MaxDeaths
    OBVIOUS
  <2>1. MemTypes /\ HandleTypes /\ BrokenType
    BY <2>0 DEF MemTypes, HandleTypes, BrokenType
  <2>2. MutexType
    BY DEF MutexType
  <2>3. PcTypes
    BY DEF PcTypes
  <2>4. NoCopy \in Copies
    BY DEF Copies
  <2>5. CopyTypes
    BY <2>0, <2>4 DEF CopyTypes
  <2> QED BY <2>1, <2>2, <2>3, <2>5 DEF Types
<1>2. HandleInv /\ MutexInv
  BY DEF HandleInv, MutexInv, Owns
<1>3. WholeInv /\ CopyInv /\ ReadsAreWhole
  BY DEF WholeInv, CopyInv, ReadsAreWhole
<1> QED BY <1>1, <1>2, <1>3 DEF IInv

\* The inductive invariant the theorems below rest on.
THEOREM Invariance == Spec => []IInv
<1>1. IInv /\ [Next]_vars => IInv'
  BY MemTypesStep, HandleTypesStep, MutexTypeStep, BrokenTypeStep, PcTypesStep, CopyTypesStep,
     HandleStep, MutexStep, WholeStep, CopyStep, ReadsStep DEF IInv, Types
<1> QED BY <1>1, InitIInv, PTL DEF Spec

\* Every variable keeps its type; in particular no process owns the mutex more
\* than twice.
THEOREM TypeCorrect == Spec => []TypeOK
<1>1. IInv => TypeOK
  <2> SUFFICES ASSUME Types, MutexInv PROVE TypeOK
    BY DEF IInv
  <2>1. mutex.count \in 0..2
    BY DEF Types, MutexType, MutexInv, Owns
  <2>2. mutex = [owner |-> mutex.owner, count |-> mutex.count, abandoned |-> mutex.abandoned]
    BY DEF Types, MutexType
  <2>3. mutex \in [owner : Procs \cup {"free"}, count : 0..2, abandoned : BOOLEAN]
    BY <2>1, <2>2 DEF Types, MutexType
  <2> QED BY <2>3 DEF TypeOK, Types, MemTypes, HandleTypes, BrokenType, PcTypes, CopyTypes,
                      MutexInv
<1> QED BY <1>1, Invariance, PTL

\* No process owns the mutex between its calls, unless it met it abandoned.
THEOREM MutexReturned == Spec => []MutexGivenBack
<1>1. IInv => MutexGivenBack
  BY DEF IInv, Types, MutexType, MutexInv, Owns, MutexGivenBack
<1> QED BY <1>1, Invariance, PTL

\* A reader that is told success has one update whole, or is excused.
THEOREM WholeReads == Spec => []ReadsAreWhole
<1>1. IInv => ReadsAreWhole
  BY DEF IInv
<1> QED BY <1>1, Invariance, PTL
=============================================================================
