----------------------- MODULE ServiceLifecycleProofs ------------------------
(***************************************************************************)
(* Proofs about ServiceLifecycle, for any number of controls and commands, *)
(* whatever the two threads interleave: the types and the mutex, that a     *)
(* service that has told STOPPED is clean, and that with an EC no pointer   *)
(* that leads nowhere is used.                                              *)
(***************************************************************************)
EXTENDS ServiceLifecycle, TLAPS

Clean == \A c \in Components : ptr[c] = "null"

\* The state STOPPED, wherever a thread has a copy of it, was set after a cleanup
\* that succeeded, and nothing is created after that.
StoppedInv ==
  /\ main \in {"cleaned", "ending"} /\ ~crashed => Clean
  /\ "STOPPED" \in {state, seen, reported} =>
       Clean /\ main \in {"ending", "returned", "destroyed"}

\* Only m_bezelMonitor may be unassigned, and only if there is no EC.
PointerInv ==
  /\ \A c \in Components : ptr[c] = "unassigned" => c = "bezelMonitor" /\ ~ecUp
  /\ CrashOnlyWithoutEc

IInv == TypeOK /\ StoppedInv /\ PointerInv

-----------------------------------------------------------------------------
USE BoundsAssumption
USE DEF vars, statusVars, objVars, boundVars, Components, States

\* The steps of serviceMain that are a call of setServiceStatus or the like, by
\* what they change.

\* The cleanup, whoever runs it, ends with nothing left or crashes.
LEMMA DeleteAllEffect ==
  ASSUME TypeOK, DeleteAll
  PROVE  /\ m_mutex = "free" /\ shuttingDown' \in BOOLEAN /\ crashed' \in BOOLEAN
         /\ ptr' \in [Components -> {"null", "object", "unassigned"}]
         /\ \/ crashed' /\ UNCHANGED ptr /\ \E c \in Components : ptr[c] = "unassigned"
            \/ UNCHANGED crashed /\ \A c \in Components : ptr'[c] = "null"
<1> USE DEF TypeOK
<1>1. CASE \E c \in Components : ptr[c] \notin {"null", "object"}
  BY <1>1 DEF DeleteAll
<1>2. CASE ~\E c \in Components : ptr[c] \notin {"null", "object"}
  <2>1. ptr' = [c \in Components |-> "null"] /\ UNCHANGED crashed
    BY <1>2 DEF DeleteAll, Deleted
  <2> QED BY <2>1 DEF DeleteAll
<1> QED BY <1>1, <1>2

\* Every step keeps the type of every variable, and the mutex for the time of a
\* command.
LEMMA TypeOKStep == TypeOK /\ [Next]_vars => TypeOK'
<1> SUFFICES ASSUME TypeOK, [Next]_vars PROVE TypeOK'
  OBVIOUS
<1> USE DEF TypeOK
<1>1. CASE SetStartPending \/ SetRunning \/ SetStopPending \/ SetStopped
  BY <1>1 DEF SetStartPending, SetRunning, SetStopPending, SetStopped, MainSets
<1>2. CASE ReportStartPending \/ ReportRunning \/ ReportStopPending \/ ReportStopped
  BY <1>2 DEF ReportStartPending, ReportRunning, ReportStopPending, ReportStopped,
              MainReports, Told
<1>3. ASSUME NEW ok \in BOOLEAN, InitializeEc(ok) PROVE TypeOK'
  BY <1>3 DEF InitializeEc
<1>4. CASE InitializePipes
  BY <1>4 DEF InitializePipes
<1>5. CASE Exec \/ BeginCommand \/ EndCommand \/ LeaveLoop \/ Install
  BY <1>5 DEF Exec, BeginCommand, EndCommand, LeaveLoop, Install
<1>6. CASE Cleanup \/ Destroy
  <2>1. DeleteAll /\ main' \in {"cleaned", "destroyed"} /\ main # "command"
        /\ UNCHANGED <<handler, seen, m_mutex, statusVars, quitPosted, boundVars, ecUp>>
    BY <1>6 DEF Cleanup, Destroy, DispatcherReturned
  <2> QED BY <2>1, DeleteAllEffect
<1>7. CASE DeliverStop \/ DeliverInterrogate
  <2>1. controls' = controls + 1 /\ controls < MaxControls
        /\ handler' \in {"stopSets", "interrogateReads"}
        /\ UNCHANGED <<main, seen, m_mutex, statusVars, objVars, quitPosted, commands, ecUp>>
    BY <1>7 DEF DeliverStop, DeliverInterrogate
  <2>2. controls' \in 0..MaxControls
    BY <2>1
  <2>3. {state', seen'} \subseteq States /\ reported' \in States \cup {"none"}
        /\ ptr' \in [Components -> {"null", "object", "unassigned"}]
        /\ {shuttingDown', quitPosted', crashed', ecUp'} \subseteq BOOLEAN
    BY <2>1
  <2> QED BY <2>1, <2>2, <2>3
<1>8. CASE StopSets \/ InterrogateSets
  BY <1>8 DEF StopSets, InterrogateSets, HandlerSets
<1>9. CASE StopReports \/ InterrogateReports
  BY <1>9 DEF StopReports, InterrogateReports, HandlerReports, Told
<1>10. CASE StopLocks
  BY <1>10 DEF StopLocks
<1>11. CASE StopQuits
  <2>1. quitPosted' \in BOOLEAN
    BY <1>11 DEF StopQuits, LoopRuns
  <2> QED BY <1>11, <2>1 DEF StopQuits
<1>12. CASE InterrogateReads
  BY <1>12 DEF InterrogateReads
<1>13. CASE UNCHANGED vars
  BY <1>13
<1> QED BY <1>1, <1>2, <1>3, <1>4, <1>5, <1>6, <1>7, <1>8, <1>9, <1>10, <1>11, <1>12, <1>13
        DEF Next, MainStep, HandlerStep

\* STOPPED comes from a cleanup that left nothing, and stays true.
LEMMA StoppedStep == IInv /\ [Next]_vars => StoppedInv'
<1> SUFFICES ASSUME TypeOK, StoppedInv, [Next]_vars PROVE StoppedInv'
  BY DEF IInv
<1> USE DEF TypeOK, StoppedInv, Clean
<1>1. CASE SetStartPending \/ SetRunning \/ SetStopPending
  BY <1>1 DEF SetStartPending, SetRunning, SetStopPending, MainSets
<1>2. CASE SetStopped
  BY <1>2 DEF SetStopped, MainSets
<1>3. CASE ReportStartPending \/ ReportRunning \/ ReportStopPending
  BY <1>3 DEF ReportStartPending, ReportRunning, ReportStopPending, MainReports, Told
<1>4. CASE ReportStopped
  BY <1>4 DEF ReportStopped, MainReports, Told
<1>5. CASE InitializePipes \/ \E ok \in BOOLEAN : InitializeEc(ok)
  BY <1>5 DEF InitializeEc, InitializePipes
<1>6. CASE Exec \/ BeginCommand \/ EndCommand \/ LeaveLoop \/ Install
  BY <1>6 DEF Exec, BeginCommand, EndCommand, LeaveLoop, Install
<1>7. CASE Cleanup
  <2>1. /\ DeleteAll /\ main = "cleanup" /\ main' = "cleaned"
        /\ UNCHANGED <<state, seen, reported>>
    BY <1>7 DEF Cleanup
  <2>2. "STOPPED" \notin {state, seen, reported}
    BY <2>1
  <2> QED BY <2>1, <2>2, DeleteAllEffect
<1>8. CASE Destroy
  <2>1. /\ DeleteAll /\ main = "returned" /\ main' = "destroyed"
        /\ UNCHANGED <<state, seen, reported>>
    BY <1>8 DEF Destroy, DispatcherReturned
  <2> QED BY <2>1, DeleteAllEffect
<1>9. CASE DeliverStop \/ DeliverInterrogate
  BY <1>9 DEF DeliverStop, DeliverInterrogate
<1>10. CASE StopSets \/ InterrogateSets
  BY <1>10 DEF StopSets, InterrogateSets, HandlerSets
<1>11. CASE StopReports \/ InterrogateReports
  BY <1>11 DEF StopReports, InterrogateReports, HandlerReports, Told
<1>12. CASE StopLocks \/ StopQuits \/ InterrogateReads
  BY <1>12 DEF StopLocks, StopQuits, InterrogateReads
<1>13. CASE UNCHANGED vars
  BY <1>13
<1> QED BY <1>1, <1>2, <1>3, <1>4, <1>5, <1>6, <1>7, <1>8, <1>9, <1>10, <1>11, <1>12, <1>13
        DEF Next, MainStep, HandlerStep

\* With an EC no pointer is unassigned, so nothing crashes.
LEMMA PointerStep == IInv /\ [Next]_vars => PointerInv'
<1> SUFFICES ASSUME TypeOK, PointerInv, [Next]_vars PROVE PointerInv'
  BY DEF IInv
<1> USE DEF TypeOK, PointerInv, CrashOnlyWithoutEc
<1>0. ASSUME UNCHANGED <<ptr, crashed, ecUp>> PROVE PointerInv'
  BY <1>0
<1>1. CASE SetStartPending \/ SetRunning \/ SetStopPending \/ SetStopped
  BY <1>0, <1>1 DEF SetStartPending, SetRunning, SetStopPending, SetStopped, MainSets
<1>2. CASE ReportStartPending \/ ReportRunning \/ ReportStopPending \/ ReportStopped
  BY <1>0, <1>2 DEF ReportStartPending, ReportRunning, ReportStopPending, ReportStopped,
                    MainReports
<1>3. ASSUME NEW ok \in BOOLEAN, InitializeEc(ok) PROVE PointerInv'
  <2>1. \A c \in Components : ptr'[c] = "unassigned" => ptr[c] = "unassigned" /\
                                                        ~(c = "bezelMonitor" /\ ok)
    BY <1>3 DEF InitializeEc
  <2>2. ecUp' = ok /\ ~crashed'
    BY <1>3 DEF InitializeEc
  <2> QED BY <2>1, <2>2
<1>4. CASE InitializePipes
  <2>1. \A c \in Components : ptr'[c] = "unassigned" => ptr[c] = "unassigned"
    BY <1>4 DEF InitializePipes
  <2> QED BY <1>4, <2>1 DEF InitializePipes
<1>5. CASE Exec \/ BeginCommand \/ EndCommand \/ LeaveLoop \/ Install
  BY <1>0, <1>5 DEF Exec, BeginCommand, EndCommand, LeaveLoop, Install
<1>6. CASE Cleanup \/ Destroy
  <2>1. DeleteAll /\ UNCHANGED ecUp
    BY <1>6 DEF Cleanup, Destroy, DispatcherReturned
  <2> QED BY <2>1, DeleteAllEffect
<1>7. CASE DeliverStop \/ DeliverInterrogate \/ StopQuits \/ InterrogateReads
  BY <1>0, <1>7 DEF DeliverStop, DeliverInterrogate, StopQuits, InterrogateReads
<1>8. CASE StopSets \/ InterrogateSets \/ StopReports \/ InterrogateReports
  BY <1>0, <1>8 DEF StopSets, InterrogateSets, HandlerSets, StopReports, InterrogateReports,
                    HandlerReports
<1>9. CASE StopLocks
  BY <1>9 DEF StopLocks
<1>10. CASE UNCHANGED vars
  BY <1>0, <1>10
<1> QED BY <1>1, <1>2, <1>3, <1>4, <1>5, <1>6, <1>7, <1>8, <1>9, <1>10
        DEF Next, MainStep, HandlerStep

-----------------------------------------------------------------------------
\* A service that has just been constructed satisfies all of it.
LEMMA InitIInv == Init => IInv
<1> SUFFICES ASSUME Init PROVE IInv
  OBVIOUS
<1> USE DEF Init
<1>1. PICK b \in {"null", "unassigned"} :
           ptr = [c \in Components |-> IF c = "bezelMonitor" THEN b ELSE "null"]
  OBVIOUS
<1>2. ptr \in [Components -> {"null", "object", "unassigned"}]
  BY <1>1
<1>3. 0 \in 0..MaxControls /\ 0 \in 0..MaxCommands
  OBVIOUS
<1>4. TypeOK
  BY <1>2, <1>3 DEF TypeOK
<1>5. StoppedInv
  BY DEF StoppedInv
<1>6. PointerInv
  BY <1>1 DEF PointerInv, CrashOnlyWithoutEc
<1> QED BY <1>4, <1>5, <1>6 DEF IInv

\* The inductive invariant the theorems below rest on.
THEOREM Invariance == Spec => []IInv
<1>1. IInv /\ [Next]_vars => IInv'
  BY TypeOKStep, StoppedStep, PointerStep DEF IInv
<1> QED BY <1>1, InitIInv, PTL DEF Spec

\* Every variable keeps its type, and m_mutex is held while a command is
\* processed and at no other time.
THEOREM TypeCorrect == Spec => []TypeOK
<1>1. IInv => TypeOK
  BY DEF IInv
<1> QED BY <1>1, Invariance, PTL

\* A service that has told STOPPED to the manager has nothing left.
THEOREM CleanWhenStopped == Spec => []StoppedIsClean
<1>1. IInv => StoppedIsClean
  BY DEF IInv, StoppedInv, Clean, StoppedIsClean
<1> QED BY <1>1, Invariance, PTL

\* With an EC the service never uses a pointer that leads nowhere.
THEOREM NoCrashWithEc == Spec => []CrashOnlyWithoutEc
<1>1. IInv => CrashOnlyWithoutEc
  BY DEF IInv, PointerInv
<1> QED BY <1>1, Invariance, PTL
=============================================================================
