--------------------------- MODULE ServiceLifecycle ---------------------------
(***************************************************************************)
(* WindowsService from its start to its end: serviceMain on a thread of    *)
(* its own, the control handler on the thread of the dispatcher, and the   *)
(* destructor, on that thread too once the dispatcher has returned.  The   *)
(* two threads share m_serviceStatus without a lock, and the objects that  *)
(* cleanup deletes under m_mutex.                                          *)
(*                                                                         *)
(* The service control manager is outside this repository.  It delivers    *)
(* one control at a time, a stop to a service that is starting or running, *)
(* an interrogation to one that is running.                                *)
(*                                                                         *)
(* Qt is outside, too: quit() ends the event loop if it is running and     *)
(* does nothing if not, and a timer is started by its own thread only.     *)
(***************************************************************************)
EXTENDS Naturals, FiniteSets

CONSTANTS MaxControls,  \* bound: controls the manager delivers
          MaxCommands   \* bound: clients' commands

ASSUME BoundsAssumption == {MaxControls, MaxCommands} \subseteq Nat

\* What cleanup deletes, in the constructor's order of members.
Components == {"pipeServer", "secureHandler", "bezelMonitor", "monitor", "shutdownTimer"}
States == {"START_PENDING", "RUNNING", "STOP_PENDING", "STOPPED"}

VARIABLES
  main,          \* serviceMain's place, then the destructor's
  handler, seen, \* the control handler's place; the state an interrogation read
  m_mutex,       \* "free" or the one that holds it
  state,         \* m_serviceStatus.dwCurrentState
  reported,      \* what the service control manager was told last
  ptr,           \* of each component: null, object, or never assigned
  shuttingDown,
  quitPosted,    \* quit() has reached the event loop
  crashed,       \* a pointer to nothing was used
  controls, commands,
  ecUp           \* ghost: the EC has been initialised

statusVars == <<state, reported>>
objVars    == <<ptr, shuttingDown, crashed>>
boundVars  == <<controls, commands>>
vars == <<main, handler, seen, m_mutex, statusVars, objVars, quitPosted,
          boundVars, ecUp>>

\* The constructor; m_bezelMonitor is not in its list of members.
Init ==
  /\ main = "constructed" /\ handler = "idle" /\ seen = "START_PENDING"
  /\ m_mutex = "free"
  /\ state = "START_PENDING" /\ reported = "none"
  /\ \E b \in {"null", "unassigned"} :
       ptr = [c \in Components |-> IF c = "bezelMonitor" THEN b ELSE "null"]
  /\ shuttingDown = FALSE /\ quitPosted = FALSE /\ crashed = FALSE
  /\ controls = 0 /\ commands = 0
  /\ ecUp = FALSE

-----------------------------------------------------------------------------
(* serviceMain.  setServiceStatus is a step that writes m_serviceStatus and  *)
(* one that hands it over.  An operator named ..Fault is a plausible bug in   *)
(* the one that follows it; no specification uses it.                        *)

MainSets(from, new, to) ==
  /\ ~crashed /\ main = from /\ main' = to
  /\ state' = new
  /\ UNCHANGED <<handler, seen, m_mutex, reported, objVars, quitPosted, boundVars, ecUp>>

\* The manager takes no report of a service that has reported STOPPED.
Told == IF reported = "STOPPED" THEN reported ELSE state

MainReports(from, to) ==
  /\ ~crashed /\ main = from /\ main' = to
  /\ reported' = Told
  /\ UNCHANGED <<handler, seen, m_mutex, state, objVars, quitPosted, boundVars, ecUp>>

SetStartPending    == MainSets("constructed", "START_PENDING", "starting")
ReportStartPending == MainReports("starting", "initEc")
SetRunning         == MainSets("initialized", "RUNNING", "running")
ReportRunning      == MainReports("running", "beforeExec")
SetStopPending     == MainSets("left", "STOP_PENDING", "stopping")
ReportStopPending  == MainReports("stopping", "cleanup")
SetStopped         == MainSets("cleaned", "STOPPED", "ending")
ReportStopped      == MainReports("ending", "returned")

\* initializeService: the secure handler, the EC, and a bezel monitor if there
\* is an EC ...
InitializeEc(ok) ==
  /\ ~crashed /\ main = "initEc" /\ main' = "initPipes"
  /\ ptr' = [c \in Components |->
               IF c = "secureHandler" \/ (c = "bezelMonitor" /\ ok) THEN "object" ELSE ptr[c]]
  /\ ecUp' = ok
  /\ UNCHANGED <<handler, seen, m_mutex, statusVars, shuttingDown, crashed,
                 quitPosted, boundVars>>

\* ... then the pipes, which clients may find but nobody serves yet, the
\* monitor and the shutdown timer.
InitializePipes ==
  /\ ~crashed /\ main = "initPipes" /\ main' = "initialized"
  /\ ptr' = [c \in Components |->
               IF c \in {"pipeServer", "monitor", "shutdownTimer"} THEN "object" ELSE ptr[c]]
  /\ UNCHANGED <<handler, seen, m_mutex, statusVars, shuttingDown, crashed,
                 quitPosted, boundVars, ecUp>>

\* app.exec()
Exec ==
  /\ ~crashed /\ main = "beforeExec" /\ main' = "loop"
  /\ UNCHANGED <<handler, seen, m_mutex, statusVars, objVars, quitPosted, boundVars, ecUp>>

\* onControlScreensCommand and onCSMonitorCommand hold m_mutex while the command
\* is processed, EC calls included.  (The fault: a way out that keeps it.)
BeginCommand ==
  /\ ~crashed /\ main = "loop" /\ m_mutex = "free" /\ commands < MaxCommands
  /\ ~shuttingDown /\ ptr["pipeServer"] = "object" /\ ptr["secureHandler"] = "object"
  /\ commands' = commands + 1
  /\ main' = "command" /\ m_mutex' = "main"
  /\ UNCHANGED <<handler, seen, statusVars, objVars, quitPosted, controls, ecUp>>

EndCommandFault ==
  /\ ~crashed /\ main = "command" /\ main' = "loop"
  /\ UNCHANGED <<handler, seen, m_mutex, statusVars, objVars, quitPosted, boundVars, ecUp>>
EndCommand ==
  /\ ~crashed /\ main = "command" /\ main' = "loop"
  /\ m_mutex' = "free"
  /\ UNCHANGED <<handler, seen, statusVars, objVars, quitPosted, boundVars, ecUp>>

LeaveLoop ==
  /\ ~crashed /\ main = "loop" /\ quitPosted /\ main' = "left"
  /\ UNCHANGED <<handler, seen, m_mutex, statusVars, objVars, quitPosted, boundVars, ecUp>>

\* cleanup: under m_mutex each object that is there is deleted and its pointer
\* reset (the fault: the timer's is not).
DeletedFault(c) == IF c = "shutdownTimer" THEN "deleted" ELSE "null"
Deleted(c) == "null"

DeleteAll ==
  /\ m_mutex = "free"
  /\ shuttingDown' = TRUE
  /\ IF \E c \in Components : ptr[c] \notin {"null", "object"}
       THEN crashed' = TRUE /\ UNCHANGED ptr
       ELSE ptr' = [c \in Components |-> Deleted(c)] /\ UNCHANGED crashed

Cleanup ==
  /\ ~crashed /\ main = "cleanup" /\ main' = "cleaned"
  /\ DeleteAll
  /\ UNCHANGED <<handler, seen, m_mutex, statusVars, quitPosted, boundVars, ecUp>>

\* The process is called with --install or --uninstall: nothing is started.
Install ==
  /\ ~crashed /\ main = "constructed" /\ main' = "returned"
  /\ UNCHANGED <<handler, seen, m_mutex, statusVars, objVars, quitPosted, boundVars, ecUp>>

\* StartServiceCtrlDispatcher returns once the service has told STOPPED; with
\* --install it was never called.  The destructor runs then.
DispatcherReturned ==
  main = "returned" /\ handler = "idle" /\ reported \in {"none", "STOPPED"}

Destroy ==
  /\ ~crashed /\ DispatcherReturned
  /\ main' = "destroyed"
  /\ DeleteAll
  /\ UNCHANGED <<handler, seen, m_mutex, statusVars, quitPosted, boundVars, ecUp>>

-----------------------------------------------------------------------------
(* serviceCtrlHandler *)

DeliverStop ==
  /\ ~crashed /\ handler = "idle" /\ controls < MaxControls
  /\ reported \in {"START_PENDING", "RUNNING"}
  /\ handler' = "stopSets" /\ controls' = controls + 1
  /\ UNCHANGED <<main, seen, m_mutex, statusVars, objVars, quitPosted, commands, ecUp>>

DeliverInterrogate ==
  /\ ~crashed /\ handler = "idle" /\ controls < MaxControls
  /\ reported = "RUNNING"
  /\ handler' = "interrogateReads" /\ controls' = controls + 1
  /\ UNCHANGED <<main, seen, m_mutex, statusVars, objVars, quitPosted, commands, ecUp>>

HandlerSets(from, new, to) ==
  /\ ~crashed /\ handler = from /\ handler' = to
  /\ state' = new
  /\ UNCHANGED <<main, seen, m_mutex, reported, objVars, quitPosted, boundVars, ecUp>>

HandlerReports(from, to) ==
  /\ ~crashed /\ handler = from /\ handler' = to
  /\ reported' = Told
  /\ UNCHANGED <<main, seen, m_mutex, state, objVars, quitPosted, boundVars, ecUp>>

\* setServiceStatus(SERVICE_STOP_PENDING) (the fault: STOPPED at once).
StopSetsFault == HandlerSets("stopSets", "STOPPED", "stopReports")
StopSets    == HandlerSets("stopSets", "STOP_PENDING", "stopReports")
StopReports == HandlerReports("stopReports", "stopLocks")

\* Under m_mutex the shutdown timer is told to start.  It belongs to serviceMain's
\* thread, so it does not.  (m_running is written and never read.)
StopLocks ==
  /\ ~crashed /\ handler = "stopLocks" /\ m_mutex = "free"
  /\ handler' = "stopQuits"
  /\ crashed' = (ptr["shutdownTimer"] \notin {"null", "object"})
  /\ UNCHANGED <<main, seen, m_mutex, statusVars, ptr, shuttingDown, quitPosted,
                 boundVars, ecUp>>

\* QCoreApplication::quit() (the fault: only a loop that is idle takes it).
LoopRunsFault == main = "loop"
LoopRuns == main \in {"loop", "command"}

StopQuits ==
  /\ ~crashed /\ handler = "stopQuits" /\ handler' = "idle"
  /\ quitPosted' = (quitPosted \/ LoopRuns)
  /\ UNCHANGED <<main, seen, m_mutex, statusVars, objVars, boundVars, ecUp>>

\* An interrogation reports the state again.
InterrogateReads ==
  /\ ~crashed /\ handler = "interrogateReads" /\ handler' = "interrogateSets"
  /\ seen' = state
  /\ UNCHANGED <<main, m_mutex, statusVars, objVars, quitPosted, boundVars, ecUp>>

InterrogateSets    == HandlerSets("interrogateSets", seen, "interrogateReports")
InterrogateReports == HandlerReports("interrogateReports", "idle")

-----------------------------------------------------------------------------
MainStep == \/ SetStartPending \/ ReportStartPending
            \/ SetRunning      \/ ReportRunning      \/ Exec \/ EndCommand
            \/ SetStopPending  \/ ReportStopPending  \/ Cleanup
            \/ SetStopped      \/ ReportStopped      \/ Destroy
            \/ InitializePipes \/ \E ok \in BOOLEAN : InitializeEc(ok)

HandlerStep == \/ StopSets         \/ StopReports     \/ StopQuits
               \/ InterrogateReads \/ InterrogateSets \/ InterrogateReports

Next == \/ MainStep    \/ BeginCommand \/ LeaveLoop \/ Install
        \/ HandlerStep \/ StopLocks
        \/ DeliverStop \/ DeliverInterrogate

Spec == Init /\ [][Next]_vars

\* Both threads run, a command ends, a mutex that is released again and again is
\* granted in the end, and a posted quit event is delivered.  Nothing makes the
\* manager deliver a control, or a client send a command.
FairSpec == Spec /\ WF_vars(MainStep) /\ WF_vars(HandlerStep)
                 /\ SF_vars(LeaveLoop) /\ SF_vars(StopLocks)

-----------------------------------------------------------------------------
(* Properties *)

TypeOK ==
  /\ main \in {"constructed", "starting", "loop", "command", "left", "stopping",
               "cleanup", "cleaned", "ending", "returned", "destroyed",
               "initEc", "initPipes", "initialized", "running", "beforeExec"}
  /\ handler \in {"idle", "stopSets", "stopReports", "stopLocks", "stopQuits",
                  "interrogateReads", "interrogateSets", "interrogateReports"}
  /\ {state, seen} \subseteq States /\ reported \in States \cup {"none"}
  /\ m_mutex = (IF main = "command" THEN "main" ELSE "free")
  /\ ptr \in [Components -> {"null", "object", "unassigned"}]
  /\ {shuttingDown, quitPosted, crashed, ecUp} \subseteq BOOLEAN
  /\ controls \in 0..MaxControls /\ commands \in 0..MaxCommands

\* A service that has been told STOPPED to the manager has nothing left that a
\* client or a timer could reach, whatever control is still being handled.
StoppedIsClean == reported = "STOPPED" => \A c \in Components : ptr[c] = "null"

\* With an EC the service never uses a pointer that leads nowhere: neither in a
\* control handler that is late, nor in the second cleanup, of the destructor.
\* (Without one it may: cleanup reads an m_bezelMonitor that nobody assigned.)
CrashOnlyWithoutEc == crashed => ~ecUp

\* The control handler returns to the manager, although it waits for a mutex
\* that is held across EC commands.
ControlReturns == handler # "idle" ~> (handler = "idle" \/ crashed)

\* A stop that comes while the event loop runs, and before a quit was posted, ends
\* in STOPPED, which lets the process end.  (After the quit of a stop that came
\* while the service was starting, the manager may believe it RUNNING: the handler
\* of the next control can then put its own state in place of STOPPED.)
StopInLoopEnds ==
  (handler = "stopSets" /\ main \in {"loop", "command"} /\ ~quitPosted)
    ~> (main = "destroyed" /\ reported = "STOPPED") \/ crashed

\* "Shutdown timeout - forcing exit": a stop ends in STOPPED one way or another.
\* (Does not hold: quit() before exec() does nothing, and the timer that would
\* force the exit is told to start by a thread it does not belong to.)
StopEnds == handler = "stopSets" ~> (reported = "STOPPED" \/ crashed)
=============================================================================
