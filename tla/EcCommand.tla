------------------------------ MODULE EcCommand ------------------------------
(***************************************************************************)
(* EcManager and its EmiThread.  Caller threads submit EC commands with    *)
(* sendCommandSync or sendCommandAsync; the EMI thread takes them from one *)
(* queue, runs them against the EC and calls the command's FuncDone; the   *)
(* CommandDone signal is queued to the thread that owns EcManager (Main),  *)
(* whose event loop runs onCommandDone; the destructor stops the thread.   *)
(*                                                                         *)
(* m_mutex is EcManager's lock.  EmiThread's own lock m_Mutex is held by   *)
(* the EMI thread exactly in the states "test" and "toSleep", and by other *)
(* threads only inside one action.  A caller that waits polls its flag     *)
(* every 100 ms, so wake-ups of m_waitCondition change nothing here; the   *)
(* EMI thread sleeps without a time limit, so its wake-ups are modelled.   *)
(* Commands are named by the packet id nextPacketId gives them (its wrap   *)
(* after 2^32 commands is out of the bound MaxCmds).                       *)
(***************************************************************************)
EXTENDS Naturals, Sequences, FiniteSets

CONSTANTS Callers,   \* threads that call EcManager
          Main,      \* the one that runs EcManager's event loop
          MaxCmds    \* bound: commands submitted in one behaviour

ASSUME CallersAssumption == Main \in Callers
ASSUME MaxCmdsAssumption == MaxCmds \in Nat
ASSUME NamesAssumption == Callers \cap {"free", "null", "signal"} = {}

Ids == 1..MaxCmds
Results == {"SUCCESS", "FAILED"}   \* EC_HOST_CMD_STATUS: any failure, the
                                   \* preset EC_HOST_CMD_TIMEOUT among them

VARIABLES
  nextId,          \* m_packetIdCounter
  m_mutex,         \* the thread that holds EcManager::m_mutex, or "free"
  pc, cur,         \* of each caller: where it is, and the command it submits
  completed,       \* the local flag in the frame of a sendCommandSync call
  expired,         \* timer.elapsed() >= timeoutMs
  func,            \* pCmd->FuncDone: "null", "signal" (async), or the caller
                   \* whose frame's flag the lambda refers to
  result, payload, \* pCmd->result; how far pCmd->payloadin is written
  pending, asyncCallbacks,    \* m_pendingCommands, m_asyncCallbacks
  queue, stopFlag,            \* EmiThread::m_pCmdQueue, m_StopFlag
  emi, emiCmd, emiFrame,      \* the EMI thread: where it is, its command, and
                              \* the frame its running lambda refers to
  events,          \* CommandDone signals queued to Main's event loop
  stopper,         \* ~EcManager
  commandCount, errorCount,
  (* ghosts *)
  crashed,         \* an empty FuncDone was called: std::terminate
  dangling,        \* a lambda wrote to a frame that no longer exists
  outcome,         \* what each requester was told, see EcService
  status           \* what a synchronous call returned

callerVars == <<nextId, m_mutex, pc, cur, completed, expired, pending>>
cmdVars    == <<func, result, payload>>
emiVars    == <<emi, emiCmd, emiFrame>>
countVars  == <<commandCount, errorCount>>
faultVars  == <<crashed, dangling>>
replyVars  == <<outcome, status>>
vars == <<callerVars, cmdVars, asyncCallbacks, queue, stopFlag, emiVars,
          events, stopper, countVars, faultVars, replyVars>>

\* The state after a successful initialize(): the EMI thread is starting.
Init ==
  /\ nextId = 1 /\ m_mutex = "free"
  /\ pc = [c \in Callers |-> "idle"] /\ cur = [c \in Callers |-> 0]
  /\ completed = [c \in Callers |-> FALSE]
  /\ expired = [c \in Callers |-> FALSE]
  /\ func = [k \in Ids |-> "null"]
  /\ result = [k \in Ids |-> "FAILED"] /\ payload = [k \in Ids |-> "unset"]
  /\ pending = {} /\ asyncCallbacks = {}
  /\ queue = <<>> /\ stopFlag = FALSE
  /\ emi = "relock" /\ emiCmd = 0 /\ emiFrame = "null"
  /\ events = <<>> /\ stopper = "no"
  /\ commandCount = 0 /\ errorCount = 0
  /\ crashed = FALSE /\ dangling = FALSE
  /\ outcome = [k \in Ids |-> "open"] /\ status = [k \in Ids |-> "none"]

QueueFree == emi \notin {"test", "toSleep"}     \* EmiThread::m_Mutex

\* The frame of caller c that submitted command k is still on its stack.
FrameLive(c, k) == pc[c] = "wait" /\ cur[c] = k

Reply(k, what) ==
  outcome' = [outcome EXCEPT ![k] = IF @ = "open" THEN what ELSE "again"]

-----------------------------------------------------------------------------
(* Steps of the handlers that the actions share.  An operator named ..Fault is *)
(* a plausible bug in the one that follows it; no specification uses it.       *)

\* nextPacketId; the counter itself advances in the actions.
NextPacketIdFault == nextId + 1
NextPacketId == nextId

\* The result a command has until the EMI thread writes one.
PresetFault == "SUCCESS"
Preset == "FAILED"

\* wait() and the destructor of the QMutexLocker release m_mutex.
ReleaseFault == UNCHANGED m_mutex
Release == m_mutex' = "free"

\* m_pendingCommands.remove
UnregisterFault(k) == pending' = {}
Unregister(k) == pending' = pending \ {k}

\* m_errorCount++ of a time-out and of a failed result.
CountError(c, stat) ==
  errorCount' = IF stat # "SUCCESS" THEN errorCount + 1 ELSE errorCount

\* wakeOne, wakeAll of EmiThread::m_WaitCondition.
WakeEmiFault == UNCHANGED emi
WakeEmi == emi' = IF emi = "sleep" THEN "relock" ELSE emi

-----------------------------------------------------------------------------
(* Callers.  A terminated process takes no step: every action needs ~crashed. *)

\* sendCommandSync, up to addCmdToQueue: lock, id, preset result, pending
\* entry, and the lambda that refers to this call's flag.
SyncBegin(c) ==
  /\ ~crashed /\ stopper = "no" /\ nextId <= MaxCmds
  /\ pc[c] = "idle" /\ m_mutex = "free"
  /\ m_mutex' = c
  /\ nextId' = nextId + 1
  /\ pc' = [pc EXCEPT ![c] = "syncEnqueue"]
  /\ cur' = [cur EXCEPT ![c] = NextPacketId]
  /\ completed' = [completed EXCEPT ![c] = FALSE]
  /\ expired' = [expired EXCEPT ![c] = FALSE]
  /\ func' = [func EXCEPT ![NextPacketId] = c]
  /\ result' = [result EXCEPT ![NextPacketId] = Preset]
  /\ pending' = pending \cup {NextPacketId}
  /\ UNCHANGED <<payload, asyncCallbacks, queue, stopFlag, emiVars, events,
                 stopper, countVars, faultVars, replyVars>>

\* sendCommandAsync(cmd, ...): under the lock, take an id and register the
\* callback, if there is one; then the lock is released.
AsyncBegin(c, withCallback) ==
  /\ ~crashed /\ stopper = "no" /\ nextId <= MaxCmds
  /\ pc[c] = "idle" /\ m_mutex = "free"
  /\ nextId' = nextId + 1
  /\ pc' = [pc EXCEPT ![c] = "asyncLock"]
  /\ cur' = [cur EXCEPT ![c] = NextPacketId]
  /\ asyncCallbacks' = IF withCallback THEN asyncCallbacks \cup {NextPacketId}
                                             ELSE asyncCallbacks
  /\ UNCHANGED <<m_mutex, completed, expired, pending, cmdVars, queue, stopFlag,
                 emiVars, events, stopper, countVars, faultVars, replyVars>>

\* sendCommandAsync(pCmd): lock again and set the signalling FuncDone.
AsyncLock(c) ==
  /\ ~crashed /\ pc[c] = "asyncLock" /\ m_mutex = "free"
  /\ m_mutex' = c
  /\ pc' = [pc EXCEPT ![c] = "asyncEnqueue"]
  /\ func' = [func EXCEPT ![cur[c]] = "signal"]
  /\ UNCHANGED <<nextId, cur, completed, expired, pending, result, payload,
                 asyncCallbacks, queue, stopFlag, emiVars, events, stopper,
                 countVars, faultVars, replyVars>>

\* addCmdToQueue, m_commandCount++, and the release of m_mutex: by wait() in a
\* synchronous call, by the return in an asynchronous one.
Enqueue(c) ==
  /\ ~crashed /\ pc[c] \in {"syncEnqueue", "asyncEnqueue"} /\ QueueFree
  /\ queue' = Append(queue, cur[c])
  /\ WakeEmi
  /\ commandCount' = commandCount + 1
  /\ Release
  /\ pc' = [pc EXCEPT ![c] = IF @ = "syncEnqueue" THEN "wait" ELSE "idle"]
  /\ UNCHANGED <<nextId, cur, completed, expired, pending, cmdVars,
                 asyncCallbacks, stopFlag, emiCmd, emiFrame, events, stopper,
                 errorCount, faultVars, replyVars>>

\* timeoutMs has passed since the call began to wait.
Expire(c) ==
  /\ ~crashed /\ pc[c] = "wait" /\ ~expired[c]
  /\ expired' = [expired EXCEPT ![c] = TRUE]
  /\ UNCHANGED <<nextId, m_mutex, pc, cur, completed, pending, cmdVars,
                 asyncCallbacks, queue, stopFlag, emiVars, events, stopper,
                 countVars, faultVars, replyVars>>

\* The wait loop ends with the lock held: clear the callback, drop the pending
\* entry, count a failure, return.  The lock does not cover FuncDone: the EMI
\* thread reads it without.
Finish(c) ==
  LET k    == cur[c]
      stat == IF completed[c] THEN result[k] ELSE "FAILED"
  IN /\ ~crashed /\ pc[c] = "wait" /\ m_mutex = "free"
     /\ completed[c] \/ expired[c]
     /\ pc' = [pc EXCEPT ![c] = "copy"]
     /\ func' = [func EXCEPT ![k] = "null"]
     /\ Unregister(k)
     /\ CountError(c, stat)
     /\ status' = [status EXCEPT ![k] = stat]
     /\ Reply(k, IF completed[c] /\ payload[k] = "final" THEN "answered"
                                                         ELSE "timeout")
     /\ completed' = [completed EXCEPT ![c] = FALSE]   \* the frame's end
     /\ expired' = [expired EXCEPT ![c] = FALSE]
     /\ UNCHANGED <<nextId, m_mutex, cur, result, payload, asyncCallbacks,
                    queue, stopFlag, emiVars, events, stopper, commandCount,
                    faultVars>>

\* The outer sendCommandSync copies pCmd->payloadin to its own caller, without
\* a lock and whatever the status was.
CopyPayload(c) ==
  /\ ~crashed /\ pc[c] = "copy"
  /\ pc' = [pc EXCEPT ![c] = "idle"]
  /\ UNCHANGED <<nextId, m_mutex, cur, completed, expired, pending, cmdVars,
                 asyncCallbacks, queue, stopFlag, emiVars, events, stopper,
                 countVars, faultVars, replyVars>>

-----------------------------------------------------------------------------
(* EmiThread::run *)

EmiOnly == UNCHANGED <<callerVars, asyncCallbacks, events, stopper, stopFlag,
                       countVars, replyVars>>

EmiRelock ==
  /\ ~crashed /\ emi = "relock" /\ emi' = "test"
  /\ EmiOnly /\ UNCHANGED <<cmdVars, queue, emiCmd, emiFrame, faultVars>>

\* The loop's condition, read under m_Mutex: leave, take a command, or wait.
EmiExit ==
  /\ ~crashed /\ emi = "test" /\ stopFlag /\ emi' = "exit"
  /\ EmiOnly /\ UNCHANGED <<cmdVars, queue, emiCmd, emiFrame, faultVars>>

EmiDequeueFault ==
  /\ ~crashed /\ emi = "test" /\ ~stopFlag /\ queue # <<>>
  /\ emi' = "proc" /\ emiCmd' = Head(queue)
  /\ payload' = [payload EXCEPT ![Head(queue)] = "busy"]
  /\ EmiOnly /\ UNCHANGED <<queue, func, result, emiFrame, faultVars>>
EmiDequeue ==
  /\ ~crashed /\ emi = "test" /\ ~stopFlag /\ queue # <<>>
  /\ emi' = "proc" /\ emiCmd' = Head(queue)
  /\ queue' = Tail(queue)
  /\ payload' = [payload EXCEPT ![Head(queue)] = "busy"]
  /\ EmiOnly /\ UNCHANGED <<func, result, emiFrame, faultVars>>

EmiGoToSleep ==
  /\ ~crashed /\ emi = "test" /\ ~stopFlag /\ queue = <<>> /\ emi' = "toSleep"
  /\ EmiOnly /\ UNCHANGED <<cmdVars, queue, emiCmd, emiFrame, faultVars>>

\* m_WaitCondition.wait: m_Mutex is released as the thread falls asleep.
EmiSleep ==
  /\ ~crashed /\ emi = "toSleep" /\ emi' = "sleep"
  /\ EmiOnly /\ UNCHANGED <<cmdVars, queue, emiCmd, emiFrame, faultVars>>

\* ProcCmd returns: payloadin is written, then pCmd->result.
EmiProcCmd ==
  /\ ~crashed /\ emi = "proc" /\ emi' = "check"
  /\ \E r \in Results : result' = [result EXCEPT ![emiCmd] = r]
  /\ payload' = [payload EXCEPT ![emiCmd] = "final"]
  /\ EmiOnly /\ UNCHANGED <<func, queue, emiCmd, emiFrame, faultVars>>

\* if (pCmd->FuncDone), read without a lock ...
EmiCheck ==
  /\ ~crashed /\ emi = "check"
  /\ emi' = IF func[emiCmd] = "null" THEN "emit" ELSE "call"
  /\ EmiOnly /\ UNCHANGED <<cmdVars, queue, emiCmd, emiFrame, faultVars>>

\* ... and called in a later step: what is called may be empty by then.
EmiCall ==
  /\ ~crashed /\ emi = "call"
  /\ IF func[emiCmd] = "null"
       THEN crashed' = TRUE /\ UNCHANGED <<emi, emiFrame>>
       ELSE /\ emi' = IF func[emiCmd] = "signal" THEN "emit" ELSE "lambda"
            /\ emiFrame' = IF func[emiCmd] = "signal" THEN "null" ELSE func[emiCmd]
            /\ UNCHANGED crashed
  /\ EmiOnly /\ UNCHANGED <<cmdVars, queue, emiCmd, dangling>>

\* The lambda, once it has m_mutex.  If its frame is gone the write hits
\* whatever is there now, possibly the flag of the caller's next call.
EmiLambda ==
  LET set == [completed EXCEPT ![emiFrame] = TRUE]
  IN /\ ~crashed /\ emi = "lambda" /\ m_mutex = "free"
     /\ emi' = "emit" /\ emiFrame' = "null"
     /\ IF FrameLive(emiFrame, emiCmd)
          THEN completed' = set /\ UNCHANGED dangling
          ELSE /\ dangling' = TRUE
               /\ \/ UNCHANGED completed
                  \/ pc[emiFrame] = "wait" /\ completed' = set
     /\ UNCHANGED <<nextId, m_mutex, pc, cur, expired, pending, cmdVars,
                    asyncCallbacks, queue, stopFlag, emiCmd, events, stopper,
                    countVars, crashed, replyVars>>

\* emit CommandDone, and m_Mutex is taken again.  (The faults: FuncDone called
\* once more, as EmiIo::CommandDone does; no signal for a command whose
\* FuncDone is still set.)
EmiEmitTwiceFault ==
  /\ ~crashed /\ emi = "emit" /\ emi' = IF func[emiCmd] = "null" THEN "test" ELSE "call"
  /\ events' = Append(events, emiCmd)
  /\ UNCHANGED <<callerVars, cmdVars, asyncCallbacks, queue, stopFlag, emiCmd,
                 emiFrame, stopper, countVars, faultVars, replyVars>>
EmiEmitFault ==
  /\ ~crashed /\ emi = "emit" /\ emi' = "test"
  /\ events' = IF func[emiCmd] = "null" THEN Append(events, emiCmd) ELSE events
  /\ UNCHANGED <<callerVars, cmdVars, asyncCallbacks, queue, stopFlag, emiCmd,
                 emiFrame, stopper, countVars, faultVars, replyVars>>
EmiEmit ==
  /\ ~crashed /\ emi = "emit" /\ emi' = "test"
  /\ events' = Append(events, emiCmd)
  /\ UNCHANGED <<callerVars, cmdVars, asyncCallbacks, queue, stopFlag, emiCmd,
                 emiFrame, stopper, countVars, faultVars, replyVars>>

-----------------------------------------------------------------------------
(* Main's event loop and the destructor *)

\* onCommandDone: take the callback under the lock, call it after unlocking.
OnCommandDone ==
  /\ ~crashed /\ events # <<>> /\ pc[Main] = "idle" /\ stopper = "no" /\ m_mutex = "free"
  /\ events' = Tail(events)
  /\ IF Head(events) \in asyncCallbacks
       THEN /\ asyncCallbacks' = asyncCallbacks \ {Head(events)}
            /\ Reply(Head(events), "answered")
       ELSE UNCHANGED <<asyncCallbacks, outcome>>
  /\ UNCHANGED <<callerVars, cmdVars, queue, stopFlag, emiVars, stopper,
                 countVars, faultVars, status>>

\* ~EcManager calls stop(); nobody may be using the object any more.  The
\* flag is set without m_Mutex.
StopSetFlag ==
  /\ ~crashed /\ stopper = "no" /\ \A c \in Callers : pc[c] = "idle"
  /\ stopper' = "wake" /\ stopFlag' = TRUE
  /\ UNCHANGED <<callerVars, cmdVars, asyncCallbacks, queue, emiVars, events,
                 countVars, faultVars, replyVars>>

StopWakeAll ==
  /\ ~crashed /\ stopper = "wake" /\ stopper' = "join"
  /\ WakeEmi
  /\ UNCHANGED <<callerVars, cmdVars, asyncCallbacks, queue, stopFlag, emiCmd,
                 emiFrame, events, countVars, faultVars, replyVars>>

StopJoin ==
  /\ ~crashed /\ stopper = "join" /\ emi = "exit" /\ stopper' = "done"
  /\ UNCHANGED <<callerVars, cmdVars, asyncCallbacks, queue, stopFlag, emiVars,
                 events, countVars, faultVars, replyVars>>

-----------------------------------------------------------------------------
CallerStep(c) == AsyncLock(c) \/ Enqueue(c) \/ Finish(c) \/ CopyPayload(c)
EmiStep == \/ EmiRelock \/ EmiExit  \/ EmiDequeue \/ EmiGoToSleep \/ EmiSleep
           \/ EmiProcCmd \/ EmiCheck \/ EmiCall \/ EmiLambda \/ EmiEmit
StopStep == StopWakeAll \/ StopJoin

Next == \/ \E c \in Callers : \/ SyncBegin(c)
                              \/ \E b \in BOOLEAN : AsyncBegin(c, b)
                              \/ AsyncLock(c)
                              \/ Enqueue(c)
                              \/ Expire(c)
                              \/ Finish(c)
                              \/ CopyPayload(c)
        \/ EmiRelock    \/ EmiExit  \/ EmiDequeue
        \/ EmiGoToSleep \/ EmiSleep \/ EmiProcCmd
        \/ EmiCheck     \/ EmiCall  \/ EmiLambda \/ EmiEmit
        \/ OnCommandDone
        \/ StopSetFlag \/ StopWakeAll \/ StopJoin

Spec == Init /\ [][Next]_vars

\* Threads are scheduled, time passes, ProcCmd ends (every loop in it is
\* bounded), the event loop runs, mutexes are granted.  Nothing makes a caller
\* submit a command or the service stop.
Fairness == /\ \A c \in Callers : WF_vars(CallerStep(c)) /\ WF_vars(Expire(c))
            /\ WF_vars(EmiStep)
            /\ WF_vars(OnCommandDone)
            /\ WF_vars(StopStep)

FairSpec == Spec /\ Fairness

-----------------------------------------------------------------------------
(* Properties *)

TypeOK ==
  /\ nextId \in 1..(MaxCmds + 1)
  /\ m_mutex \in Callers \cup {"free"}
  /\ pc \in [Callers -> {"idle", "syncEnqueue", "asyncLock", "asyncEnqueue",
                         "wait", "copy"}]
  /\ cur \in [Callers -> Ids \cup {0}]
  /\ completed \in [Callers -> BOOLEAN] /\ expired \in [Callers -> BOOLEAN]
  /\ func \in [Ids -> Callers \cup {"null", "signal"}]
  /\ result \in [Ids -> Results]
  /\ payload \in [Ids -> {"unset", "busy", "final"}]
  /\ pending \in SUBSET Ids /\ asyncCallbacks \in SUBSET Ids
  /\ queue \in Seq(Ids) /\ events \in Seq(Ids) /\ stopFlag \in BOOLEAN
  /\ emi \in {"relock", "test", "toSleep", "sleep", "proc", "check", "call",
              "lambda", "emit", "exit"}
  /\ emiCmd \in Ids \cup {0} /\ emiFrame \in Callers \cup {"null"}
  /\ emiCmd = 0 => emi \in {"relock", "test", "toSleep", "sleep", "exit"}
  /\ emi = "lambda" => emiFrame \in Callers
  /\ \A c \in Callers : pc[c] # "idle" => cur[c] \in Ids
  /\ stopper \in {"no", "wake", "join", "done"}
  /\ commandCount \in Nat /\ errorCount \in Nat
  /\ crashed \in BOOLEAN /\ dangling \in BOOLEAN
  /\ outcome \in [Ids -> {"open", "timeout", "answered", "again"}]
  /\ status \in [Ids -> Results \cup {"none"}]

TimedOut == {k \in Ids : outcome[k] = "timeout"}

\* As long as no synchronous call has timed out, the completion lambda never
\* runs against a frame that is gone and FuncDone is never called empty: the
\* callback that EmiThread::run makes without a lock is safe without time-outs.
\* (ImplementsService says this too: what EcService's Break may not do.)
SafeWithoutTimeout == TimedOut = {} => ~crashed /\ ~dangling

\* What sendCommandSync says of clearing the callback: the lambda never refers
\* to a frame that is gone, and what the EMI thread calls is there.  (Does not
\* hold: the EMI thread may be past its check when the caller clears it.)
NoDanglingCallback == ~crashed /\ ~dangling

\* The EMI thread is never asleep while a command waits in its queue: what
\* addCmdToQueue appends under m_Mutex is seen by the test or wakes the wait.
QueueWakesEmi == emi = "sleep" => queue = <<>>

\* m_pendingCommands holds exactly the commands of the synchronous calls that
\* are in progress: no entry outlives its call, none is removed by another one.
PendingIsWaiting ==
  pending = {cur[c] : c \in {d \in Callers : pc[d] \in {"syncEnqueue", "wait"}}}

\* A synchronous call that returns SUCCESS returns a command the EC has run
\* with that result, and the payload it then copies is the whole response: the
\* EMI thread is no longer writing to it.
SuccessIsExecuted ==
  \A k \in Ids :
    status[k] = "SUCCESS" => payload[k] = "final" /\ result[k] = "SUCCESS"

\* EcManager implements EcService: at most one execution of each command, one
\* at a time, at most one reply, answers only for executed commands, and
\* nothing breaks unless a call has timed out.
phaseBar ==
  [k \in Ids |-> IF k >= nextId              THEN "unused"
                 ELSE IF payload[k] = "unset" THEN "accepted"
                 ELSE IF payload[k] = "busy"  THEN "executing"
                 ELSE "executed"]

Service == INSTANCE EcService
             WITH phase <- phaseBar, broken <- (crashed \/ dangling)

ImplementsService == Service!SSpec

\* A synchronous call returns, whatever the EC and the other threads do.
SyncReturns == \A c \in Callers : pc[c] = "wait" ~> (pc[c] = "idle" \/ crashed)

\* A queued command is executed, even after its caller gave up on it, unless
\* the manager is stopped first: the EMI thread drops what is queued then.
QueuedIsExecuted ==
  \A k \in Ids : (\E i \in DOMAIN queue : queue[i] = k)
                   ~> (payload[k] = "final" \/ stopFlag \/ crashed)

\* A registered asynchronous callback is called, unless the manager is stopped
\* first, provided that the call that registered it has queued the command.
CallbackIsCalled ==
  \A k \in Ids : k \in asyncCallbacks ~>
                   (outcome[k] = "answered" \/ stopFlag \/ crashed)

\* "Exit thread if requested": a stopped thread ends and the destructor returns.
\* (Does not hold: the flag is set and the wake-up sent without m_Mutex, so
\* both can fall between the thread's test and its wait.)
StopTerminates == stopFlag ~> (stopper = "done" \/ crashed)
=============================================================================
