--------------------------- MODULE EcCommandProofs ---------------------------
(***************************************************************************)
(* Proofs about EcCommand, for every set of callers and every number of    *)
(* commands: its type invariant, the safety of the completion callback     *)
(* while nothing has timed out, the wake-up of the EMI thread, the content *)
(* of m_pendingCommands, what SUCCESS means, and that every step is a step *)
(* of EcService.                                                           *)
(***************************************************************************)
EXTENDS EcCommand, TLAPS

\* m_mutex is held exactly by the caller that is about to queue its command.
LockInv == \A c \in Callers :
  m_mutex = c <=> pc[c] \in {"syncEnqueue", "asyncEnqueue"}

\* Ids not yet given out belong to nobody.
FreshInv ==
  /\ \A k \in Ids : k >= nextId =>
       /\ func[k] = "null" /\ payload[k] = "unset" /\ result[k] = "FAILED"
       /\ outcome[k] = "open" /\ status[k] = "none" /\ k \notin asyncCallbacks
  /\ \A c \in Callers : cur[c] < nextId
  /\ emiCmd < nextId
  /\ \A c, d \in Callers :
       c # d /\ pc[c] # "idle" /\ pc[d] # "idle" => cur[c] # cur[d]

\* A command is queued once, untouched, and only after its caller queued it.
QueueInv ==
  /\ \A i \in 1..Len(queue) : payload[queue[i]] = "unset" /\ queue[i] < nextId
  /\ \A i, j \in 1..Len(queue) : queue[i] = queue[j] => i = j
  /\ \A c \in Callers : pc[c] \in {"syncEnqueue", "asyncLock", "asyncEnqueue"} =>
       /\ payload[cur[c]] = "unset"
       /\ \A i \in 1..Len(queue) : queue[i] # cur[c]

\* What the EMI thread does to a command's payload and result.
ExecInv ==
  /\ \A k \in Ids : payload[k] = "busy" <=> (emi = "proc" /\ emiCmd = k)
  /\ emi \in {"check", "call", "lambda", "emit"} => payload[emiCmd] = "final"
  /\ \A i \in 1..Len(events) : payload[events[i]] = "final"
  /\ \A k \in Ids : result[k] = "SUCCESS" => payload[k] = "final"

\* Who still waits for a reply.
OpenInv ==
  /\ \A c \in Callers : pc[c] \in {"syncEnqueue", "wait"} =>
       /\ func[cur[c]] = c /\ outcome[cur[c]] = "open"
       /\ cur[c] \notin asyncCallbacks
  /\ \A k \in Ids : func[k] \in Callers =>
       pc[func[k]] \in {"syncEnqueue", "wait"} /\ cur[func[k]] = k
  /\ \A k \in asyncCallbacks : outcome[k] = "open"

\* The completion callback while nothing has timed out.
CallbackInv == TimedOut = {} =>
  /\ ~crashed /\ ~dangling
  /\ emi = "call" => func[emiCmd] # "null"
  /\ \A c \in Callers : pc[c] = "syncEnqueue" => ~completed[c]
  /\ emi = "lambda" => FrameLive(emiFrame, emiCmd) /\ ~completed[emiFrame]
  /\ \A c \in Callers : pc[c] = "wait" /\ completed[c] =>
       /\ payload[cur[c]] = "final"
       /\ ~(emiCmd = cur[c] /\ emi \in {"proc", "check", "call", "lambda"})

SleepInv == emi \in {"toSleep", "sleep"} => queue = <<>>

IInv == /\ TypeOK /\ LockInv /\ FreshInv /\ QueueInv /\ ExecInv /\ OpenInv
        /\ CallbackInv /\ SleepInv /\ PendingIsWaiting /\ SuccessIsExecuted

-----------------------------------------------------------------------------
USE CallersAssumption, MaxCmdsAssumption, NamesAssumption
USE DEF vars, callerVars, cmdVars, emiVars, countVars, faultVars, replyVars,
        Ids, Results

\* What the head and the tail of a non-empty queue are.
LEMMA HeadAndTail ==
  ASSUME NEW q \in Seq(Ids), q # <<>>
  PROVE  /\ Head(q) \in Ids /\ Head(q) = q[1] /\ Tail(q) \in Seq(Ids)
         /\ Len(q) \in Nat /\ Len(q) > 0 /\ Len(Tail(q)) = Len(q) - 1
         /\ \A i \in 1..Len(Tail(q)) : Tail(q)[i] = q[i + 1]
OBVIOUS

\* A reply changes the outcome of one command, and an open one to the reply.
LEMMA ReplyEffect ==
  ASSUME TypeOK, NEW k \in Ids, NEW what \in {"timeout", "answered"},
         Reply(k, what)
  PROVE  /\ outcome' \in [Ids -> {"open", "timeout", "answered", "again"}]
         /\ outcome[k] = "open" => outcome'[k] = what
         /\ \A j \in Ids \ {k} : outcome'[j] = outcome[j]
BY DEF TypeOK, Reply

\* Every step keeps the type of every variable.
LEMMA TypeOKStep ==
  IInv /\ [Next]_vars => TypeOK'
<1> SUFFICES ASSUME TypeOK, [Next]_vars PROVE TypeOK'
  BY DEF IInv
<1> USE DEF TypeOK
<1>1. ASSUME NEW c \in Callers, SyncBegin(c) PROVE TypeOK'
  BY <1>1 DEF SyncBegin, NextPacketId, Preset
<1>2. ASSUME NEW c \in Callers, NEW b \in BOOLEAN, AsyncBegin(c, b)
      PROVE TypeOK'
  BY <1>2 DEF AsyncBegin, NextPacketId
<1>3. ASSUME NEW c \in Callers, AsyncLock(c) PROVE TypeOK'
  BY <1>3 DEF AsyncLock
<1>4. ASSUME NEW c \in Callers, Enqueue(c) PROVE TypeOK'
  BY <1>4 DEF Enqueue, Release, WakeEmi, QueueFree
<1>5. ASSUME NEW c \in Callers, Expire(c) PROVE TypeOK'
  BY <1>5 DEF Expire
<1>6. ASSUME NEW c \in Callers, Finish(c) PROVE TypeOK'
  <2>1. cur[c] \in Ids /\ pc[c] = "wait"
    BY <1>6 DEF Finish
  <2>2. outcome' \in [Ids -> {"open", "timeout", "answered", "again"}]
    BY <1>6, <2>1, ReplyEffect DEF Finish
  <2>3. UNCHANGED <<nextId, m_mutex, cur, result, payload, asyncCallbacks, queue,
                    stopFlag, emiVars, events, stopper, commandCount, faultVars>>
    BY <1>6 DEF Finish
  <2>4. /\ pc' \in [Callers -> {"idle", "syncEnqueue", "asyncLock",
                                 "asyncEnqueue", "wait", "copy"}]
        /\ \A d \in Callers : pc'[d] # "idle" => cur'[d] \in Ids
    BY <1>6, <2>1, <2>3 DEF Finish
  <2>5. pending' \in SUBSET Ids
    BY <1>6 DEF Finish, Unregister
  <2>8. errorCount' = errorCount \/ errorCount' = errorCount + 1
    BY <1>6 DEF Finish, CountError
  <2>7. /\ func' \in [Ids -> Callers \cup {"null", "signal"}]
        /\ completed' \in [Callers -> BOOLEAN]
        /\ expired' \in [Callers -> BOOLEAN]
    BY <1>6, <2>1 DEF Finish
  <2>6. status' \in [Ids -> Results \cup {"none"}]
    BY <1>6, <2>1 DEF Finish
  <2> QED BY <2>2, <2>3, <2>4, <2>5, <2>6, <2>7, <2>8
<1>7. ASSUME NEW c \in Callers, CopyPayload(c) PROVE TypeOK'
  BY <1>7 DEF CopyPayload
<1>8. ASSUME EmiRelock PROVE TypeOK'
  BY <1>8 DEF EmiRelock, EmiOnly
<1>9. ASSUME EmiExit PROVE TypeOK'
  BY <1>9 DEF EmiExit, EmiOnly
<1>10. ASSUME EmiDequeue PROVE TypeOK'
  BY <1>10 DEF EmiDequeue, EmiOnly
<1>11. ASSUME EmiGoToSleep PROVE TypeOK'
  BY <1>11 DEF EmiGoToSleep, EmiOnly
<1>12. ASSUME EmiSleep PROVE TypeOK'
  BY <1>12 DEF EmiSleep, EmiOnly
<1>13. ASSUME EmiProcCmd PROVE TypeOK'
  BY <1>13 DEF EmiProcCmd, EmiOnly
<1>14. ASSUME EmiCheck PROVE TypeOK'
  BY <1>14 DEF EmiCheck, EmiOnly
<1>15. ASSUME EmiCall PROVE TypeOK'
  BY <1>15 DEF EmiCall, EmiOnly
<1>16. ASSUME EmiLambda PROVE TypeOK'
  BY <1>16 DEF EmiLambda, FrameLive
<1>17. ASSUME EmiEmit PROVE TypeOK'
  BY <1>17 DEF EmiEmit
<1>18. ASSUME OnCommandDone PROVE TypeOK'
  <2>1. Head(events) \in Ids /\ events' \in Seq(Ids)
    BY <1>18, HeadAndTail DEF OnCommandDone
  <2>2. outcome' \in [Ids -> {"open", "timeout", "answered", "again"}]
    BY <1>18, <2>1, ReplyEffect DEF OnCommandDone
  <2> QED BY <1>18, <2>1, <2>2 DEF OnCommandDone
<1>19. ASSUME StopSetFlag PROVE TypeOK'
  BY <1>19 DEF StopSetFlag
<1>20. ASSUME StopWakeAll PROVE TypeOK'
  BY <1>20 DEF StopWakeAll, WakeEmi
<1>21. ASSUME StopJoin PROVE TypeOK'
  BY <1>21 DEF StopJoin
<1>22. ASSUME UNCHANGED vars
      PROVE TypeOK'
  <2>1. UNCHANGED <<nextId, m_mutex, pc, cur, completed, expired, func,
      result, payload, pending, asyncCallbacks, queue, stopFlag, emi, emiCmd,
      emiFrame, events, stopper, commandCount, errorCount, crashed, dangling,
      outcome, status>>
    BY <1>22
  <2> QED BY <2>1
<1> QED BY <1>1, <1>2, <1>3, <1>4, <1>5, <1>6, <1>7, <1>8, <1>9, <1>10,
    <1>11, <1>12, <1>13, <1>14, <1>15, <1>16, <1>17, <1>18, <1>19, <1>20,
    <1>21, <1>22 DEF Next

\* m_mutex is taken and given back by the caller that queues its command.
LEMMA LockInvStep ==
  IInv /\ [Next]_vars => LockInv'
<1> SUFFICES ASSUME TypeOK, LockInv, [Next]_vars PROVE LockInv'
  BY DEF IInv
<1> USE DEF TypeOK, LockInv
<1>1. ASSUME NEW c \in Callers, SyncBegin(c) PROVE LockInv'
  BY <1>1 DEF SyncBegin, NextPacketId, Preset
<1>2. ASSUME NEW c \in Callers, NEW b \in BOOLEAN, AsyncBegin(c, b)
      PROVE LockInv'
  BY <1>2 DEF AsyncBegin, NextPacketId
<1>3. ASSUME NEW c \in Callers, AsyncLock(c) PROVE LockInv'
  BY <1>3 DEF AsyncLock
<1>4. ASSUME NEW c \in Callers, Enqueue(c) PROVE LockInv'
  BY <1>4 DEF Enqueue, Release, WakeEmi, QueueFree
<1>5. ASSUME NEW c \in Callers, Finish(c) PROVE LockInv'
  BY <1>5 DEF Finish, Unregister, CountError, Reply
<1>6. ASSUME NEW c \in Callers, CopyPayload(c) PROVE LockInv'
  BY <1>6 DEF CopyPayload
<1>7. ASSUME UNCHANGED vars \/ EmiRelock \/ EmiExit \/ EmiDequeue \/
             EmiGoToSleep \/ EmiSleep \/ EmiProcCmd \/ EmiCheck \/ EmiCall \/
             EmiLambda \/ EmiEmit \/ OnCommandDone \/ StopSetFlag \/
             StopWakeAll \/ StopJoin \/ \E c \in Callers : Expire(c)
      PROVE LockInv'
  <2>1. UNCHANGED <<m_mutex, pc>>
    BY <1>7 DEF Expire, EmiRelock, EmiOnly, EmiExit, EmiDequeue,
      EmiGoToSleep, EmiSleep, EmiProcCmd, EmiCheck, EmiCall, EmiLambda,
      FrameLive, EmiEmit, OnCommandDone, Reply, StopSetFlag, StopWakeAll,
      WakeEmi, StopJoin
  <2> QED BY <2>1
<1> QED BY <1>1, <1>2, <1>3, <1>4, <1>5, <1>6, <1>7 DEF Next

\* Ids are given out in order, and no two calls in progress share one.
LEMMA FreshInvStep ==
  IInv /\ [Next]_vars => FreshInv'
<1> SUFFICES ASSUME TypeOK, FreshInv, QueueInv, OpenInv, [Next]_vars PROVE FreshInv'
  BY DEF IInv
<1> USE DEF TypeOK, FreshInv, QueueInv, OpenInv
<1>1. ASSUME NEW c \in Callers, SyncBegin(c) PROVE FreshInv'
  BY <1>1 DEF SyncBegin, NextPacketId, Preset
<1>2. ASSUME NEW c \in Callers, NEW b \in BOOLEAN, AsyncBegin(c, b)
      PROVE FreshInv'
  <2>1. /\ nextId' = nextId + 1 /\ nextId \in Ids
        /\ cur' = [cur EXCEPT ![c] = nextId]
        /\ asyncCallbacks' \subseteq asyncCallbacks \cup {nextId}
        /\ pc[c] = "idle" /\ pc' = [pc EXCEPT ![c] = "asyncLock"]
        /\ UNCHANGED <<emiCmd, cmdVars, replyVars>>
    BY <1>2 DEF AsyncBegin, NextPacketId
  <2>2. \A d, e \in Callers : d # e /\ pc'[d] # "idle" /\ pc'[e] # "idle"
                                => cur'[d] # cur'[e]
    BY <2>1
  <2> QED BY <2>1, <2>2, SMTT(60)
<1>3. ASSUME NEW c \in Callers, AsyncLock(c) PROVE FreshInv'
  BY <1>3 DEF AsyncLock
<1>4. ASSUME NEW c \in Callers, Enqueue(c) PROVE FreshInv'
  BY <1>4 DEF Enqueue, Release, WakeEmi, QueueFree
<1>5. ASSUME NEW c \in Callers, Finish(c) PROVE FreshInv'
  BY <1>5 DEF Finish, Unregister, CountError, Reply
<1>6. ASSUME NEW c \in Callers, CopyPayload(c) PROVE FreshInv'
  BY <1>6 DEF CopyPayload
<1>7. ASSUME EmiDequeue PROVE FreshInv'
  BY <1>7 DEF EmiDequeue, EmiOnly
<1>8. ASSUME EmiProcCmd PROVE FreshInv'
  BY <1>8 DEF EmiProcCmd, EmiOnly
<1>9. ASSUME OnCommandDone PROVE FreshInv'
  BY <1>9 DEF OnCommandDone, Reply
<1>10. ASSUME UNCHANGED vars \/ EmiRelock \/ EmiExit \/ EmiGoToSleep \/
             EmiSleep \/ EmiCheck \/ EmiCall \/ EmiLambda \/ EmiEmit \/
             StopSetFlag \/ StopWakeAll \/ StopJoin \/ \E c \in Callers :
             Expire(c)
      PROVE FreshInv'
  <2>1. UNCHANGED <<nextId, pc, cur, func, result, payload, asyncCallbacks,
      emiCmd, outcome, status>>
    BY <1>10 DEF Expire, EmiRelock, EmiOnly, EmiExit, EmiGoToSleep, EmiSleep,
      EmiCheck, EmiCall, EmiLambda, FrameLive, EmiEmit, StopSetFlag,
      StopWakeAll, WakeEmi, StopJoin
  <2> QED BY <2>1
<1> QED BY <1>1, <1>2, <1>3, <1>4, <1>5, <1>6, <1>7, <1>8, <1>9, <1>10 DEF
    Next

\* A command enters the queue once, before anything has touched its payload.
LEMMA QueueInvStep ==
  IInv /\ [Next]_vars => QueueInv'
<1> SUFFICES ASSUME TypeOK, FreshInv, QueueInv, ExecInv, [Next]_vars PROVE QueueInv'
  BY DEF IInv
<1> USE DEF TypeOK, FreshInv, QueueInv, ExecInv
<1>1. ASSUME NEW c \in Callers, SyncBegin(c) PROVE QueueInv'
  BY <1>1, SMTT(60) DEF SyncBegin, NextPacketId, Preset
<1>2. ASSUME NEW c \in Callers, NEW b \in BOOLEAN, AsyncBegin(c, b)
      PROVE QueueInv'
  BY <1>2 DEF AsyncBegin, NextPacketId
<1>3. ASSUME NEW c \in Callers, AsyncLock(c) PROVE QueueInv'
  BY <1>3 DEF AsyncLock
<1>4. ASSUME NEW c \in Callers, Enqueue(c) PROVE QueueInv'
  BY <1>4, SMTT(60) DEF Enqueue, Release, WakeEmi, QueueFree
<1>5. ASSUME NEW c \in Callers, Finish(c) PROVE QueueInv'
  BY <1>5 DEF Finish, Unregister, CountError, Reply
<1>6. ASSUME NEW c \in Callers, CopyPayload(c) PROVE QueueInv'
  BY <1>6 DEF CopyPayload
<1>7. ASSUME EmiDequeue PROVE QueueInv'
  BY <1>7, HeadAndTail DEF EmiDequeue, EmiOnly
<1>8. ASSUME EmiProcCmd PROVE QueueInv'
  BY <1>8 DEF EmiProcCmd, EmiOnly
<1>9. ASSUME UNCHANGED vars \/ EmiRelock \/ EmiExit \/ EmiGoToSleep \/
             EmiSleep \/ EmiCheck \/ EmiCall \/ EmiLambda \/ EmiEmit \/
             OnCommandDone \/ StopSetFlag \/ StopWakeAll \/ StopJoin \/ \E c
             \in Callers : Expire(c)
      PROVE QueueInv'
  <2>1. UNCHANGED <<nextId, pc, cur, payload, queue>>
    BY <1>9 DEF Expire, EmiRelock, EmiOnly, EmiExit, EmiGoToSleep, EmiSleep,
      EmiCheck, EmiCall, EmiLambda, FrameLive, EmiEmit, OnCommandDone, Reply,
      StopSetFlag, StopWakeAll, WakeEmi, StopJoin
  <2> QED BY <2>1
<1> QED BY <1>1, <1>2, <1>3, <1>4, <1>5, <1>6, <1>7, <1>8, <1>9 DEF Next

\* Only the EMI thread writes payloads and results, one command at a time.
LEMMA ExecInvStep ==
  IInv /\ [Next]_vars => ExecInv'
<1> SUFFICES ASSUME TypeOK, FreshInv, QueueInv, ExecInv, [Next]_vars PROVE ExecInv'
  BY DEF IInv
<1> USE DEF TypeOK, FreshInv, QueueInv, ExecInv
<1>1. ASSUME NEW c \in Callers, SyncBegin(c) PROVE ExecInv'
  BY <1>1 DEF SyncBegin, NextPacketId, Preset
<1>2. ASSUME NEW c \in Callers, Enqueue(c) PROVE ExecInv'
  BY <1>2 DEF Enqueue, Release, WakeEmi, QueueFree
<1>3. ASSUME EmiRelock PROVE ExecInv'
  BY <1>3 DEF EmiRelock, EmiOnly
<1>4. ASSUME EmiExit PROVE ExecInv'
  BY <1>4 DEF EmiExit, EmiOnly
<1>5. ASSUME EmiDequeue PROVE ExecInv'
  BY <1>5, HeadAndTail, SMTT(60) DEF EmiDequeue, EmiOnly
<1>6. ASSUME EmiGoToSleep PROVE ExecInv'
  BY <1>6 DEF EmiGoToSleep, EmiOnly
<1>7. ASSUME EmiSleep PROVE ExecInv'
  BY <1>7 DEF EmiSleep, EmiOnly
<1>8. ASSUME EmiProcCmd PROVE ExecInv'
  BY <1>8 DEF EmiProcCmd, EmiOnly
<1>9. ASSUME EmiCheck PROVE ExecInv'
  BY <1>9 DEF EmiCheck, EmiOnly
<1>10. ASSUME EmiCall PROVE ExecInv'
  BY <1>10 DEF EmiCall, EmiOnly
<1>11. ASSUME EmiLambda PROVE ExecInv'
  BY <1>11 DEF EmiLambda, FrameLive
<1>12. ASSUME EmiEmit PROVE ExecInv'
  BY <1>12 DEF EmiEmit
<1>13. ASSUME OnCommandDone PROVE ExecInv'
  BY <1>13 DEF OnCommandDone, Reply
<1>14. ASSUME StopWakeAll PROVE ExecInv'
  BY <1>14 DEF StopWakeAll, WakeEmi
<1>15. ASSUME UNCHANGED vars \/ StopSetFlag \/ StopJoin \/ \E c \in Callers :
             (\E b \in BOOLEAN : AsyncBegin(c, b)) \/ AsyncLock(c) \/
             Expire(c) \/ Finish(c) \/ CopyPayload(c)
      PROVE ExecInv'
  <2>1. UNCHANGED <<result, payload, emi, emiCmd, events>>
    BY <1>15 DEF AsyncBegin, NextPacketId, AsyncLock, Expire, Finish,
      Unregister, CountError, Reply, CopyPayload, StopSetFlag, StopJoin
  <2> QED BY <2>1
<1> QED BY <1>1, <1>2, <1>3, <1>4, <1>5, <1>6, <1>7, <1>8, <1>9, <1>10,
    <1>11, <1>12, <1>13, <1>14, <1>15 DEF Next

\* A call in progress, and a registered callback, still wait for their reply,
\* and a lambda refers to the frame of the call that is in progress.
LEMMA OpenInvStep ==
  IInv /\ [Next]_vars => OpenInv'
<1> SUFFICES ASSUME TypeOK, FreshInv, OpenInv, [Next]_vars PROVE OpenInv'
  BY DEF IInv
<1> USE DEF TypeOK, FreshInv, OpenInv
<1>1. ASSUME NEW c \in Callers, SyncBegin(c) PROVE OpenInv'
  BY <1>1 DEF SyncBegin, NextPacketId, Preset
<1>2. ASSUME NEW c \in Callers, NEW b \in BOOLEAN, AsyncBegin(c, b)
      PROVE OpenInv'
  BY <1>2 DEF AsyncBegin, NextPacketId
<1>3. ASSUME NEW c \in Callers, AsyncLock(c) PROVE OpenInv'
  BY <1>3 DEF AsyncLock
<1>4. ASSUME NEW c \in Callers, Enqueue(c) PROVE OpenInv'
  BY <1>4 DEF Enqueue, Release, WakeEmi, QueueFree
<1>5. ASSUME NEW c \in Callers, Finish(c) PROVE OpenInv'
  BY <1>5 DEF Finish, Unregister, CountError, Reply
<1>6. ASSUME NEW c \in Callers, CopyPayload(c) PROVE OpenInv'
  BY <1>6 DEF CopyPayload
<1>7. ASSUME OnCommandDone PROVE OpenInv'
  <2>1. Head(events) \in Ids
    BY <1>7, HeadAndTail DEF OnCommandDone
  <2>2. CASE Head(events) \in asyncCallbacks
    <3>1. /\ asyncCallbacks' = asyncCallbacks \ {Head(events)}
          /\ UNCHANGED <<callerVars, cmdVars>>
          /\ \A j \in Ids \ {Head(events)} : outcome'[j] = outcome[j]
      BY <1>7, <2>1, <2>2, ReplyEffect DEF OnCommandDone
    <3> QED BY <2>1, <2>2, <3>1, SMTT(60)
  <2>3. CASE Head(events) \notin asyncCallbacks
    <3>1. UNCHANGED <<callerVars, func, asyncCallbacks, outcome>>
      BY <1>7, <2>3 DEF OnCommandDone
    <3> QED BY <3>1
  <2> QED BY <2>2, <2>3
<1>8. ASSUME UNCHANGED vars \/ EmiRelock \/ EmiExit \/ EmiDequeue \/
             EmiGoToSleep \/ EmiSleep \/ EmiProcCmd \/ EmiCheck \/ EmiCall \/
             EmiLambda \/ EmiEmit \/ StopSetFlag \/ StopWakeAll \/ StopJoin
             \/ \E c \in Callers : Expire(c)
      PROVE OpenInv'
  <2>1. UNCHANGED <<pc, cur, func, asyncCallbacks, outcome>>
    BY <1>8 DEF Expire, EmiRelock, EmiOnly, EmiExit, EmiDequeue,
      EmiGoToSleep, EmiSleep, EmiProcCmd, EmiCheck, EmiCall, EmiLambda,
      FrameLive, EmiEmit, StopSetFlag, StopWakeAll, WakeEmi, StopJoin
  <2> QED BY <2>1
<1> QED BY <1>1, <1>2, <1>3, <1>4, <1>5, <1>6, <1>7, <1>8 DEF Next

\* A step that runs the callback against a dead frame, or finds it empty, needs
\* a command whose caller has timed out.
LEMMA CallbackInvStep ==
  IInv /\ [Next]_vars => CallbackInv'
<1> SUFFICES ASSUME TypeOK, FreshInv, QueueInv, ExecInv, OpenInv, CallbackInv, [Next]_vars PROVE CallbackInv'
  BY DEF IInv
<1> USE DEF TypeOK, FreshInv, QueueInv, ExecInv, OpenInv, CallbackInv
<1>1. ASSUME NEW c \in Callers, SyncBegin(c) PROVE CallbackInv'
  BY <1>1 DEF SyncBegin, NextPacketId, Preset, TimedOut, FrameLive
<1>2. ASSUME NEW c \in Callers, NEW b \in BOOLEAN, AsyncBegin(c, b)
      PROVE CallbackInv'
  BY <1>2 DEF AsyncBegin, NextPacketId, TimedOut, FrameLive
<1>3. ASSUME NEW c \in Callers, AsyncLock(c) PROVE CallbackInv'
  BY <1>3, SMTT(60) DEF AsyncLock, TimedOut, FrameLive
<1>4. ASSUME NEW c \in Callers, Enqueue(c) PROVE CallbackInv'
  BY <1>4 DEF Enqueue, Release, WakeEmi, QueueFree, TimedOut, FrameLive
<1>5. ASSUME NEW c \in Callers, Finish(c) PROVE CallbackInv'
  BY <1>5 DEF Finish, Unregister, CountError, Reply, TimedOut, FrameLive
<1>6. ASSUME NEW c \in Callers, CopyPayload(c) PROVE CallbackInv'
  BY <1>6 DEF CopyPayload, TimedOut, FrameLive
<1>7. ASSUME EmiRelock PROVE CallbackInv'
  BY <1>7 DEF EmiRelock, EmiOnly, TimedOut, FrameLive
<1>8. ASSUME EmiExit PROVE CallbackInv'
  BY <1>8 DEF EmiExit, EmiOnly, TimedOut, FrameLive
<1>9. ASSUME EmiDequeue PROVE CallbackInv'
  <2>1. /\ Head(queue) \in Ids /\ payload[Head(queue)] = "unset"
        /\ emi' = "proc" /\ emiCmd' = Head(queue)
        /\ payload' = [payload EXCEPT ![Head(queue)] = "busy"]
        /\ UNCHANGED <<outcome, crashed, dangling, func, pc, cur, completed>>
    BY <1>9, HeadAndTail DEF EmiDequeue, EmiOnly
  <2>2. SUFFICES ASSUME TimedOut = {}
        PROVE  /\ ~crashed /\ ~dangling
               /\ \A c \in Callers : pc[c] = "syncEnqueue" => ~completed[c]
               /\ \A c \in Callers : pc[c] = "wait" /\ completed[c] =>
                    payload'[cur[c]] = "final" /\ emiCmd' # cur[c]
    BY <2>1 DEF TimedOut
  <2>3. ASSUME NEW c \in Callers, pc[c] = "wait", completed[c]
        PROVE  payload'[cur[c]] = "final" /\ emiCmd' # cur[c]
    BY <2>1, <2>2, <2>3, SMTT(60)
  <2> QED BY <2>2, <2>3
<1>10. ASSUME EmiGoToSleep PROVE CallbackInv'
  BY <1>10 DEF EmiGoToSleep, EmiOnly, TimedOut, FrameLive
<1>11. ASSUME EmiSleep PROVE CallbackInv'
  BY <1>11 DEF EmiSleep, EmiOnly, TimedOut, FrameLive
<1>12. ASSUME EmiProcCmd PROVE CallbackInv'
  BY <1>12 DEF EmiProcCmd, EmiOnly, TimedOut, FrameLive
<1>13. ASSUME EmiCheck PROVE CallbackInv'
  BY <1>13 DEF EmiCheck, EmiOnly, TimedOut, FrameLive
<1>14. ASSUME EmiCall PROVE CallbackInv'
  BY <1>14 DEF EmiCall, EmiOnly, TimedOut, FrameLive
<1>15. ASSUME EmiLambda PROVE CallbackInv'
  <2>1. CASE FrameLive(emiFrame, emiCmd)
    <3>1. /\ completed' = [completed EXCEPT ![emiFrame] = TRUE]
          /\ emi' = "emit" /\ emiFrame \in Callers
          /\ UNCHANGED <<outcome, crashed, dangling, func, pc, cur, payload, emiCmd>>
      BY <1>15, <2>1 DEF EmiLambda
    <3>2. pc[emiFrame] = "wait" /\ payload[cur[emiFrame]] = "final"
      BY <1>15, <2>1 DEF FrameLive, EmiLambda
    <3> QED BY <3>1, <3>2 DEF TimedOut, FrameLive
  <2>2. CASE ~FrameLive(emiFrame, emiCmd)
    <3>1. TimedOut # {} /\ TimedOut' = TimedOut
      BY <1>15, <2>2 DEF EmiLambda, TimedOut
    <3> QED BY <3>1
  <2> QED BY <2>1, <2>2
<1>16. ASSUME EmiEmit PROVE CallbackInv'
  BY <1>16 DEF EmiEmit, TimedOut, FrameLive
<1>17. ASSUME OnCommandDone PROVE CallbackInv'
  BY <1>17 DEF OnCommandDone, Reply, TimedOut, FrameLive
<1>18. ASSUME StopWakeAll PROVE CallbackInv'
  BY <1>18 DEF StopWakeAll, WakeEmi, TimedOut, FrameLive
<1>19. ASSUME UNCHANGED vars \/ StopSetFlag \/ StopJoin \/ \E c \in Callers :
             Expire(c)
      PROVE CallbackInv'
  <2>1. UNCHANGED <<pc, cur, completed, func, payload, emi, emiCmd, emiFrame,
      crashed, dangling, outcome>>
    BY <1>19 DEF Expire, StopSetFlag, StopJoin
  <2> QED BY <2>1 DEF TimedOut, FrameLive
<1> QED BY <1>1, <1>2, <1>3, <1>4, <1>5, <1>6, <1>7, <1>8, <1>9, <1>10,
    <1>11, <1>12, <1>13, <1>14, <1>15, <1>16, <1>17, <1>18, <1>19 DEF Next

\* The EMI thread tests the queue and falls asleep without letting go of
\* m_Mutex, and whoever appends under m_Mutex wakes it.
LEMMA SleepInvStep ==
  IInv /\ [Next]_vars => SleepInv'
<1> SUFFICES ASSUME TypeOK, SleepInv, [Next]_vars PROVE SleepInv'
  BY DEF IInv
<1> USE DEF TypeOK, SleepInv
<1>1. ASSUME NEW c \in Callers, Enqueue(c) PROVE SleepInv'
  BY <1>1 DEF Enqueue, Release, WakeEmi, QueueFree
<1>2. ASSUME EmiRelock PROVE SleepInv'
  BY <1>2 DEF EmiRelock, EmiOnly
<1>3. ASSUME EmiExit PROVE SleepInv'
  BY <1>3 DEF EmiExit, EmiOnly
<1>4. ASSUME EmiDequeue PROVE SleepInv'
  BY <1>4 DEF EmiDequeue, EmiOnly
<1>5. ASSUME EmiGoToSleep PROVE SleepInv'
  BY <1>5 DEF EmiGoToSleep, EmiOnly
<1>6. ASSUME EmiSleep PROVE SleepInv'
  BY <1>6 DEF EmiSleep, EmiOnly
<1>7. ASSUME EmiProcCmd PROVE SleepInv'
  BY <1>7 DEF EmiProcCmd, EmiOnly
<1>8. ASSUME EmiCheck PROVE SleepInv'
  BY <1>8 DEF EmiCheck, EmiOnly
<1>9. ASSUME EmiCall PROVE SleepInv'
  BY <1>9 DEF EmiCall, EmiOnly
<1>10. ASSUME EmiLambda PROVE SleepInv'
  BY <1>10 DEF EmiLambda, FrameLive
<1>11. ASSUME EmiEmit PROVE SleepInv'
  BY <1>11 DEF EmiEmit
<1>12. ASSUME StopWakeAll PROVE SleepInv'
  BY <1>12 DEF StopWakeAll, WakeEmi
<1>13. ASSUME UNCHANGED vars \/ OnCommandDone \/ StopSetFlag \/ StopJoin \/
             \E c \in Callers : SyncBegin(c) \/ (\E b \in BOOLEAN :
             AsyncBegin(c, b)) \/ AsyncLock(c) \/ Expire(c) \/ Finish(c) \/
             CopyPayload(c)
      PROVE SleepInv'
  <2>1. UNCHANGED <<queue, emi>>
    BY <1>13 DEF SyncBegin, NextPacketId, Preset, AsyncBegin, AsyncLock,
      Expire, Finish, Unregister, CountError, Reply, CopyPayload,
      OnCommandDone, StopSetFlag, StopJoin
  <2> QED BY <2>1
<1> QED BY <1>1, <1>2, <1>3, <1>4, <1>5, <1>6, <1>7, <1>8, <1>9, <1>10,
    <1>11, <1>12, <1>13 DEF Next

\* Each call enters m_pendingCommands under its own id and leaves it as it ends.
LEMMA PendingIsWaitingStep ==
  IInv /\ [Next]_vars => PendingIsWaiting'
<1> SUFFICES ASSUME TypeOK, FreshInv, PendingIsWaiting, [Next]_vars PROVE PendingIsWaiting'
  BY DEF IInv
<1> USE DEF TypeOK, FreshInv, PendingIsWaiting
<1>1. ASSUME NEW c \in Callers, SyncBegin(c) PROVE PendingIsWaiting'
  BY <1>1 DEF SyncBegin, NextPacketId, Preset
<1>2. ASSUME NEW c \in Callers, NEW b \in BOOLEAN, AsyncBegin(c, b)
      PROVE PendingIsWaiting'
  BY <1>2 DEF AsyncBegin, NextPacketId
<1>3. ASSUME NEW c \in Callers, AsyncLock(c) PROVE PendingIsWaiting'
  BY <1>3 DEF AsyncLock
<1>4. ASSUME NEW c \in Callers, Enqueue(c) PROVE PendingIsWaiting'
  BY <1>4 DEF Enqueue, Release, WakeEmi, QueueFree
<1>5. ASSUME NEW c \in Callers, Finish(c) PROVE PendingIsWaiting'
  BY <1>5 DEF Finish, Unregister, CountError, Reply
<1>6. ASSUME NEW c \in Callers, CopyPayload(c) PROVE PendingIsWaiting'
  BY <1>6 DEF CopyPayload
<1>7. ASSUME UNCHANGED vars \/ EmiRelock \/ EmiExit \/ EmiDequeue \/
             EmiGoToSleep \/ EmiSleep \/ EmiProcCmd \/ EmiCheck \/ EmiCall \/
             EmiLambda \/ EmiEmit \/ OnCommandDone \/ StopSetFlag \/
             StopWakeAll \/ StopJoin \/ \E c \in Callers : Expire(c)
      PROVE PendingIsWaiting'
  <2>1. UNCHANGED <<pc, cur, pending>>
    BY <1>7 DEF Expire, EmiRelock, EmiOnly, EmiExit, EmiDequeue,
      EmiGoToSleep, EmiSleep, EmiProcCmd, EmiCheck, EmiCall, EmiLambda,
      FrameLive, EmiEmit, OnCommandDone, Reply, StopSetFlag, StopWakeAll,
      WakeEmi, StopJoin
  <2> QED BY <2>1
<1> QED BY <1>1, <1>2, <1>3, <1>4, <1>5, <1>6, <1>7 DEF Next

\* A result of SUCCESS is only written with the payload, and read after it.
LEMMA SuccessIsExecutedStep ==
  IInv /\ [Next]_vars => SuccessIsExecuted'
<1> SUFFICES ASSUME TypeOK, FreshInv, QueueInv, ExecInv, SuccessIsExecuted, [Next]_vars PROVE SuccessIsExecuted'
  BY DEF IInv
<1> USE DEF TypeOK, FreshInv, QueueInv, ExecInv, SuccessIsExecuted
<1>1. ASSUME NEW c \in Callers, SyncBegin(c) PROVE SuccessIsExecuted'
  BY <1>1 DEF SyncBegin, NextPacketId, Preset
<1>2. ASSUME NEW c \in Callers, Finish(c) PROVE SuccessIsExecuted'
  BY <1>2 DEF Finish, Unregister, CountError, Reply
<1>3. ASSUME EmiDequeue PROVE SuccessIsExecuted'
  <2>1. Head(queue) \in Ids /\ payload[Head(queue)] = "unset"
    BY <1>3, HeadAndTail DEF EmiDequeue
  <2> QED BY <1>3, <2>1 DEF EmiDequeue, EmiOnly
<1>4. ASSUME EmiProcCmd PROVE SuccessIsExecuted'
  BY <1>4 DEF EmiProcCmd, EmiOnly
<1>5. ASSUME UNCHANGED vars \/ EmiRelock \/ EmiExit \/ EmiGoToSleep \/
             EmiSleep \/ EmiCheck \/ EmiCall \/ EmiLambda \/ EmiEmit \/
             OnCommandDone \/ StopSetFlag \/ StopWakeAll \/ StopJoin \/ \E c
             \in Callers : (\E b \in BOOLEAN : AsyncBegin(c, b)) \/
             AsyncLock(c) \/ Enqueue(c) \/ Expire(c) \/ CopyPayload(c)
      PROVE SuccessIsExecuted'
  <2>1. UNCHANGED <<result, payload, status>>
    BY <1>5 DEF AsyncBegin, NextPacketId, AsyncLock, Enqueue, Release,
      WakeEmi, QueueFree, Expire, CopyPayload, EmiRelock, EmiOnly, EmiExit,
      EmiGoToSleep, EmiSleep, EmiCheck, EmiCall, EmiLambda, FrameLive,
      EmiEmit, OnCommandDone, Reply, StopSetFlag, StopWakeAll, StopJoin
  <2> QED BY <2>1
<1> QED BY <1>1, <1>2, <1>3, <1>4, <1>5 DEF Next

-----------------------------------------------------------------------------
\* The state after initialize() satisfies the invariant.
LEMMA InitIInv == Init => IInv
<1> SUFFICES ASSUME Init PROVE IInv
  OBVIOUS
<1> USE DEF Init
<1>1. TypeOK
  <2>1. /\ pc \in [Callers -> {"idle", "syncEnqueue", "asyncLock",
                               "asyncEnqueue", "wait", "copy"}]
        /\ cur \in [Callers -> Ids \cup {0}]
        /\ completed \in [Callers -> BOOLEAN]
        /\ expired \in [Callers -> BOOLEAN]
    OBVIOUS
  <2>2. /\ func \in [Ids -> Callers \cup {"null", "signal"}]
        /\ result \in [Ids -> Results]
        /\ payload \in [Ids -> {"unset", "busy", "final"}]
        /\ outcome \in [Ids -> {"open", "timeout", "answered", "again"}]
        /\ status \in [Ids -> Results \cup {"none"}]
    OBVIOUS
  <2>3. queue \in Seq(Ids) /\ events \in Seq(Ids)
    OBVIOUS
  <2>4. \A c \in Callers : pc[c] # "idle" => cur[c] \in Ids
    OBVIOUS
  <2>5. /\ nextId \in 1..(MaxCmds + 1) /\ m_mutex = "free"
        /\ emiCmd = 0 /\ emi = "relock" /\ emiFrame = "null"
        /\ pending = {} /\ asyncCallbacks = {} /\ stopper = "no"
        /\ commandCount = 0 /\ errorCount = 0
    BY 1 \in 1..(MaxCmds + 1)
  <2>6. stopFlag \in BOOLEAN /\ crashed \in BOOLEAN /\ dangling \in BOOLEAN
    OBVIOUS
  <2> HIDE DEF Init
  <2> QED BY <2>1, <2>2, <2>3, <2>4, <2>5, <2>6 DEF TypeOK
<1>2. LockInv /\ FreshInv /\ QueueInv
  BY DEF LockInv, FreshInv, QueueInv
<1>3. ExecInv /\ OpenInv
  BY DEF ExecInv, OpenInv
<1>4. CallbackInv /\ SleepInv
  BY DEF CallbackInv, SleepInv
<1>5. PendingIsWaiting /\ SuccessIsExecuted
  BY DEF PendingIsWaiting, SuccessIsExecuted
<1> QED BY <1>1, <1>2, <1>3, <1>4, <1>5 DEF IInv

\* The parts together are inductive.
LEMMA NextIInv == IInv /\ [Next]_vars => IInv'
  BY TypeOKStep, LockInvStep, FreshInvStep, QueueInvStep, ExecInvStep,
     OpenInvStep, CallbackInvStep, SleepInvStep, PendingIsWaitingStep,
     SuccessIsExecutedStep DEF IInv

\* The inductive invariant holds in every reachable state.
THEOREM Invariance == Spec => []IInv
<1>1. Init => IInv
  BY InitIInv
<1>2. IInv /\ [Next]_vars => IInv'
  BY NextIInv
<1> QED BY <1>1, <1>2, PTL DEF Spec

\* Every variable of EcManager, EmiThread and their callers keeps its type.
THEOREM TypeCorrect == Spec => []TypeOK
<1>1. IInv => TypeOK
  BY DEF IInv
<1> QED BY <1>1, Invariance, PTL

\* While no synchronous call has timed out, the completion callback that
\* EmiThread::run makes without a lock meets a live frame and is never empty.
THEOREM CallbackSafeWithoutTimeout == Spec => []SafeWithoutTimeout
<1>1. IInv => SafeWithoutTimeout
  BY DEF IInv, CallbackInv, SafeWithoutTimeout
<1> QED BY <1>1, Invariance, PTL

\* The EMI thread never sleeps on a non-empty queue: addCmdToQueue loses no
\* wake-up.
THEOREM NoLostWakeUp == Spec => []QueueWakesEmi
<1>1. IInv => QueueWakesEmi
  BY DEF IInv, SleepInv, QueueWakesEmi
<1> QED BY <1>1, Invariance, PTL

\* m_pendingCommands is exactly the set of synchronous calls in progress.
THEOREM PendingExact == Spec => []PendingIsWaiting
<1>1. IInv => PendingIsWaiting
  BY DEF IInv
<1> QED BY <1>1, Invariance, PTL

\* A call that returns SUCCESS returns an executed command's result, and its
\* payload is complete.
THEOREM SuccessSound == Spec => []SuccessIsExecuted
<1>1. IInv => SuccessIsExecuted
  BY DEF IInv
<1> QED BY <1>1, Invariance, PTL

-----------------------------------------------------------------------------
\* The initial states are EcService's.
\* phaseBar is a function of the ids, and one that changes at a single id is an
\* update of the old one.
LEMMA PhaseUpdate ==
  ASSUME NEW k \in Ids, NEW v,
         \A j \in Ids : phaseBar'[j] = IF j = k THEN v ELSE phaseBar[j]
  PROVE  phaseBar' = [phaseBar EXCEPT ![k] = v]
<1>1. phaseBar = [j \in Ids |-> phaseBar[j]]
  BY DEF phaseBar
<1>2. phaseBar' = [j \in Ids |-> phaseBar'[j]]
  BY DEF phaseBar
<1> HIDE DEF phaseBar
<1> QED BY <1>1, <1>2

LEMMA ServiceInit == Init => Service!SInit
  BY DEF Init, Service!SInit, phaseBar

\* Every step from a reachable state is a step of EcService or leaves its
\* variables unchanged.
LEMMA ServiceStep ==
  IInv /\ IInv' /\ [Next]_vars => [Service!SNext]_(Service!svars)
<1> SUFFICES ASSUME IInv, IInv', [Next]_vars
             PROVE  [Service!SNext]_(Service!svars)
  OBVIOUS
<1> USE DEF IInv, TypeOK, Service!SNext, Service!svars
<1>1. ASSUME nextId \in Ids, nextId' = nextId + 1,
             UNCHANGED <<payload, outcome, crashed, dangling>>
      PROVE  Service!Accept(nextId)
  <2>1. payload[nextId] = "unset"
    BY <1>1 DEF FreshInv
  <2>2. phaseBar[nextId] = "unused"
    BY <1>1 DEF phaseBar
  <2>3. phaseBar' = [phaseBar EXCEPT ![nextId] = "accepted"]
    <3>1. \A j \in Ids :
            phaseBar'[j] = IF j = nextId THEN "accepted" ELSE phaseBar[j]
      BY <1>1, <2>1 DEF phaseBar
    <3> QED BY ONLY <1>1, <3>1, PhaseUpdate
  <2> QED BY <1>1, <2>2, <2>3 DEF Service!Accept
<1>2. ASSUME NEW c \in Callers, SyncBegin(c) PROVE Service!SNext
  <2>1. nextId \in Ids /\ nextId' = nextId + 1
        /\ UNCHANGED <<payload, outcome, crashed, dangling>>
    BY <1>2 DEF SyncBegin
  <2> QED BY <1>1, <2>1
<1>3. ASSUME NEW c \in Callers, NEW b \in BOOLEAN, AsyncBegin(c, b)
      PROVE  Service!SNext
  <2>1. nextId \in Ids /\ nextId' = nextId + 1
        /\ UNCHANGED <<payload, outcome, crashed, dangling>>
    BY <1>3 DEF AsyncBegin
  <2> QED BY <1>1, <2>1
<1>4. ASSUME EmiDequeue PROVE Service!SNext
  <2> DEFINE k == Head(queue)
  <2>1. /\ k \in Ids /\ payload[k] = "unset" /\ ~(k >= nextId)
        /\ payload' = [payload EXCEPT ![k] = "busy"]
        /\ emi = "test" /\ UNCHANGED <<nextId, outcome, crashed, dangling>>
    BY <1>4, HeadAndTail DEF EmiDequeue, EmiOnly, QueueInv
  <2>2. phaseBar[k] = "accepted" /\ \A j \in Ids : phaseBar[j] # "executing"
    BY <2>1 DEF phaseBar, ExecInv
  <2>3. phaseBar' = [phaseBar EXCEPT ![k] = "executing"]
    <3>1. \A j \in Ids :
            phaseBar'[j] = IF j = k THEN "executing" ELSE phaseBar[j]
      <4>1. phaseBar'[k] = "executing"
        BY <2>1 DEF phaseBar
      <4>2. ASSUME NEW j \in Ids, j # k PROVE phaseBar'[j] = phaseBar[j]
        BY <2>1, <4>2 DEF phaseBar
      <4> QED BY <4>1, <4>2
    <3>2. k \in Ids
      BY <2>1
    <3> QED BY ONLY <3>1, <3>2, PhaseUpdate
  <2>4. Service!Execute(k)
    BY <2>1, <2>2, <2>3 DEF Service!Execute
  <2> QED BY <2>1, <2>4
<1>5. ASSUME EmiProcCmd PROVE Service!SNext
  <2>1. /\ emiCmd \in Ids /\ payload[emiCmd] = "busy" /\ emiCmd < nextId
        /\ payload' = [payload EXCEPT ![emiCmd] = "final"]
        /\ UNCHANGED <<nextId, outcome, crashed, dangling>>
    BY <1>5 DEF EmiProcCmd, EmiOnly, ExecInv, FreshInv
  <2>2. phaseBar[emiCmd] = "executing"
    BY <2>1 DEF phaseBar
  <2>3. phaseBar' = [phaseBar EXCEPT ![emiCmd] = "executed"]
    <3>1. \A j \in Ids :
            phaseBar'[j] = IF j = emiCmd THEN "executed" ELSE phaseBar[j]
      BY <2>1 DEF phaseBar
    <3>2. emiCmd \in Ids
      BY <2>1
    <3> QED BY ONLY <3>1, <3>2, PhaseUpdate
  <2>4. Service!Complete(emiCmd)
    BY <2>1, <2>2, <2>3 DEF Service!Complete
  <2> QED BY <2>1, <2>4
<1>6. ASSUME NEW c \in Callers, Finish(c) PROVE Service!SNext
  <2> DEFINE k == cur[c]
  <2>1. /\ k \in Ids /\ k < nextId /\ outcome[k] = "open"
        /\ UNCHANGED <<nextId, payload, crashed, dangling>>
    BY <1>6 DEF Finish, OpenInv, FreshInv
  <2>2. UNCHANGED phaseBar
    BY <2>1 DEF phaseBar
  <2>3. CASE completed[c] /\ payload[k] = "final"
    <3>1. outcome' = [outcome EXCEPT ![k] = "answered"]
      BY <1>6, <2>1, <2>3 DEF Finish, Reply
    <3>2. phaseBar[k] = "executed"
      BY <2>1, <2>3 DEF phaseBar
    <3>3. Service!Answer(k)
      BY <2>1, <2>2, <3>1, <3>2 DEF Service!Answer
    <3> QED BY <2>1, <3>3
  <2>4. CASE ~(completed[c] /\ payload[k] = "final")
    <3>1. outcome' = [outcome EXCEPT ![k] = "timeout"]
      BY <1>6, <2>1, <2>4 DEF Finish, Reply
    <3>2. phaseBar[k] # "unused"
      BY <2>1 DEF phaseBar
    <3>3. Service!GiveUp(k)
      BY <2>1, <2>2, <3>1, <3>2 DEF Service!GiveUp
    <3> QED BY <2>1, <3>3
  <2> QED BY <2>3, <2>4
<1>7. ASSUME OnCommandDone PROVE [Service!SNext]_(Service!svars)
  <2> DEFINE k == Head(events)
  <2>1. /\ k \in Ids /\ payload[k] = "final" /\ ~(k >= nextId)
        /\ UNCHANGED <<nextId, payload, crashed, dangling>>
    BY <1>7, HeadAndTail DEF OnCommandDone, ExecInv, FreshInv
  <2>2. UNCHANGED phaseBar
    BY <2>1 DEF phaseBar
  <2>3. CASE k \in asyncCallbacks
    <3>1. outcome[k] = "open" /\ outcome' = [outcome EXCEPT ![k] = "answered"]
      BY <1>7, <2>1, <2>3 DEF OnCommandDone, Reply, OpenInv
    <3>2. phaseBar[k] = "executed"
      BY <2>1 DEF phaseBar
    <3>3. Service!Answer(k)
      BY <2>1, <2>2, <3>1, <3>2 DEF Service!Answer
    <3> QED BY <2>1, <3>3
  <2>4. CASE k \notin asyncCallbacks
    BY <1>7, <2>1, <2>2, <2>4 DEF OnCommandDone
  <2> QED BY <2>3, <2>4
<1>8. ASSUME EmiCall \/ EmiLambda PROVE [Service!SNext]_(Service!svars)
  <2>1. UNCHANGED <<nextId, payload, outcome>>
    BY <1>8 DEF EmiCall, EmiLambda, EmiOnly
  <2>2. UNCHANGED phaseBar
    BY <2>1 DEF phaseBar
  <2>3. CASE UNCHANGED <<crashed, dangling>>
    BY <2>1, <2>2, <2>3
  <2>4. CASE ~UNCHANGED <<crashed, dangling>>
    <3>1. crashed' \/ dangling'
      BY <1>8, <2>4 DEF EmiCall, EmiLambda
    <3>2. TimedOut' # {}
      BY <3>1 DEF CallbackInv
    <3>3. Service!Break
      BY <2>1, <2>2, <3>1, <3>2 DEF Service!Break, TimedOut
    <3> QED BY <3>3
  <2> QED BY <2>3, <2>4
<1>9. ASSUME UNCHANGED <<nextId, payload, outcome, crashed, dangling>>
      PROVE  UNCHANGED Service!svars
  BY <1>9 DEF phaseBar
<1>10. CASE UNCHANGED vars
  BY <1>9, <1>10
<1>11. ASSUME NEW c \in Callers,
              AsyncLock(c) \/ Enqueue(c) \/ Expire(c) \/ CopyPayload(c)
       PROVE  UNCHANGED Service!svars
  <2>1. UNCHANGED <<nextId, payload, outcome, crashed, dangling>>
    BY <1>11 DEF AsyncLock, Enqueue, Expire, CopyPayload
  <2> QED BY <1>9, <2>1
<1>12. ASSUME EmiRelock \/ EmiExit \/ EmiGoToSleep \/ EmiSleep \/ EmiCheck
              \/ EmiEmit \/ StopSetFlag \/ StopWakeAll \/ StopJoin
       PROVE  UNCHANGED Service!svars
  <2>1. UNCHANGED <<nextId, payload, outcome, crashed, dangling>>
    BY <1>12 DEF EmiRelock, EmiExit, EmiGoToSleep, EmiSleep, EmiCheck, EmiEmit,
                 EmiOnly, StopSetFlag, StopWakeAll, StopJoin
  <2> QED BY <1>9, <2>1
<1> QED BY <1>2, <1>3, <1>4, <1>5, <1>6, <1>7, <1>8, <1>10, <1>11, <1>12
    DEF Next

\* EcManager and EmiThread implement EcService.
THEOREM Refinement == Spec => ImplementsService
<1>1. Init => Service!SInit
  BY ServiceInit
<1>2. IInv /\ IInv' /\ [Next]_vars => [Service!SNext]_(Service!svars)
  BY ServiceStep
<1> QED BY <1>1, <1>2, Invariance, PTL
        DEF Spec, ImplementsService, Service!SSpec
=============================================================================
