---------------------------- MODULE EmiBusProofs -----------------------------
(***************************************************************************)
(* Proofs about EmiBus, for any number of commands, attempts and polls: the *)
(* types, who owns the shared buffer, and what a SUCCESS means.  Nothing is *)
(* assumed of the EC but the order of its own steps: it may be late with    *)
(* any response, or dead.                                                   *)
(***************************************************************************)
EXTENDS EmiBus, Integers, TLAPS

Preparing == {"write", "clear", "proc"}
Awaiting  == {"poll", "read"}

\* The types of TypeOK, and the place of the thread within its tries.
HostTypes ==
  /\ pc \in {"idle", "bus", "reset"} \cup Preparing \cup Awaiting
  /\ cmd \in 0..NumCmds /\ (pc # "idle" => cmd \in Cmds)
  /\ phase \in {"send", "results"}
  /\ left \in 0..(Retries + Polls) /\ (pc # "idle" => left > 0)
BusTypes ==
  /\ hostEc \in {"READY", "PROC"} /\ ecHost \in {"NONE", "RESP"}
  /\ buf \in [dir : {"out", "in"}, req : 0..NumCmds, of : 0..NumCmds,
              stat : EcStatus \cup {"none"}]
  /\ buf.dir = "in" => buf.stat \in EcStatus
EcTypes ==
  /\ ec \in {"idle", "work", "release"} /\ ecReq \in 0..NumCmds
  /\ slow \in [cmd : 0..NumCmds, state : {"none", "running", "done"}]
  /\ slow.state # "none" => slow.cmd \in Cmds
  /\ execs \in [Cmds -> Nat]
OutTypes ==
  /\ result \in [Cmds -> Results \cup {"none"}]
  /\ answerOf \in [Cmds -> 0..NumCmds]
Types == HostTypes /\ BusTypes /\ EcTypes /\ OutTypes

\* The request of this attempt waits for the EC or is in its hands, or its
\* response is there and the EC has nothing in hand but HOST_EC.
Asked    == /\ hostEc = "PROC" /\ ec \in {"idle", "work"} /\ ecHost = "NONE"
            /\ buf = Request(Sent) /\ (ec = "work" => ecReq = Sent)
Answered == /\ ecHost = "RESP" /\ buf.dir = "in" /\ buf.req = Sent
            /\ ec = "release" \/ (ec = "idle" /\ hostEc = "READY")

\* Who owns the buffer.
BusInv ==
  /\ ec # "idle" => hostEc = "PROC"
  /\ pc \in Preparing => hostEc = "READY"
  /\ pc \in {"clear", "proc"} => buf = Request(Sent)
  /\ pc = "proc" => ecHost = "NONE"
  /\ pc = "poll" => Asked \/ Answered
  /\ pc = "read" => Answered

\* The command that goes on in the background is the one whose result is asked
\* for, and the EC has no other request than that before it.
SlowInv ==
  /\ phase = "results" /\ pc # "idle" =>
       /\ slow.state # "none" => slow.cmd = cmd
       /\ ec = "work" => ecReq = GetResult
       /\ ec = "idle" /\ hostEc = "PROC" => buf.req = GetResult
  /\ phase = "send" /\ pc \in Awaiting /\ Answered /\ buf.stat = "IN_PROGRESS" =>
       slow.state # "none" /\ slow.cmd = cmd

\* What a response says is true, and it is about the command at hand.
AnswerInv ==
  /\ slow.state = "done" => execs[slow.cmd] > 0
  /\ buf.dir = "in" /\ buf.stat = "SUCCESS" => buf.of \in Cmds /\ execs[buf.of] > 0
  /\ buf.dir = "in" /\ buf.req \in Cmds => buf.of = buf.req
  /\ pc \in Awaiting /\ phase = "results" /\ Answered /\ buf.stat = "SUCCESS" => buf.of = cmd

\* A command has no result before its processing ends.
OpenInv ==
  /\ \A k \in Cmds : k > cmd => result[k] = "none"
  /\ pc # "idle" => result[cmd] = "none"

\* Executions the EC still owes to requests for k it was handed.
Waiting(k) == IF hostEc = "PROC" /\ ec = "idle" /\ buf.req = k THEN 1 ELSE 0
Working(k) == IF ec = "work" /\ ecReq = k THEN 1 ELSE 0
Running(k) == IF slow.state = "running" /\ slow.cmd = k THEN 1 ELSE 0
Owed(k) == Waiting(k) + Working(k) + Running(k)

\* Executions there were or may still be, none for a command that is to come, and
\* one for each attempt that handed the request over.
Runs(k) == execs[k] + Owed(k)

CountInv ==
  \A k \in Cmds :
    /\ Runs(k) <= Retries
    /\ k > cmd => Runs(k) = 0
    /\ k = cmd /\ phase = "send" /\ pc \in Preparing \cup {"bus"} => Runs(k) + left <= Retries
    /\ k = cmd /\ phase = "send" /\ pc \in Awaiting \cup {"reset"} =>
         Runs(k) + left <= Retries + 1

IInv == /\ Types /\ BusInv /\ SlowInv /\ AnswerInv /\ OpenInv /\ CountInv
        /\ SuccessIsOwnAnswer

-----------------------------------------------------------------------------
USE NumCmdsAssumption, RetriesAssumption, PollsAssumption
USE DEF vars, hostVars, busVars, ecVars, outVars, Cmds, GetResult, Results, EcStatus,
        Preparing, Awaiting

\* The end of an attempt ends the command, begins another attempt, or begins to
\* ask for the result of a command in progress.
LEMMA AttemptEffect ==
  ASSUME HostTypes, OutTypes, pc # "idle",
         NEW stat \in Results \cup {"IN_PROGRESS"}, AttemptEnds(stat)
  PROVE  /\ cmd' = cmd
         /\ \/ /\ pc' = "idle" /\ UNCHANGED <<phase, left>>
               /\ \E s \in Results : /\ result' = [result EXCEPT ![cmd] = s]
                                     /\ s = "SUCCESS" => stat = "SUCCESS"
            \/ /\ pc' = "bus" /\ left > 1 /\ left' = left - 1
               /\ UNCHANGED <<phase, result>>
            \/ /\ pc' = "bus" /\ left' = Polls /\ UNCHANGED result
               /\ phase = "send" /\ phase' = "results" /\ stat = "IN_PROGRESS"
<1> USE DEF HostTypes, OutTypes
<1>1. CASE stat = "SUCCESS"
  BY <1>1 DEF AttemptEnds, Done
<1>2. CASE stat = "IN_PROGRESS" /\ phase = "send"
  BY <1>2 DEF AttemptEnds
<1>3. CASE stat = "IN_PROGRESS" /\ phase = "results"
  BY <1>3 DEF AttemptEnds, Done, Again
<1>4. CASE stat \notin {"SUCCESS", "IN_PROGRESS"}
  <2>1. IF left > 1 /\ phase = "send" THEN Again ELSE Done(stat)
    BY <1>4 DEF AttemptEnds
  <2> QED BY <1>4, <2>1 DEF Done, Again
<1> QED BY <1>1, <1>2, <1>3, <1>4

\* What the read of a response gives AttemptEnds.
LEMMA ReadEffect ==
  ASSUME Types, BusInv, pc = "read", NEW intact \in BOOLEAN
  PROVE  /\ Answered /\ buf.stat \in EcStatus /\ buf.of \in 0..NumCmds /\ cmd \in Cmds
         /\ (IF intact THEN buf.stat ELSE "CORRUPT") \in Results \cup {"IN_PROGRESS"}
BY DEF Types, HostTypes, BusTypes, BusInv, Answered

\* The EC's response, field by field.
LEMMA RespondEffect ==
  ASSUME BusTypes, EcTypes, NEW k \in 0..NumCmds, NEW stat \in EcStatus, EcRespond(k, stat)
  PROVE  /\ BusTypes' /\ ecHost' = "RESP" /\ ec' = "release" /\ UNCHANGED <<hostEc, ecReq>>
         /\ buf'.dir = "in" /\ buf'.req = ecReq /\ buf'.of = k /\ buf'.stat = stat
BY DEF BusTypes, EcTypes, EcRespond, Response

\* The thread's variables keep their types.
LEMMA HostTypesStep == IInv /\ [Next]_vars => HostTypes'
<1> SUFFICES ASSUME Types, BusInv, [Next]_vars PROVE HostTypes'
  BY DEF IInv
<1> USE DEF Types, HostTypes
<1>1. ASSUME NEW fits \in BOOLEAN, StartCmd(fits) PROVE HostTypes'
  BY <1>1 DEF StartCmd
<1>2. ASSUME NEW stat \in Results \cup {"IN_PROGRESS"}, pc # "idle", AttemptEnds(stat)
      PROVE  HostTypes'
  <2>1. cmd \in Cmds /\ left \in 1..(Retries + Polls)
    BY <1>2
  <2> QED BY <1>2, <2>1, AttemptEffect
<1>3. CASE BusBusy \/ ResetBus
  BY <1>2, <1>3 DEF BusBusy, ResetBus
<1>4. ASSUME NEW intact \in BOOLEAN, ReadPayload(intact) PROVE HostTypes'
  <2>1. pc = "read"
    BY <1>4 DEF ReadPayload
  <2> QED BY <1>2, <1>4, <2>1, ReadEffect DEF ReadPayload
<1>5. CASE BusReady \/ WritePacket \/ ClearResponse \/ HandOver \/ PollReady \/ PollTimeout
  BY <1>5 DEF BusReady, WritePacket, ClearResponse, HandOver, PollReady, PollTimeout
<1>6. CASE EcTake \/ EcCommand \/ EcGetResult \/ EcRelease \/ EcSlowDone \/ UNCHANGED vars
  <2>1. UNCHANGED hostVars
    BY <1>6 DEF EcTake, EcCommand, EcGetResult, EcRelease, EcSlowDone, EcOnly
  <2> QED BY <2>1
<1> QED BY <1>1, <1>3, <1>4, <1>5, <1>6 DEF Next

\* The registers and the buffer keep their types.
LEMMA BusTypesStep == IInv /\ [Next]_vars => BusTypes'
<1> SUFFICES ASSUME Types, [Next]_vars PROVE BusTypes'
  BY DEF IInv
<1> USE DEF Types
<1>1. CASE \/ \E fits \in BOOLEAN : StartCmd(fits)
           \/ \E intact \in BOOLEAN : ReadPayload(intact)
           \/ BusReady \/ BusBusy \/ PollReady \/ PollTimeout \/ EcTake \/ EcSlowDone
           \/ UNCHANGED vars
  <2>1. UNCHANGED busVars
    BY <1>1 DEF StartCmd, ReadPayload, BusReady, BusBusy, PollReady, PollTimeout, EcTake,
                EcSlowDone
  <2> QED BY <2>1 DEF BusTypes
<1>2. CASE WritePacket
  BY <1>2 DEF WritePacket, BusTypes, HostTypes, Request, Sent
<1>3. CASE ClearResponse \/ HandOver \/ ResetBus \/ EcRelease
  BY <1>3 DEF ClearResponse, HandOver, ResetBus, EcRelease, BusTypes
<1>4. CASE EcCommand
  <2>1. ecReq \in 0..NumCmds /\ \E stat \in EcStatus : EcRespond(ecReq, stat)
    BY <1>4 DEF EcCommand, EcTypes
  <2> QED BY <2>1, RespondEffect
<1>5. CASE EcGetResult
  <2>1. \E k \in 0..NumCmds, stat \in EcStatus : EcRespond(k, stat)
    BY <1>5 DEF EcGetResult, EcTypes
  <2> QED BY <2>1, RespondEffect
<1> QED BY <1>1, <1>2, <1>3, <1>4, <1>5 DEF Next

\* The EC's variables keep their types.
LEMMA EcTypesStep == IInv /\ [Next]_vars => EcTypes'
<1> SUFFICES ASSUME Types, [Next]_vars PROVE EcTypes'
  BY DEF IInv
<1> USE DEF Types, EcTypes
<1>1. CASE \/ \E fits \in BOOLEAN : StartCmd(fits)
           \/ \E intact \in BOOLEAN : ReadPayload(intact)
           \/ BusReady \/ BusBusy \/ WritePacket \/ ClearResponse \/ HandOver
           \/ PollReady \/ PollTimeout \/ ResetBus \/ UNCHANGED vars
  <2>1. UNCHANGED ecVars
    BY <1>1 DEF StartCmd, ReadPayload, BusReady, BusBusy, WritePacket, ClearResponse,
                HandOver, PollReady, PollTimeout, ResetBus
  <2> QED BY <2>1
<1>2. CASE EcTake
  BY <1>2 DEF EcTake, BusTypes
<1>3. CASE EcCommand
  <2>1. ec' = "release" /\ UNCHANGED ecReq /\ ecReq \in Cmds
    BY <1>3 DEF EcCommand, EcRespond
  <2>2. execs' \in [Cmds -> Nat]
    BY <1>3 DEF EcCommand
  <2>3. slow' \in {slow, [cmd |-> ecReq, state |-> "running"]}
    BY <1>3 DEF EcCommand
  <2> QED BY <2>1, <2>2, <2>3
<1>4. CASE EcGetResult
  <2>1. ec' = "release" /\ UNCHANGED <<ecReq, execs>>
    BY <1>4 DEF EcGetResult, EcRespond
  <2>2. slow' \in {slow, [cmd |-> 0, state |-> "none"]}
    BY <1>4 DEF EcGetResult
  <2> QED BY <2>1, <2>2
<1>5. CASE EcRelease
  BY <1>5 DEF EcRelease
<1>6. CASE EcSlowDone
  <2>1. slow' = [cmd |-> slow.cmd, state |-> "done"] /\ slow.cmd \in Cmds
    BY <1>6 DEF EcSlowDone
  <2>2. execs' \in [Cmds -> Nat]
    BY <1>6, <2>1 DEF EcSlowDone
  <2> QED BY <1>6, <2>1, <2>2 DEF EcSlowDone
<1> QED BY <1>1, <1>2, <1>3, <1>4, <1>5, <1>6 DEF Next

\* The results keep their types.
LEMMA OutTypesStep == IInv /\ [Next]_vars => OutTypes'
<1> SUFFICES ASSUME Types, BusInv, [Next]_vars PROVE OutTypes'
  BY DEF IInv
<1> USE DEF Types, OutTypes
<1>1. ASSUME NEW fits \in BOOLEAN, StartCmd(fits) PROVE OutTypes'
  BY <1>1 DEF StartCmd
<1>2. ASSUME NEW stat \in Results \cup {"IN_PROGRESS"}, pc # "idle", AttemptEnds(stat)
      PROVE  result' \in [Cmds -> Results \cup {"none"}]
  BY <1>2, AttemptEffect
<1>3. CASE BusBusy \/ ResetBus
  BY <1>2, <1>3 DEF BusBusy, ResetBus
<1>4. ASSUME NEW intact \in BOOLEAN, ReadPayload(intact) PROVE OutTypes'
  <2>1. pc = "read"
    BY <1>4 DEF ReadPayload
  <2>2. result' \in [Cmds -> Results \cup {"none"}]
    BY <1>2, <1>4, <2>1, ReadEffect DEF ReadPayload
  <2>3. answerOf' \in [Cmds -> 0..NumCmds]
    BY <1>4, <2>1, ReadEffect DEF ReadPayload
  <2> QED BY <2>2, <2>3
<1>5. CASE BusReady \/ WritePacket \/ ClearResponse \/ HandOver \/ PollReady \/ PollTimeout
  BY <1>5 DEF BusReady, WritePacket, ClearResponse, HandOver, PollReady, PollTimeout
<1>6. CASE EcTake \/ EcCommand \/ EcGetResult \/ EcRelease \/ EcSlowDone \/ UNCHANGED vars
  <2>1. UNCHANGED outVars
    BY <1>6 DEF EcTake, EcCommand, EcGetResult, EcRelease, EcSlowDone, EcOnly
  <2> QED BY <2>1
<1> QED BY <1>1, <1>3, <1>4, <1>5, <1>6 DEF Next

\* Host and EC take turns with the buffer.
LEMMA BusInvStep == IInv /\ [Next]_vars => BusInv'
<1> SUFFICES ASSUME Types, BusInv, [Next]_vars PROVE BusInv'
  BY DEF IInv
<1> USE DEF Types, HostTypes, BusTypes, EcTypes, BusInv, Asked, Answered
<1>0. ASSUME pc' \in {"idle", "bus"}, UNCHANGED <<ec, hostEc>> PROVE BusInv'
  BY <1>0
<1>1. ASSUME NEW fits \in BOOLEAN, StartCmd(fits) PROVE BusInv'
  <2>1. pc' \in {"idle", "bus"} /\ UNCHANGED <<ec, hostEc>>
    BY <1>1 DEF StartCmd
  <2> QED BY <1>0, <2>1
<1>2. ASSUME NEW stat \in Results \cup {"IN_PROGRESS"}, pc # "idle", AttemptEnds(stat),
             UNCHANGED <<ec, hostEc>>
      PROVE  BusInv'
  BY <1>0, <1>2, AttemptEffect DEF OutTypes
<1>3. CASE BusBusy \/ ResetBus
  BY <1>2, <1>3 DEF BusBusy, ResetBus
<1>4. ASSUME NEW intact \in BOOLEAN, ReadPayload(intact) PROVE BusInv'
  <2>1. pc = "read" /\ UNCHANGED <<ec, hostEc>>
    BY <1>4 DEF ReadPayload
  <2> QED BY <1>2, <1>4, <2>1, ReadEffect DEF ReadPayload
<1>5. CASE BusReady
  BY <1>5 DEF BusReady, Sent
<1>6. CASE WritePacket
  BY <1>6 DEF WritePacket, Sent
<1>7. CASE ClearResponse
  BY <1>7 DEF ClearResponse, Sent
<1>8. CASE HandOver
  BY <1>8 DEF HandOver, Sent
<1>9. CASE PollReady \/ PollTimeout
  BY <1>9 DEF PollReady, PollTimeout, Sent
<1>10. CASE EcTake
  <2>1. /\ ec = "idle" /\ hostEc = "PROC" /\ ec' = "work" /\ ecReq' = buf.req
        /\ UNCHANGED <<hostVars, busVars>>
    BY <1>10 DEF EcTake, EcOnly
  <2>2. pc \notin Preparing /\ ~Answered /\ pc # "read"
    BY <2>1
  <2>3. pc = "poll" => Asked'
    BY <2>1, <2>2 DEF Sent, Request
  <2> QED BY <2>1, <2>2, <2>3
<1>11. ASSUME NEW k \in 0..NumCmds, NEW stat \in EcStatus, ec = "work", EcRespond(k, stat),
              UNCHANGED hostVars
       PROVE  BusInv'
  <2>1. pc \notin Preparing \cup {"read"}
    BY <1>11
  <2>2. pc = "poll" => ecReq = Sent
    BY <1>11
  <2> QED BY <1>11, <2>1, <2>2, RespondEffect DEF Sent
<1>12. CASE EcCommand
  <2>1. ec = "work" /\ ecReq \in 0..NumCmds /\ UNCHANGED hostVars
        /\ \E stat \in EcStatus : EcRespond(ecReq, stat)
    BY <1>12 DEF EcCommand, EcOnly
  <2> QED BY <1>11, <2>1
<1>13. CASE EcGetResult
  <2>1. ec = "work" /\ UNCHANGED hostVars
        /\ \E k \in 0..NumCmds, stat \in EcStatus : EcRespond(k, stat)
    BY <1>13 DEF EcGetResult, EcOnly
  <2> QED BY <1>11, <2>1
<1>14. CASE EcRelease
  BY <1>14 DEF EcRelease, EcOnly, Sent
<1>15. CASE EcSlowDone \/ UNCHANGED vars
  BY <1>15 DEF EcSlowDone, EcOnly, Sent
<1> QED BY <1>1, <1>3, <1>4, <1>5, <1>6, <1>7, <1>8, <1>9, <1>10, <1>12, <1>13, <1>14, <1>15
        DEF Next

\* The command in the background is the one whose result is asked for.
LEMMA SlowInvStep == IInv /\ [Next]_vars => SlowInv'
<1> SUFFICES ASSUME Types, BusInv, SlowInv, [Next]_vars PROVE SlowInv'
  BY DEF IInv
<1> USE DEF Types, HostTypes, BusTypes, EcTypes, SlowInv, Answered
<1>1. ASSUME NEW fits \in BOOLEAN, StartCmd(fits) PROVE SlowInv'
  BY <1>1 DEF StartCmd
<1>2. ASSUME pc \notin {"idle", "read"}, NEW stat \in Results, AttemptEnds(stat),
             UNCHANGED <<ec, hostEc, buf, slow, ecReq>>
      PROVE  SlowInv'
  <2>1. stat # "IN_PROGRESS"
    BY <1>2
  <2> QED BY <1>2, <2>1, AttemptEffect DEF OutTypes
<1>3. CASE BusBusy \/ ResetBus
  BY <1>2, <1>3 DEF BusBusy, ResetBus
<1>4. ASSUME NEW intact \in BOOLEAN, ReadPayload(intact) PROVE SlowInv'
  <2> DEFINE stat == IF intact THEN buf.stat ELSE "CORRUPT"
  <2>1. pc = "read" /\ UNCHANGED <<ec, hostEc, buf, slow, ecReq>> /\ AttemptEnds(stat)
    BY <1>4 DEF ReadPayload
  <2>2. Answered /\ stat \in Results \cup {"IN_PROGRESS"}
    BY <2>1, ReadEffect
  <2>3. stat = "IN_PROGRESS" => buf.stat = "IN_PROGRESS"
    OBVIOUS
  <2> HIDE DEF stat
  <2> QED BY <2>1, <2>2, <2>3, AttemptEffect DEF OutTypes
<1>5. CASE BusReady \/ WritePacket
  BY <1>5 DEF BusReady, WritePacket, BusInv
<1>6. CASE ClearResponse
  BY <1>6 DEF ClearResponse
<1>7. CASE HandOver
  BY <1>7 DEF HandOver, BusInv, Sent, Request
<1>8. CASE PollReady \/ PollTimeout
  BY <1>8 DEF PollReady, PollTimeout, Sent
<1>9. CASE EcTake
  BY <1>9 DEF EcTake, EcOnly, BusInv
<1>10. CASE EcCommand
  <2>1. ec = "work" /\ ecReq \in Cmds /\ ecReq # GetResult /\ ec' = "release"
        /\ UNCHANGED hostVars
    BY <1>10 DEF EcCommand, EcOnly, EcRespond
  <2>2. ~(phase = "results" /\ pc # "idle")
    BY <2>1
  <2>3. pc \in Awaiting => ecReq = Sent
    BY <2>1 DEF BusInv, Asked
  <2>4. \E stat \in EcStatus : EcRespond(ecReq, stat) /\
          (stat = "IN_PROGRESS" => slow' = [cmd |-> ecReq, state |-> "running"])
    BY <1>10 DEF EcCommand
  <2>5. buf'.stat = "IN_PROGRESS" => slow' = [cmd |-> ecReq, state |-> "running"]
    BY <2>1, <2>4, RespondEffect
  <2> QED BY <2>1, <2>2, <2>3, <2>5 DEF Sent
<1>11. CASE EcGetResult
  <2>1. ec = "work" /\ ecReq = GetResult /\ ec' = "release" /\ UNCHANGED hostVars
        /\ (slow' = slow \/ slow'.state = "none")
    BY <1>11 DEF EcGetResult, EcOnly, EcRespond
  <2>2. pc \in Awaiting => phase = "results"
    BY <2>1 DEF BusInv, Asked, Sent
  <2> QED BY <2>1, <2>2
<1>12. CASE EcRelease
  BY <1>12 DEF EcRelease, EcOnly, Sent, BusInv, Asked
<1>13. CASE EcSlowDone
  <2>1. slow' = [cmd |-> slow.cmd, state |-> "done"] /\ slow.state = "running"
        /\ UNCHANGED <<hostVars, busVars, ec, ecReq>>
    BY <1>13 DEF EcSlowDone, EcOnly
  <2> QED BY <2>1 DEF Sent
<1>14. CASE UNCHANGED vars
  BY <1>14 DEF Sent
<1> QED BY <1>1, <1>3, <1>4, <1>5, <1>6, <1>7, <1>8, <1>9, <1>10, <1>11, <1>12, <1>13, <1>14
        DEF Next

\* A response that says SUCCESS is about a command the EC has executed.
LEMMA AnswerInvStep == IInv /\ [Next]_vars => AnswerInv'
<1> SUFFICES ASSUME Types, BusInv, SlowInv, AnswerInv, [Next]_vars PROVE AnswerInv'
  BY DEF IInv
<1> USE DEF Types, HostTypes, BusTypes, EcTypes, AnswerInv, Answered
<1>0. ASSUME UNCHANGED <<buf, slow, execs>>, pc' \notin Awaiting PROVE AnswerInv'
  BY <1>0
<1>1. ASSUME NEW fits \in BOOLEAN, StartCmd(fits) PROVE AnswerInv'
  BY <1>0, <1>1 DEF StartCmd
<1>2. ASSUME pc # "idle", NEW stat \in Results \cup {"IN_PROGRESS"}, AttemptEnds(stat),
             UNCHANGED <<buf, slow, execs>>
      PROVE  AnswerInv'
  BY <1>0, <1>2, AttemptEffect DEF OutTypes
<1>3. CASE BusBusy \/ ResetBus
  BY <1>2, <1>3 DEF BusBusy, ResetBus
<1>4. ASSUME NEW intact \in BOOLEAN, ReadPayload(intact) PROVE AnswerInv'
  <2>1. pc = "read" /\ UNCHANGED <<buf, slow, execs>>
    BY <1>4 DEF ReadPayload
  <2> QED BY <1>2, <1>4, <2>1, ReadEffect DEF ReadPayload
<1>5. CASE WritePacket
  BY <1>5 DEF WritePacket, Request
<1>6. CASE BusReady \/ ClearResponse \/ PollTimeout
  BY <1>0, <1>6 DEF BusReady, ClearResponse, PollTimeout
<1>7. CASE HandOver
  <2>1. UNCHANGED <<buf, slow, execs>> /\ ecHost' # "RESP"
    BY <1>7 DEF HandOver, BusInv
  <2> QED BY <2>1
<1>8. CASE PollReady
  BY <1>8 DEF PollReady, Sent
<1>9. CASE EcTake
  BY <1>9 DEF EcTake, EcOnly, Sent
<1>10. CASE EcCommand
  <2>1. ec = "work" /\ ecReq \in Cmds /\ ecReq # GetResult /\ UNCHANGED hostVars
    BY <1>10 DEF EcCommand, EcOnly
  <2>2. pc \in Awaiting => phase # "results"
    BY <2>1 DEF SlowInv
  <2>3. \A k \in Cmds : execs[k] > 0 => execs'[k] > 0
    BY <1>10, <2>1 DEF EcCommand
  <2>4. \E stat \in EcStatus : EcRespond(ecReq, stat) /\
          (stat = "SUCCESS" => execs' = [execs EXCEPT ![ecReq] = @ + 1])
    BY <1>10 DEF EcCommand
  <2>5. buf'.dir = "in" /\ buf'.req = ecReq /\ buf'.of = ecReq
        /\ (buf'.stat = "SUCCESS" => execs'[ecReq] > 0)
    BY <2>1, <2>4, RespondEffect
  <2>6. slow' \in {slow, [cmd |-> ecReq, state |-> "running"]}
    BY <1>10 DEF EcCommand
  <2>7. slow'.state = "done" => execs'[slow'.cmd] > 0
    BY <2>3, <2>6
  <2> QED BY <2>1, <2>2, <2>5, <2>7
<1>11. CASE EcGetResult
  <2>1. ec = "work" /\ ecReq = GetResult /\ UNCHANGED <<hostVars, execs>>
        /\ (slow' = slow \/ slow'.state = "none")
    BY <1>11 DEF EcGetResult, EcOnly
  <2>2. \E k \in 0..NumCmds, stat \in EcStatus : EcRespond(k, stat) /\
          (stat = "SUCCESS" => slow.state = "done" /\ k = slow.cmd)
    BY <1>11 DEF EcGetResult
  <2>3. buf'.req = GetResult
        /\ (buf'.stat = "SUCCESS" => slow.state = "done" /\ buf'.of = slow.cmd)
    BY <2>1, <2>2, RespondEffect
  <2> QED BY <2>1, <2>3 DEF SlowInv
<1>12. CASE EcRelease
  <2>1. UNCHANGED <<hostVars, buf, ecHost, slow, execs>> /\ ec = "release" /\ ec' = "idle"
    BY <1>12 DEF EcRelease, EcOnly
  <2> QED BY <2>1 DEF Sent
<1>13. CASE EcSlowDone
  <2>1. slow' = [cmd |-> slow.cmd, state |-> "done"] /\ slow.state = "running"
        /\ UNCHANGED <<hostVars, busVars, ec, ecReq>>
        /\ execs' = [execs EXCEPT ![slow.cmd] = @ + 1]
    BY <1>13 DEF EcSlowDone, EcOnly
  <2>2. execs'[slow.cmd] > 0 /\ \A k \in Cmds : execs[k] > 0 => execs'[k] > 0
    BY <2>1
  <2> QED BY <2>1, <2>2 DEF Sent
<1>14. CASE UNCHANGED vars
  BY <1>14 DEF Sent
<1> QED BY <1>1, <1>3, <1>4, <1>5, <1>6, <1>7, <1>8, <1>9, <1>10, <1>11, <1>12, <1>13, <1>14
        DEF Next

\* A result is set once, when the processing of its command ends; and a SUCCESS
\* comes from a response about it.
LEMMA OpenInvStep == IInv /\ [Next]_vars => OpenInv' /\ SuccessIsOwnAnswer'
<1> SUFFICES ASSUME Types, BusInv, AnswerInv, OpenInv, SuccessIsOwnAnswer, [Next]_vars
             PROVE  OpenInv' /\ SuccessIsOwnAnswer'
  BY DEF IInv
<1>t. /\ HostTypes /\ OutTypes /\ cmd \in Nat /\ (pc # "idle" => cmd \in Cmds)
      /\ DOMAIN result = Cmds /\ DOMAIN answerOf = Cmds /\ execs \in [Cmds -> Nat]
      /\ \A k \in Cmds : k \in Nat
  BY NumCmdsAssumption DEF Types, HostTypes, OutTypes, EcTypes, Cmds
<1>o. /\ \A k \in Cmds : k > cmd => result[k] = "none"
      /\ pc # "idle" => result[cmd] = "none"
      /\ \A k \in Cmds : result[k] = "SUCCESS" => execs[k] > 0 /\ answerOf[k] = k
  BY DEF OpenInv, SuccessIsOwnAnswer
<1>1. ASSUME NEW fits \in BOOLEAN, StartCmd(fits) PROVE OpenInv' /\ SuccessIsOwnAnswer'
  <2>1. /\ pc = "idle" /\ cmd < NumCmds /\ cmd' = cmd + 1 /\ UNCHANGED <<execs, answerOf>>
        /\ \/ result' = result
           \/ pc' = "idle" /\ result' = [result EXCEPT ![cmd + 1] = "INVALID_PARAM"]
    BY <1>1 DEF StartCmd, ecVars
  <2>2. cmd + 1 \in Cmds
    BY <1>t, <2>1, NumCmdsAssumption DEF Cmds
  <2>3. \A k \in Cmds : k # cmd + 1 => result'[k] = result[k]
    BY <1>t, <2>1
  <2>4. result'[cmd + 1] \in {result[cmd + 1], "INVALID_PARAM"} /\ result[cmd + 1] = "none"
    BY <1>o, <1>t, <2>1, <2>2
  <2>5. \A k \in Cmds : k > cmd + 1 => result'[k] = "none"
    BY <1>o, <1>t, <2>3
  <2>6. pc' # "idle" => result'[cmd'] = "none"
    BY <2>1, <2>4
  <2>7. \A k \in Cmds : result'[k] = "SUCCESS" => execs'[k] > 0 /\ answerOf'[k] = k
    BY <1>o, <2>1, <2>3, <2>4
  <2> QED BY <2>1, <2>5, <2>6, <2>7 DEF OpenInv, SuccessIsOwnAnswer
\* What the end of an attempt does to the results.
<1>a. ASSUME pc # "idle", NEW stat \in Results \cup {"IN_PROGRESS"}, AttemptEnds(stat)
      PROVE  /\ cmd' = cmd /\ (pc' # "idle" => result' = result)
             /\ \A k \in Cmds : k # cmd => result'[k] = result[k]
             /\ result'[cmd] = "SUCCESS" => stat = "SUCCESS"
  <2>1. /\ cmd' = cmd
        /\ \/ result' = result
           \/ pc' = "idle" /\ \E s \in Results : /\ result' = [result EXCEPT ![cmd] = s]
                                                 /\ s = "SUCCESS" => stat = "SUCCESS"
    BY <1>a, <1>t, AttemptEffect
  <2>2. CASE result' = result
    BY <1>a, <1>o, <2>1, <2>2
  <2>3. CASE pc' = "idle" /\ \E s \in Results : /\ result' = [result EXCEPT ![cmd] = s]
                                                /\ s = "SUCCESS" => stat = "SUCCESS"
    BY <1>a, <1>t, <2>1, <2>3
  <2> QED BY <2>1, <2>2, <2>3
\* An attempt ends, and what it says of its command is true.
<1>e. ASSUME pc # "idle", cmd' = cmd, pc' # "idle" => result' = result,
             \A k \in Cmds : k # cmd => result'[k] = result[k] /\ answerOf'[k] = answerOf[k],
             result'[cmd] = "SUCCESS" => answerOf'[cmd] = cmd /\ execs[cmd] > 0,
             UNCHANGED execs
      PROVE  OpenInv' /\ SuccessIsOwnAnswer'
  <2>1. \A k \in Cmds : k > cmd' => result'[k] = "none"
    BY <1>e, <1>o, <1>t
  <2>2. pc' # "idle" => result'[cmd'] = "none"
    BY <1>e, <1>o
  <2>3. \A k \in Cmds : result'[k] = "SUCCESS" => execs'[k] > 0 /\ answerOf'[k] = k
    BY <1>e, <1>o
  <2> QED BY <2>1, <2>2, <2>3 DEF OpenInv, SuccessIsOwnAnswer
<1>2. ASSUME pc \notin {"idle", "read"}, NEW stat \in {"BUS_ERROR", "TIMEOUT"},
             AttemptEnds(stat), UNCHANGED <<execs, answerOf>>
      PROVE  OpenInv' /\ SuccessIsOwnAnswer'
  <2>1. pc # "idle" /\ stat \in Results \cup {"IN_PROGRESS"} /\ stat # "SUCCESS"
    BY <1>2 DEF Results
  <2> QED BY <1>2, <1>a, <1>e, <2>1
<1>3. CASE BusBusy \/ ResetBus
  BY <1>2, <1>3 DEF BusBusy, ResetBus
<1>4. ASSUME NEW intact \in BOOLEAN, ReadPayload(intact)
      PROVE  OpenInv' /\ SuccessIsOwnAnswer'
  <2> DEFINE stat == IF intact THEN buf.stat ELSE "CORRUPT"
  <2>1. /\ pc = "read" /\ AttemptEnds(stat) /\ UNCHANGED execs
        /\ answerOf' = [answerOf EXCEPT ![cmd] = IF intact THEN buf.of ELSE 0]
    BY <1>4 DEF ReadPayload
  <2>2. Answered /\ stat \in Results \cup {"IN_PROGRESS"} /\ cmd \in Cmds
    BY <2>1, ReadEffect DEF Types
  <2>3. stat = "SUCCESS" => intact /\ buf.stat = "SUCCESS"
    OBVIOUS
  <2>4. stat = "SUCCESS" => answerOf'[cmd] = cmd /\ execs[cmd] > 0
    <3> SUFFICES ASSUME stat = "SUCCESS" PROVE answerOf'[cmd] = cmd /\ execs[cmd] > 0
      OBVIOUS
    <3>1. phase \in {"send", "results"} /\ pc \in Awaiting
      BY <1>t, <2>1 DEF HostTypes, Awaiting
    <3>2. buf.dir = "in" /\ buf.stat = "SUCCESS" /\ intact
      BY <2>2, <2>3 DEF Answered
    <3>3. buf.of = cmd
      BY <2>2, <3>1, <3>2 DEF AnswerInv, Answered, Sent
    <3>4. execs[cmd] > 0
      BY <3>2, <3>3 DEF AnswerInv
    <3> QED BY <1>t, <2>1, <2>2, <3>2, <3>3, <3>4
  <2> HIDE DEF stat
  <2>5. \A k \in Cmds : k # cmd => answerOf'[k] = answerOf[k]
    BY <2>1
  <2> QED BY <1>a, <1>e, <2>1, <2>2, <2>4, <2>5
<1>5. CASE BusReady \/ WritePacket \/ ClearResponse \/ HandOver \/ PollReady \/ PollTimeout
  <2>1. UNCHANGED <<cmd, result, answerOf, execs>> /\ pc # "idle"
    BY <1>5 DEF BusReady, WritePacket, ClearResponse, HandOver, PollReady, PollTimeout
  <2> QED BY <1>o, <2>1 DEF OpenInv, SuccessIsOwnAnswer
<1>6. CASE EcTake \/ EcCommand \/ EcGetResult \/ EcRelease \/ EcSlowDone \/ UNCHANGED vars
  <2>1. UNCHANGED <<hostVars, outVars>>
    BY <1>6 DEF EcTake, EcCommand, EcGetResult, EcRelease, EcSlowDone, EcOnly
  <2>2. UNCHANGED execs \/ \E k \in Cmds : execs' = [execs EXCEPT ![k] = @ + 1]
    BY <1>6 DEF EcTake, EcCommand, EcGetResult, EcRelease, EcSlowDone, Types, EcTypes
  <2>3. \A k \in Cmds : execs[k] > 0 => execs'[k] > 0
    BY <1>t, <2>2
  <2> QED BY <1>o, <2>1, <2>3 DEF OpenInv, SuccessIsOwnAnswer, hostVars, outVars
<1> QED BY <1>1, <1>3, <1>4, <1>5, <1>6 DEF Next

\* At each place the EC owes at most one execution of a command.
LEMMA OwedTypes ==
  ASSUME NEW k
  PROVE  Waiting(k) \in 0..1 /\ Working(k) \in 0..1 /\ Running(k) \in 0..1
BY DEF Waiting, Working, Running

\* Runs is a natural, and a sum.
LEMMA RunsTypes ==
  ASSUME EcTypes, NEW k \in Cmds
  PROVE  /\ Runs(k) \in Nat /\ execs[k] \in Nat
         /\ Runs(k) = execs[k] + Waiting(k) + Working(k) + Running(k)
BY OwedTypes DEF EcTypes, Runs, Owed

\* The same after a step.
LEMMA RunsTypesPrime ==
  ASSUME EcTypes', NEW k \in Cmds
  PROVE  /\ Runs(k)' \in Nat /\ execs'[k] \in Nat
         /\ Waiting(k)' \in 0..1 /\ Working(k)' \in 0..1 /\ Running(k)' \in 0..1
         /\ Runs(k)' = execs'[k] + Waiting(k)' + Working(k)' + Running(k)'
<1>1. Waiting(k)' \in 0..1
  BY DEF Waiting
<1>2. Working(k)' \in 0..1
  BY DEF Working
<1>3. Running(k)' \in 0..1
  BY DEF Running
<1>4. execs'[k] \in Nat
  BY DEF EcTypes
<1>5. Runs(k)' = execs'[k] + (Waiting(k)' + Working(k)' + Running(k)')
  BY DEF Runs, Owed
<1> QED BY <1>1, <1>2, <1>3, <1>4, <1>5

\* A step of the EC, or of the host on the bus, makes no execution possible that
\* was not; the hand-over of a request makes one of its command possible.
LEMMA RunsStep ==
  ASSUME Types, Types', BusInv, [Next]_vars, NEW k \in Cmds
  PROVE  \/ Runs(k)' <= Runs(k)
         \/ Runs(k)' <= Runs(k) + 1 /\ pc = "proc" /\ pc' = "poll" /\ k = Sent
<1>a. /\ execs[k] \in Nat /\ execs'[k] \in Nat
      /\ Waiting(k) \in 0..1 /\ Working(k) \in 0..1 /\ Running(k) \in 0..1
      /\ Waiting(k)' \in 0..1 /\ Working(k)' \in 0..1 /\ Running(k)' \in 0..1
      /\ Runs(k) = execs[k] + Waiting(k) + Working(k) + Running(k)
      /\ Runs(k)' = execs'[k] + Waiting(k)' + Working(k)' + Running(k)'
  BY OwedTypes, RunsTypes, RunsTypesPrime DEF Types
<1>c. ASSUME UNCHANGED ecVars, Waiting(k)' = Waiting(k) PROVE Runs(k)' <= Runs(k)
  <2>1. Working(k)' = Working(k) /\ Running(k)' = Running(k)
    BY <1>c DEF Working, Running
  <2> QED BY <1>a, <1>c, <2>1
<1>1. CASE \/ \E fits \in BOOLEAN : StartCmd(fits)
           \/ \E intact \in BOOLEAN : ReadPayload(intact)
           \/ BusReady \/ BusBusy \/ ClearResponse \/ PollReady \/ PollTimeout \/ ResetBus
           \/ UNCHANGED vars
  <2>1. UNCHANGED <<ecVars, hostEc, buf>>
    BY <1>1 DEF StartCmd, ReadPayload, BusReady, BusBusy, ClearResponse, PollReady,
                PollTimeout, ResetBus
  <2>2. Waiting(k)' = Waiting(k)
    BY <2>1 DEF Waiting
  <2> QED BY <1>c, <2>1, <2>2
<1>2. CASE WritePacket
  <2>1. UNCHANGED <<ecVars, hostEc>> /\ hostEc = "READY"
    BY <1>2 DEF WritePacket, BusInv
  <2>2. Waiting(k)' = Waiting(k)
    BY <2>1 DEF Waiting
  <2> QED BY <1>c, <2>1, <2>2
<1>3. CASE HandOver
  <2>1. /\ UNCHANGED <<ecVars, buf>> /\ buf = Request(Sent)
        /\ pc = "proc" /\ pc' = "poll" /\ hostEc = "READY"
    BY <1>3 DEF HandOver, BusInv, Types, EcTypes
  <2>2. Waiting(k) = 0 /\ Working(k)' = Working(k) /\ Running(k)' = Running(k)
    BY <2>1 DEF Waiting, Working, Running
  <2>3. k # Sent => Waiting(k)' = 0
    BY <2>1 DEF Waiting, Request
  <2> QED BY <1>a, <2>1, <2>2, <2>3
<1>4. CASE EcTake
  <2>1. /\ ec = "idle" /\ hostEc = "PROC" /\ ec' = "work" /\ ecReq' = buf.req
        /\ UNCHANGED <<slow, execs>>
    BY <1>4 DEF EcTake
  <2>2. Waiting(k)' = 0 /\ Working(k) = 0
    BY <2>1 DEF Waiting, Working
  <2>3. Working(k)' = Waiting(k) /\ Running(k)' = Running(k)
    BY <2>1 DEF Waiting, Working, Running
  <2> QED BY <1>a, <2>1, <2>2, <2>3
<1>5. CASE EcCommand
  <2>1. ec = "work" /\ ec' = "release" /\ ecReq \in Cmds
    BY <1>5 DEF EcCommand, EcRespond
  <2>2. Waiting(k) = 0 /\ Waiting(k)' = 0 /\ Working(k)' = 0
    BY <2>1 DEF Waiting, Working
  <2>3. CASE UNCHANGED slow /\ execs' = [execs EXCEPT ![ecReq] = @ + 1]
    <3>1. Running(k)' = Running(k)
      BY <2>3 DEF Running
    <3>2. execs'[k] = execs[k] + Working(k)
      BY <1>a, <2>1, <2>3 DEF Working, Types, EcTypes
    <3> QED BY <1>a, <2>2, <3>1, <3>2
  <2>4. CASE UNCHANGED <<slow, execs>>
    <3>1. Running(k)' = Running(k)
      BY <2>4 DEF Running
    <3> QED BY <1>a, <2>2, <2>4, <3>1
  <2>5. CASE UNCHANGED execs /\ slow' = [cmd |-> ecReq, state |-> "running"]
    <3>1. Running(k)' = Working(k)
      BY <2>1, <2>5 DEF Running, Working
    <3> QED BY <1>a, <2>2, <2>5, <3>1
  <2> QED BY <1>5, <2>3, <2>4, <2>5 DEF EcCommand
<1>6. CASE EcGetResult
  <2>1. ec = "work" /\ ec' = "release" /\ UNCHANGED execs
        /\ (slow' = slow \/ slow'.state = "none")
    BY <1>6 DEF EcGetResult, EcRespond
  <2>2. Waiting(k)' = 0 /\ Working(k)' = 0
    BY <2>1 DEF Waiting, Working
  <2>3. Running(k)' <= Running(k)
    BY <1>a, <2>1 DEF Running
  <2> QED BY <1>a, <2>1, <2>2, <2>3
<1>7. CASE EcRelease
  <2>1. ec = "release" /\ ec' = "idle" /\ hostEc' = "READY" /\ UNCHANGED <<slow, execs>>
    BY <1>7 DEF EcRelease
  <2>2. Waiting(k)' = 0 /\ Working(k)' = 0 /\ Running(k)' = Running(k)
    BY <2>1 DEF Waiting, Working, Running
  <2> QED BY <1>a, <2>1, <2>2
<1>8. CASE EcSlowDone
  <2>1. /\ slow.state = "running" /\ slow' = [cmd |-> slow.cmd, state |-> "done"]
        /\ execs' = [execs EXCEPT ![slow.cmd] = @ + 1] /\ slow.cmd \in Cmds
        /\ UNCHANGED <<busVars, ec, ecReq>>
    BY <1>8 DEF EcSlowDone, Types, EcTypes
  <2>2. Waiting(k)' = Waiting(k) /\ Working(k)' = Working(k)
    BY <2>1 DEF Waiting, Working
  <2>3. Running(k)' = 0
    BY <2>1 DEF Running
  <2>4. execs'[k] = execs[k] + Running(k)
    BY <1>a, <2>1 DEF Running, Types, EcTypes
  <2> QED BY <1>a, <2>2, <2>3, <2>4
<1> QED BY <1>1, <1>2, <1>3, <1>4, <1>5, <1>6, <1>7, <1>8 DEF Next

\* Each attempt is executed once at most.
LEMMA CountInvStep == IInv /\ [Next]_vars => CountInv'
<1> SUFFICES ASSUME Types, Types', BusInv, CountInv, [Next]_vars, NEW k \in Cmds
             PROVE  /\ Runs(k)' <= Retries
                    /\ k > cmd' => Runs(k)' = 0
                    /\ k = cmd' /\ phase' = "send" /\ pc' \in Preparing \cup {"bus"} =>
                         Runs(k)' + left' <= Retries
                    /\ k = cmd' /\ phase' = "send" /\ pc' \in Awaiting \cup {"reset"} =>
                         Runs(k)' + left' <= Retries + 1
  BY HostTypesStep, BusTypesStep, EcTypesStep, OutTypesStep DEF IInv, Types, CountInv
<1> USE DEF Types, HostTypes
<1>0. /\ Runs(k) \in Nat /\ Runs(k)' \in Nat
      /\ \/ Runs(k)' <= Runs(k)
         \/ Runs(k)' <= Runs(k) + 1 /\ pc = "proc" /\ pc' = "poll" /\ k = Sent
      /\ Runs(k) <= Retries
      /\ k > cmd => Runs(k) = 0
      /\ k = cmd /\ phase = "send" /\ pc \in Preparing \cup {"bus"} => Runs(k) + left <= Retries
      /\ k = cmd /\ phase = "send" /\ pc \in Awaiting \cup {"reset"} =>
           Runs(k) + left <= Retries + 1
  BY RunsTypes, RunsTypesPrime, RunsStep DEF CountInv
<1> HIDE DEF Runs
<1>1. ASSUME NEW fits \in BOOLEAN, StartCmd(fits)
      PROVE  pc = "idle" /\ cmd' = cmd + 1 /\ (pc' = "idle" \/ (pc' = "bus" /\ left' = Retries))
  BY <1>1 DEF StartCmd
<1>2. ASSUME pc # "idle", NEW stat \in Results \cup {"IN_PROGRESS"}, AttemptEnds(stat)
      PROVE  /\ cmd' = cmd
             /\ \/ pc' = "idle"
                \/ pc' = "bus" /\ left' = left - 1 /\ UNCHANGED phase
                \/ phase' = "results"
  BY <1>2, AttemptEffect
<1>3. CASE \E fits \in BOOLEAN : StartCmd(fits)
  <2>1. pc = "idle" /\ cmd' = cmd + 1 /\ (pc' = "idle" \/ (pc' = "bus" /\ left' = Retries))
    BY <1>1, <1>3
  <2>2. Runs(k)' <= Runs(k)
    BY <1>0, <2>1
  <2> QED BY <1>0, <2>1, <2>2
<1>4. CASE BusBusy \/ ResetBus \/ \E intact \in BOOLEAN : ReadPayload(intact)
  <2>1. pc \in {"bus", "reset", "read"}
        /\ \E stat \in Results \cup {"IN_PROGRESS"} : AttemptEnds(stat)
    BY <1>4, ReadEffect DEF BusBusy, ResetBus, ReadPayload
  <2>2. Runs(k)' <= Runs(k) /\ left > 0 /\ left \in Nat /\ cmd \in Cmds
    BY <1>0, <2>1
  <2> QED BY <1>0, <1>2, <2>1, <2>2
<1>5. CASE \/ BusReady \/ WritePacket \/ ClearResponse \/ HandOver \/ PollReady \/ PollTimeout
  <2>1. UNCHANGED <<cmd, phase, left>> /\ left \in Nat
        /\ \/ pc \in Preparing \cup {"bus"} /\ pc' \in Preparing
           \/ pc = "proc" /\ pc' = "poll"
           \/ pc \in Awaiting /\ pc' \in Awaiting \cup {"reset"}
    BY <1>5 DEF BusReady, WritePacket, ClearResponse, HandOver, PollReady, PollTimeout
  <2>2. k = Sent => k = cmd /\ phase = "send"
    BY DEF Sent
  <2>3. left > 0
    BY <1>5 DEF BusReady, WritePacket, ClearResponse, HandOver, PollReady, PollTimeout
  <2> QED BY <1>0, <2>1, <2>2, <2>3
<1>6. CASE EcTake \/ EcCommand \/ EcGetResult \/ EcRelease \/ EcSlowDone \/ UNCHANGED vars
  <2>1. UNCHANGED hostVars
    BY <1>6 DEF EcTake, EcCommand, EcGetResult, EcRelease, EcSlowDone, EcOnly
  <2> QED BY <1>0, <2>1
<1> QED BY <1>3, <1>4, <1>5, <1>6 DEF Next

-----------------------------------------------------------------------------
\* A bus that is idle, and no command yet, satisfies all of it.
LEMMA InitIInv == Init => IInv
<1> SUFFICES ASSUME Init PROVE IInv
  OBVIOUS
<1> USE DEF Init, Request
<1>1. Types
  BY DEF Types, HostTypes, BusTypes, EcTypes, OutTypes
<1>2. BusInv /\ SlowInv /\ AnswerInv /\ OpenInv /\ SuccessIsOwnAnswer
  BY DEF BusInv, SlowInv, AnswerInv, OpenInv, SuccessIsOwnAnswer
<1>3. CountInv
  BY DEF CountInv, Runs, Owed, Waiting, Working, Running
<1> QED BY <1>1, <1>2, <1>3 DEF IInv

\* The inductive invariant the theorems below rest on.
THEOREM Invariance == Spec => []IInv
<1>1. IInv /\ [Next]_vars => IInv'
  BY HostTypesStep, BusTypesStep, EcTypesStep, OutTypesStep, BusInvStep, SlowInvStep,
     AnswerInvStep, OpenInvStep, CountInvStep DEF IInv, Types
<1> QED BY <1>1, InitIInv, PTL DEF Spec

\* Every variable keeps its type; in particular ProcCmd never leaves a command
\* with IN_PROGRESS as its result.
THEOREM TypeCorrect == Spec => []TypeOK
<1>1. IInv => TypeOK
  BY DEF IInv, Types, HostTypes, BusTypes, EcTypes, OutTypes, TypeOK
<1> QED BY <1>1, Invariance, PTL

\* Host and EC never use the buffer at once, and what the host reads from it is
\* the response to its latest request, however late the EC was with others.
THEOREM OwnedBuffer == Spec => []BufferOwned
<1>1. IInv => BufferOwned
  BY DEF IInv, Types, EcTypes, BusTypes, BusInv, Answered, BufferOwned
<1> QED BY <1>1, Invariance, PTL

\* A SUCCESS means that the EC has executed the command and that payloadin holds
\* its own answer.
THEOREM OwnAnswer == Spec => []SuccessIsOwnAnswer
<1>1. IInv => SuccessIsOwnAnswer
  BY DEF IInv
<1> QED BY <1>1, Invariance, PTL

\* The EC executes a command at most once for each attempt at sending it.
THEOREM BoundedRuns == Spec => []OncePerAttempt
<1>1. IInv => OncePerAttempt
  <2> SUFFICES ASSUME IInv, NEW k \in Cmds PROVE execs[k] <= Retries
    BY DEF OncePerAttempt
  <2>1. Runs(k) <= Retries
    BY DEF IInv, CountInv
  <2> QED BY <2>1, OwedTypes, RunsTypes DEF IInv, Types
<1> QED BY <1>1, Invariance, PTL
=============================================================================
