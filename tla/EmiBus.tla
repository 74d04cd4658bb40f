------------------------------- MODULE EmiBus --------------------------------
(***************************************************************************)
(* EmiThread::ProcCmd: one EC command over the EMI interface.  Host and EC *)
(* share a buffer and two registers: the host writes HOST_EC = CMD_PROC to *)
(* hand a request over, the EC raises EC_HOST = RESP_READY when the        *)
(* response is in the buffer (write 1 clears it) and puts HOST_EC back to  *)
(* CMD_READY when it is done with the buffer.  A request the EC cannot     *)
(* answer at once is answered IN_PROGRESS and goes on in the background;   *)
(* GET_RESULT then asks for its result.                                    *)
(*                                                                         *)
(* The EC is firmware outside this repository.  Its actions are what the   *)
(* comment in WaitBusReady and the host's handling say of it; it may be    *)
(* arbitrarily slow or dead, it answers a request once, raises EC_HOST     *)
(* before it releases HOST_EC, and keeps one command in the background.    *)
(***************************************************************************)
EXTENDS Naturals

CONSTANTS NumCmds,  \* bound: commands the thread processes
          Retries,  \* attempts at sending a command (10 in the code)
          Polls     \* GET_RESULT requests until i reaches 1000 (79 in the code)

ASSUME NumCmdsAssumption == NumCmds \in Nat
ASSUME RetriesAssumption == Retries \in Nat \ {0}
ASSUME PollsAssumption   == Polls \in Nat \ {0}

Cmds == 1..NumCmds
GetResult == 0            \* the request ECCMD_GET_RESULT
\* Statuses by class; CORRUPT is a response GetPayloadIn refuses (version,
\* size or checksum), REJECTED any other status the EC answers.
EcStatus == {"SUCCESS", "IN_PROGRESS", "REJECTED"}
Results == {"SUCCESS", "REJECTED", "BUS_ERROR", "TIMEOUT", "CORRUPT", "INVALID_PARAM"}

VARIABLES
  pc, cmd, phase, left,  \* the thread: where it is, its command, sending it or
                         \* polling for its result, tries that are left
  hostEc, ecHost, buf,   \* the two registers and the shared buffer
  ec, ecReq,             \* the EC: idle, at work, or to release the buffer
  slow,                  \* the EC's background command and its state
  execs,                 \* how often the EC has executed each command
  result, answerOf       \* pCmd->result; whose answer is in pCmd->payloadin

hostVars == <<pc, cmd, phase, left>>
busVars  == <<hostEc, ecHost, buf>>
ecVars   == <<ec, ecReq, slow, execs>>
outVars  == <<result, answerOf>>
vars     == <<hostVars, busVars, ecVars, outVars>>

Request(r)        == [dir |-> "out", req |-> r, of |-> 0, stat |-> "none"]
Response(r, k, s) == [dir |-> "in",  req |-> r, of |-> k, stat |-> s]

Init ==
  /\ pc = "idle" /\ cmd = 0 /\ phase = "send" /\ left = 0
  /\ hostEc = "READY" /\ ecHost = "NONE" /\ buf = Request(GetResult)
  /\ ec = "idle" /\ ecReq = GetResult /\ slow = [cmd |-> 0, state |-> "none"]
  /\ execs = [k \in Cmds |-> 0]
  /\ result = [k \in Cmds |-> "none"] /\ answerOf = [k \in Cmds |-> 0]

Sent == IF phase = "send" THEN cmd ELSE GetResult

-----------------------------------------------------------------------------
(* The host.  An operator named ..Fault is a plausible bug in the one that     *)
(* follows it; no specification uses it.                                       *)

Done(stat) == /\ pc' = "idle"
              /\ result' = [result EXCEPT ![cmd] = stat]
              /\ UNCHANGED <<cmd, phase, left>>

\* Another attempt, or poll (the fault: it is not counted).
AgainFault == /\ pc' = "bus"
              /\ UNCHANGED <<cmd, phase, left, result>>
Again == /\ pc' = "bus" /\ left' = left - 1
         /\ UNCHANGED <<cmd, phase, result>>

\* ProcCmd picks up the next command and builds its packet, unless the payload
\* does not fit the buffer.
StartCmd(fits) ==
  /\ pc = "idle" /\ cmd < NumCmds
  /\ cmd' = cmd + 1
  /\ IF fits
       THEN pc' = "bus" /\ phase' = "send" /\ left' = Retries /\ UNCHANGED result
       ELSE /\ result' = [result EXCEPT ![cmd + 1] = "INVALID_PARAM"]
            /\ UNCHANGED <<pc, phase, left>>
  /\ UNCHANGED <<busVars, ecVars, answerOf>>

\* What follows a SendCmdOut that returned stat: in ProcCmd's loop a command is
\* sent again unless it succeeded or is in progress; in SendCmdGetResults the
\* result is asked for again only while it is in progress.  (The faults: the
\* result is not asked for, or asked for once.)
AttemptEndsOpenFault(stat) ==
  IF stat \in {"SUCCESS", "IN_PROGRESS"} \/ left = 1 THEN Done(stat) ELSE Again
AttemptEndsFault(stat) ==
  CASE stat = "SUCCESS"                             -> Done(stat)
    [] stat = "IN_PROGRESS" /\ phase = "send"       ->
         /\ pc' = "bus" /\ phase' = "results" /\ left' = Polls
         /\ UNCHANGED <<cmd, result>>
    [] stat = "IN_PROGRESS" /\ phase = "results"    -> Done("SUCCESS")
    [] OTHER -> IF left > 1 /\ phase = "send" THEN Again ELSE Done(stat)
AttemptEnds(stat) ==
  CASE stat = "SUCCESS"                             -> Done(stat)
    [] stat = "IN_PROGRESS" /\ phase = "send"       ->
         /\ pc' = "bus" /\ phase' = "results" /\ left' = Polls
         /\ UNCHANGED <<cmd, result>>
    [] stat = "IN_PROGRESS" /\ phase = "results"    ->
         IF left > 1 THEN Again ELSE Done("TIMEOUT")
    [] OTHER -> IF left > 1 /\ phase = "send" THEN Again ELSE Done(stat)

\* WaitBusReady: HOST_EC is read up to twelve times; a read that finds the bus
\* busy is either followed by another one or is the last.
BusReady ==
  /\ pc = "bus" /\ hostEc = "READY"
  /\ pc' = "write"
  /\ UNCHANGED <<cmd, phase, left, busVars, ecVars, outVars>>

BusBusy ==
  /\ pc = "bus" /\ hostEc # "READY"
  /\ AttemptEnds("BUS_ERROR")
  /\ UNCHANGED <<busVars, ecVars, answerOf>>

\* SendPacketOut
WritePacket ==
  /\ pc = "write" /\ pc' = "clear"
  /\ buf' = Request(Sent)
  /\ UNCHANGED <<cmd, phase, left, hostEc, ecHost, ecVars, outVars>>

\* Write(EC_HOST, 1): what an earlier, late response has raised is cleared ...
\* (the fault: it is not).
ClearResponseFault ==
  /\ pc = "clear" /\ pc' = "proc"
  /\ UNCHANGED <<cmd, phase, left, busVars, ecVars, outVars>>
ClearResponse ==
  /\ pc = "clear" /\ pc' = "proc"
  /\ ecHost' = "NONE"
  /\ UNCHANGED <<cmd, phase, left, hostEc, buf, ecVars, outVars>>

\* ... before Write(HOST_EC, CMD_PROC) hands the request over.
HandOver ==
  /\ pc = "proc" /\ pc' = "poll"
  /\ hostEc' = "PROC"
  /\ UNCHANGED <<cmd, phase, left, ecHost, buf, ecVars, outVars>>

PollReady ==
  /\ pc = "poll" /\ ecHost = "RESP"
  /\ pc' = "read"
  /\ UNCHANGED <<cmd, phase, left, busVars, ecVars, outVars>>

\* 5000 ms without a response ...
PollTimeoutFault ==
  /\ pc = "poll" /\ ecHost # "RESP" /\ ec # "idle"
  /\ pc' = "reset"
  /\ UNCHANGED <<cmd, phase, left, busVars, ecVars, outVars>>
PollTimeout ==
  /\ pc = "poll" /\ ecHost # "RESP"
  /\ pc' = "reset"
  /\ UNCHANGED <<cmd, phase, left, busVars, ecVars, outVars>>

\* ... and one second later the response flag is cleared and the attempt ends.
ResetBus ==
  /\ pc = "reset"
  /\ ecHost' = "NONE"
  /\ AttemptEnds("TIMEOUT")
  /\ UNCHANGED <<hostEc, buf, ecVars, answerOf>>

\* GetPayloadIn: the buffer is read; its check may refuse what was read.
ReadPayload(intact) ==
  /\ pc = "read"
  /\ answerOf' = [answerOf EXCEPT ![cmd] = IF intact THEN buf.of ELSE 0]
  /\ AttemptEnds(IF intact THEN buf.stat ELSE "CORRUPT")
  /\ UNCHANGED <<busVars, ecVars>>

-----------------------------------------------------------------------------
(* The EC (external) *)

EcOnly == UNCHANGED <<hostVars, outVars>>

EcTake ==
  /\ ec = "idle" /\ hostEc = "PROC"
  /\ ec' = "work" /\ ecReq' = buf.req
  /\ EcOnly /\ UNCHANGED <<busVars, slow, execs>>

\* The response to the request at hand, about command k.
EcRespond(k, stat) ==
  /\ buf' = Response(ecReq, k, stat)
  /\ ecHost' = "RESP"
  /\ ec' = "release"
  /\ UNCHANGED <<hostEc, ecReq>>

\* A command is executed, refused, or goes on in the background if no other
\* one does.
EcCommand ==
  /\ ec = "work" /\ ecReq \in Cmds
  /\ \/ /\ execs' = [execs EXCEPT ![ecReq] = @ + 1]
        /\ EcRespond(ecReq, "SUCCESS") /\ UNCHANGED slow
     \/ EcRespond(ecReq, "REJECTED") /\ UNCHANGED <<slow, execs>>
     \/ /\ slow.state # "running"
        /\ slow' = [cmd |-> ecReq, state |-> "running"]
        /\ EcRespond(ecReq, "IN_PROGRESS") /\ UNCHANGED execs
  /\ EcOnly

EcGetResult ==
  /\ ec = "work" /\ ecReq = GetResult
  /\ CASE slow.state = "none"    -> EcRespond(0, "REJECTED") /\ UNCHANGED slow
       [] slow.state = "running" -> /\ EcRespond(slow.cmd, "IN_PROGRESS")
                                    /\ UNCHANGED slow
       [] OTHER                  -> /\ EcRespond(slow.cmd, "SUCCESS")
                                    /\ slow' = [cmd |-> 0, state |-> "none"]
  /\ EcOnly /\ UNCHANGED execs

EcRelease ==
  /\ ec = "release"
  /\ ec' = "idle" /\ hostEc' = "READY"
  /\ EcOnly /\ UNCHANGED <<ecHost, buf, ecReq, slow, execs>>

EcSlowDone ==
  /\ slow.state = "running"
  /\ slow' = [slow EXCEPT !.state = "done"]
  /\ execs' = [execs EXCEPT ![slow.cmd] = @ + 1]
  /\ EcOnly /\ UNCHANGED <<busVars, ec, ecReq>>

-----------------------------------------------------------------------------
HostStep == \/ BusReady \/ BusBusy \/ WritePacket \/ ClearResponse \/ HandOver
            \/ PollReady \/ PollTimeout \/ ResetBus
            \/ \E intact \in BOOLEAN : ReadPayload(intact)

Next == \/ \E fits \in BOOLEAN : StartCmd(fits)
        \/ BusReady    \/ BusBusy   \/ WritePacket \/ ClearResponse \/ HandOver
        \/ PollReady   \/ PollTimeout \/ ResetBus
        \/ \E intact \in BOOLEAN : ReadPayload(intact)
        \/ EcTake \/ EcCommand \/ EcGetResult \/ EcRelease \/ EcSlowDone

Spec == Init /\ [][Next]_vars

\* The thread runs and time passes; nothing is assumed of the EC.
FairSpec == Spec /\ WF_vars(HostStep)

-----------------------------------------------------------------------------
(* Properties *)

\* ProcCmd in particular never leaves a command with IN_PROGRESS as its result.
TypeOK ==
  /\ pc \in {"idle", "bus", "write", "clear", "proc", "poll", "reset", "read"}
  /\ cmd \in 0..NumCmds /\ (pc # "idle" => cmd \in Cmds)
  /\ phase \in {"send", "results"} /\ left \in 0..(Retries + Polls)
  /\ hostEc \in {"READY", "PROC"} /\ ecHost \in {"NONE", "RESP"}
  /\ buf \in [dir : {"out", "in"}, req : 0..NumCmds, of : 0..NumCmds,
              stat : EcStatus \cup {"none"}]
  /\ ec \in {"idle", "work", "release"} /\ ecReq \in 0..NumCmds
  /\ slow \in [cmd : 0..NumCmds, state : {"none", "running", "done"}]
  /\ slow.state # "none" => slow.cmd \in Cmds
  /\ execs \in [Cmds -> Nat]
  /\ result \in [Cmds -> Results \cup {"none"}]
  /\ answerOf \in [Cmds -> 0..NumCmds]

\* The buffer has one owner: from the check of the bus to CMD_PROC the EC has
\* nothing in hand, so it neither reads a half-written request nor writes a
\* late response over one.  And what the host reads from it is the response to
\* what this very attempt sent, not what an attempt before it left there.
BufferOwned ==
  /\ pc \in {"write", "clear", "proc"} => ec = "idle" /\ hostEc = "READY"
  /\ pc = "read" => buf.dir = "in" /\ buf.req = Sent

\* A command that ends with SUCCESS has been executed, and payloadin holds its
\* own answer, also when it came through GET_RESULT.
SuccessIsOwnAnswer ==
  \A k \in Cmds : result[k] = "SUCCESS" => execs[k] > 0 /\ answerOf[k] = k

\* A command that is sent again after a time-out may be executed again, the EC
\* being late with the attempt before it, but never more often than once for
\* each attempt: neither a late request of an earlier attempt nor the polls for
\* its result run it once more.
OncePerAttempt == \A k \in Cmds : execs[k] <= Retries

\* ProcCmd ends even if the EC never answers again: a dead EC does not hold the
\* EMI thread for ever.
ProcCmdEnds == pc # "idle" ~> pc = "idle"
=============================================================================
