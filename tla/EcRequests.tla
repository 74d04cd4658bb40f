------------------------------ MODULE EcRequests ------------------------------
(***************************************************************************)
(* CommandProc's EC handlers, on top of what EcCommand and EmiBus show of  *)
(* EcManager, EmiThread and the EC: commands are processed one at a time   *)
(* in the order of the queue; a caller may give up at any time and leave   *)
(* its command behind.  A command that fails may have been executed, or be *)
(* executed later: before the next one is handed over if the EC had it in  *)
(* hand, at any time if the EC runs it in the background; and one attempt  *)
(* at a command may be left in the background although a later one         *)
(* succeeded.                                                              *)
(*                                                                         *)
(* The EC's ACPI memory is one cell for each namespace.  It is assumed     *)
(* that the EC itself, and commands other than the ACPI writes, leave the  *)
(* cells alone; a raw command may be an ACPI write.                        *)
(***************************************************************************)
EXTENDS Naturals, Sequences

CONSTANTS Bytes          \* what a cell holds

ASSUME BytesAssumption == 0 \in Bytes

Spaces == {0, 1}         \* namespaceId: 0 and any other

VARIABLES
  ecReady,       \* isEcInitialized()
  ecPc, ecCall,  \* the request in progress
  emiQueue,      \* m_pCmdQueue; the command of the request in progress is its last
  ecDone,        \* completed, result and payload of that command; and (ghost)
                 \* what the EC then had in the background
  inHand,        \* command the EC has failed to answer, and may execute yet
  slow,          \* command the EC runs in the background, nobody asking for it
  acpi,          \* the EC's memory
  ecAnswer,
  (* ghost *)
  possible       \* what each cell may hold, by what clients were told

ecVars == <<ecReady, ecPc, ecCall, emiQueue, ecDone, inHand, slow, acpi, ecAnswer, possible>>

\* Handlers that take a structure from the response, those that take nothing or a
\* sequence of bytes, and those that write cells (rawWrite is a raw command with
\* the id of an ACPI write).
InfoOps  == {"dfuInfo", "batteryHealth", "smbus", "peciRead"}
PlainOps == {"raw", "ramRead", "peciWrite", "shell"}
WriteOps == {"acpiWrite", "acpiQueueWrite", "rawWrite"}
EcOps    == InfoOps \cup PlainOps \cup WriteOps \cup {"acpiRead"}

EcCalls == [op : WriteOps, ns : Spaces, data : Bytes]
      \cup [op : {"acpiRead"}, ns : Spaces, data : {0}]
      \cup [op : InfoOps \cup PlainOps, ns : {0}, data : {0}]
\* The commands of the EC, by what they do to the cells.
EcCmds  == [op : {"write"}, ns : Spaces, data : Bytes]
      \cup [op : {"read"}, ns : Spaces, data : {0}]
      \cup [op : {"other"}, ns : {0}, data : {0}]
NoEc    == [op |-> "none", ns |-> 0, data |-> 0]
NoEcAnswer == [call |-> NoEc, status |-> "none", data |-> 0]
NotDone == [status |-> "none", data |-> 0, behind |-> NoEc]

EcInit ==
  /\ ecReady = FALSE /\ ecPc = "new" /\ ecCall = NoEc /\ emiQueue = <<>>
  /\ ecDone = NotDone /\ inHand = NoEc /\ slow = NoEc
  /\ acpi = [s \in Spaces |-> 0]
  /\ ecAnswer = NoEcAnswer
  /\ possible = [s \in Spaces |-> Bytes]

-----------------------------------------------------------------------------
(* An operator named ..Fault is a plausible bug in the one that follows it; no  *)
(* specification uses it.                                                       *)

\* initializeEc: the port driver may be missing.
InitializeEc(ok) ==
  /\ ecPc = "new" /\ ecPc' = "idle"
  /\ ecReady' = ok
  /\ UNCHANGED <<ecCall, emiQueue, ecDone, inHand, slow, acpi, ecAnswer, possible>>

\* The destructor deletes the EC manager, and what is queued.
CloseEc ==
  /\ ecPc' = "closed" /\ ecReady' = FALSE /\ emiQueue' = <<>>
  /\ UNCHANGED <<ecCall, ecDone, inHand, slow, acpi, ecAnswer, possible>>

\* What a command that is executed writes to a cell.
Writes(c, s) == IF c.op = "write" /\ c.ns = s THEN {c.data} ELSE {}

\* What clients know of a cell after a write that was answered: what it wrote, or
\* what the command writes that the EC then had in the background; after a
\* failure, perhaps what it wrote.  Of the cells of a write to another namespace
\* that is queued they know nothing: handleEcAcpiQueueWrite writes all of them
\* to namespace 0.
Expected(c, ok, behind) ==
  IF c.op = "acpiQueueWrite" /\ c.ns # 0 THEN [s \in Spaces |-> Bytes]
  ELSE IF c.op \in WriteOps
       THEN [possible EXCEPT ![c.ns] =
               (IF ok THEN Writes(behind, c.ns) ELSE @) \cup {c.data}]
       ELSE possible

\* The handler returns: RES_OK is the status SUCCESS.
EcReturns(c, status, data) ==
  /\ ecPc' = "idle" /\ ecCall' = NoEc /\ ecDone' = NotDone
  /\ ecAnswer' = [call |-> c, status |-> status, data |-> data]

\* The command a handler builds (the fault: the namespace is forgotten in reads).
CommandOf(c, ns) ==
  [op |-> IF c.op \in WriteOps THEN "write" ELSE IF c.op = "acpiRead" THEN "read" ELSE "other",
   ns |-> ns, data |-> c.data]
CommandFault(c) == CommandOf(c, IF c.op = "acpiWrite" THEN c.ns ELSE 0)
Command(c) == CommandOf(c, IF c.op = "acpiQueueWrite" THEN 0 ELSE c.ns)

\* A handler begins: nothing is sent without an EC, nor is a shell command that
\* is too long.
EcRequest(c, tooLong) ==
  /\ ecPc = "idle"
  /\ tooLong => c.op = "shell"
  /\ IF ~ecReady \/ tooLong
     THEN /\ EcReturns(c, IF ecReady THEN "OVERFLOW" ELSE "UNAVAILABLE", 0)
          /\ UNCHANGED emiQueue
     ELSE /\ ecPc' = "wait" /\ ecCall' = c
          /\ emiQueue' = Append(emiQueue, Command(c))
          /\ ecAnswer' = NoEcAnswer
          /\ UNCHANGED ecDone
  /\ UNCHANGED <<ecReady, inHand, slow, acpi, possible>>

\* sendCommandSync is told that the command is done.  A structure is only copied
\* from a response that is long enough; the local variable it would fill is not
\* initialised, except peciRead's.
EcCompletes(short) ==
  /\ ecPc = "wait" /\ ecDone # NotDone
  /\ short => ecCall.op \in InfoOps
  /\ LET ok == ecDone.status = "SUCCESS"
     IN  /\ EcReturns(ecCall, ecDone.status,
                      IF ~ok \/ (ecCall.op = "peciRead" /\ short) THEN 0
                      ELSE IF short THEN "indeterminate" ELSE ecDone.data)
         /\ possible' = Expected(ecCall, ok, ecDone.behind)
  /\ UNCHANGED <<ecReady, emiQueue, inHand, slow, acpi>>

\* It gives up, whatever has become of the command.
EcTimesOut ==
  /\ ecPc = "wait" /\ ecDone = NotDone
  /\ EcReturns(ecCall, "TIMEOUT", 0)
  /\ possible' = Expected(ecCall, FALSE, NoEc)
  /\ UNCHANGED <<ecReady, emiQueue, inHand, slow, acpi>>

-----------------------------------------------------------------------------
(* EMI thread and EC (see EcCommand, EmiBus) *)

Executed(c) == acpi' = [s \in Spaces |-> IF Writes(c, s) = {} THEN acpi[s] ELSE c.data]

\* The status is that of the caller, if it still waits for this command.
Completes(status, data) ==
  ecDone' = IF ecPc = "wait" /\ Len(emiQueue) = 1
            THEN [status |-> status, data |-> data, behind |-> slow] ELSE ecDone

\* ProcCmd ends, after all its attempts: the command was executed and answered ...
\* An attempt before the last one may have timed out and gone to the background.
EmiAnswered(stray) ==
  /\ emiQueue # <<>> /\ emiQueue' = Tail(emiQueue)
  /\ inHand = NoEc
  /\ stray => slow = NoEc
  /\ LET c == Head(emiQueue)
     IN  /\ Executed(c)
         /\ Completes("SUCCESS", IF c.op = "read" THEN acpi[c.ns] ELSE 0)
         /\ slow' = IF stray THEN c ELSE slow
  /\ UNCHANGED <<ecReady, ecPc, ecCall, inHand, ecAnswer, possible>>

\* ... or it failed.  If it was handed over, the EC has it in hand yet, or in the
\* background, or both; to hand it over the EC must be done with the one before.
EmiFails(handed, stray) ==
  /\ emiQueue # <<>> /\ emiQueue' = Tail(emiQueue)
  /\ handed \/ stray => inHand = NoEc
  /\ stray => slow = NoEc
  /\ inHand' = IF handed THEN Head(emiQueue) ELSE inHand
  /\ slow'   = IF stray  THEN Head(emiQueue) ELSE slow
  /\ Completes("ERROR", 0)
  /\ UNCHANGED <<ecReady, ecPc, ecCall, acpi, ecAnswer, possible>>

\* The EC is done with what it has in hand: it has executed or refused it, or
\* goes on in the background.
EcAnswersLate ==
  /\ inHand # NoEc /\ inHand' = NoEc
  /\ \/ Executed(inHand) /\ UNCHANGED slow
     \/ UNCHANGED <<acpi, slow>>
     \/ slow = NoEc /\ slow' = inHand /\ UNCHANGED acpi
  /\ UNCHANGED <<ecReady, ecPc, ecCall, emiQueue, ecDone, ecAnswer, possible>>

\* It executes what it has in the background, whatever it was sent meanwhile.
EcSlowDone ==
  /\ slow # NoEc /\ slow' = NoEc
  /\ Executed(slow)
  /\ UNCHANGED <<ecReady, ecPc, ecCall, emiQueue, ecDone, inHand, ecAnswer, possible>>

EcStep ==
  \/ \E ok \in BOOLEAN : InitializeEc(ok) \/ EcCompletes(ok)
  \/ EcTimesOut
  \/ \E handed, stray \in BOOLEAN : EmiAnswered(stray) \/ EmiFails(handed, stray)
  \/ EcAnswersLate \/ EcSlowDone

-----------------------------------------------------------------------------
(* Properties *)

EcTypeOK ==
  /\ ecReady \in BOOLEAN /\ ecPc \in {"new", "idle", "wait", "closed"}
  /\ ecCall \in EcCalls \cup {NoEc} /\ {inHand, slow} \subseteq EcCmds \cup {NoEc}
  /\ \A i \in DOMAIN emiQueue : emiQueue[i] \in EcCmds
  /\ ecPc = "wait" <=> ecCall # NoEc
  /\ ecPc = "wait" /\ ecDone = NotDone => emiQueue # <<>>
  /\ acpi \in [Spaces -> Bytes] /\ possible \in [Spaces -> SUBSET Bytes]

\* A read of the EC's memory that succeeds tells what the last write that
\* succeeded wrote to that namespace, what a write wrote that failed after it, or
\* what the one command writes that the EC still had in the background when that
\* last write was answered; no other command that was given up before comes
\* after it.  (Of namespace 1 nothing is known once a write was queued for it,
\* which goes to namespace 0.)
AcpiReadsBack ==
  LET a == ecAnswer
  IN  a.call.op = "acpiRead" /\ a.status = "SUCCESS" => a.data \in possible[a.call.ns]
=============================================================================
