---------------------------- MODULE BezelActions -----------------------------
(***************************************************************************)
(* From a bezel button to a monitor client.  BezelMonitor's poll timer     *)
(* reads the EC's button, slider and device registers, one EC command      *)
(* each, and queues an action command for every rising edge; a client      *)
(* takes what is queued with PollActionCommandsRequest, in a response that *)
(* may not reach it, and sends the results back.                           *)
(*                                                                         *)
(* The timer, the pipes' handlers and the shutdown all run on the service's *)
(* main thread, so a client's request never falls inside a poll; the user  *)
(* does, between any two of the poll's reads.  Any read may fail.          *)
(***************************************************************************)
EXTENDS Naturals, Sequences, FiniteSets

CONSTANTS NumButtons,     \* 6 in the code
          Positions,      \* of the slider; 0 among them, the monitor's initial one
          Devices,        \* bezels that can be plugged in
          Clients,        \* clients that poll for action commands
          PresenceEvery,  \* polls between two presence checks (100 in the code)
          MaxPresses, MaxMoves, MaxSwaps  \* bounds on what the user does

ASSUME NumButtonsAssumption == NumButtons \in Nat
ASSUME PositionsAssumption  == 0 \in Positions
ASSUME DevicesAssumption    == "none" \notin Devices
ASSUME PresenceAssumption   == PresenceEvery \in Nat \ {0}
ASSUME BoundsAssumption     == {MaxPresses, MaxMoves, MaxSwaps} \subseteq Nat

Buttons == 1..NumButtons
None    == "none"              \* device ids 0x00 and 0xFF

VARIABLES
  down, pos, device,           \* the EC's registers
  running, firstPoll, present, deviceId, lastButton, lastSlider,
  presenceCounter,             \* BezelMonitor (the counter is a static of the poll)
  pc, buttonState, sliderPos,  \* a poll in progress
  queue, nextId, results,      \* ActionCommandQueue
  inFlight, received, lost,    \* commands in a response, with a client, gone
  (* ghosts *)
  presses, moves, swaps,       \* what the user has done
  reported, sliderEvents,      \* events queued, per button and for the slider
  blind                        \* the baseline's slider position was not read

hwVars      == <<down, pos, device, presses, moves, swaps>>
monitorVars == <<running, firstPoll, present, deviceId, lastButton, lastSlider,
                 presenceCounter, pc, buttonState, sliderPos>>
eventVars   == <<reported, sliderEvents, blind>>
queueVars   == <<queue, nextId>>
clientVars  == <<inFlight, received, lost, results>>
vars == <<hwVars, monitorVars, eventVars, queueVars, clientVars>>

Init ==
  /\ down \in SUBSET Buttons /\ pos \in Positions /\ device \in Devices \cup {None}
  /\ presses = [b \in Buttons |-> 0] /\ moves = 0 /\ swaps = 0
  /\ running = FALSE /\ firstPoll = TRUE /\ present = FALSE /\ deviceId = None
  /\ lastButton = {} /\ lastSlider = 0 /\ presenceCounter = 0
  /\ pc = "new" /\ buttonState = {} /\ sliderPos = 0
  /\ reported = [b \in Buttons |-> 0] /\ sliderEvents = 0 /\ blind = FALSE
  /\ queue = <<>> /\ nextId = 1 /\ results = {}
  /\ inFlight = [c \in Clients |-> <<>>] /\ received = [c \in Clients |-> <<>>]
  /\ lost = {}

-----------------------------------------------------------------------------
(* The user (external) *)

HwOnly == UNCHANGED <<monitorVars, eventVars, queueVars, clientVars>>

Press(b) ==
  /\ b \notin down /\ presses[b] < MaxPresses
  /\ down' = down \cup {b} /\ presses' = [presses EXCEPT ![b] = @ + 1]
  /\ UNCHANGED <<pos, device, moves, swaps>> /\ HwOnly

LetGo(b) ==
  /\ b \in down /\ down' = down \ {b}
  /\ UNCHANGED <<pos, device, presses, moves, swaps>> /\ HwOnly

Move(p) ==
  /\ p # pos /\ moves < MaxMoves
  /\ pos' = p /\ moves' = moves + 1
  /\ UNCHANGED <<down, device, presses, swaps>> /\ HwOnly

Swap(d) ==
  /\ d # device /\ swaps < MaxSwaps
  /\ device' = d /\ swaps' = swaps + 1
  /\ UNCHANGED <<down, pos, presses, moves>> /\ HwOnly

-----------------------------------------------------------------------------
(* BezelMonitor.  An operator named ..Fault is a plausible bug in the one that *)
(* follows it; no specification uses it.                                       *)

\* start(): the device id, if it can be read.
Start(ok) ==
  /\ pc = "new" /\ pc' = "idle"
  /\ running' = TRUE /\ firstPoll' = TRUE
  /\ deviceId' = IF ok THEN device ELSE deviceId
  /\ present' = (deviceId' # None)
  /\ UNCHANGED <<lastButton, lastSlider, presenceCounter, buttonState, sliderPos,
                 hwVars, eventVars, queueVars, clientVars>>

\* stop(), from the service's cleanup: the requests of clients are not handled
\* any more either.
Stop ==
  /\ pc = "idle" /\ running
  /\ running' = FALSE
  /\ UNCHANGED <<firstPoll, present, deviceId, lastButton, lastSlider,
                 presenceCounter, pc, buttonState, sliderPos,
                 hwVars, eventVars, queueVars, clientVars>>

\* onPollTimer reads the buttons; without them the poll is over.
ReadButtons(ok) ==
  /\ pc = "idle" /\ running
  /\ IF ok THEN pc' = "slider" /\ buttonState' = down
           ELSE UNCHANGED <<pc, buttonState>>
  /\ UNCHANGED <<running, firstPoll, present, deviceId, lastButton, lastSlider,
                 presenceCounter, sliderPos, hwVars, eventVars, queueVars, clientVars>>

\* The slider; a failed read stands for no change.  (The faults: for the
\* position of an empty answer; the slider is looked at only when a button
\* changed.)
SliderReadSkipFault(ok) == IF ok /\ buttonState # lastButton THEN pos ELSE lastSlider
SliderReadFault(ok) == IF ok THEN pos ELSE 0
SliderRead(ok) == IF ok THEN pos ELSE lastSlider

\* if (++presenceCounter >= 100)
PresenceDueFault == presenceCounter + 1 > PresenceEvery
PresenceDue == presenceCounter + 1 >= PresenceEvery

ReadSlider(ok) ==
  /\ pc = "slider"
  /\ pc' = IF PresenceDue THEN "presence" ELSE "process"
  /\ presenceCounter' = IF PresenceDue THEN 0 ELSE presenceCounter + 1
  /\ sliderPos' = SliderRead(ok)
  /\ blind' = (blind \/ (firstPoll /\ ~ok))
  /\ UNCHANGED <<running, firstPoll, present, deviceId, lastButton, lastSlider,
                 buttonState, reported, sliderEvents,
                 hwVars, queueVars, clientVars>>

\* The presence check: only a bezel that comes or goes is noted.
Presence(d) ==
  IF (d # None) # present THEN present' = (d # None) /\ deviceId' = d
                          ELSE UNCHANGED <<present, deviceId>>

ReadPresence(ok) ==
  /\ pc = "presence" /\ pc' = "process"
  /\ IF ok THEN Presence(device) ELSE UNCHANGED <<present, deviceId>>
  /\ UNCHANGED <<running, firstPoll, lastButton, lastSlider, presenceCounter,
                 buttonState, sliderPos, hwVars, eventVars, queueVars, clientVars>>

\* processButtonState: rising edges (the faults: every change of a button;
\* falling edges).
RisingEdgesAnyFault == (buttonState \ lastButton) \cup (lastButton \ buttonState)
RisingEdgesFault == lastButton \ buttonState
RisingEdges == buttonState \ lastButton

\* processSliderState
SliderChanged == sliderPos # lastSlider

\* triggerEvent, queueCommand: the next id, at the end of the queue.
EnqueueFault(cmds) == queue' = cmds \o queue
Enqueue(cmds) == queue' = queue \o cmds

\* The events of a poll, one for each edge and one for the slider: that many
\* commands with the ids from nextId on.
NumEvents == Cardinality(RisingEdges) + (IF SliderChanged THEN 1 ELSE 0)
NewCommands == [i \in 1..NumEvents |-> nextId + i - 1]

\* The end of a poll, and of its local variables.
PollEnds == pc' = "idle" /\ buttonState' = {} /\ sliderPos' = 0

\* The first poll: the baseline is captured and nothing is queued.
Baseline ==
  /\ pc = "process" /\ firstPoll
  /\ firstPoll' = FALSE
  /\ lastButton' = buttonState /\ lastSlider' = sliderPos
  /\ PollEnds
  /\ UNCHANGED <<running, present, deviceId, presenceCounter,
                 hwVars, eventVars, queueVars, clientVars>>

\* Every other poll: processButtonState and processSliderState, with all the
\* triggerActionEvent calls they make.
Process ==
  /\ pc = "process" /\ ~firstPoll
  /\ lastButton' = buttonState /\ lastSlider' = sliderPos
  /\ Enqueue(NewCommands)
  /\ nextId' = nextId + NumEvents
  /\ reported' = [b \in Buttons |-> reported[b] + (IF b \in RisingEdges THEN 1 ELSE 0)]
  /\ sliderEvents' = sliderEvents + (IF SliderChanged THEN 1 ELSE 0)
  /\ PollEnds
  /\ UNCHANGED <<running, firstPoll, present, deviceId, presenceCounter,
                 blind, hwVars, clientVars>>

-----------------------------------------------------------------------------
(* The clients' requests, on the same thread *)

ClientOnly == UNCHANGED <<hwVars, monitorVars, eventVars, nextId>>

\* takePending moves the whole queue into the response (the fault: it copies
\* the queue).
TakePendingCopyFault(c) ==
  inFlight' = [inFlight EXCEPT ![c] = queue] /\ UNCHANGED queue
TakePending(c) ==
  inFlight' = [inFlight EXCEPT ![c] = queue] /\ queue' = <<>>

\* handlePollActionCommands, for a client that waits for one response at a time.
PollActionCommands(c) ==
  /\ pc = "idle" /\ running /\ queue # <<>> /\ inFlight[c] = <<>>
  /\ TakePending(c)
  /\ ClientOnly /\ UNCHANGED <<received, lost, results>>

\* The response reaches the client (external) ...
Receive(c) ==
  /\ inFlight[c] # <<>>
  /\ received' = [received EXCEPT ![c] = @ \o inFlight[c]]
  /\ inFlight' = [inFlight EXCEPT ![c] = <<>>]
  /\ ClientOnly /\ UNCHANGED <<queue, lost, results>>

\* ... or sendResponse cannot write it, or the client is gone: its commands
\* are in no queue any more.
Lose(c) ==
  /\ inFlight[c] # <<>>
  /\ lost' = lost \cup {inFlight[c][i] : i \in DOMAIN inFlight[c]}
  /\ inFlight' = [inFlight EXCEPT ![c] = <<>>]
  /\ ClientOnly /\ UNCHANGED <<queue, received, results>>

\* handleActionCommandResult, storeResult: an entry that nothing takes out
\* (waitForResult has no caller).  A client answers its commands in order.
StoreResult(c) ==
  /\ pc = "idle" /\ running
  /\ \E i \in DOMAIN received[c] :
       /\ \A j \in 1..(i - 1) : received[c][j] \in results
       /\ received[c][i] \notin results
       /\ results' = results \cup {received[c][i]}
  /\ ClientOnly /\ UNCHANGED <<queue, inFlight, received, lost>>

-----------------------------------------------------------------------------
Next ==
  \/ \E b \in Buttons : Press(b) \/ LetGo(b)
  \/ \E p \in Positions : Move(p)
  \/ \E d \in Devices \cup {None} : Swap(d)
  \/ \E ok \in BOOLEAN : \/ Start(ok)      \/ ReadButtons(ok)
                         \/ ReadSlider(ok) \/ ReadPresence(ok)
  \/ Baseline \/ Process \/ Stop
  \/ \E c \in Clients : \/ PollActionCommands(c) \/ Receive(c)
                        \/ Lose(c)               \/ StoreResult(c)

Spec == Init /\ [][Next]_vars

\* The main thread runs its timer and finishes the polls it begins.
ThreadFairness == /\ WF_vars(\E ok \in BOOLEAN : ReadButtons(ok) \/ ReadSlider(ok)
                                                   \/ ReadPresence(ok))
                  /\ WF_vars(Baseline \/ Process)

\* The EC answers each kind of read again and again.
EcAnswers == /\ SF_vars(ReadButtons(TRUE)) /\ SF_vars(ReadSlider(TRUE))
             /\ SF_vars(ReadPresence(TRUE))

FairSpec == Spec /\ ThreadFairness /\ EcAnswers

-----------------------------------------------------------------------------
(* Properties *)

TypeOK ==
  /\ down \subseteq Buttons /\ buttonState \subseteq Buttons /\ lastButton \subseteq Buttons
  /\ {pos, sliderPos, lastSlider} \subseteq Positions
  /\ {device, deviceId} \subseteq Devices \cup {None}
  /\ {running, firstPoll, present, blind} \subseteq BOOLEAN
  /\ presenceCounter \in 0..(PresenceEvery - 1)
  /\ pc \in {"new", "idle", "slider", "presence", "process"}
  /\ nextId \in Nat \ {0}
  /\ queue \in Seq(Nat) /\ results \subseteq Nat /\ lost \subseteq Nat
  /\ inFlight \in [Clients -> Seq(Nat)] /\ received \in [Clients -> Seq(Nat)]
  /\ presses \in [Buttons -> Nat] /\ reported \in [Buttons -> Nat]
  /\ {moves, swaps, sliderEvents} \subseteq Nat

\* Every button event stands for a press of its own, made after the service
\* started: a button that was down already, one that is held through many polls
\* and reads that fail or skip in between give no event.
EventMeansPress == \A b \in Buttons : reported[b] <= presses[b]

\* The slider events are no more than its moves, and one for a baseline whose
\* slider position could not be read.
SliderEventsBounded == sliderEvents <= moves + (IF blind THEN 1 ELSE 0)

\* "First poll: just capture baseline, don't fire events": an event is a move of
\* the slider since then.  (Does not hold: when the first poll cannot read the
\* slider the baseline is 0, and the second poll fires for a slider that
\* nobody touched.)
SliderEventMeansMove == sliderEvents <= moves

\* A queued command is in exactly one place: in the queue, in one response, with
\* one client, or lost with its response.
InQueue(k)    == {<<"queue", i>> : i \in {j \in DOMAIN queue : queue[j] = k}}
InFlight(k)   == UNION {{<<"inFlight", c, i>> : i \in {j \in DOMAIN inFlight[c] : inFlight[c][j] = k}}
                         : c \in Clients}
InReceived(k) == UNION {{<<"received", c, i>> : i \in {j \in DOMAIN received[c] : received[c][j] = k}}
                         : c \in Clients}
InLost(k)     == IF k \in lost THEN {<<"lost">>} ELSE {}
Places(k)     == InQueue(k) \cup InFlight(k) \cup InReceived(k) \cup InLost(k)

CommandInOnePlace == \A k \in 1..(nextId - 1) : Cardinality(Places(k)) = 1

\* Every client sees commands in the order they were queued, whoever else polls.
CommandsInOrder ==
  \A c \in Clients :
    LET seen == received[c] \o inFlight[c] \o queue
    IN \A i, j \in DOMAIN seen : i < j => seen[i] < seen[j]

\* A press that is held long enough is reported, as long as the EC goes on
\* answering and the service is not stopped.
HeldPressReported ==
  \A b \in Buttons, n \in 0..MaxPresses :
    (b \in down \ lastButton /\ ~firstPoll /\ running /\ reported[b] = n)
      ~> (reported[b] > n \/ b \notin down \/ ~running)

\* The monitor catches up with a slider that rests, however many reads failed
\* before, and whatever became of the bezel meanwhile.
SliderSettles ==
  \A p \in Positions : <>[](pos = p /\ running) => <>[](lastSlider = p)
=============================================================================
