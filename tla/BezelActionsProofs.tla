------------------------- MODULE BezelActionsProofs --------------------------
(***************************************************************************)
(* Proofs about BezelActions, for any number of buttons, positions,        *)
(* bezels and clients, whatever the user, the EC and the clients do: the    *)
(* types, that an event stands for something the user did, and that a      *)
(* command is in one place and reaches every client in order.               *)
(***************************************************************************)
EXTENDS BezelActions, FiniteSetTheorems, SequenceTheorems, TLAPS

Polling == pc \in {"slider", "presence", "process"}

\* A press that no event stands for yet: of a button that went down after the
\* last read of the buttons, or one that the poll in progress has seen.
Unread(b) == IF Polling THEN b \in down \ buttonState ELSE ~firstPoll /\ b \in down \ lastButton
Edge(b)   == Polling /\ ~firstPoll /\ b \in buttonState \ lastButton

PressInv ==
  \A b \in Buttons : /\ reported[b] <= presses[b]
                     /\ Unread(b) \/ Edge(b) => reported[b] < presses[b]
                     /\ firstPoll => reported[b] = 0

\* The same of the slider: each difference between where it is, what the poll in
\* progress read and the position before is a move of its own, or the baseline
\* that could not be read.
Owed == IF blind THEN moves + 1 ELSE moves
SliderSeen == pc \in {"presence", "process"}
Moved(a, b) == IF a = b THEN 0 ELSE 1

SliderInv ==
  /\ firstPoll => sliderEvents = 0
  /\ pc = "new" => firstPoll
  /\ sliderEvents <= Owed
  /\ ~firstPoll /\ ~SliderSeen => sliderEvents + Moved(pos, lastSlider) <= Owed
  /\ firstPoll /\ SliderSeen   => Moved(pos, sliderPos) <= Owed
  /\ ~firstPoll /\ SliderSeen  =>
       sliderEvents + Moved(sliderPos, lastSlider) + Moved(pos, sliderPos) <= Owed

\* Where the commands are, as sets of ids.
Ids(s) == {s[i] : i \in DOMAIN s}
Has(c) == Ids(received[c]) \cup Ids(inFlight[c])
Increasing(s) == \A i, j \in DOMAIN s : i < j => s[i] < s[j]
AllBelow(A, B) == \A a \in A, b \in B : a < b

OrderInv ==
  /\ Increasing(queue)
  /\ \A c \in Clients : /\ Increasing(received[c]) /\ Increasing(inFlight[c])
                        /\ AllBelow(Ids(received[c]), Ids(inFlight[c]))
                        /\ AllBelow(Has(c), Ids(queue))

PlaceInv ==
  /\ Ids(queue) \cup lost \cup UNION {Has(c) : c \in Clients} = 1..(nextId - 1)
  /\ lost \cap Ids(queue) = {}
  /\ \A c \in Clients : lost \cap Has(c) = {}
  /\ \A c, d \in Clients : c # d => Has(c) \cap Has(d) = {}

IInv == TypeOK /\ PressInv /\ SliderInv /\ OrderInv /\ PlaceInv

-----------------------------------------------------------------------------
USE NumButtonsAssumption, PositionsAssumption, DevicesAssumption, PresenceAssumption,
    BoundsAssumption
USE DEF vars, hwVars, monitorVars, eventVars, queueVars, clientVars

\* Concatenation, of the ids and of the order.
LEMMA ConcatIds ==
  ASSUME NEW s \in Seq(Nat), NEW t \in Seq(Nat)
  PROVE  s \o t \in Seq(Nat) /\ Ids(s \o t) = Ids(s) \cup Ids(t)
<1>1. /\ s \o t \in Seq(Nat) /\ Len(s \o t) = Len(s) + Len(t)
      /\ Len(s) \in Nat /\ Len(t) \in Nat
      /\ DOMAIN s = 1..Len(s) /\ DOMAIN t = 1..Len(t)
      /\ DOMAIN (s \o t) = 1..(Len(s) + Len(t))
  OBVIOUS
<1>2. \A i \in 1..Len(s) : (s \o t)[i] = s[i]
  BY <1>1
<1>3. \A i \in 1..Len(t) : Len(s) + i \in 1..(Len(s) + Len(t)) /\ (s \o t)[Len(s) + i] = t[i]
  BY <1>1
<1>4. \A i \in 1..(Len(s) + Len(t)) : i \in 1..Len(s) \/ i - Len(s) \in 1..Len(t)
  BY <1>1
<1>5. ASSUME NEW x \in Ids(s \o t) PROVE x \in Ids(s) \cup Ids(t)
  <2>1. PICK i \in 1..(Len(s) + Len(t)) : x = (s \o t)[i]
    BY <1>1, <1>5 DEF Ids
  <2>2. CASE i \in 1..Len(s)
    BY <1>1, <1>2, <2>1, <2>2 DEF Ids
  <2>3. CASE i - Len(s) \in 1..Len(t)
    <3>1. i = Len(s) + (i - Len(s))
      BY <1>1
    <3>2. x = t[i - Len(s)]
      BY <1>3, <2>1, <2>3, <3>1
    <3> QED BY <1>1, <2>3, <3>2 DEF Ids
  <2> QED BY <1>4, <2>2, <2>3
<1>6. ASSUME NEW x \in Ids(s) PROVE x \in Ids(s \o t)
  <2>1. PICK i \in 1..Len(s) : x = s[i]
    BY <1>1, <1>6 DEF Ids
  <2> QED BY <1>1, <1>2, <2>1 DEF Ids
<1>7. ASSUME NEW x \in Ids(t) PROVE x \in Ids(s \o t)
  <2>1. PICK i \in 1..Len(t) : x = t[i]
    BY <1>1, <1>7 DEF Ids
  <2> QED BY <1>1, <1>3, <2>1 DEF Ids
<1> QED BY <1>1, <1>5, <1>6, <1>7

\* Two sequences in order are one, if the first one's ids come before the second's.
LEMMA ConcatIncreasing ==
  ASSUME NEW s \in Seq(Nat), NEW t \in Seq(Nat), Increasing(s), Increasing(t),
         AllBelow(Ids(s), Ids(t))
  PROVE  Increasing(s \o t)
<1>1. /\ Len(s) \in Nat /\ Len(t) \in Nat
      /\ DOMAIN s = 1..Len(s) /\ DOMAIN t = 1..Len(t)
      /\ DOMAIN (s \o t) = 1..(Len(s) + Len(t))
  OBVIOUS
<1>2. /\ \A k \in 1..Len(s) : (s \o t)[k] = s[k] /\ s[k] \in Ids(s) /\ s[k] \in Nat
      /\ \A k \in 1..(Len(s) + Len(t)) : k > Len(s) =>
           /\ k - Len(s) \in 1..Len(t)
           /\ (s \o t)[k] = t[k - Len(s)] /\ t[k - Len(s)] \in Ids(t)
  <2>1. \A k \in 1..Len(s) : (s \o t)[k] = s[k]
    BY <1>1
  <2>2. \A k \in 1..Len(s) : s[k] \in Ids(s)
    BY <1>1 DEF Ids
  <2>5. \A k \in 1..Len(s) : s[k] \in Nat
    BY <1>1
  <2>3. \A k \in 1..(Len(s) + Len(t)) : k > Len(s) =>
           k - Len(s) \in 1..Len(t) /\ (s \o t)[k] = t[k - Len(s)]
    BY <1>1
  <2>4. \A k \in 1..Len(t) : t[k] \in Ids(t)
    BY <1>1 DEF Ids
  <2> QED BY <2>1, <2>2, <2>3, <2>4, <2>5
<1> SUFFICES ASSUME NEW i \in 1..(Len(s) + Len(t)), NEW j \in 1..(Len(s) + Len(t)), i < j
             PROVE  (s \o t)[i] < (s \o t)[j]
  BY <1>1 DEF Increasing
<1>3. CASE j \in 1..Len(s)
  <2>1. i \in 1..Len(s)
    BY <1>1, <1>3
  <2>2. s[i] < s[j]
    BY <1>1, <1>3, <2>1 DEF Increasing
  <2> QED BY <1>2, <1>3, <2>1, <2>2
<1>4. CASE i \in 1..Len(s) /\ j > Len(s)
  <2>1. s[i] \in Ids(s) /\ t[j - Len(s)] \in Ids(t)
    BY <1>2, <1>4
  <2>2. s[i] < t[j - Len(s)]
    BY <2>1 DEF AllBelow
  <2> QED BY <1>2, <1>4, <2>2
<1>5. CASE i > Len(s)
  <2>1. /\ i - Len(s) \in 1..Len(t) /\ j - Len(s) \in 1..Len(t) /\ i - Len(s) < j - Len(s)
        /\ j > Len(s)
    BY <1>1, <1>2, <1>5
  <2>2. t[i - Len(s)] < t[j - Len(s)]
    BY <1>1, <2>1 DEF Increasing
  <2> QED BY <1>2, <1>5, <2>1, <2>2
<1> QED BY <1>1, <1>3, <1>4, <1>5

\* Ids are numbers.
LEMMA IdsType == \A s \in Seq(Nat) : \A i \in DOMAIN s : s[i] \in Nat /\ s[i] \in Ids(s)
<1>1. \A s \in Seq(Nat) : \A i \in DOMAIN s : s[i] \in Nat
  OBVIOUS
<1> QED BY <1>1 DEF Ids

\* The ids of nothing.
LEMMA NoIds == <<>> \in Seq(Nat) /\ Ids(<<>>) = {} /\ Increasing(<<>>)
BY DEF Ids, Increasing

\* The new commands have the next ids, in order.
LEMMA NewCommandsIds ==
  ASSUME TypeOK
  PROVE  /\ NumEvents \in Nat /\ NewCommands \in Seq(Nat)
         /\ Ids(NewCommands) = nextId..(nextId + NumEvents - 1)
         /\ Increasing(NewCommands)
<1>1. IsFiniteSet(Buttons)
  BY FS_Interval DEF Buttons
<1>2. RisingEdges \in SUBSET Buttons
  BY DEF TypeOK, RisingEdges
<1>3. Cardinality(RisingEdges) \in Nat
  BY <1>1, <1>2, FS_Subset, FS_CardinalityType
<1>4. NumEvents \in Nat
  BY <1>3 DEF NumEvents
<1>5. nextId \in Nat \ {0}
  BY DEF TypeOK
<1>6. /\ DOMAIN NewCommands = 1..NumEvents
      /\ \A i \in 1..NumEvents : NewCommands[i] = nextId + i - 1 /\ NewCommands[i] \in Nat
  BY <1>4, <1>5 DEF NewCommands
<1>7. NewCommands \in [1..NumEvents -> Nat]
  BY <1>6 DEF NewCommands
<1>8. NewCommands \in Seq(Nat)
  BY <1>4, <1>7
<1>9. Increasing(NewCommands)
  BY <1>4, <1>5, <1>6 DEF Increasing
<1>10. ASSUME NEW x \in nextId..(nextId + NumEvents - 1) PROVE x \in Ids(NewCommands)
  <2>1. x - nextId + 1 \in 1..NumEvents /\ NewCommands[x - nextId + 1] = x
    BY <1>4, <1>5, <1>6
  <2> QED BY <1>6, <2>1 DEF Ids
<1>11. ASSUME NEW x \in Ids(NewCommands) PROVE x \in nextId..(nextId + NumEvents - 1)
  BY <1>4, <1>5, <1>6 DEF Ids
<1> QED BY <1>4, <1>8, <1>9, <1>10, <1>11

\* Every step keeps the type of every variable.
LEMMA TypeOKStep == TypeOK /\ [Next]_vars => TypeOK'
<1> SUFFICES ASSUME TypeOK, [Next]_vars PROVE TypeOK'
  OBVIOUS
<1> USE DEF TypeOK
<1>1. ASSUME NEW b \in Buttons, Press(b) \/ LetGo(b) PROVE TypeOK'
  <2>1. down' \subseteq Buttons
    <3>1. CASE Press(b)
      BY <3>1 DEF Press
    <3>2. CASE LetGo(b)
      <4>1. down' = down \ {b}
        BY <3>2 DEF LetGo
      <4> QED BY <4>1
    <3> QED BY <1>1, <3>1, <3>2
  <2>3. presses' = [presses EXCEPT ![b] = presses[b] + 1] \/ presses' = presses
    BY <1>1 DEF Press, LetGo
  <2>2. presses' \in [Buttons -> Nat]
    <3>1. presses \in [Buttons -> Nat] /\ presses[b] + 1 \in Nat
      OBVIOUS
    <3> QED BY <2>3, <3>1
  <2> QED BY <1>1, <2>1, <2>2 DEF Press, LetGo, HwOnly
<1>2. ASSUME NEW p \in Positions, Move(p) PROVE TypeOK'
  BY <1>2 DEF Move, HwOnly
<1>3. ASSUME NEW d \in Devices \cup {None}, Swap(d) PROVE TypeOK'
  BY <1>3 DEF Swap, HwOnly
<1>4. ASSUME NEW ok \in BOOLEAN, Start(ok) PROVE TypeOK'
  <2>1. deviceId' \in Devices \cup {None} /\ present' \in BOOLEAN
    BY <1>4 DEF Start
  <2> QED BY <1>4, <2>1 DEF Start
<1>5. ASSUME NEW ok \in BOOLEAN, ReadButtons(ok) PROVE TypeOK'
  BY <1>5 DEF ReadButtons
<1>6. ASSUME NEW ok \in BOOLEAN, ReadSlider(ok) PROVE TypeOK'
  <2>1. presenceCounter' \in 0..(PresenceEvery - 1) /\ pc' \in {"presence", "process"}
    BY <1>6 DEF ReadSlider, PresenceDue
  <2>2. sliderPos' \in Positions
    BY <1>6 DEF ReadSlider, SliderRead
  <2>3. blind' \in BOOLEAN
    BY <1>6 DEF ReadSlider
  <2> QED BY <1>6, <2>1, <2>2, <2>3 DEF ReadSlider
<1>7. ASSUME NEW ok \in BOOLEAN, ReadPresence(ok) PROVE TypeOK'
  BY <1>7 DEF ReadPresence, Presence
<1>8. CASE Baseline \/ Stop
  BY <1>8 DEF Baseline, Stop, PollEnds
<1>9. CASE Process
  <2>3. NumEvents \in Nat /\ NewCommands \in Seq(Nat)
    BY NewCommandsIds
  <2>4. queue \o NewCommands \in Seq(Nat)
    BY <2>3, ConcatIds
  <2>1. queue' \in Seq(Nat) /\ nextId' \in Nat \ {0}
    BY <1>9, <2>3, <2>4 DEF Process, Enqueue
  <2>2. reported' \in [Buttons -> Nat] /\ sliderEvents' \in Nat
    BY <1>9 DEF Process
  <2> QED BY <1>9, <2>1, <2>2 DEF Process, PollEnds
<1>10. ASSUME NEW c \in Clients, PollActionCommands(c) PROVE TypeOK'
  BY <1>10 DEF PollActionCommands, TakePending, ClientOnly
<1>11. ASSUME NEW c \in Clients, Receive(c) PROVE TypeOK'
  <2>1. received[c] \o inFlight[c] \in Seq(Nat)
    BY ConcatIds
  <2>2. /\ received' = [received EXCEPT ![c] = received[c] \o inFlight[c]]
        /\ inFlight' = [inFlight EXCEPT ![c] = <<>>]
        /\ ClientOnly /\ UNCHANGED <<queue, lost, results>>
    BY <1>11 DEF Receive
  <2>3. received' \in [Clients -> Seq(Nat)] /\ inFlight' \in [Clients -> Seq(Nat)]
    <3>1. /\ received \in [Clients -> Seq(Nat)] /\ inFlight \in [Clients -> Seq(Nat)]
          /\ <<>> \in Seq(Nat)
      BY NoIds
    <3> HIDE DEF TypeOK
    <3> QED BY <2>1, <2>2, <3>1
  <2> QED BY <2>2, <2>3 DEF ClientOnly
<1>12. ASSUME NEW c \in Clients, Lose(c) PROVE TypeOK'
  <2>1. lost' \subseteq Nat
    BY <1>12, IdsType DEF Lose
  <2>2. inFlight' \in [Clients -> Seq(Nat)]
    BY <1>12, NoIds DEF Lose
  <2> QED BY <1>12, <2>1, <2>2 DEF Lose, ClientOnly
<1>13. ASSUME NEW c \in Clients, StoreResult(c) PROVE TypeOK'
  <2>1. results' \subseteq Nat
    <3>1. PICK i \in DOMAIN received[c] : results' = results \cup {received[c][i]}
      BY <1>13 DEF StoreResult
    <3>2. received[c][i] \in Nat
      BY IdsType
    <3> QED BY <3>1, <3>2
  <2> QED BY <1>13, <2>1 DEF StoreResult, ClientOnly
<1>14. CASE UNCHANGED vars
  BY <1>14
<1> QED BY <1>1, <1>2, <1>3, <1>4, <1>5, <1>6, <1>7, <1>8, <1>9, <1>10, <1>11, <1>12,
           <1>13, <1>14 DEF Next

\* An event of a button is a press that no event stood for.
LEMMA PressStep == TypeOK /\ PressInv /\ SliderInv /\ [Next]_vars => PressInv'
<1> SUFFICES ASSUME TypeOK, PressInv, SliderInv, [Next]_vars, NEW b \in Buttons
             PROVE  (/\ reported[b] <= presses[b]
                     /\ Unread(b) \/ Edge(b) => reported[b] < presses[b]
                     /\ firstPoll => reported[b] = 0)'
  BY DEF PressInv
<1> DEFINE Good == /\ reported[b] <= presses[b]
                   /\ Unread(b) \/ Edge(b) => reported[b] < presses[b]
                   /\ firstPoll => reported[b] = 0
<1>0. /\ Good /\ reported[b] \in Nat /\ presses[b] \in Nat
      /\ pc = "new" => firstPoll
  BY DEF PressInv, SliderInv, TypeOK
<1> USE DEF Unread, Edge, Polling
<1>1. ASSUME NEW a \in Buttons, Press(a) PROVE Good'
  <2>1. /\ reported'[b] = reported[b]
        /\ \/ presses'[b] = presses[b] + 1
           \/ presses'[b] = presses[b] /\ (b \in down' => b \in down)
    BY <1>1 DEF Press, HwOnly, TypeOK
  <2>2. UNCHANGED <<pc, firstPoll, buttonState, lastButton>>
    BY <1>1 DEF Press, HwOnly
  <2> QED BY <1>0, <2>1, <2>2
<1>2. ASSUME NEW a \in Buttons, LetGo(a) PROVE Good'
  BY <1>0, <1>2 DEF LetGo, HwOnly
<1>3. ASSUME UNCHANGED <<down, presses, reported, firstPoll, buttonState, lastButton>>,
             Polling' = Polling
      PROVE  Good'
  BY <1>0, <1>3
<1>4. ASSUME NEW p \in Positions, Move(p) PROVE Good'
  BY <1>3, <1>4 DEF Move, HwOnly
<1>5. ASSUME NEW d \in Devices \cup {None}, Swap(d) PROVE Good'
  BY <1>3, <1>5 DEF Swap, HwOnly
<1>6. ASSUME NEW ok \in BOOLEAN, Start(ok) PROVE Good'
  BY <1>0, <1>6 DEF Start
<1>7. ASSUME NEW ok \in BOOLEAN, ReadButtons(ok) PROVE Good'
  BY <1>0, <1>7 DEF ReadButtons
<1>8. ASSUME NEW ok \in BOOLEAN, ReadSlider(ok) PROVE Good'
  BY <1>3, <1>8 DEF ReadSlider
<1>9. ASSUME NEW ok \in BOOLEAN, ReadPresence(ok) PROVE Good'
  BY <1>3, <1>9 DEF ReadPresence
<1>10. CASE Stop
  BY <1>3, <1>10 DEF Stop
<1>11. CASE Baseline
  <2>1. /\ pc = "process" /\ pc' = "idle" /\ firstPoll /\ ~firstPoll'
        /\ lastButton' = buttonState
        /\ UNCHANGED <<down, presses, reported>>
    BY <1>11 DEF Baseline, PollEnds
  <2> QED BY <1>0, <2>1
<1>12. CASE Process
  <2>1. /\ pc = "process" /\ pc' = "idle" /\ ~firstPoll /\ ~firstPoll'
        /\ lastButton' = buttonState
        /\ UNCHANGED <<down, presses>>
    BY <1>12 DEF Process, PollEnds
  <2>2. \/ b \in buttonState \ lastButton /\ reported'[b] = reported[b] + 1
        \/ b \notin buttonState \ lastButton /\ reported'[b] = reported[b]
    BY <1>12 DEF Process, RisingEdges, TypeOK
  <2> QED BY <1>0, <2>1, <2>2
<1>13. ASSUME NEW c \in Clients,
              PollActionCommands(c) \/ Receive(c) \/ Lose(c) \/ StoreResult(c)
       PROVE  Good'
  <2>1. ClientOnly
    BY <1>13 DEF PollActionCommands, Receive, Lose, StoreResult
  <2> QED BY <1>3, <2>1 DEF ClientOnly
<1>14. CASE UNCHANGED vars
  BY <1>3, <1>14
<1> QED BY <1>1, <1>2, <1>4, <1>5, <1>6, <1>7, <1>8, <1>9, <1>10, <1>11, <1>12, <1>13,
           <1>14 DEF Next

\* An event of the slider is a move, or the baseline that was not read.
LEMMA SliderStep == TypeOK /\ SliderInv /\ [Next]_vars => SliderInv'
<1> SUFFICES ASSUME TypeOK, SliderInv, [Next]_vars PROVE SliderInv'
  OBVIOUS
<1>0. moves \in Nat /\ sliderEvents \in Nat /\ blind \in BOOLEAN
  BY DEF TypeOK
<1> USE DEF SliderInv, Owed, SliderSeen, Moved
<1>1. ASSUME UNCHANGED <<pos, moves, lastSlider, sliderPos, firstPoll, sliderEvents, blind>>,
             SliderSeen' = SliderSeen, pc' = "new" => pc = "new"
      PROVE  SliderInv'
  BY <1>1
<1>2. ASSUME NEW b \in Buttons, Press(b) \/ LetGo(b) PROVE SliderInv'
  BY <1>1, <1>2 DEF Press, LetGo, HwOnly
<1>3. ASSUME NEW p \in Positions, Move(p) PROVE SliderInv'
  <2>1. /\ Owed' = Owed + 1 /\ Owed \in Nat
        /\ UNCHANGED <<pc, lastSlider, sliderPos, firstPoll, sliderEvents>>
    BY <1>0, <1>3 DEF Move, HwOnly
  <2>2. /\ \A q \in Positions : /\ Moved(pos, q)' <= Moved(pos, q) + 1
                                /\ Moved(pos, q) \in Nat /\ Moved(pos, q)' \in Nat
        /\ Moved(sliderPos, lastSlider)' = Moved(sliderPos, lastSlider)
        /\ Moved(sliderPos, lastSlider) \in Nat
    BY <2>1
  <2>3. lastSlider \in Positions /\ sliderPos \in Positions
    BY DEF TypeOK
  <2> QED BY <1>0, <2>1, <2>2, <2>3
<1>4. ASSUME NEW d \in Devices \cup {None}, Swap(d) PROVE SliderInv'
  BY <1>1, <1>4 DEF Swap, HwOnly
<1>5. ASSUME NEW ok \in BOOLEAN, Start(ok) PROVE SliderInv'
  BY <1>0, <1>5 DEF Start
<1>6. ASSUME NEW ok \in BOOLEAN, ReadButtons(ok) PROVE SliderInv'
  BY <1>1, <1>6 DEF ReadButtons
<1>7. ASSUME NEW ok \in BOOLEAN, ReadSlider(ok) PROVE SliderInv'
  <2>1. /\ ~SliderSeen /\ SliderSeen' /\ pc' # "new"
        /\ UNCHANGED <<pos, moves, lastSlider, firstPoll, sliderEvents>>
    BY <1>7 DEF ReadSlider
  <2>2. CASE ok
    <3>1. sliderPos' = pos /\ blind' = blind
      BY <1>0, <1>7, <2>2 DEF ReadSlider, SliderRead
    <3> QED BY <1>0, <2>1, <3>1
  <2>3. CASE ~ok
    <3>1. sliderPos' = lastSlider /\ blind' = (blind \/ firstPoll)
      BY <1>7, <2>3 DEF ReadSlider, SliderRead
    <3>2. CASE firstPoll
      <4>1. blind' = TRUE
        BY <3>1, <3>2
      <4> QED BY <1>0, <2>1, <3>1, <3>2, <4>1
    <3>3. CASE ~firstPoll
      <4>1. blind' = blind
        BY <1>0, <3>1, <3>3
      <4> QED BY <1>0, <2>1, <3>1, <3>3, <4>1
    <3> QED BY <3>2, <3>3
  <2> QED BY <2>2, <2>3
<1>8. ASSUME NEW ok \in BOOLEAN, ReadPresence(ok) PROVE SliderInv'
  BY <1>1, <1>8 DEF ReadPresence
<1>9. CASE Stop
  BY <1>1, <1>9 DEF Stop
<1>10. CASE Baseline
  <2>1. /\ SliderSeen /\ pc' = "idle" /\ firstPoll /\ ~firstPoll'
        /\ lastSlider' = sliderPos /\ UNCHANGED <<pos, moves, sliderEvents, blind>>
    BY <1>10 DEF Baseline, PollEnds
  <2> QED BY <1>0, <2>1
<1>11. CASE Process
  <2>1. /\ SliderSeen /\ pc' = "idle" /\ ~firstPoll /\ ~firstPoll'
        /\ lastSlider' = sliderPos /\ UNCHANGED <<pos, moves, blind>>
        /\ sliderEvents' = sliderEvents + Moved(sliderPos, lastSlider)
    BY <1>11 DEF Process, PollEnds, SliderChanged
  <2> QED BY <1>0, <2>1
<1>12. ASSUME NEW c \in Clients,
              PollActionCommands(c) \/ Receive(c) \/ Lose(c) \/ StoreResult(c)
       PROVE  SliderInv'
  <2>1. ClientOnly
    BY <1>12 DEF PollActionCommands, Receive, Lose, StoreResult
  <2> QED BY <1>1, <2>1 DEF ClientOnly
<1>13. CASE UNCHANGED vars
  BY <1>1, <1>13
<1> QED BY <1>2, <1>3, <1>4, <1>5, <1>6, <1>7, <1>8, <1>9, <1>10, <1>11, <1>12, <1>13
        DEF Next

-----------------------------------------------------------------------------
\* The commands of a client that takes the queue, receives a response or loses
\* one stay in order, and in the one place they are moved to.
LEMMA OrderStep == TypeOK /\ OrderInv /\ PlaceInv /\ [Next]_vars => OrderInv'
<1> SUFFICES ASSUME TypeOK, OrderInv, PlaceInv, [Next]_vars PROVE OrderInv'
  OBVIOUS
<1>0. ASSUME UNCHANGED <<queue, received, inFlight>> PROVE OrderInv'
  BY <1>0 DEF OrderInv, Increasing, Ids, Has
<1>1. ASSUME UNCHANGED <<queueVars, clientVars>> PROVE OrderInv'
  BY <1>0, <1>1
<1>2. CASE Process
  <2>1. /\ queue' = queue \o NewCommands /\ UNCHANGED <<received, inFlight>>
    BY <1>2 DEF Process, Enqueue
  <2>2. /\ NewCommands \in Seq(Nat) /\ queue \in Seq(Nat)
        /\ Ids(NewCommands) = nextId..(nextId + NumEvents - 1)
        /\ Increasing(NewCommands) /\ NumEvents \in Nat /\ nextId \in Nat
    BY NewCommandsIds DEF TypeOK
  <2>3. /\ \A k \in Ids(queue) : k \in 1..(nextId - 1)
        /\ \A c \in Clients : \A k \in Has(c) : k \in 1..(nextId - 1)
    BY DEF PlaceInv
  <2>4. /\ AllBelow(Ids(queue), Ids(NewCommands))
        /\ \A c \in Clients : AllBelow(Has(c), Ids(NewCommands))
    BY <2>2, <2>3 DEF AllBelow
  <2>5. Increasing(queue) /\ \A c \in Clients : AllBelow(Has(c), Ids(queue))
    BY DEF OrderInv
  <2>6. Increasing(queue')
    BY <2>1, <2>2, <2>4, <2>5, ConcatIncreasing
  <2>7. Ids(queue') = Ids(queue) \cup Ids(NewCommands)
    BY <2>1, <2>2, ConcatIds
  <2>8. \A c \in Clients : AllBelow(Has(c), Ids(queue'))
    BY <2>4, <2>5, <2>7 DEF AllBelow
  <2> QED BY <2>1, <2>6, <2>8 DEF OrderInv, Has
<1>3. ASSUME NEW c \in Clients, PollActionCommands(c) PROVE OrderInv'
  <2>1. /\ inFlight[c] = <<>> /\ queue' = <<>> /\ received' = received
        /\ inFlight' = [inFlight EXCEPT ![c] = queue]
    BY <1>3 DEF PollActionCommands, TakePending
  <2>2. Increasing(queue') /\ Ids(queue') = {}
    BY <2>1, NoIds
  <2>3. \A d \in Clients : inFlight'[d] = (IF d = c THEN queue ELSE inFlight[d])
    BY <2>1 DEF TypeOK
  <2>4. \A d \in Clients : Increasing(inFlight'[d])
    BY <2>3 DEF OrderInv
  <2>5. \A d \in Clients : AllBelow(Ids(received'[d]), Ids(inFlight'[d]))
    BY <2>1, <2>3 DEF OrderInv, Has, AllBelow
  <2>6. \A d \in Clients : AllBelow(Has(d)', Ids(queue'))
    BY <2>2 DEF AllBelow
  <2> QED BY <2>1, <2>2, <2>4, <2>5, <2>6 DEF OrderInv, Has
<1>4. ASSUME NEW c \in Clients, Receive(c) PROVE OrderInv'
  <2>1. /\ queue' = queue
        /\ received' = [received EXCEPT ![c] = received[c] \o inFlight[c]]
        /\ inFlight' = [inFlight EXCEPT ![c] = <<>>]
    BY <1>4 DEF Receive
  <2>2. /\ \A d \in Clients : received'[d] = (IF d = c THEN received[c] \o inFlight[c]
                                                      ELSE received[d])
        /\ \A d \in Clients : inFlight'[d] = (IF d = c THEN <<>> ELSE inFlight[d])
    BY <2>1 DEF TypeOK
  <2>3. received[c] \in Seq(Nat) /\ inFlight[c] \in Seq(Nat)
    BY DEF TypeOK
  <2>4. /\ Increasing(received'[c]) /\ Ids(received'[c]) = Has(c)
        /\ Increasing(inFlight'[c]) /\ Ids(inFlight'[c]) = {}
    BY <2>2, <2>3, ConcatIncreasing, ConcatIds, NoIds DEF OrderInv, Has
  <2>5. \A d \in Clients : Has(d)' = Has(d)
    BY <2>2, <2>4 DEF Has
  <2>6. \A d \in Clients : AllBelow(Ids(received'[d]), Ids(inFlight'[d]))
    BY <2>2, <2>4 DEF OrderInv, AllBelow
  <2> QED BY <2>1, <2>2, <2>4, <2>5, <2>6 DEF OrderInv
<1>5. ASSUME NEW c \in Clients, Lose(c) PROVE OrderInv'
  <2>1. /\ queue' = queue /\ received' = received
        /\ \A d \in Clients : inFlight'[d] = (IF d = c THEN <<>> ELSE inFlight[d])
    BY <1>5 DEF Lose, TypeOK
  <2>2. /\ \A d \in Clients : Increasing(inFlight'[d])
        /\ \A d \in Clients : Ids(inFlight'[d]) \subseteq Ids(inFlight[d])
    BY <2>1, NoIds DEF OrderInv
  <2>3. \A d \in Clients : /\ AllBelow(Ids(received'[d]), Ids(inFlight'[d]))
                          /\ AllBelow(Has(d)', Ids(queue'))
    BY <2>1, <2>2 DEF OrderInv, AllBelow, Has
  <2> QED BY <2>1, <2>2, <2>3 DEF OrderInv
<1>6. ASSUME NEW c \in Clients, StoreResult(c) PROVE OrderInv'
  BY <1>0, <1>6 DEF StoreResult
<1>7. CASE /\ ~Process
           /\ ~\E c \in Clients : \/ PollActionCommands(c) \/ Receive(c)
                                  \/ Lose(c)               \/ StoreResult(c)
  <2>1. UNCHANGED <<queueVars, clientVars>>
    BY <1>7 DEF Next, Press, LetGo, Move, Swap, HwOnly, Start, ReadButtons, ReadSlider,
                ReadPresence, Baseline, Stop
  <2> QED BY <1>1, <2>1
<1> QED BY <1>2, <1>3, <1>4, <1>5, <1>6, <1>7

\* No step loses sight of a command, or leaves it in two places.
LEMMA PlaceStep == TypeOK /\ OrderInv /\ PlaceInv /\ [Next]_vars => PlaceInv'
<1> SUFFICES ASSUME TypeOK, OrderInv, PlaceInv, [Next]_vars PROVE PlaceInv'
  OBVIOUS
<1>0. ASSUME UNCHANGED <<nextId, lost>>, UNCHANGED <<queue, received, inFlight>>
      PROVE  PlaceInv'
  <2>1. Ids(queue)' = Ids(queue) /\ \A c \in Clients : Has(c)' = Has(c)
    BY <1>0 DEF Ids, Has
  <2>2. UNION {Has(c)' : c \in Clients} = UNION {Has(c) : c \in Clients}
    BY <2>1
  <2> QED BY <1>0, <2>1, <2>2 DEF PlaceInv
<1>1. \A c \in Clients : Has(c) \cap Ids(queue) = {}
  <2> SUFFICES ASSUME NEW c \in Clients, NEW k \in Has(c), k \in Ids(queue) PROVE FALSE
    OBVIOUS
  <2>1. k < k
    BY DEF OrderInv, AllBelow
  <2>2. k \in 1..(nextId - 1)
    BY DEF PlaceInv
  <2> QED BY <2>1, <2>2
<1>2. CASE Process
  <2>1. /\ queue' = queue \o NewCommands /\ nextId' = nextId + NumEvents
        /\ UNCHANGED <<received, inFlight, lost>>
    BY <1>2 DEF Process, Enqueue
  <2>2. /\ NewCommands \in Seq(Nat) /\ queue \in Seq(Nat)
        /\ Ids(NewCommands) = nextId..(nextId + NumEvents - 1)
        /\ NumEvents \in Nat /\ nextId \in Nat \ {0}
    BY NewCommandsIds DEF TypeOK
  <2>3. Ids(queue') = Ids(queue) \cup Ids(NewCommands)
    BY <2>1, <2>2, ConcatIds
  <2>4. 1..(nextId' - 1) = 1..(nextId - 1) \cup Ids(NewCommands)
    BY <2>1, <2>2
  <2>5. 1..(nextId - 1) \cap Ids(NewCommands) = {}
    BY <2>2
  <2>6. \A c \in Clients : Has(c)' = Has(c)
    BY <2>1 DEF Has
  <2>7. Ids(queue)' \cup lost' \cup UNION {Has(c)' : c \in Clients} = 1..(nextId' - 1)
    <3>1. UNION {Has(c)' : c \in Clients} = UNION {Has(c) : c \in Clients}
      BY <2>6
    <3> QED BY <2>1, <2>3, <2>4, <3>1 DEF PlaceInv
  <2>8. lost \subseteq 1..(nextId - 1)
    BY DEF PlaceInv
  <2> QED BY <2>1, <2>3, <2>5, <2>6, <2>7, <2>8 DEF PlaceInv
<1>3. ASSUME NEW c \in Clients, PollActionCommands(c) PROVE PlaceInv'
  <2>1. /\ inFlight[c] = <<>> /\ queue' = <<>>
        /\ UNCHANGED <<received, lost, nextId>>
        /\ \A d \in Clients : inFlight'[d] = (IF d = c THEN queue ELSE inFlight[d])
    BY <1>3 DEF PollActionCommands, TakePending, ClientOnly, TypeOK
  <2>2. Ids(queue') = {} /\ Ids(inFlight[c]) = {}
    BY <2>1, NoIds
  <2>3. Has(c)' = Has(c) \cup Ids(queue) /\ \A d \in Clients : d # c => Has(d)' = Has(d)
    BY <2>1, <2>2 DEF Has
  <2>4. Ids(queue)' \cup lost' \cup UNION {Has(d)' : d \in Clients} = 1..(nextId' - 1)
    BY <2>1, <2>2, <2>3 DEF PlaceInv
  <2>5. \A d \in Clients : lost' \cap Has(d)' = {}
    BY <2>1, <2>3 DEF PlaceInv
  <2>6. \A d, e \in Clients : d # e => Has(d)' \cap Has(e)' = {}
    BY <1>1, <2>3 DEF PlaceInv
  <2> QED BY <2>2, <2>4, <2>5, <2>6 DEF PlaceInv
<1>4. ASSUME NEW c \in Clients, Receive(c) PROVE PlaceInv'
  <2>1. /\ UNCHANGED <<queue, lost, nextId>>
        /\ \A d \in Clients : received'[d] = (IF d = c THEN received[c] \o inFlight[c]
                                                      ELSE received[d])
        /\ \A d \in Clients : inFlight'[d] = (IF d = c THEN <<>> ELSE inFlight[d])
    BY <1>4 DEF Receive, ClientOnly, TypeOK
  <2>2. received[c] \in Seq(Nat) /\ inFlight[c] \in Seq(Nat)
    BY DEF TypeOK
  <2>3. Ids(received'[c]) = Has(c) /\ Ids(inFlight'[c]) = {}
    BY <2>1, <2>2, ConcatIds, NoIds DEF Has
  <2>4. \A d \in Clients : Has(d)' = Has(d)
    BY <2>1, <2>3 DEF Has
  <2>5. UNION {Has(d)' : d \in Clients} = UNION {Has(d) : d \in Clients}
    BY <2>4
  <2> QED BY <2>1, <2>4, <2>5 DEF PlaceInv
<1>5. ASSUME NEW c \in Clients, Lose(c) PROVE PlaceInv'
  <2>1. /\ UNCHANGED <<queue, received, nextId>> /\ lost' = lost \cup Ids(inFlight[c])
        /\ \A d \in Clients : inFlight'[d] = (IF d = c THEN <<>> ELSE inFlight[d])
    BY <1>5 DEF Lose, ClientOnly, TypeOK, Ids
  <2>2. Ids(inFlight'[c]) = {}
    BY <2>1, NoIds
  <2>3. Has(c)' = Ids(received[c]) /\ \A d \in Clients : d # c => Has(d)' = Has(d)
    BY <2>1, <2>2 DEF Has
  <2>4. Ids(received[c]) \cap Ids(inFlight[c]) = {}
    <3> SUFFICES ASSUME NEW k \in Ids(received[c]), k \in Ids(inFlight[c]) PROVE FALSE
      OBVIOUS
    <3>1. k < k
      BY DEF OrderInv, AllBelow
    <3>2. k \in 1..(nextId - 1)
      BY DEF PlaceInv, Has
    <3> QED BY <3>1, <3>2
  <2>5. Ids(queue)' \cup lost' \cup UNION {Has(d)' : d \in Clients} = 1..(nextId' - 1)
    <3>1. Has(c) = Has(c)' \cup Ids(inFlight[c])
      BY <2>3 DEF Has
    <3> QED BY <2>1, <2>3, <3>1 DEF PlaceInv
  <2>6. lost' \cap Ids(queue') = {}
    BY <1>1, <2>1 DEF PlaceInv, Has
  <2>7. \A d \in Clients : lost' \cap Has(d)' = {}
    BY <2>1, <2>3, <2>4 DEF PlaceInv, Has
  <2>8. \A d, e \in Clients : d # e => Has(d)' \cap Has(e)' = {}
    BY <2>3 DEF PlaceInv, Has
  <2> QED BY <2>5, <2>6, <2>7, <2>8 DEF PlaceInv
<1>6. ASSUME NEW c \in Clients, StoreResult(c) PROVE PlaceInv'
  BY <1>0, <1>6 DEF StoreResult, ClientOnly
<1>7. CASE /\ ~Process
           /\ ~\E c \in Clients : \/ PollActionCommands(c) \/ Receive(c)
                                  \/ Lose(c)               \/ StoreResult(c)
  <2>1. UNCHANGED <<queueVars, clientVars>>
    BY <1>7 DEF Next, Press, LetGo, Move, Swap, HwOnly, Start, ReadButtons, ReadSlider,
                ReadPresence, Baseline, Stop
  <2> QED BY <1>0, <2>1
<1> QED BY <1>2, <1>3, <1>4, <1>5, <1>6, <1>7

-----------------------------------------------------------------------------
\* A service that has just been constructed satisfies all of it.
LEMMA InitIInv == Init => IInv
<1> SUFFICES ASSUME Init PROVE IInv
  OBVIOUS
<1> USE DEF Init
<1>1. TypeOK
  <2>1. 0 \in 0..(PresenceEvery - 1) /\ lastButton \subseteq Buttons /\ buttonState \subseteq Buttons
    OBVIOUS
  <2>2. presses \in [Buttons -> Nat] /\ reported \in [Buttons -> Nat]
    OBVIOUS
  <2>3. inFlight \in [Clients -> Seq(Nat)] /\ received \in [Clients -> Seq(Nat)]
        /\ queue \in Seq(Nat) /\ lost \subseteq Nat /\ results \subseteq Nat
    BY NoIds
  <2>4. {pos, sliderPos, lastSlider} \subseteq Positions
    OBVIOUS
  <2>5. device \in Devices \cup {None} /\ deviceId \in Devices \cup {None}
    OBVIOUS
  <2>6. {running, firstPoll, present, blind} \subseteq BOOLEAN
    OBVIOUS
  <2> QED BY <2>1, <2>2, <2>3, <2>4, <2>5, <2>6 DEF TypeOK
<1>2. PressInv
  BY DEF PressInv, Unread, Edge, Polling
<1>3. SliderInv
  BY DEF SliderInv, Owed, SliderSeen
<1>4. \A c \in Clients : Has(c) = {}
  BY NoIds DEF Has
<1>5. OrderInv
  BY <1>4, NoIds DEF OrderInv, AllBelow
<1>6. PlaceInv
  BY <1>4, NoIds DEF PlaceInv
<1> QED BY <1>1, <1>2, <1>3, <1>5, <1>6 DEF IInv

\* The inductive invariant the theorems below rest on.
THEOREM Invariance == Spec => []IInv
<1>1. IInv /\ [Next]_vars => IInv'
  BY TypeOKStep, PressStep, SliderStep, OrderStep, PlaceStep DEF IInv
<1> QED BY <1>1, InitIInv, PTL DEF Spec

\* Every variable keeps its type.
THEOREM TypeCorrect == Spec => []TypeOK
<1>1. IInv => TypeOK
  BY DEF IInv
<1> QED BY <1>1, Invariance, PTL

\* Every button event stands for a press of its own.
THEOREM EventsArePresses == Spec => []EventMeansPress
<1>1. IInv => EventMeansPress
  BY DEF IInv, PressInv, EventMeansPress
<1> QED BY <1>1, Invariance, PTL

\* Slider events are no more than moves, and one for an unread baseline.
THEOREM SliderEventsAreMoves == Spec => []SliderEventsBounded
<1>1. IInv => SliderEventsBounded
  <2> SUFFICES ASSUME IInv PROVE SliderEventsBounded
    OBVIOUS
  <2>1. CASE blind
    BY <2>1 DEF IInv, TypeOK, SliderInv, SliderEventsBounded, Owed
  <2>2. CASE ~blind
    BY <2>2 DEF IInv, TypeOK, SliderInv, SliderEventsBounded, Owed
  <2> QED BY <2>1, <2>2
<1> QED BY <1>1, Invariance, PTL

\* Every client sees commands in the order they were queued.
THEOREM InOrder == Spec => []CommandsInOrder
<1>1. IInv => CommandsInOrder
  <2> SUFFICES ASSUME IInv, NEW c \in Clients
               PROVE  Increasing((received[c] \o inFlight[c]) \o queue)
    BY DEF CommandsInOrder, Increasing
  <2>1. received[c] \in Seq(Nat) /\ inFlight[c] \in Seq(Nat) /\ queue \in Seq(Nat)
    BY DEF IInv, TypeOK
  <2>2. /\ received[c] \o inFlight[c] \in Seq(Nat)
        /\ Ids(received[c] \o inFlight[c]) = Has(c)
    BY <2>1, ConcatIds DEF Has
  <2>3. Increasing(received[c] \o inFlight[c])
    BY <2>1, ConcatIncreasing DEF IInv, OrderInv
  <2>4. AllBelow(Ids(received[c] \o inFlight[c]), Ids(queue)) /\ Increasing(queue)
    BY <2>2 DEF IInv, OrderInv
  <2> QED BY <2>1, <2>2, <2>3, <2>4, ConcatIncreasing
<1> QED BY <1>1, Invariance, PTL

\* In a sequence in order an id has one place.
LEMMA OnePlaceEach ==
  ASSUME NEW s \in Seq(Nat), Increasing(s), NEW k
  PROVE  /\ \A i, j \in DOMAIN s : s[i] = k /\ s[j] = k => i = j
         /\ k \in Ids(s) <=> \E i \in DOMAIN s : s[i] = k
<1>1. ASSUME NEW i \in DOMAIN s, NEW j \in DOMAIN s, i < j PROVE s[i] # s[j]
  <2>1. s[i] < s[j]
    BY <1>1 DEF Increasing
  <2>2. s[i] \in Nat /\ s[j] \in Nat
    BY IdsType
  <2> QED BY <2>1, <2>2
<1>2. \A i, j \in DOMAIN s : i = j \/ i < j \/ j < i
  <2>1. DOMAIN s = 1..Len(s) /\ Len(s) \in Nat
    OBVIOUS
  <2> QED BY <2>1
<1> QED BY <1>1, <1>2 DEF Ids

\* A queued command is in exactly one place.
THEOREM InOnePlace == Spec => []CommandInOnePlace
<1>1. IInv => CommandInOnePlace
  <2> SUFFICES ASSUME IInv, NEW k \in 1..(nextId - 1)
               PROVE  Cardinality(Places(k)) = 1
    BY DEF CommandInOnePlace
  <2>1. /\ \A p : p \in InQueue(k) <=> \E i \in DOMAIN queue : queue[i] = k /\ p = <<"queue", i>>
        /\ \A p : p \in InFlight(k) <=> \E c \in Clients : \E i \in DOMAIN inFlight[c] :
                                           inFlight[c][i] = k /\ p = <<"inFlight", c, i>>
        /\ \A p : p \in InReceived(k) <=> \E c \in Clients : \E i \in DOMAIN received[c] :
                                             received[c][i] = k /\ p = <<"received", c, i>>
        /\ \A p : p \in InLost(k) <=> k \in lost /\ p = <<"lost">>
    BY DEF InQueue, InFlight, InReceived, InLost
  <2>2. /\ queue \in Seq(Nat) /\ Increasing(queue)
        /\ \A c \in Clients : /\ inFlight[c] \in Seq(Nat) /\ Increasing(inFlight[c])
                              /\ received[c] \in Seq(Nat) /\ Increasing(received[c])
    BY DEF IInv, TypeOK, OrderInv
  <2>3. \A p, q \in InQueue(k) : p = q
    <3>1. \A i, j \in DOMAIN queue : queue[i] = k /\ queue[j] = k => i = j
      BY <2>2, OnePlaceEach
    <3> QED BY <2>1, <3>1
  <2>4. ASSUME NEW p \in InFlight(k), NEW q \in InFlight(k) PROVE p = q
    <3>1. PICK c \in Clients : \E i \in DOMAIN inFlight[c] : inFlight[c][i] = k /\ p = <<"inFlight", c, i>>
      BY <2>1
    <3>2. PICK i \in DOMAIN inFlight[c] : inFlight[c][i] = k /\ p = <<"inFlight", c, i>>
      BY <3>1
    <3>3. PICK d \in Clients : \E j \in DOMAIN inFlight[d] : inFlight[d][j] = k /\ q = <<"inFlight", d, j>>
      BY <2>1
    <3>4. PICK j \in DOMAIN inFlight[d] : inFlight[d][j] = k /\ q = <<"inFlight", d, j>>
      BY <3>3
    <3>5. k \in Has(c) /\ k \in Has(d)
      BY <3>2, <3>4 DEF Has, Ids
    <3>6. c = d
      BY <3>5 DEF IInv, PlaceInv
    <3>7. i = j
      BY <2>2, <3>2, <3>4, <3>6, OnePlaceEach
    <3> QED BY <3>2, <3>4, <3>6, <3>7
  <2>5. ASSUME NEW p \in InReceived(k), NEW q \in InReceived(k) PROVE p = q
    <3>1. PICK c \in Clients : \E i \in DOMAIN received[c] : received[c][i] = k /\ p = <<"received", c, i>>
      BY <2>1
    <3>2. PICK i \in DOMAIN received[c] : received[c][i] = k /\ p = <<"received", c, i>>
      BY <3>1
    <3>3. PICK d \in Clients : \E j \in DOMAIN received[d] : received[d][j] = k /\ q = <<"received", d, j>>
      BY <2>1
    <3>4. PICK j \in DOMAIN received[d] : received[d][j] = k /\ q = <<"received", d, j>>
      BY <3>3
    <3>5. k \in Has(c) /\ k \in Has(d)
      BY <3>2, <3>4 DEF Has, Ids
    <3>6. c = d
      BY <3>5 DEF IInv, PlaceInv
    <3>7. i = j
      BY <2>2, <3>2, <3>4, <3>6, OnePlaceEach
    <3> QED BY <3>2, <3>4, <3>6, <3>7
  <2>6. /\ (\E p : p \in InQueue(k)) <=> k \in Ids(queue)
        /\ (\E p : p \in InFlight(k)) <=> \E c \in Clients : k \in Ids(inFlight[c])
        /\ (\E p : p \in InReceived(k)) <=> \E c \in Clients : k \in Ids(received[c])
        /\ (\E p : p \in InLost(k)) <=> k \in lost
    <3>1. (\E p : p \in InQueue(k)) <=> k \in Ids(queue)
      BY <2>1 DEF Ids
    <3>2. (\E p : p \in InFlight(k)) <=> \E c \in Clients : k \in Ids(inFlight[c])
      <4>1. \A c \in Clients : k \in Ids(inFlight[c]) <=> \E i \in DOMAIN inFlight[c] : inFlight[c][i] = k
        BY DEF Ids
      <4> QED BY <2>1, <4>1
    <3>3. (\E p : p \in InReceived(k)) <=> \E c \in Clients : k \in Ids(received[c])
      <4>1. \A c \in Clients : k \in Ids(received[c]) <=> \E i \in DOMAIN received[c] : received[c][i] = k
        BY DEF Ids
      <4> QED BY <2>1, <4>1
    <3>4. (\E p : p \in InLost(k)) <=> k \in lost
      BY <2>1
    <3> QED BY <3>1, <3>2, <3>3, <3>4
  <2>7. ~(k < k)
    BY DEF IInv, TypeOK
  <2>8. \A c, d \in Clients : ~(k \in Ids(inFlight[c]) /\ k \in Ids(received[d]))
    <3> SUFFICES ASSUME NEW c \in Clients, NEW d \in Clients,
                        k \in Ids(inFlight[c]), k \in Ids(received[d])
                 PROVE  FALSE
      OBVIOUS
    <3>1. c = d
      BY DEF IInv, PlaceInv, Has
    <3> QED BY <2>7, <3>1 DEF IInv, OrderInv, AllBelow
  <2>9. \A c \in Clients : ~(k \in Ids(queue) /\ k \in Has(c))
    BY <2>7 DEF IInv, OrderInv, AllBelow
  <2>10. k \in lost => k \notin Ids(queue) /\ \A c \in Clients : k \notin Has(c)
    BY DEF IInv, PlaceInv
  <2>11. k \in lost \/ k \in Ids(queue) \/ \E c \in Clients : k \in Has(c)
    BY DEF IInv, PlaceInv
  <2>12. \E p : p \in Places(k)
    BY <2>6, <2>11 DEF Has, Places
  <2>13. ASSUME NEW p \in Places(k), NEW q \in Places(k) PROVE p = q
    BY <2>1, <2>3, <2>4, <2>5, <2>6, <2>8, <2>9, <2>10, <2>13 DEF Has, Places
  <2>14. PICK p : Places(k) = {p}
    BY <2>12, <2>13
  <2> QED BY <2>14, FS_Singleton
<1> QED BY <1>1, Invariance, PTL
=============================================================================
