------------------------- MODULE LocationController -------------------------
(***************************************************************************)
(* The state machine of LocationViewController: the screen that ranges     *)
(* iBeacons, tracks the phone's position, publishes it over MQTT, and lets *)
(* an operator collect the signal fingerprint of a known point of a room.  *)
(*                                                                         *)
(* Everything here runs on the main thread: CoreLocation's didRangeBeacons, *)
(* UIKit's view callbacks, the buttons and the two alerts.  An action is   *)
(* one callback, run to its end, except for the two view callbacks.  These *)
(* wait in a nested run loop, viewWillAppear while MQTT connects and       *)
(* viewWillDisappear while it closes, and the run loop serves every other  *)
(* callback.  frames is the stack of those that wait; the innermost one    *)
(* returns first.                                                          *)
(*                                                                         *)
(* Of MQTT only what decides whether a callback waits is kept; who is told *)
(* what is in MqttScreens.                                                 *)
(*                                                                         *)
(* locationFlag is 1 for ever: its only button is never added to the view, *)
(* so the trilateration branch of didRangeBeacons is dead code.            *)
(***************************************************************************)
EXTENDS Integers, Sequences, SequencesExt, FiniteSets

CONSTANTS
  Majors,     \* major numbers of the installed beacons
  NoMajor,    \* 0, what a cleared slot of rssi_Major holds
  Readings,   \* what a beacon's rssi may be; 0 says "not measured"
  Batches,    \* what CoreLocation may hand to didRangeBeacons
  Stations,   \* beacons needed to locate: the literal 4 of the code
  Slots,      \* length of the three collecting arrays: 100 in the code
  Rounds,     \* value of rssiFlag at which the fingerprint is pushed: 40
  Rooms, NoRoom,    \* rooms, and the empty string _myroom starts with
  RoomOf,     \* table ibeacon_room; NoRoom for a beacon it does not list
  Scales, NoScale,  \* pixels per metre of a room; NoScale is the value 0
  Points, NoPoint,  \* points the operator may type; NoPoint is (-100,-100)
  DbAnswers,  \* {TRUE}: every query is answered; BOOLEAN: some return nil
  MaxAborts,  \* bound: collections given up before the arrays are cleared
  MaxWaiting  \* bound: view callbacks that wait at a time

Weakest == -99      \* a reading has a sign and two digits, because the rssi
Strongest == -10    \* column is cut up three characters at a time (line 1066)

Beacon == [major : Majors, rssi : Readings]
RoomNames == Rooms \cup {NoRoom}
Rulers == Scales \cup {NoScale}

ASSUME CountsAssumption ==
  /\ Stations \in Nat \ {0}
  /\ Slots \in Nat \ {0}
  /\ Rounds \in Nat \ {0, 1}
  /\ MaxAborts \in Nat
  /\ MaxWaiting \in Nat \ {0}

\* A ranged batch names each major once (the deployment gives every beacon
\* its own major number) and fits in the arrays.
ASSUME BeaconAssumption ==
  /\ NoMajor \notin Majors
  /\ Readings \subseteq (Weakest..Strongest) \cup {0}
  /\ \A b \in Batches :
        /\ b \in Seq(Beacon)
        /\ Len(b) <= Slots
        /\ \A j, k \in DOMAIN b : b[j].major = b[k].major => j = k

ASSUME TableAssumption ==
  /\ NoRoom \notin Rooms
  /\ NoScale \notin Scales
  /\ NoPoint \notin Points
  /\ RoomOf \in [Majors -> RoomNames]
  /\ DbAnswers \subseteq BOOLEAN

VARIABLES
  \* --- screen
  visible,      \* the screen, as the last view callback says
  frames,       \* the view callbacks that wait, the innermost last
  myMqtt,       \* _myMqtt: "nil", "connecting" (it has no session yet) or "ready"
  alert,        \* the alert on the screen: "none", "point" or "ruler"
  startBool,    \* between the start and the stop button
  ranging,      \* _locationManager ranges the region
  connectFlag,
  coordinator,  \* the store coordinator is there; without it queries return nil
  \* --- room
  myroom,       \* _myroom
  ruler,        \* widthRuler and heightRuler
  rulerRows,    \* table ibeacon_room_heightandwidth: the scales stored per room
  \* --- collecting
  pushButtonFlag, real, rssiFlag,
  rssi_Rssi, rssi_Major, rssi_Major_flag, rssi_Major_count,
  pushed,       \* the argument of the last pushPoint, until the next collection
  \* --- history, read by the properties only
  tracked,      \* the room the last tracking round saw
  promptLost,   \* the last ruler prompt could not be presented
  unsaved,      \* the INSERT of the last ruler prompt failed
  outlived,     \* a ruler prompt was answered after the screen was switched off
  aborts,       \* collections given up since the arrays were last cleared
  counted,      \* rounds counted by the collection under way
  heard         \* per major, the readings counted by the collection under way

view == <<visible, frames, myMqtt>>
power == <<startBool, ranging, connectFlag, coordinator, outlived>>
screen == <<view, alert, power>>
room == <<myroom, ruler, rulerRows, tracked, promptLost, unsaved>>
arrays == <<rssi_Rssi, rssi_Major, rssi_Major_flag>>
collecting == <<pushButtonFlag, real, rssiFlag, arrays, rssi_Major_count,
                pushed, aborts, counted, heard>>
vars == <<screen, room, collecting>>

NoPush == [rows |-> <<>>]
Slot == 1..Slots

-----------------------------------------------------------------------------
(* The collecting arrays *)

\* Mutant: the counts survive.
ClearArraysKeepingFlags ==
  /\ rssi_Rssi' = [i \in Slot |-> 0]
  /\ rssi_Major' = [i \in Slot |-> NoMajor]
  /\ UNCHANGED rssi_Major_flag
  /\ aborts' = 0

\* Mutant: sums and counts survive, only the names go.
ClearArraysKeepingSums ==
  /\ rssi_Major' = [i \in Slot |-> NoMajor]
  /\ UNCHANGED <<rssi_Rssi, rssi_Major_flag>>
  /\ aborts' = 0

ClearArrays ==
  /\ rssi_Rssi' = [i \in Slot |-> 0]
  /\ rssi_Major' = [i \in Slot |-> NoMajor]
  /\ rssi_Major_flag' = [i \in Slot |-> 0]
  /\ aborts' = 0

NewHistory ==
  /\ counted' = 0
  /\ heard' = [m \in Majors |-> {}]

\* rssiZeroFlag after its correction: some beacon of the batch was not measured
\* and fewer than Stations were.
ZeroSeen(b) ==
  /\ \E k \in DOMAIN b : b[k].rssi = 0
  /\ Cardinality({k \in DOMAIN b : b[k].rssi # 0}) < Stations

\* The first of the measured beacons with the strongest signal, MaxMajor.
IsStrongest(b, k) ==
  /\ b[k].rssi # 0
  /\ \A j \in DOMAIN b :
        b[j].rssi # 0 => \/ b[j].rssi < b[k].rssi
                         \/ b[j].rssi = b[k].rssi /\ k <= j

\* _myroom after the rows of ibeacon_room were matched with MaxMajor.  A query
\* that fails yields no rows, and then _myroom stays as it is.
RoomAfter(b, answered) ==
  LET named == {RoomOf[b[k].major] : k \in {k \in DOMAIN b : IsStrongest(b, k)}}
               \ {NoRoom}
  IN  IF answered /\ named # {} THEN CHOOSE r \in named : TRUE ELSE myroom

\* rssi_Major after the first round recorded the batch in its order.
MajorsAfter(b) ==
  IF rssiFlag = 1
  THEN [i \in Slot |-> IF i \in DOMAIN b THEN b[i].major ELSE rssi_Major[i]]
  ELSE rssi_Major

\* Mutant: a reading of 0 is added too.
LandsUnmeasured(b, majors, k, i) ==
  /\ i <= Len(b)
  /\ majors[i] = b[k].major
  /\ \A j \in 1..(i - 1) : majors[j] # b[k].major

\* Mutant: the scan stops one slot early.
LandsShort(b, majors, k, i) ==
  /\ b[k].rssi # 0
  /\ i < Len(b)
  /\ majors[i] = b[k].major
  /\ \A j \in 1..(i - 1) : majors[j] # b[k].major

\* Beacon k of the batch is added to slot i: the first slot, within as many as
\* the batch has beacons, that names its major; a reading of 0 is not added.
Lands(b, majors, k, i) ==
  /\ b[k].rssi # 0
  /\ i <= Len(b)
  /\ majors[i] = b[k].major
  /\ \A j \in 1..(i - 1) : majors[j] # b[k].major

Landing(b, majors, i) == {k \in DOMAIN b : Lands(b, majors, k, i)}

SumAfter(b, majors, i) ==
  IF Landing(b, majors, i) = {} THEN rssi_Rssi[i]
  ELSE rssi_Rssi[i] + b[CHOOSE k \in Landing(b, majors, i) : TRUE].rssi

FlagAfter(b, majors, i) ==
  IF Landing(b, majors, i) = {} THEN rssi_Major_flag[i]
  ELSE rssi_Major_flag[i] + 1

\* C's division of a long by a positive long, which truncates toward zero.  The
\* phone's processor answers 0 to a division by 0.
Quotient(s, n) ==
  IF n = 0 THEN 0 ELSE IF s >= 0 THEN s \div n ELSE -((-s) \div n)

\* The slots the pushed string reports.
Reported == {i \in 1..rssi_Major_count : ~(rssi_Rssi[i] <= 0 /\ rssi_Rssi[i] > -10)}

Fingerprint ==
  [i \in Reported |-> [major |-> rssi_Major[i],
                       rssi |-> Quotient(rssi_Rssi[i], rssi_Major_flag[i])]]

Collecting == pushButtonFlag /\ real # NoPoint

\* Mutants: the push comes a round early, or a round late.
LastRoundEarly == rssiFlag = Rounds - 1
LastRoundLate == rssiFlag > Rounds

LastRound == rssiFlag = Rounds
-----------------------------------------------------------------------------
(* CoreLocation, the database, and the two together *)

\* Mutant: does nothing while an alert is up.
TurnOnBeaconUnlessAlert == ranging' = (alert = "none")

\* turnOnBeacon: ranging starts, or goes on.
TurnOnBeacon == ranging' = TRUE

StopBeaconRanging == ranging' = FALSE

\* connectDB and disconnectDB ask connectFlag, not the coordinator.
ConnectDB == connectFlag' = TRUE /\ coordinator' = (connectFlag => coordinator)

DisconnectDB == connectFlag' = FALSE /\ coordinator' = (~connectFlag /\ coordinator)

\* What a query may come to.
Answers == IF coordinator THEN DbAnswers ELSE {FALSE}

\* What viewWillAppear does after connectMQTT, and the start button.
Resume == TurnOnBeacon /\ ConnectDB /\ startBool' = TRUE /\ outlived' = FALSE

\* Mutant: the ranging goes on.
PauseRanging == DisconnectDB /\ startBool' = FALSE /\ outlived' = FALSE /\ UNCHANGED ranging

\* What viewWillDisappear does after disconnectMQTT, and the stop button.
Pause == StopBeaconRanging /\ DisconnectDB /\ startBool' = FALSE /\ outlived' = FALSE
-----------------------------------------------------------------------------
(* didRangeBeacons; a batch of fewer than Stations beacons only changes labels *)

Ranged(b) == ranging /\ b \in Batches /\ Len(b) >= Stations

\* What the first round of a collection does before anything else.
RecordFirstRound(b, answered) ==
  /\ rssi_Major' = MajorsAfter(b)
  /\ rssi_Major_count' = IF rssiFlag = 1 THEN Len(b) ELSE rssi_Major_count
  /\ myroom' = IF rssiFlag = 1 THEN RoomAfter(b, answered) ELSE myroom

\* Mutant: the collection starts over.
SkipRoundRestarting(b, answered) ==
  /\ Ranged(b) /\ Collecting
  /\ ~LastRound
  /\ ZeroSeen(b)
  /\ rssiFlag' = 1
  /\ ClearArrays
  /\ NewHistory
  /\ UNCHANGED <<screen, room, pushButtonFlag, real, rssi_Major_count, pushed>>

\* The round is dropped: too few of the beacons were measured.
SkipRound(b, answered) ==
  /\ Ranged(b) /\ Collecting
  /\ ~LastRound
  /\ ZeroSeen(b)
  /\ RecordFirstRound(b, answered)
  /\ UNCHANGED <<screen, ruler, rulerRows, tracked, promptLost, unsaved,
                 pushButtonFlag, real, rssiFlag, rssi_Rssi, rssi_Major_flag,
                 pushed, aborts, counted, heard>>

\* The round is added to the sums.
CountRound(b, answered) ==
  /\ Ranged(b) /\ Collecting
  /\ ~LastRound
  /\ ~ZeroSeen(b)
  /\ RecordFirstRound(b, answered)
  /\ rssiFlag' = rssiFlag + 1
  /\ rssi_Rssi' = [i \in Slot |-> SumAfter(b, MajorsAfter(b), i)]
  /\ rssi_Major_flag' = [i \in Slot |-> FlagAfter(b, MajorsAfter(b), i)]
  /\ counted' = counted + 1
  /\ heard' = [m \in Majors |-> heard[m] \cup
                 {b[k].rssi : k \in {k \in DOMAIN b : b[k].major = m /\ b[k].rssi # 0}}]
  /\ UNCHANGED <<screen, ruler, rulerRows, tracked, promptLost, unsaved,
                 pushButtonFlag, real, pushed, aborts>>

\* The round after the last counted one: the averages are handed to pushPoint,
\* with the point scaled by the ruler in force, and the arrays are cleared.
PushFingerprint(b) ==
  /\ Ranged(b) /\ Collecting
  /\ LastRound
  /\ pushed' = [rows |-> Fingerprint, room |-> myroom, point |-> real, ruler |-> ruler,
                fresh |-> aborts = 0, rounds |-> counted, heard |-> heard]
  /\ rssiFlag' = 1
  /\ pushButtonFlag' = FALSE
  /\ ClearArrays
  /\ UNCHANGED <<screen, room, real, rssi_Major_count, counted, heard>>

\* UIKit presents an alert over a view in the window, and the view of a callback
\* that waits may be there or not.
InWindow == IF frames = <<>> THEN {visible} ELSE BOOLEAN

\* The ruler prompt replaces nothing: UIKit refuses to present an alert while
\* another one is on the screen, and the prompt is lost.
RaisePrompt ==
  /\ StopBeaconRanging
  /\ \E inWindow \in InWindow :
       LET presented == alert = "none" /\ inWindow
       IN  /\ alert' = IF presented THEN "ruler" ELSE alert
           /\ promptLost' = ~presented
  /\ UNCHANGED ruler

\* Mutant: the rows are matched with the room of the round before.
RowsOfStaleRoom(now, answered) == IF answered THEN rulerRows[myroom] ELSE {}

\* The rows of ibeacon_room_heightandwidth for the room.
RowsOf(now, answered) == IF answered THEN rulerRows[now] ELSE {}

\* getPoint: the room of the strongest beacon, and its ruler or the prompt for it.
\* Nothing asks whether the screen is visible.
Track(b, answered, scaled) ==
  LET now == RoomAfter(b, answered)
      rows == RowsOf(now, scaled)
  IN  /\ Ranged(b) /\ ~Collecting
      /\ myroom' = now
      /\ tracked' = now
      /\ \/ /\ rows # {}
            /\ ruler' \in rows
            /\ promptLost' = FALSE
            /\ unsaved' = FALSE
            /\ UNCHANGED <<ranging, alert>>
         \/ rows = {} /\ RaisePrompt /\ UNCHANGED unsaved
      /\ UNCHANGED <<view, startBool, connectFlag, coordinator, outlived, rulerRows,
                     collecting>>

-----------------------------------------------------------------------------
(* The view callbacks, which the tab bar calls.  An alert is modal: while one   *)
(* is up neither the tab bar nor the buttons can be reached, but callbacks that *)
(* wait return under it.                                                        *)

Wait(call) ==
  /\ Len(frames) < MaxWaiting
  /\ frames' = Append(frames, call)

Return(call) ==
  /\ frames # <<>> /\ Last(frames) = call
  /\ frames' = Front(frames)

\* viewWillAppear, up to the wait of connectMQTT if that makes an MQTT object, and
\* else to its end.  connectFlag is cleared whether or not the database is connected.
ViewWillAppear ==
  /\ ~visible /\ alert = "none"
  /\ visible' = TRUE
  /\ IF myMqtt = "nil"
     THEN /\ myMqtt' = "connecting"
          /\ Wait("appear")
          /\ connectFlag' = FALSE
          /\ UNCHANGED <<startBool, ranging, coordinator, outlived>>
     ELSE /\ TurnOnBeacon /\ startBool' = TRUE /\ outlived' = FALSE
          /\ connectFlag' = TRUE /\ coordinator' = TRUE
          /\ UNCHANGED <<frames, myMqtt>>
  /\ myroom' = NoRoom
  /\ pushButtonFlag' = FALSE /\ real' = NoPoint /\ rssiFlag' = 1
  /\ ClearArrays
  /\ NewHistory
  /\ pushed' = NoPush
  /\ UNCHANGED <<alert, ruler, rulerRows, tracked, promptLost, unsaved, rssi_Major_count>>

\* Mutant: on a screen that was left meanwhile the database is not connected.
ViewDidWaitHidden ==
  /\ Return("appear")
  /\ myMqtt' = IF myMqtt = "connecting" THEN "ready" ELSE myMqtt
  /\ IF visible THEN ConnectDB ELSE UNCHANGED <<connectFlag, coordinator>>
  /\ TurnOnBeacon /\ startBool' = TRUE /\ outlived' = FALSE
  /\ UNCHANGED <<visible, alert, room, collecting>>

\* The rest of viewWillAppear, whatever has run in between.  An object that still
\* connects is the one of the innermost callback, and is given its session now.
ViewDidWait ==
  /\ Return("appear")
  /\ myMqtt' = IF myMqtt = "connecting" THEN "ready" ELSE myMqtt
  /\ Resume
  /\ UNCHANGED <<visible, alert, room, collecting>>

\* viewWillDisappear, up to the wait of disconnectMQTT if there is a session to
\* close, and else to its end; a collection under way is left as it stands.
ViewWillDisappear ==
  /\ visible /\ alert = "none"
  /\ visible' = FALSE
  /\ IF myMqtt = "ready"
     THEN /\ Wait("disappear")
          /\ UNCHANGED <<myMqtt, power>>
     ELSE /\ myMqtt' = "nil"
          /\ Pause
          /\ UNCHANGED frames
  /\ UNCHANGED <<alert, room, collecting>>

\* The rest of viewWillDisappear, whatever has run in between.
ViewDidClose ==
  /\ Return("disappear")
  /\ myMqtt' = "nil"
  /\ Pause
  /\ UNCHANGED <<visible, alert, room, collecting>>
-----------------------------------------------------------------------------
(* The buttons and the alerts. *)

\* The screen takes touches, also while its viewWillDisappear waits.
Touched ==
  /\ alert = "none"
  /\ visible \/ \E n \in DOMAIN frames : frames[n] = "disappear"

StopButton ==
  /\ Touched
  /\ startBool
  /\ Pause
  /\ UNCHANGED <<view, alert, room, collecting>>

\* A collection under way starts again from its first round.
StartButton ==
  /\ Touched
  /\ ~startBool
  /\ Resume
  /\ rssiFlag' = 1
  /\ ClearArrays
  /\ NewHistory
  /\ UNCHANGED <<view, alert, room, pushButtonFlag, real, rssi_Major_count, pushed>>

PushStart ==
  /\ Touched
  /\ ~pushButtonFlag
  /\ alert' = "point"
  /\ UNCHANGED <<view, power, room, collecting>>

PushConfirm(p) ==
  /\ alert = "point"
  /\ alert' = "none"
  /\ real' = p
  /\ pushButtonFlag' = TRUE
  /\ NewHistory
  /\ pushed' = NoPush
  /\ UNCHANGED <<view, power, room, rssiFlag, arrays, rssi_Major_count, aborts>>

PushCancel ==
  /\ alert = "point"
  /\ alert' = "none"
  /\ UNCHANGED <<view, power, room, collecting>>

\* The arrays keep what the collection given up had added.
PushStop ==
  /\ Touched
  /\ pushButtonFlag
  /\ counted > 0 => aborts < MaxAborts
  /\ pushButtonFlag' = FALSE
  /\ rssiFlag' = 1
  /\ aborts' = IF counted > 0 THEN aborts + 1 ELSE aborts
  /\ UNCHANGED <<screen, room, real, arrays, rssi_Major_count, pushed, counted, heard>>

\* The room's width and height were typed; a zero is not stored.  The ranging is
\* started without asking whether the screen still is.
RulerConfirm(s, saved) ==
  /\ alert = "ruler"
  /\ alert' = "none"
  /\ ruler' = s
  /\ IF s = NoScale
     THEN UNCHANGED <<rulerRows, unsaved>>
     ELSE /\ rulerRows' = IF saved THEN [rulerRows EXCEPT ![myroom] = @ \cup {s}]
                          ELSE rulerRows
          /\ unsaved' = ~saved
  /\ TurnOnBeacon
  /\ outlived' = ~startBool
  /\ UNCHANGED <<view, startBool, connectFlag, coordinator, myroom, tracked,
                 promptLost, collecting>>
-----------------------------------------------------------------------------
\* viewDidLoad, and the first viewWillAppear up to its wait.
Init ==
  /\ visible = TRUE /\ frames = <<"appear">> /\ myMqtt = "connecting"
  /\ alert = "none" /\ startBool = TRUE /\ ranging = FALSE
  /\ connectFlag = FALSE /\ coordinator = FALSE
  /\ myroom = NoRoom /\ ruler = NoScale
  /\ rulerRows \in [RoomNames -> {{}} \cup {{s} : s \in Scales}]
  /\ pushButtonFlag = FALSE /\ real = NoPoint /\ rssiFlag = 1
  /\ rssi_Rssi = [i \in Slot |-> 0]
  /\ rssi_Major = [i \in Slot |-> NoMajor]
  /\ rssi_Major_flag = [i \in Slot |-> 0]
  /\ rssi_Major_count = 0
  /\ pushed = NoPush
  /\ tracked = NoRoom /\ promptLost = FALSE /\ unsaved = FALSE /\ outlived = FALSE
  /\ aborts = 0 /\ counted = 0 /\ heard = [m \in Majors |-> {}]

DidRangeBeacons ==
  \E b \in Batches :
     \/ \E answered \in Answers : SkipRound(b, answered) \/ CountRound(b, answered)
     \/ PushFingerprint(b)
     \/ \E answered, scaled \in Answers : Track(b, answered, scaled)

Screen ==
  \/ ViewWillAppear \/ ViewDidWait \/ ViewWillDisappear \/ ViewDidClose
  \/ StopButton \/ StartButton

Dialogs ==
  \/ PushStart
  \/ \E p \in Points \cup {NoPoint} : PushConfirm(p)
  \/ PushCancel
  \/ PushStop
  \/ \E s \in Rulers, saved \in Answers : RulerConfirm(s, saved)

Next == DidRangeBeacons \/ Screen \/ Dialogs

\* A round in which every beacon of the batch was measured.
FullRound ==
  \E b \in Batches :
     /\ \A k \in DOMAIN b : b[k].rssi # 0
     /\ PushFingerprint(b) \/ \E answered \in Answers : CountRound(b, answered)

Spec == Init /\ [][Next]_vars

\* CoreLocation calls back about once a second for as long as it ranges, and the
\* beacons never stop sending; the operator is under no obligation.
FairSpec == Spec /\ WF_vars(FullRound)
-----------------------------------------------------------------------------
(* Properties *)

\* Types.  rssiFlag never leaves 1..Rounds.
TypeOK ==
  /\ visible \in BOOLEAN /\ startBool \in BOOLEAN /\ ranging \in BOOLEAN
  /\ connectFlag \in BOOLEAN /\ coordinator \in BOOLEAN /\ pushButtonFlag \in BOOLEAN
  /\ promptLost \in BOOLEAN /\ unsaved \in BOOLEAN /\ outlived \in BOOLEAN
  /\ alert \in {"none", "point", "ruler"}
  /\ frames \in Seq({"appear", "disappear"}) /\ myMqtt \in {"nil", "connecting", "ready"}
  /\ myroom \in RoomNames /\ tracked \in RoomNames
  /\ ruler \in Rulers /\ rulerRows \in [RoomNames -> SUBSET Scales]
  /\ real \in Points \cup {NoPoint}
  /\ rssiFlag \in 1..Rounds
  /\ rssi_Rssi \in [Slot -> Int]
  /\ rssi_Major \in [Slot -> Majors \cup {NoMajor}]
  /\ rssi_Major_flag \in [Slot -> Nat]
  /\ rssi_Major_count \in 0..Slots
  /\ aborts \in Nat /\ counted \in Nat
  /\ heard \in [Majors -> SUBSET Readings]

\* Whatever was given up, restarted or dropped before, a slot's sum is that of as
\* many two-digit readings as its count says (lines 555-557): a reading of 0 and a
\* cleared or re-recorded slot leave the two in step.
SlotSums ==
  \A i \in Slot : /\ Weakest * rssi_Major_flag[i] <= rssi_Rssi[i]
                  /\ rssi_Rssi[i] <= Strongest * rssi_Major_flag[i]

\* Whatever the operator gave up or restarted before, every average handed to
\* pushPoint is a number of a sign and two digits: no slot is divided by a zero
\* count (line 516), and getPoint, which cuts the stored string up three
\* characters at a time (line 1066), can read it back.
PushedReadable ==
  \A i \in DOMAIN pushed.rows : pushed.rows[i].rssi \in Weakest..Strongest

\* A pushed fingerprint names at least Stations different beacons, which is what
\* the four columns of the vote in getPoint (line 1141) need to tell points apart:
\* no beacon measured in the first counted round is lost on the way (line 554).
PushedComplete ==
  pushed # NoPush =>
    Cardinality({pushed.rows[i].major : i \in DOMAIN pushed.rows}) >= Stations

\* The average pushed for a beacon lies between the weakest and the strongest
\* reading of that very beacon in this very collection, unless a collection was
\* given up and left its sums in the arrays (pushButtonStopClick, line 280).
PushedOwnReadings ==
  pushed # NoPush /\ pushed.fresh =>
    \A i \in DOMAIN pushed.rows :
      LET own == pushed.heard[pushed.rows[i].major]
      IN  /\ \E r \in own : r <= pushed.rows[i].rssi
          /\ \E r \in own : r >= pushed.rows[i].rssi

\* Every pushed fingerprint averages exactly Rounds - 1 counted rounds of its own
\* collection, however often the operator stopped, restarted or left before: no
\* path leaves rssiFlag part of the way up (lines 215, 284, 505, 1555).
PushedFullCount ==
  pushed # NoPush => pushed.rounds = Rounds - 1

\* Whatever the run loops of the view callbacks serve, and in whatever order those
\* return, a ranging callback finds the screen started and a coordinator for its
\* queries: the code never asks for either (line 464), and viewWillAppear clears
\* connectFlag under it (line 220).  Except that a ruler prompt raised while
\* viewWillDisappear waits outlives the screen, and its answer starts the ranging
\* of a screen that was switched off (line 996).
RangingIsServed ==
  ranging => (startBool /\ coordinator) \/ outlived

\* The screen does not fall silent: while it shows "started" with no alert up, it
\* ranges, unless a ruler prompt was lost because it could not be presented when it
\* was raised (getPoint has stopped the ranging by then, line 962), or the first
\* appearance still waits.
StartedMeansRanging ==
  visible /\ startBool /\ alert = "none" /\ ~promptLost =>
    ranging \/ (frames # <<>> /\ Head(frames) = "appear")

\* However the view callbacks were nested, once all have returned the buttons, which
\* ask startBool, connectDB and disconnectDB, which ask connectFlag, and the queries,
\* which use the coordinator, mean the same: a callback that returns late leaves no
\* half switched screen, which no button could repair.
SwitchedTogether ==
  frames = <<>> => startBool = connectFlag /\ connectFlag = coordinator

\* The ruler in force, which scales the pushed point, is a stored scale of the room
\* that was tracked last, unless the prompt for it is up or was lost, or its INSERT
\* failed; it may still differ from the room of the pushed row, because the first
\* round of a collection changes _myroom and not the ruler (line 458).
RulerOfTrackedRoom ==
  alert # "ruler" /\ ~promptLost /\ ~unsaved /\ ruler # NoScale =>
    ruler \in rulerRows[tracked]

\* A collection that has started ends, with a push or with the operator's stop, as
\* long as the screen keeps ranging: skipped rounds do not hold it up for ever.
CollectionEnds == (ranging /\ Collecting) ~> (~ranging \/ ~Collecting)

=============================================================================
