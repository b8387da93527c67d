# TLA+ verification of the smart fire-protection locator

An iOS application finds the phone's position in a room from the signal
strength of iBeacons and publishes it over MQTT. Positions are estimated by
comparing the measured signals with *fingerprints* an operator collected at
known points and stored in a MySQL database. `LVC` below is
`src/iOS-Bluetooth-code/Intelligent_fire_protection_2/LocationViewController.m`,
`MQTT.m` and `QRCodeScanningViewController.m` stand beside it, and `MQTTSession.m`
and `MQTTCoreDataPersistence.m` are the vendored client's, under
`src/iOS-Bluetooth-code/Pods/MQTTClient/MQTTClient/MQTTClient/`. The program's
logic is in Objective-C `.m` files; the C and C++ headers of the repository are
those of vendored libraries.

## 1. Inventory

| Part | State | Operations | Hard behaviour | What makes it correct |
|---|---|---|---|---|
| **Location screen** (LVC) | ranging, start/stop, alerts, room, ruler, collecting arrays | `didRangeBeacons`, view callbacks, four buttons, two alerts | callbacks in any order, two of which wait in run loops that serve the others; an alert that cannot be presented; a collection spread over 40 callbacks that may be given up; failing queries | a pushed average is that of this collection; the screen does not fall silent; ranging, connections and buttons are switched together, in whatever order waiting callbacks return |
| **Fingerprint matching** (`getPoint`, LVC 1034-1233) | six seats, rows, votes, locations | scan, vote, sort, average | four parallel pieces of data, copied code, dependence on the order of rows | seats agree, the nearest record survives, the best voted are averaged |
| **Fingerprint store** (`pushPoint`, LVC 1236-1301) | table `ibeacon` | SELECT then UPDATE or INSERT | several phones, no transaction, no key, failing queries | one row per location, rows permanent, success reported only on success |
| **MQTT wrapper** (`MQTT.m`) | session | connect, close, publish, events | nested run loops inside view callbacks, which return in the reverse of their order; no reconnection | the screen is on with a session or off without one, nothing is left over, no status follows the goodbye |
| **MQTT session** (`Pods/MQTTClient`) | flows, window, message ids, handlers | publish, QoS 2 handshake, retransmission, connect, close | lost, repeated and late packets; window and store limit; wrap of ids; clean session | each QoS 2 message delivered at most once and never confirmed before; handlers agree with flows; limits and order hold |
| **QR scanner** (`QRCodeScanningViewController.m`) | capture session, labels, button | set-up after 0.3 s, scan result, confirm | delayed set-up against view transitions, results queued behind the one shown | a shown tab is never dead, a left one does not film |
| **Database client** (`Pods/OHMySQL`, vendored) | connection | query | a failing query answers `nil` | used only through its answers |
| Row models, delegates, tab bar, drawing, logging, web socket | - | - | - | UI, records and vendored code: not modelled |
| Trilateration (LVC 676-890, 1400-1500) | - | - | - | dead: `locationFlag` stays 1, the line that adds its button is commented out (LVC 207) |

How they interact: CoreLocation calls the location screen about once a second;
the screen queries the database synchronously inside that callback, hands
messages to the MQTT wrapper, and either feeds the collecting arrays (and, in
the last round, the store) or runs the matching. All of it runs on the main
thread. Different phones share the database tables and nothing else.

## 2. Modules

| Module | Models | Checked by | Proved in |
|---|---|---|---|
| `LocationController` | the location screen as a state machine, one action per callback, or per part of a callback that waits | `MCLocationController` with `LocationCollect`, `LocationRooms` | `LocationController_proofs` |
| `FingerprintString` | the stored text of a fingerprint: its writer and its fixed-width reader, one action per iteration | `MCFingerprintString` with `FingerprintString` | `FingerprintString_proofs` |
| `FingerprintMatch` | the matching loops, one action per iteration | `MCFingerprintMatch` with `FingerprintMatch` | `FingerprintMatch_proofs` |
| `FingerprintStore` | `pushPoint` by several phones, one action per query | `MCFingerprintStore` with `StoreSingle`, `StoreShared`, `StoreLabel` | `FingerprintStore_proofs` |
| `FingerprintMap` | abstract: a map from locations to a room and a fingerprint | refined by `FingerprintStore` | `FingerprintStore_proofs` |
| `MqttSession` | one `MQTTSession`: connection, QoS 2 in both directions, window, store, retransmission, handlers; and the broker | `MCMqttSession` with `MqttOut`, `MqttIn`, `MqttWindow` | `MqttSession_proofs` |
| `MqttDelivery` | abstract: a message handed over arrives at most once and is confirmed only after that | refined by `MqttSession` twice, once per direction | `MqttSession_proofs` |
| `MqttScreens` | `MQTT.m` and the two view callbacks that wait in it, as a stack of frames | `MCMqttScreens` with `MqttScreens` | `MqttScreens_proofs` |
| `QrScan` | the scanning tab | `MCQrScan` with `QrScan` | `QrScan_proofs` |

`LocationController` and `MqttScreens` are two views of the same screen, and
both split the view callbacks where they wait in a nested run loop, `viewWillAppear`
in `connectAndWaitTimeout:10` (`MQTT.m:75`) and `viewWillDisappear` in `closeAndWait:1`
(`MQTT.m:30`). The first models everything the screen does with alerts, rooms, rulers
and collections, and keeps of MQTT only whether there is an object and whether it has
a session, which decides whether a callback waits. The second names the MQTT objects
and models their sessions and what they publish, and leaves alerts, rooms and
collections out.
`FingerprintString` ends where `FingerprintMatch` begins, at the differences per
beacon. `MqttSession` models what `MqttScreens` takes for a session that is
connecting, connected or closed.

### LocationController

State: the flags of the screen (`startBool`, `connectFlag`, whether the coordinator
exists, whether the view is shown, which alert is up, whether the location manager
ranges), the stack `frames` of the view callbacks that wait, `_myMqtt` (none, one that
still connects, or one with a session), `_myroom`, the ruler (`widthRuler`/`heightRuler` as one
value, because they are always written together), the ruler table, and the
collecting state with the code's names (`rssiFlag`, `rssi_Rssi`, `rssi_Major`,
`rssi_Major_flag`, `rssi_Major_count`, `pushButtonFlag`; `real` is the typed
point).

| Action | Code |
|---|---|
| `SkipRound`, `CountRound`, `PushFingerprint` | the collecting branch of `didRangeBeacons`, LVC 453-562 |
| `Track` | the other branch, LVC 563-658, with the room and ruler part of `getPoint`, LVC 894-1010 |
| `ViewWillAppear`, `ViewDidWait` | LVC 213-227 up to the wait of `connectMQTT`, and 227-231 after it; one step if there is an MQTT object already and nothing waits |
| `ViewWillDisappear`, `ViewDidClose` | LVC 232-239 up to the wait of `disconnectMQTT`, and 239-244 after it; one step if there is no session to close |
| `StopButton`, `StartButton` | LVC 1510-1565 |
| `PushStart`, `PushConfirm`, `PushCancel`, `PushStop` | LVC 254-286 |
| `RulerConfirm` | the handler of the ruler prompt, LVC 964-997 |

While a callback waits every other action may run; the innermost one returns first.
A query finds no coordinator until `connectDB` has run, and then returns nil
(`Answers`).

The rules of UIKit and C that are used: an alert is modal, so buttons and tabs
cannot be reached under it, while ranging callbacks and the return of a waiting
callback go on. An alert raised under another one is refused and lost; raised while
a view callback waits it may or may not find the view in the window (`InWindow`). A
screen whose `viewWillDisappear` waits still takes touches. Division truncates, and the phone's
processor answers 0 to a division by 0.

Assumptions on the environment, all in the `ASSUME`s: beacons have different
majors; a reading is 0 or has a sign and two digits, from -99 to -10; a batch
fits in the arrays of 100. `rssi_Rssi` is not cut to 64 bits, since it holds at most 40 readings of
two digits per collection.

History variables, read by properties only: `tracked`, `promptLost`, `unsaved`,
`outlived`, `aborts`, `counted`, `heard`. (`aborts` also carries the bound.)

### FingerprintString

State: the beacons of a stored fingerprint (`stored`) and of the batch, the text
(`pushString`, then what is left of `rssiString`), the part cut off it, and the
differences with their sum (`flagLong`, `rssiAbs`).

| Action | Code |
|---|---|
| `WriteSlot`, `EndWrite` | one iteration of the writer, and its end, LVC 511-520 |
| `CutSlot` | the cuts of one iteration of the reader, LVC 1062-1068: five characters of major, one skipped, three of rssi, one dropped |
| `MatchBeacon`, `EndMatch` | one iteration of the loop over the batch, and its end, LVC 1070-1078 |
| `EndRead` | the text is empty, LVC 1062 |

An exception for a substring beyond the end is the phase `raised`. Texts are
sequences of characters here, because where they are cut is what can go wrong;
`Decimal` is `%ld` and `Number` is `longLongValue`, which stops at the first
character that is no digit.

### FingerprintMatch

A stored fingerprint is a record of its difference per beacon (`flagLong`) and of
`rssiResult`, the sum of those differences divided by the number of fingerprints
stored for the room (`rssiArray.count`, LVC 1083). The divisor is the same for every
record of a scan, so results stand for what is compared, in whole numbers. `Scan` is one
iteration of the loop over the rows with its cascade of six `else if`s;
`EndScan` is the test and the vote; `SortStep` one comparison of the exchange
sort; `Finish` picks the three locations to average. The rows of `maxArr` are
numbered backwards with respect to the seats, as in the code. The coordinates
are not averaged: the property is about which records are.

### FingerprintStore and FingerprintMap

`Select` is the SELECT of the whole table and the search for the location;
`Write` the UPDATE or INSERT that follows, together with the label; the queries
of different phones interleave between the two. A failing SELECT is taken for an
empty answer. The abstract map promises that a push sets the fingerprint of its
location and leaves the room of the first push in place.

### MqttSession and MqttDelivery

State of the client: `status`, the socket (`link`), the ids handed out
(`txMsgId`), per outgoing message its flow in the persistence (`commandType`, or
free; `None` is queued), whether its deadline has passed, what became of its
publish handler, and the incoming messages that wait for a PUBREL. The broker
keeps its half of both handshakes. Packets travel in two sequences; what
has not been read when the client closes is lost to it, and what the broker has not
read when the client connects anew is lost to the broker.

| Action | Code |
|---|---|
| `Connect`, `TransportDidOpen`, `TransportDidClose`, `Close` | `connect`, the transport callbacks, `closeWithReturnCode`, `closeInternal` |
| `Publish` | `publishData` with the store's limit |
| `CheckDup`, `CheckTxFlows` | the timer of a connected session and its pass over the flows: send what is queued while the window lets it, repeat what is due |
| `Timeout` | 20 seconds after a flow was sent |
| `HandleConnack`, `HandleRefusal`, `HandlePubrec`, `HandlePubcomp`, `HandlePublish`, `HandlePubrel` | the handler of each packet |
| `Break`, `Broker...` | external: the socket and the broker |

The broker is assumed to keep MQTT 3.1.1: it remembers its half of the handshakes
over a reconnect unless the session is clean, and repeats what is unfinished. It
hands a message on with its PUBLISH and not with its PUBREL, which leaves the
most to the sender. The application itself connects each session once and with a
clean session; reconnects and kept sessions are behaviour the library offers, and
are modelled for it.

`MqttDelivery` has three steps, `Give`, `Deliver`, `Confirm`. Outgoing, a message is
given when its publish is accepted, delivered when the broker hands it on, and
confirmed when its publish handler is called. Incoming, it is given when the
broker starts to send it, delivered when `newMessage` is called, and confirmed
when the broker's handshake ends.

### MqttScreens

State: `frames` is the stack of view callbacks that wait, each with the MQTT
object it was called with. An MQTT object is named by the switch of the tab that
made it; `mySession` is the set of those whose `mySession` is set, `session` the
state of the session each one made, `outbox` the last status it queued.

| Action | Code |
|---|---|
| `ViewWillAppear`, `ViewDidWait` | `viewWillAppear` (LVC 213-229) with `connectServer` and `websocket` (`MQTT.m`), before and after `connectAndWaitTimeout` |
| `ViewWillDisappear`, `ViewDidClose` | `viewWillDisappear` (LVC 232-244) with `disConnectServer`, before and after `closeAndWait` |
| `StopButton`, `StartButton`, `DidRangeBeacons` | what the run loops serve meanwhile |
| `Accept`, `Broken` | the broker's answer, failure, and the broker closing the older session of the same client id |

Assumption: the system delivers touches and location callbacks in a nested run
loop, and a screen whose `viewWillDisappear` waits is still shown. `LocationController`
has the same stack together with the alerts.

### QrScan

State: the tab, the timer that sets the camera up 0.3 s after the view was
loaded, the capture session, the result that is shown, and the results that wait
in the main queue. The phone is assumed to have a camera that the application may
use. `setUpHidden` is history, for the one case in which a left tab films.

## 3. Runs

| Run | Instance | Shows |
|---|---|---|
| `location_collect` | 3 beacons, 6 batches (order, a missing beacon, an extra one, an unmeasured one, too few), 4 stations reduced to 2, 3 slots, push at round 3, one collection given up, one view callback waiting at a time | `TypeOK`, `SlotSums`, `PushedReadable`, `PushedComplete`, `PushedOwnReadings`, `PushedFullCount`, and with fairness `CollectionEnds` |
| `location_rooms` | 2 rooms, one beacon each, rulers stored or not, every query may fail, two view callbacks waiting at a time | `RangingIsServed`, `StartedMeansRanging`, `SwitchedTogether`, `RulerOfTrackedRoom` |
| `fingerprint_string` | up to 3 stored beacons, up to 3 ranged, in every order; majors 10000, 65535 and 999; averages -99, -57, -10 | `TypeOK`, `RoundTrip` |
| `fingerprint_match` | six seats and four columns as in the code, four kinds of records, up to seven rows in every order | `TypeOK`, `SeatsAgree`, `NearestKept`, `EstimateNeedsAllSeats`, `BestVotesAveraged`, `DominanceRespected` |
| `store_single` | one phone, two locations, two rooms, three fingerprints, failing writes | `ImplementsMap` |
| `store_shared` | three phones, one location, two rooms, failing writes | `TypeOK`, `OneRowPerPhone`, `RowsArePermanent` |
| `store_label` | one phone, a failing write | a **violation** of `ShownIsStored`, see below |
| `mqtt_out` | 4 messages, window 1, store limit 2, 3 connects, clean or not | `TypeOK`, `LimitsHold`, `QueuedInOrder`, `HandlersMatchFlows`, the refinement `OutDelivered`, and with fairness `Settles` |
| `mqtt_in` | 2 messages from the broker, store limit 1, 3 connects, and one outgoing message beside them | the refinement `InDelivered`, and with fairness `Arrives` |
| `mqtt_window` | 2 messages, window 1, one connect | a **violation** of `WindowRespected`, see below |
| `mqtt_screens` | 6 switches of the tab | `TypeOK`, `Settled`, `NothingLeftOver`, `GoodbyeIsLast`, and with fairness `Unwinds` |
| `qr_scan` | 3 codes, one without labels; 2 results in the queue | `TypeOK`, `ScreenAlive`, `CameraOffWhenHidden` |

Bounds, and why they are enough.

* Location screen. Two stations instead of four keep every distinction the code
  makes on them (fewer, as many, more than needed; measured or not). Rounds are 3
  instead of 40: a first round, which records the batch, one that only adds, and the
  push. Three slots leave one beyond the shortest batch, so that the scan bounded
  by the batch length can miss a beacon. `MaxAborts` limits how often sums are left
  behind; one is enough for sums of two collections to meet. The instance of
  `location_collect` lists no rooms, since what is collected does not depend on them,
  and lets one view callback wait, under which stops, starts and collections go on.
  `location_rooms` lets two wait, one inside the other in each of the four
  combinations: the one that returns last meets what all the others left. It needs
  one station and one scale, since its properties ask only whether a room has a
  scale. The proofs use none of these bounds.
* Text. Three stored beacons give the reader a first, a middle and a last slot;
  with three majors the batch has those of the fingerprint, others, or none. The
  short major shifts everything behind it, and at the end raises the exception. The
  proofs use none of these bounds.
* Matching. Seven rows overflow the six seats, and with three different results
  under the limit a replaced record can be nearer than one that stays.
* Store. `MaxRows` is reached only if SELECTs fail, which no passing run lets them
  do.
* MQTT session. Four messages through a window of one and a store of two (both
  admit one more) have two in flight, one queued and one refused. Three connects
  are a first one, a reconnect that fails or not, and one after it. `MaxPackets`
  holds retransmissions back while packets are on the way; with two, a repetition
  meets a late answer. The proofs use none of these bounds.
* Screens. Six switches nest three appearances and three disappearances, so that
  a frame can return under two others that were called after it, and a further
  switch can follow the nesting. The proofs do not use the bound.
* QR. Two queued results are one that stops the scan and one behind it.

Deadlock checking is off where the system may stop: `getPoint` returns, the text
is read, and the bounded switches, connects and messages of the MQTT modules run
out. Everywhere else it is on.

Fairness. `location_collect` assumes weak fairness of a counted or pushing round in
which every beacon of the batch is measured: CoreLocation calls back about once a
second while it ranges, and the beacons transmit continuously. The MQTT session runs are
fair to `Receive`, `CheckDup`, `TransportDidClose`, `Timeout` and `BrokerReceive`: the
queue serves packets and timers, clocks run, a failed socket is reported and the
broker answers. Nobody has to connect, since the code never does so by itself, and
connections may break for ever. `mqtt_screens` is fair to the return of the
innermost callback: its run loop has a time limit. `CollectionEnds` does not need
that, so `location_collect` does not assume it. Nothing is assumed of the operator, of
when a view callback is made, or of rounds that are skipped.

### What the properties say that one might not expect

* `PushedOwnReadings` holds only for collections that start on cleared arrays:
  `pushButtonStopClick` (LVC 280-286) leaves the sums, and the next collection
  goes on with them. Without the condition `fresh` the property fails.
  Counts and sums stay in step all the same (`SlotSums`), so the averages stay
  readable.
* `RangingIsServed` does not say that only a shown screen ranges. In the run loop of
  `closeAndWait` a hidden screen goes on ranging for a second, and a `viewWillAppear`
  that returns late switches a screen on that was left meanwhile. What holds is that
  the ranging never outlives the start button and the database connection, which the
  ranging callback uses without asking. The exception `outlived` is real: a ruler
  prompt raised in that second stays up, and its answer (LVC 996) turns the ranging of
  a stopped screen on. That ends with the next switch of the tab, or with the start
  button.
* `SwitchedTogether` is about the end of every nesting. While an appearance waits,
  flag, coordinator and button may differ: `viewWillAppear` clears `connectFlag`
  (LVC 220) without disconnecting. That the screen they agree about may be a hidden
  one, or a shown one that is off, is said in `MqttScreens` (`Settled`, below).
* `StartedMeansRanging` needs the exception `promptLost`: tracking continues
  under the point alert, and a ruler prompt raised then is refused, after the
  ranging was stopped for it (LVC 962). The screen is silent until the operator
  stops and starts, or leaves and returns. The same happens to a prompt that finds
  the view out of the window. The other exception is the first appearance, which shows
  "started" (LVC 99) before it ranges.
* What is published after the goodbye is the matter of `MqttScreens`:
  `GoodbyeIsLast` says what reaches a session, whatever ranging callbacks hand to
  `_myMqtt` in the run loop of the close.
* `RulerOfTrackedRoom` speaks of the room tracked last. The scale typed into a ruler
  prompt goes to the `_myroom` of the moment of the answer, which is another room than
  the prompt was raised for if a view callback returned under the prompt and turned the
  ranging on again. Nor does it speak of the room that
  is pushed: the first round of a collection changes `_myroom` (LVC 491) and not
  the ruler, so a collection started while crossing into another room stores its
  point in the scale of the old one.
* `NearestKept` promises the nearest record only. A replaced record is dropped
  rather than moved to the next seat, so the six seats need not hold the six
  nearest records.
* `OneRowPerPhone` allows as many rows per location as there are phones; one row
  per location is not kept by two phones, because SELECT and INSERT are not one
  transaction.

* `RoundTrip` holds for stored majors of five digits only; the reader's widths do
  not fit others. A beacon that the fingerprint lacks is read as a difference of 0,
  as if it matched perfectly, and `RoundTrip` says so.
* `Settled` excludes a switch made while an earlier callback still waited: there the
  code does end on a shown screen whose MQTT object is gone, or on a hidden one
  that ranges. What holds even then is `NothingLeftOver`. The next switch that
  nothing disturbs repairs the screen, and that is what `Settled` says.
* `GoodbyeIsLast` speaks of a goodbye given to a connected session. That the broker
  hands it on is not promised: it is a QoS 2 message followed at once by a
  DISCONNECT.
* `LimitsHold` allows one more than configured, since window and store are tested
  with `<=`.
* `Settles` and `Arrives` promise nothing unless a connection lasts in the end:
  the code does not reconnect. `Arrives` also supposes that the store of incoming
  messages never fills up: when full it refuses even the repetition of a message
  it holds (`MQTTCoreDataPersistence.m:228`), and the handshake that would empty
  it cannot go on.
* `CameraOffWhenHidden` needs the exception `setUpHidden`: the delayed set-up is not
  cancelled and starts the camera of a tab that was left within 0.3 s.

### Findings

`store_label`: the label "上传指纹成功" ("fingerprint uploaded successfully",
LVC 200) is shown at LVC 533 after `pushPoint` returns, and `pushPoint` only logs
a failed write (LVC 1298-1299). In the counterexample an INSERT fails, the table stays empty,
and the label appears.

`mqtt_window`: `MQTTSession.h:322` calls `maxWindowSize` "the number of messages sent
before waiting for acknowledgement in Qos 1 or 2". `publishData` and `checkTxFlows`
send while `windowSize <= maxWindowSize` (`MQTTSession.m:410` and `:636`), so one more
is sent. In the counterexample two messages are in flight with a window of one.

## 4. Proofs

All theorems hold for every value of the constants that satisfies the
`ASSUME`s; TLC evaluates those on every run.

* `LocationController_proofs`. `TypeCorrect` first; `AveragesReadable` proves
  `SlotSums /\ PushedReadable`. `PushedReadable` is not inductive by itself: that
  no reported slot has a zero count follows because each slot's sum lies between
  -99 and -10 times its count (`SlotSums`), whatever was left behind, and the
  lemma `QuotientOfSum` turns this into a bound on the quotient.
  `ScreenConsistent` proves `RangingIsServed`, `StartedMeansRanging` and
  `SwitchedTogether` together, for any depth of nesting. None of them is inductive,
  since what a returning callback finds depends on those that still wait. `PowerInv`
  adds that a set `connectFlag` means a coordinator, that the two agree unless an
  appearance waits (`AppearWaits`), that a started screen under a ruler prompt has its
  coordinator, and that a started screen ranges, is under a prompt, or has an
  appearance at the bottom of the stack (`FirstWaits`); `WaitType` and `ReturnType` say
  what a push and a pop leave of the stack. `ControlInv` says what holds while each
  alert is up, for the theorems that follow.
  `RulerIsTracked` and `FullCount` relate ruler and tracked room, and round
  counter and counted rounds. `OwnReadings` proves `PushedOwnReadings`: as long as no
  collection was given up, each slot's sum lies between its count times two readings
  heard from its own beacon (`FreshSums`, with `HeardMeasured`), and `TimesKeepsOrder`
  and `QuotientBetween` carry that over to the average. `Complete` proves
  `PushedComplete`: from the first counted round on, the slots that were counted name
  at least `Stations` different beacons (`StationsCounted`); they keep their beacons and
  their counts, and a counted slot is always reported.
* `FingerprintMatch_proofs`. `ScanCases` reduces the cascade to two cases: a seat
  takes a record that lowers it, or the last seat was already as near. From it
  follow `NearestSeated` (`NearestKept`) and `SeatsHoldRecords` (`SeatsAgree`), for any number of seats, columns and rows.
  `TypeCorrect` covers the phases after the scan. `EstimateCounts`
  (`EstimateNeedsAllSeats`) rests on `SeatsCount`: the seats fill from the last one
  on, the s-th from the end exactly when s records were under the limit.
  `BestAveraged` (`BestVotesAveraged`) needs to know what the sort has done so far:
  `SortInv` says that votes and locations are still those of the vote, only moved
  together (`VotesLocated`), and that the places before the current one are final
  (`Sorting`, and `Sorted` at the end); `FirstThree` concludes. `DominanceKept`
  (`DominanceRespected`) adds `DominantVotes`: a record at least as near for every
  beacon has at least as many votes, by inclusion of the columns each one wins.
* `FingerprintString_proofs`. `DecimalDigits`, `NumberAverage` and `DecimalInjective` say
  what writing and reading a number do: an average is read back as written, and a
  major of five digits has a text of its own. `TypeCorrect`. `ReadBack` proves
  `RoundTrip` by `StringInv`: with majors of five digits the text is always whole
  slots, those written so far (`Written`) or those not yet read (`ReadUpTo`,
  `MatchUpTo`), and a column is the difference to the one slot read so far that has
  its major, or 0 (`Says`). No column is written twice, and so the sum stays that of
  the columns (`TotalUpdate`). `Number` and `Total` are recursive functions;
  `ComputesExists` proves that such functions exist, by induction over a set of
  numbers (`UpTo`, from the least number principle).
* `FingerprintStore_proofs`. `TypeCorrect`; `RowsStay` (`RowsArePermanent`), also
  when queries fail; `OneRowEach` (`OneRowPerPhone`) with the strengthening that a
  phone about to insert has no row there yet, assuming that SELECTs are answered;
  `SinglePhone`, and from it `RefinesMap`: one phone with answered SELECTs
  implements `FingerprintMap`, every write being a `Put` or a stutter.

* `MqttSession_proofs`. `TypeCorrect`. `FlowsCorrect` proves `LimitsHold`, `QueuedInOrder`
  and `HandlersMatchFlows` together, with the table of ids and handlers and with
  "only what is in flight falls due" (`FlowInv`); the lemma `Admission` is the
  pigeonhole argument that one pass of `CheckTxFlows` admits no more than the window
  plus one, whatever its order. `OutRefines` shows that the outgoing direction
  implements `MqttDelivery`, by `ConnInv` (a CONNECT on the way is alone) and `OutInv`,
  which says for one message what its flow, its packets on the way and the broker's
  memory have to do with one another: a PUBREL stands for a message that was
  delivered, and no PUBLISH follows it. `InRefines` does the same for the incoming
  direction with `InInv`.
* `MqttScreens_proofs`. `TypeCorrect`, and `StackCorrect` for `Settled`,
  `NothingLeftOver` and `GoodbyeIsLast`. None of them is inductive: they speak of the
  empty stack, or of what is published, and depend on what waits in the frames.
  `StackInv` adds that an object waits in one frame and has no session yet
  (`Waiting`), that a closing frame's session is closed (`ClosedFrames`), that the
  screen's object has a session or a frame (`Held`), that what an object without
  session queued is never sent (`QueuedBySession`), and that a hidden screen that said
  goodbye has no open session (`Quiet`).
* `QrScan_proofs`. `ScanCorrect` for the type invariant, `ScreenAlive` and
  `CameraOffWhenHidden`, with `CameraComes`: a loaded tab has its camera or waits for
  it.

Every invariant, action property and refinement that a passing run checks is a
theorem. Model-checked only: `CollectionEnds`, `Settles`, `Arrives` and `Unwinds`, since
liveness under fairness is out of the prover's reach.

## 5. Not modelled

* Payloads of MQTT messages: the position with its division by the ruler, and the
  message without x for a room without id; drawing, formatting, background images.
* Batches longer than `flagLong`: the code writes past an array, and what follows
  is undefined.
* Of the MQTT session: QoS 0 and 1, which the application does not publish with
  (`MQTT.m:43`; QoS 1 would keep a flow in store and window until its PUBACK,
  `MQTTSession.m:392-475` and `:1067-1097`), subscriptions,
  keep-alive, DISCONNECT, authentication, MQTT 5, and the wrap of the message id,
  65535 messages away. What a broker does with a QoS 2 message whose handshake is
  cut off for good is the broker's matter.
* Of the scanning tab: the torch button, the drawing of the scan line, and the
  alerts of a phone without camera or permission.
* Trilateration (dead code), row models, delegates, and the vendored libraries
  under the MQTT session and the database client, which are modelled by how the
  code uses them.
* Failing SELECTs in `pushPoint` inside the store's passing runs: the code then inserts a
  location a second time, and nothing in the repository promises otherwise.

## 6. Plan

1. Done: `LocationController`, `FingerprintMatch`, `FingerprintStore` with
   `FingerprintMap`, `FingerprintString`, `MqttSession` with `MqttDelivery`,
   `MqttScreens` and `QrScan`.
2. Done: a proof of every safety property the runs check.
3. Left: `MqttScreens` composed with `MqttSession`, one session per MQTT
   object; subscriptions and keep-alive in `MqttSession`.
