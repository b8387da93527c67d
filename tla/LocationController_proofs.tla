---------------------- MODULE LocationController_proofs ----------------------
(***************************************************************************)
(* What holds of LocationController for every set of beacons, rooms, batch *)
(* sizes and round counts, whether the database answers or not.            *)
(***************************************************************************)
EXTENDS LocationController, TLAPS, FiniteSetTheorems

USE DEF Slot, LastRound, TurnOnBeacon, StopBeaconRanging, RowsOf, view, power

\* A view callback that starts to wait.
LEMMA WaitType ==
  ASSUME NEW S, frames \in Seq(S), NEW call \in S, Wait(call)
  PROVE  /\ frames' \in Seq(S) /\ frames' # <<>>
         /\ Head(frames') = IF frames = <<>> THEN call ELSE Head(frames)
         /\ DOMAIN frames \subseteq DOMAIN frames'
         /\ \A n \in DOMAIN frames : frames'[n] = frames[n]
         /\ \E n \in DOMAIN frames' : frames'[n] = call
         /\ \A n \in DOMAIN frames' : n \in DOMAIN frames \/ frames'[n] = call
<1>1. frames' = Append(frames, call)
  BY DEF Wait
<1>2. /\ frames' \in Seq(S) /\ Len(frames) \in Nat /\ Len(frames') = Len(frames) + 1
      /\ DOMAIN frames = 1..Len(frames) /\ DOMAIN frames' = 1..(Len(frames) + 1)
      /\ \A n \in 1..Len(frames) : frames'[n] = frames[n]
      /\ frames'[Len(frames) + 1] = call
  BY <1>1
<1>3. Head(frames') = IF frames = <<>> THEN call ELSE Head(frames)
  <2>1. Head(frames') = frames'[1]
    BY <1>2
  <2>2. CASE frames = <<>>
    BY <1>2, <2>1, <2>2
  <2>3. CASE frames # <<>>
    BY <1>2, <2>1, <2>3
  <2>4. QED BY <2>2, <2>3
<1>4. QED BY <1>2, <1>3

\* A view callback that returns.
LEMMA ReturnType ==
  ASSUME NEW S, frames \in Seq(S), NEW call, Return(call)
  PROVE  /\ frames' \in Seq(S) /\ frames # <<>>
         /\ frames' # <<>> => Head(frames') = Head(frames)
         /\ \E n \in DOMAIN frames : frames[n] = call
         /\ \A n \in DOMAIN frames : n \in DOMAIN frames' \/ frames[n] = call
         /\ \A n \in DOMAIN frames' : n \in DOMAIN frames /\ frames'[n] = frames[n]
<1>1. frames # <<>> /\ Last(frames) = call /\ frames' = Front(frames)
  BY DEF Return
<1>2. /\ Len(frames) \in Nat \ {0} /\ DOMAIN frames = 1..Len(frames)
      /\ \A n \in 1..Len(frames) : frames[n] \in S
  BY <1>1
<1>3. /\ frames' \in Seq(S) /\ Len(frames') = Len(frames) - 1
      /\ \A n \in 1..(Len(frames) - 1) : frames'[n] = frames[n]
  BY <1>1, <1>2 DEF Front
<1>4. DOMAIN frames' = 1..(Len(frames) - 1) /\ frames[Len(frames)] = call
  BY <1>1, <1>3 DEF Last
<1>5. frames' # <<>> => Head(frames') = Head(frames)
  <2>1. ASSUME frames' # <<>> PROVE Head(frames') = frames'[1] /\ Head(frames) = frames[1]
                                    /\ 1 \in 1..(Len(frames) - 1)
    BY <1>2, <1>3, <2>1
  <2>2. QED BY <1>3, <2>1
<1>6. QED BY <1>1, <1>2, <1>3, <1>4, <1>5

\* Whatever a query comes to, it was answered or not.
LEMMA AnswersType == Answers \subseteq BOOLEAN
BY TableAssumption DEF Answers

\* C's quotient of a sum of n two-digit readings is a two-digit reading.
LEMMA QuotientOfSum ==
  ASSUME NEW n \in Nat \ {0}, NEW s \in Int,
         Weakest * n <= s, s <= Strongest * n
  PROVE  Quotient(s, n) \in Weakest..Strongest
<1> DEFINE q == (-s) \div n
<1>1. s < 0 /\ -s \in Int /\ -s > 0
  BY DEF Strongest
<1>2. q \in Int /\ n * q <= -s /\ -s < n * (q + 1)
  BY <1>1
<1>3. q <= 99
  <2>1. SUFFICES ASSUME q >= 100 PROVE FALSE
    BY <1>2
  <2>2. n * q >= n * 100
    BY <2>1, <1>2
  <2>3. QED BY <2>2, <1>2 DEF Weakest
<1>4. q >= 10
  <2>1. SUFFICES ASSUME q + 1 <= 10 PROVE FALSE
    BY <1>2
  <2>2. n * (q + 1) <= n * 10
    BY <2>1, <1>2
  <2>3. QED BY <2>2, <1>2 DEF Strongest
<1> HIDE DEF q
<1>5. Quotient(s, n) = -q
  BY <1>1 DEF Quotient, q
<1>6. QED BY <1>2, <1>3, <1>4, <1>5 DEF Weakest, Strongest

\* A batch is a sequence of beacons no longer than the arrays, and a beacon's
\* reading is 0 or a two-digit number.
LEMMA BatchType ==
  ASSUME NEW b \in Batches
  PROVE  /\ b \in Seq(Beacon) /\ Len(b) \in Nat /\ Len(b) <= Slots
         /\ DOMAIN b = 1..Len(b)
         /\ \A k \in DOMAIN b : /\ b[k].major \in Majors
                                /\ b[k].rssi \in Readings
                                /\ b[k].rssi \in Int
                                /\ b[k].rssi # 0 => b[k].rssi \in Weakest..Strongest
<1>1. b \in Seq(Beacon) /\ Len(b) <= Slots
  BY BeaconAssumption
<1>2. Len(b) \in Nat /\ DOMAIN b = 1..Len(b)
  BY <1>1
<1>3. ASSUME NEW k \in DOMAIN b PROVE b[k] \in Beacon
  BY <1>1, <1>2, <1>3
<1>4. ASSUME NEW r \in Readings
      PROVE  r \in Int /\ (r # 0 => r \in Weakest..Strongest)
  BY BeaconAssumption DEF Weakest, Strongest
<1>5. ASSUME NEW k \in DOMAIN b
      PROVE  b[k].major \in Majors /\ b[k].rssi \in Readings
  BY <1>3 DEF Beacon
<1>6. QED BY <1>1, <1>2, <1>4, <1>5

\* The room after a query is a room name.
LEMMA RoomAfterType ==
  ASSUME NEW b \in Batches, NEW answered, myroom \in RoomNames
  PROVE  RoomAfter(b, answered) \in RoomNames
<1> DEFINE named == {RoomOf[b[k].major] : k \in {k \in DOMAIN b : IsStrongest(b, k)}}
                    \ {NoRoom}
<1>1. named \subseteq RoomNames
  BY BatchType, TableAssumption
<1>2. CASE answered /\ named # {}
  <2>1. (CHOOSE r \in named : TRUE) \in named
    BY <1>2
  <2>2. QED BY <1>1, <1>2, <2>1 DEF RoomAfter
<1>3. CASE ~(answered /\ named # {})
  BY <1>3 DEF RoomAfter
<1>4. QED BY <1>2, <1>3

\* Recording a batch keeps the type of rssi_Major.
LEMMA MajorsAfterType ==
  ASSUME NEW b \in Batches, rssi_Major \in [Slot -> Majors \cup {NoMajor}]
  PROVE  MajorsAfter(b) \in [Slot -> Majors \cup {NoMajor}]
BY BatchType DEF MajorsAfter

\* A counted round adds to a slot the reading of a measured beacon of the batch whose
\* major the slot names, or nothing, when no beacon lands there.
LEMMA RoundLands ==
  ASSUME NEW b \in Batches, NEW i \in Slot
  PROVE  \/ /\ Landing(b, MajorsAfter(b), i) = {}
            /\ SumAfter(b, MajorsAfter(b), i) = rssi_Rssi[i]
            /\ FlagAfter(b, MajorsAfter(b), i) = rssi_Major_flag[i]
         \/ \E k \in DOMAIN b :
              /\ b[k].rssi # 0 /\ MajorsAfter(b)[i] = b[k].major
              /\ SumAfter(b, MajorsAfter(b), i) = rssi_Rssi[i] + b[k].rssi
              /\ FlagAfter(b, MajorsAfter(b), i) = rssi_Major_flag[i] + 1
<1>1. CASE Landing(b, MajorsAfter(b), i) = {}
  BY <1>1 DEF SumAfter, FlagAfter
<1>2. CASE Landing(b, MajorsAfter(b), i) # {}
  <2> DEFINE k == CHOOSE k \in Landing(b, MajorsAfter(b), i) : TRUE
  <2>1. k \in Landing(b, MajorsAfter(b), i)
    BY <1>2
  <2>2. k \in DOMAIN b /\ b[k].rssi # 0 /\ MajorsAfter(b)[i] = b[k].major
    BY <2>1 DEF Landing, Lands
  <2>3. QED BY <1>2, <2>2 DEF SumAfter, FlagAfter
<1>3. QED BY <1>1, <1>2

\* A counted round adds to a slot one two-digit reading, or nothing.
LEMMA RoundAdds ==
  ASSUME NEW b \in Batches, NEW i \in Slot
  PROVE  \/ /\ SumAfter(b, MajorsAfter(b), i) = rssi_Rssi[i]
            /\ FlagAfter(b, MajorsAfter(b), i) = rssi_Major_flag[i]
         \/ /\ \E r \in Weakest..Strongest : SumAfter(b, MajorsAfter(b), i) = rssi_Rssi[i] + r
            /\ FlagAfter(b, MajorsAfter(b), i) = rssi_Major_flag[i] + 1
BY RoundLands, BatchType

\* Cleared arrays have their types.
LEMMA ClearedType ==
  ASSUME ClearArrays
  PROVE  /\ rssi_Rssi' \in [Slot -> Int]
         /\ rssi_Major' \in [Slot -> Majors \cup {NoMajor}]
         /\ rssi_Major_flag' \in [Slot -> Nat]
         /\ aborts' \in Nat
BY DEF ClearArrays
-----------------------------------------------------------------------------
(* Type correctness *)

\* The types of the variables of screen.
ScreenType ==
  /\ visible \in BOOLEAN /\ startBool \in BOOLEAN /\ ranging \in BOOLEAN
  /\ connectFlag \in BOOLEAN /\ coordinator \in BOOLEAN /\ outlived \in BOOLEAN
  /\ alert \in {"none", "point", "ruler"}
  /\ frames \in Seq({"appear", "disappear"}) /\ myMqtt \in {"nil", "connecting", "ready"}

\* They stay as they are in a step that leaves the screen alone.
LEMMA ScreenKept ==
  ASSUME TypeOK, UNCHANGED screen
  PROVE  ScreenType'
BY DEF TypeOK, ScreenType, screen

\* Every variable keeps its type; in particular rssiFlag stays in 1..Rounds and
\* rssi_Major_count within the arrays.
THEOREM TypeCorrect == Spec => []TypeOK
<1>1. Init => TypeOK
  <2> SUFFICES ASSUME Init PROVE TypeOK
    OBVIOUS
  <2>1. rulerRows \in [RoomNames -> SUBSET Scales]
    <3>1. {{}} \cup {{s} : s \in Scales} \subseteq SUBSET Scales
      OBVIOUS
    <3>2. QED BY <3>1 DEF Init
  <2>2. rssiFlag \in 1..Rounds /\ rssi_Major_count \in 0..Slots
    BY CountsAssumption DEF Init
  <2>3. /\ rssi_Rssi \in [Slot -> Int]
        /\ rssi_Major \in [Slot -> Majors \cup {NoMajor}]
        /\ rssi_Major_flag \in [Slot -> Nat]
    BY DEF Init
  <2>4. heard \in [Majors -> SUBSET Readings] /\ counted \in Nat /\ aborts \in Nat
    BY DEF Init
  <2>5. myroom \in RoomNames /\ tracked \in RoomNames /\ ruler \in Rulers
    BY DEF Init, RoomNames, Rulers
  <2>6. frames \in Seq({"appear", "disappear"})
    BY DEF Init
  <2>7. QED BY <2>1, <2>2, <2>3, <2>4, <2>5, <2>6 DEF Init, TypeOK
<1>2. TypeOK /\ [Next]_vars => TypeOK'
  <2> SUFFICES ASSUME TypeOK, [Next]_vars PROVE TypeOK'
    OBVIOUS
  <2> USE DEF TypeOK
  <2>1. ASSUME NEW b \in Batches, NEW answered \in Answers, SkipRound(b, answered)
        PROVE  TypeOK'
    <3>1. ScreenType'
      BY <2>1, ScreenKept DEF SkipRound
    <3>2. rssi_Major' \in [Slot -> Majors \cup {NoMajor}] /\ myroom' \in RoomNames
      BY <2>1, RoomAfterType, MajorsAfterType DEF SkipRound, RecordFirstRound
    <3>3. rssi_Major_count' \in 0..Slots
      BY <2>1, BatchType, CountsAssumption DEF SkipRound, RecordFirstRound
    <3>4. QED BY <2>1, <3>1, <3>2, <3>3 DEF SkipRound, ScreenType
  <2>2. ASSUME NEW b \in Batches, NEW answered \in Answers, CountRound(b, answered)
        PROVE  TypeOK'
    <3>1. /\ rssi_Rssi' \in [Slot -> Int]
          /\ rssi_Major_flag' \in [Slot -> Nat]
      <4>1. \A i \in Slot : /\ SumAfter(b, MajorsAfter(b), i) \in Int
                             /\ FlagAfter(b, MajorsAfter(b), i) \in Nat
        <5> SUFFICES ASSUME NEW i \in Slot
                     PROVE  /\ SumAfter(b, MajorsAfter(b), i) \in Int
                            /\ FlagAfter(b, MajorsAfter(b), i) \in Nat
          OBVIOUS
        <5>1. rssi_Rssi[i] \in Int /\ rssi_Major_flag[i] \in Nat
          OBVIOUS
        <5>2. \A r \in Weakest..Strongest : rssi_Rssi[i] + r \in Int
          BY <5>1 DEF Weakest, Strongest
        <5>3. QED BY <5>1, <5>2, RoundAdds
      <4>2. QED BY <2>2, <4>1 DEF CountRound
    <3>2. heard' \in [Majors -> SUBSET Readings]
      BY <2>2, BatchType DEF CountRound
    <3>3. rssi_Major' \in [Slot -> Majors \cup {NoMajor}] /\ myroom' \in RoomNames
      BY <2>2, RoomAfterType, MajorsAfterType DEF CountRound, RecordFirstRound
    <3>4. rssi_Major_count' \in 0..Slots
      BY <2>2, BatchType, CountsAssumption DEF CountRound, RecordFirstRound
    <3>5. rssiFlag' \in 1..Rounds /\ counted' \in Nat
      BY <2>2, CountsAssumption DEF CountRound
    <3>6. QED BY <2>2, <3>1, <3>2, <3>3, <3>4, <3>5 DEF CountRound, screen
  <2>3. ASSUME NEW b \in Batches, PushFingerprint(b)
        PROVE  TypeOK'
    <3>1. ClearArrays
      BY <2>3 DEF PushFingerprint
    <3>2. rssiFlag' \in 1..Rounds
      BY <2>3, CountsAssumption DEF PushFingerprint
    <3>3. ScreenType'
      BY <2>3, ScreenKept DEF PushFingerprint
    <3>4. QED BY <2>3, <3>1, <3>2, <3>3, ClearedType DEF PushFingerprint, ScreenType, room
  <2>4. ASSUME NEW b \in Batches, NEW answered \in Answers, NEW scaled \in Answers,
               Track(b, answered, scaled)
        PROVE  TypeOK'
    <3>1. myroom' \in RoomNames /\ tracked' \in RoomNames
      BY <2>4, RoomAfterType DEF Track
    <3>2. /\ ranging' \in BOOLEAN /\ alert' \in {"none", "point", "ruler"}
          /\ promptLost' \in BOOLEAN /\ unsaved' \in BOOLEAN /\ ruler' \in Rulers
      <4>1. CASE RaisePrompt /\ UNCHANGED unsaved
        BY <4>1 DEF RaisePrompt
      <4>2. CASE ~(RaisePrompt /\ UNCHANGED unsaved)
        <5>1. ruler' \in Rulers
          BY <2>4, <4>2, RoomAfterType DEF Track, Rulers
        <5>2. QED BY <2>4, <4>2, <5>1 DEF Track
      <4>3. QED BY <4>1, <4>2
    <3>3. ScreenType'
      <4>1. UNCHANGED <<visible, frames, myMqtt, startBool, connectFlag, coordinator, outlived>>
        BY <2>4 DEF Track
      <4>2. QED BY <3>2, <4>1 DEF ScreenType
    <3>4. UNCHANGED <<rulerRows, collecting>>
      BY <2>4 DEF Track
    <3>5. QED BY <3>1, <3>2, <3>3, <3>4 DEF ScreenType, collecting, arrays
  <2>5. CASE Screen
    <3>1. CASE ViewWillAppear
      <4>1. rssiFlag' \in 1..Rounds
        BY <3>1, CountsAssumption DEF ViewWillAppear
      <4>2. heard' \in [Majors -> SUBSET Readings] /\ counted' \in Nat
        BY <3>1 DEF ViewWillAppear, NewHistory
      <4>3. /\ frames' \in Seq({"appear", "disappear"})
            /\ myMqtt' \in {"nil", "connecting", "ready"}
            /\ startBool' \in BOOLEAN /\ ranging' \in BOOLEAN /\ connectFlag' \in BOOLEAN
            /\ coordinator' \in BOOLEAN /\ outlived' \in BOOLEAN
        BY <3>1, WaitType DEF ViewWillAppear
      <4>4. QED BY <3>1, <4>1, <4>2, <4>3, ClearedType DEF ViewWillAppear, RoomNames
    <3>2. CASE StartButton
      <4>1. rssiFlag' \in 1..Rounds
        BY <3>2, CountsAssumption DEF StartButton
      <4>2. heard' \in [Majors -> SUBSET Readings] /\ counted' \in Nat
        BY <3>2 DEF StartButton, NewHistory
      <4>3. QED BY <3>2, <4>1, <4>2, ClearedType DEF StartButton, Resume, ConnectDB, room
    <3>3. CASE ViewDidWait
      <4>1. frames' \in Seq({"appear", "disappear"})
        BY <3>3, ReturnType DEF ViewDidWait
      <4>2. QED BY <3>3, <4>1 DEF ViewDidWait, Resume, ConnectDB, room, collecting, arrays
    <3>4. CASE ViewWillDisappear
      <4>1. frames' \in Seq({"appear", "disappear"})
        BY <3>4, WaitType DEF ViewWillDisappear
      <4>2. QED
        BY <3>4, <4>1 DEF ViewWillDisappear, Pause, DisconnectDB, room, collecting, arrays
    <3>5. CASE ViewDidClose
      <4>1. frames' \in Seq({"appear", "disappear"})
        BY <3>5, ReturnType DEF ViewDidClose
      <4>2. QED BY <3>5, <4>1 DEF ViewDidClose, Pause, DisconnectDB, room, collecting, arrays
    <3>6. CASE StopButton
      BY <3>6 DEF StopButton, Pause, DisconnectDB, room, collecting, arrays
    <3>7. QED BY <2>5, <3>1, <3>2, <3>3, <3>4, <3>5, <3>6 DEF Screen
  <2>6. CASE PushStart \/ PushCancel
    BY <2>6 DEF PushStart, PushCancel, room, collecting, arrays
  <2>7. ASSUME NEW p \in Points \cup {NoPoint}, PushConfirm(p)
        PROVE  TypeOK'
    BY <2>7 DEF PushConfirm, NewHistory, room, arrays
  <2>8. CASE PushStop
    <3>1. rssiFlag' \in 1..Rounds
      BY <2>8, CountsAssumption DEF PushStop
    <3>2. aborts' \in Nat
      BY <2>8 DEF PushStop
    <3>3. ScreenType'
      BY <2>8, ScreenKept DEF PushStop
    <3>4. QED BY <2>8, <3>1, <3>2, <3>3 DEF PushStop, ScreenType, room, arrays
  <2>9. ASSUME NEW s \in Rulers, NEW saved \in Answers, RulerConfirm(s, saved)
        PROVE  TypeOK'
    <3>1. rulerRows' \in [RoomNames -> SUBSET Scales] /\ unsaved' \in BOOLEAN
      <4>1. CASE s = NoScale
        BY <2>9, <4>1 DEF RulerConfirm
      <4>2. CASE s # NoScale
        <5>1. saved \in BOOLEAN /\ s \in Scales
          BY <4>2, AnswersType DEF Rulers
        <5>2. /\ rulerRows' = IF saved THEN [rulerRows EXCEPT ![myroom] = @ \cup {s}]
                              ELSE rulerRows
              /\ unsaved' = ~saved
          BY <2>9, <4>2 DEF RulerConfirm
        <5>3. rulerRows \in [RoomNames -> SUBSET Scales]
          OBVIOUS
        <5> HIDE DEF TypeOK
        <5>4. QED BY <5>1, <5>2, <5>3
      <4>3. QED BY <4>1, <4>2
    <3>2. ScreenType'
      <4>1. /\ UNCHANGED <<visible, frames, myMqtt, startBool, connectFlag, coordinator>>
            /\ alert' = "none" /\ ranging' = TRUE /\ outlived' = ~startBool
        BY <2>9 DEF RulerConfirm
      <4>2. QED BY <4>1 DEF ScreenType
    <3>3. /\ UNCHANGED <<myroom, tracked, promptLost, collecting>>
          /\ ruler' = s
      BY <2>9 DEF RulerConfirm
    <3>4. QED BY <3>1, <3>2, <3>3 DEF ScreenType, collecting, arrays
  <2>10. CASE UNCHANGED vars
    BY <2>10 DEF vars, screen, room, collecting, arrays
  <2>11. QED
    BY <2>1, <2>2, <2>3, <2>4, <2>5, <2>6, <2>7, <2>8, <2>9, <2>10
       DEF Next, DidRangeBeacons, Dialogs
<1>3. QED BY <1>1, <1>2, PTL DEF Spec

-----------------------------------------------------------------------------
(* The sums, and the averages handed to pushPoint *)

\* A reported slot has been counted at least once, and every counted one is reported.
LEMMA ReportedCounted ==
  ASSUME TypeOK, SlotSums, NEW i \in 1..rssi_Major_count
  PROVE  /\ i \in Slot /\ rssi_Rssi[i] \in Int /\ rssi_Major_flag[i] \in Nat
         /\ i \in Reported <=> rssi_Major_flag[i] > 0
<1>1. i \in Slot
  BY CountsAssumption DEF TypeOK
<1>2. rssi_Rssi[i] \in Int /\ rssi_Major_flag[i] \in Nat
  BY <1>1 DEF TypeOK
<1>3. Weakest * rssi_Major_flag[i] <= rssi_Rssi[i] /\ rssi_Rssi[i] <= Strongest * rssi_Major_flag[i]
  BY <1>1 DEF SlotSums
<1>4. i \in Reported <=> rssi_Major_flag[i] > 0
  BY <1>2, <1>3 DEF Reported, Weakest, Strongest
<1>5. QED BY <1>1, <1>2, <1>4

\* The average of a reported slot is a two-digit reading.
LEMMA FingerprintReadable ==
  ASSUME TypeOK, SlotSums
  PROVE  \A i \in DOMAIN Fingerprint : Fingerprint[i].rssi \in Weakest..Strongest
<1> SUFFICES ASSUME NEW i \in Reported
             PROVE  Quotient(rssi_Rssi[i], rssi_Major_flag[i]) \in Weakest..Strongest
  BY DEF Fingerprint
<1>1. i \in 1..rssi_Major_count
  BY DEF Reported
<1>2. i \in Slot /\ rssi_Rssi[i] \in Int /\ rssi_Major_flag[i] \in Nat \ {0}
  BY <1>1, ReportedCounted
<1>3. Weakest * rssi_Major_flag[i] <= rssi_Rssi[i] /\ rssi_Rssi[i] <= Strongest * rssi_Major_flag[i]
  BY <1>2 DEF SlotSums
<1>4. QED BY <1>2, <1>3, QuotientOfSum

\* SlotSums and PushedReadable hold in every reachable state: no collection, after
\* any history of stops and restarts, divides by zero or pushes an average that
\* getPoint cannot read back.
THEOREM AveragesReadable == Spec => [](SlotSums /\ PushedReadable)
<1> DEFINE Inv == SlotSums /\ PushedReadable
<1>1. Init => Inv
  BY DEF Init, SlotSums, PushedReadable, NoPush, Weakest, Strongest
<1>2. TypeOK /\ Inv /\ [Next]_vars => Inv'
  <2> SUFFICES ASSUME TypeOK, Inv, [Next]_vars PROVE Inv'
    OBVIOUS
  <2>1. ASSUME UNCHANGED <<rssi_Rssi, rssi_Major_flag, pushed>>
        PROVE  Inv'
    BY <2>1 DEF SlotSums, PushedReadable
  <2>2. ASSUME ClearArrays PROVE SlotSums'
    BY <2>2 DEF ClearArrays, SlotSums, Weakest, Strongest
  <2>3. ASSUME NEW b \in Batches, NEW answered \in Answers, CountRound(b, answered)
        PROVE  Inv'
    <3>1. SlotSums'
      <4> SUFFICES ASSUME NEW i \in Slot
                   PROVE  /\ Weakest * rssi_Major_flag'[i] <= rssi_Rssi'[i]
                          /\ rssi_Rssi'[i] <= Strongest * rssi_Major_flag'[i]
        BY DEF SlotSums
      <4>1. /\ rssi_Rssi'[i] = SumAfter(b, MajorsAfter(b), i)
            /\ rssi_Major_flag'[i] = FlagAfter(b, MajorsAfter(b), i)
        BY <2>3 DEF CountRound
      <4>2. rssi_Rssi[i] \in Int /\ rssi_Major_flag[i] \in Nat
        BY DEF TypeOK
      <4>3. /\ Weakest * rssi_Major_flag[i] <= rssi_Rssi[i]
            /\ rssi_Rssi[i] <= Strongest * rssi_Major_flag[i]
        BY DEF SlotSums
      <4>4. CASE rssi_Rssi'[i] = rssi_Rssi[i] /\ rssi_Major_flag'[i] = rssi_Major_flag[i]
        BY <4>3, <4>4
      <4>5. ASSUME NEW r \in Weakest..Strongest, rssi_Rssi'[i] = rssi_Rssi[i] + r,
                   rssi_Major_flag'[i] = rssi_Major_flag[i] + 1
            PROVE  /\ Weakest * rssi_Major_flag'[i] <= rssi_Rssi'[i]
                   /\ rssi_Rssi'[i] <= Strongest * rssi_Major_flag'[i]
        BY <4>2, <4>3, <4>5 DEF Weakest, Strongest
      <4>6. QED BY <4>1, <4>4, <4>5, RoundAdds
    <3>2. PushedReadable'
      BY <2>3 DEF CountRound, PushedReadable
    <3>3. QED BY <3>1, <3>2
  <2>4. ASSUME NEW b \in Batches, PushFingerprint(b)
        PROVE  Inv'
    <3>1. SlotSums'
      BY <2>2, <2>4 DEF PushFingerprint
    <3>2. pushed'.rows = Fingerprint
      BY <2>4 DEF PushFingerprint
    <3>3. PushedReadable'
      BY <3>2, FingerprintReadable DEF PushedReadable
    <3>4. QED BY <3>1, <3>3
  <2>5. ASSUME pushed' \in {pushed, NoPush} PROVE PushedReadable'
    BY <2>5 DEF PushedReadable, NoPush
  <2>6. CASE ViewWillAppear \/ StartButton
    BY <2>2, <2>5, <2>6 DEF ViewWillAppear, StartButton
  <2>7. ASSUME NEW p \in Points \cup {NoPoint}, PushConfirm(p)
        PROVE  Inv'
    BY <2>5, <2>7 DEF PushConfirm, arrays, SlotSums
  <2>8. ASSUME NEW b \in Batches, NEW answered \in Answers, SkipRound(b, answered)
        PROVE  Inv'
    BY <2>1, <2>8 DEF SkipRound
  <2>9. ASSUME NEW b \in Batches, NEW answered \in Answers, NEW scaled \in Answers,
               Track(b, answered, scaled)
        PROVE  Inv'
    BY <2>1, <2>9 DEF Track, collecting, arrays
  <2>10. ASSUME NEW s \in Rulers, NEW saved \in Answers, RulerConfirm(s, saved)
         PROVE  Inv'
    BY <2>1, <2>10 DEF RulerConfirm, collecting, arrays
  <2>11. CASE ViewDidWait \/ ViewWillDisappear \/ ViewDidClose \/ StopButton \/ PushStart
              \/ PushCancel \/ PushStop \/ UNCHANGED vars
    BY <2>1, <2>11 DEF ViewDidWait, ViewWillDisappear, ViewDidClose, StopButton, PushStart,
       PushCancel, PushStop, vars, collecting, arrays
  <2>12. QED
    BY <2>3, <2>4, <2>6, <2>7, <2>8, <2>9, <2>10, <2>11
       DEF Next, DidRangeBeacons, Screen, Dialogs
<1>3. QED BY <1>1, <1>2, TypeCorrect, PTL DEF Spec

-----------------------------------------------------------------------------
(* The screen, the alerts and the round counter *)

\* The first appearance, or one that began under it, waits.
FirstWaits == frames # <<>> /\ Head(frames) = "appear"

\* Some appearance waits.
AppearWaits == \E n \in DOMAIN frames : frames[n] = "appear"

\* What starts and stops the ranging, and what the queries find.  Only while an
\* appearance waits may connectFlag deny a coordinator that is there, and only a
\* ruler prompt that is up can start the ranging of a stopped screen.
PowerInv ==
  /\ RangingIsServed
  /\ connectFlag => coordinator
  /\ ~AppearWaits => connectFlag = coordinator
  /\ frames = <<>> => startBool = connectFlag
  /\ outlived => ~startBool
  /\ alert = "ruler" => (startBool => coordinator)
  /\ startBool /\ alert # "ruler" /\ ~promptLost => (ranging \/ FirstWaits)

\* What the alerts and the collection owe each other.  While the ruler prompt is up,
\* _myroom is the room that was tracked last, and no collection changes it; the round
\* counter is at 1 between collections and counts the rounds of the one under way.
ControlInv ==
  /\ RulerOfTrackedRoom
  /\ PushedFullCount
  /\ alert = "ruler" => myroom = tracked /\ ~Collecting
  /\ alert = "point" => ~pushButtonFlag
  /\ ~pushButtonFlag => rssiFlag = 1
  /\ pushButtonFlag => counted = rssiFlag - 1

\* PowerInv depends on the screen only: a step that leaves the screen alone keeps it.
LEMMA PowerKept ==
  ASSUME PowerInv, UNCHANGED <<view, power>>, alert' = "ruler" => alert = "ruler",
         alert' # "ruler" => alert # "ruler", promptLost' = promptLost
  PROVE  PowerInv'
BY DEF PowerInv, RangingIsServed, FirstWaits, AppearWaits

\* PowerInv holds in every reachable state.
LEMMA PowerHolds == Spec => []PowerInv
<1>1. Init => PowerInv
  <2> SUFFICES ASSUME Init PROVE PowerInv
    OBVIOUS
  <2>1. frames = <<"appear">> /\ frames # <<>> /\ Head(frames) = "appear"
        /\ 1 \in DOMAIN frames /\ frames[1] = "appear"
    BY DEF Init
  <2>2. QED BY <2>1 DEF Init, PowerInv, RangingIsServed, FirstWaits, AppearWaits
<1>2. TypeOK /\ PowerInv /\ [Next]_vars => PowerInv'
  <2> SUFFICES ASSUME TypeOK, PowerInv, [Next]_vars PROVE PowerInv'
    OBVIOUS
  <2>0. /\ frames \in Seq({"appear", "disappear"})
        /\ startBool \in BOOLEAN /\ connectFlag \in BOOLEAN /\ coordinator \in BOOLEAN
        /\ ranging \in BOOLEAN /\ outlived \in BOOLEAN /\ promptLost \in BOOLEAN
    BY DEF TypeOK
  <2>1. ASSUME NEW b \in Batches, NEW answered \in Answers, NEW scaled \in Answers,
               Track(b, answered, scaled)
        PROVE  PowerInv'
    <3>1. /\ ranging /\ UNCHANGED <<view, startBool, connectFlag, coordinator, outlived>>
      BY <2>1 DEF Track, Ranged
    <3>2. CASE RaisePrompt
      <4>1. /\ ranging' = FALSE
            /\ alert' = "ruler" \/ promptLost' = TRUE
        BY <3>2 DEF RaisePrompt
      <4>2. QED BY <2>0, <3>1, <4>1 DEF PowerInv, RangingIsServed, FirstWaits, AppearWaits
    <3>3. CASE ~RaisePrompt
      <4>1. UNCHANGED <<ranging, alert>>
        BY <2>1, <3>3 DEF Track
      <4>2. QED BY <2>0, <3>1, <4>1 DEF PowerInv, RangingIsServed, FirstWaits, AppearWaits
    <3>4. QED BY <3>2, <3>3
  <2>2. CASE ViewWillAppear
    <3>1. CASE myMqtt = "nil"
      <4>1. /\ Wait("appear") /\ connectFlag' = FALSE /\ alert = "none"
            /\ UNCHANGED <<alert, promptLost, startBool, ranging, coordinator, outlived>>
        BY <2>2, <3>1 DEF ViewWillAppear
      <4>2. /\ frames' # <<>> /\ AppearWaits' /\ (FirstWaits => FirstWaits')
            /\ (frames = <<>> => FirstWaits')
        BY <2>0, <4>1, WaitType DEF AppearWaits, FirstWaits
      <4>3. QED BY <4>1, <4>2 DEF PowerInv, RangingIsServed
    <3>2. CASE myMqtt # "nil"
      <4>1. /\ ranging' = TRUE /\ startBool' = TRUE /\ outlived' = FALSE
            /\ connectFlag' = TRUE /\ coordinator' = TRUE
        BY <2>2, <3>2 DEF ViewWillAppear
      <4>2. QED BY <4>1 DEF PowerInv, RangingIsServed
    <3>3. QED BY <3>1, <3>2
  <2>3. CASE ViewDidWait \/ StartButton
    <3>1. /\ ranging' = TRUE /\ startBool' = TRUE /\ outlived' = FALSE
          /\ connectFlag' = TRUE /\ coordinator' = TRUE
      BY <2>3 DEF ViewDidWait, StartButton, Resume, ConnectDB, PowerInv
    <3>2. QED BY <3>1 DEF PowerInv, RangingIsServed
  <2>4. ASSUME Pause, AppearWaits => AppearWaits' \/ connectFlag = coordinator
        PROVE  PowerInv'
    <3>1. /\ ranging' = FALSE /\ startBool' = FALSE /\ outlived' = FALSE
          /\ connectFlag' = FALSE /\ coordinator' = (~connectFlag /\ coordinator)
      BY <2>4 DEF Pause, DisconnectDB
    <3>2. ~AppearWaits' => coordinator' = FALSE
      BY <2>0, <2>4, <3>1 DEF PowerInv
    <3>3. QED BY <3>1, <3>2 DEF PowerInv, RangingIsServed
  <2>5. CASE ViewWillDisappear
    <3>1. CASE myMqtt = "ready"
      <4>1. /\ Wait("disappear") /\ alert = "none"
            /\ UNCHANGED <<alert, promptLost, power>>
        BY <2>5, <3>1 DEF ViewWillDisappear, room
      <4>2. frames' # <<>> /\ (AppearWaits => AppearWaits') /\ (FirstWaits => FirstWaits')
        BY <2>0, <4>1, WaitType DEF AppearWaits, FirstWaits
      <4>3. QED BY <4>1, <4>2 DEF PowerInv, RangingIsServed
    <3>2. CASE myMqtt # "ready"
      <4>1. Pause /\ UNCHANGED frames
        BY <2>5, <3>2 DEF ViewWillDisappear
      <4>2. QED BY <2>4, <4>1 DEF AppearWaits
    <3>3. QED BY <3>1, <3>2
  <2>6. CASE ViewDidClose
    <3>1. Return("disappear") /\ Pause
      BY <2>6 DEF ViewDidClose
    <3>2. AppearWaits => AppearWaits'
      BY <2>0, <3>1, ReturnType DEF AppearWaits
    <3>3. QED BY <2>4, <3>1, <3>2
  <2>7. CASE StopButton
    BY <2>4, <2>7 DEF StopButton, AppearWaits
  <2>8. ASSUME NEW s \in Rulers, NEW saved \in Answers, RulerConfirm(s, saved)
        PROVE  PowerInv'
    <3>1. /\ alert = "ruler" /\ alert' = "none" /\ ranging' = TRUE /\ outlived' = ~startBool
          /\ UNCHANGED <<view, startBool, connectFlag, coordinator, promptLost>>
      BY <2>8 DEF RulerConfirm
    <3>2. QED BY <2>0, <3>1 DEF PowerInv, RangingIsServed, FirstWaits, AppearWaits
  <2>9. ASSUME NEW b \in Batches, NEW answered \in Answers,
               SkipRound(b, answered) \/ CountRound(b, answered)
        PROVE  PowerInv'
    BY <2>9, PowerKept DEF SkipRound, CountRound, screen
  <2>10. ASSUME NEW b \in Batches, PushFingerprint(b)
         PROVE  PowerInv'
    BY <2>10, PowerKept DEF PushFingerprint, screen, room
  <2>11. CASE PushStart \/ PushCancel \/ PushStop \/ UNCHANGED vars
    <3>1. /\ UNCHANGED <<view, power, promptLost>>
          /\ alert' = "ruler" => alert = "ruler"
          /\ alert' # "ruler" => alert # "ruler"
      BY <2>11 DEF PushStart, PushCancel, PushStop, Touched, vars, screen, room
    <3>2. QED BY <3>1, PowerKept
  <2>12. ASSUME NEW p \in Points \cup {NoPoint}, PushConfirm(p)
         PROVE  PowerInv'
    BY <2>12, PowerKept DEF PushConfirm, room
  <2>13. QED
    BY <2>1, <2>2, <2>3, <2>5, <2>6, <2>7, <2>8, <2>9, <2>10, <2>11, <2>12
       DEF Next, DidRangeBeacons, Screen, Dialogs
<1>3. QED BY <1>1, <1>2, TypeCorrect, PTL DEF Spec

\* ControlInv holds in every reachable state.
LEMMA ControlHolds == Spec => []ControlInv
<1>1. Init => ControlInv
  BY DEF Init, ControlInv, RulerOfTrackedRoom, PushedFullCount
<1>2. TypeOK /\ ControlInv /\ [Next]_vars => ControlInv'
  <2> SUFFICES ASSUME TypeOK, ControlInv, [Next]_vars PROVE ControlInv'
    OBVIOUS
  <2> USE CountsAssumption
      DEF TypeOK, ControlInv, RulerOfTrackedRoom, PushedFullCount, Collecting
  <2>1. ASSUME NEW b \in Batches, NEW answered \in Answers,
               SkipRound(b, answered) \/ CountRound(b, answered)
        PROVE  ControlInv'
    <3>1. CASE SkipRound(b, answered)
      BY <3>1 DEF SkipRound, Ranged, screen
    <3>2. CASE CountRound(b, answered)
      <4>1. /\ Collecting /\ UNCHANGED <<pushButtonFlag, real>>
            /\ rssiFlag' = rssiFlag + 1 /\ counted' = counted + 1
            /\ UNCHANGED <<screen, ruler, rulerRows, tracked, promptLost, unsaved, pushed>>
        BY <3>2 DEF CountRound, Ranged
      <4>2. QED BY <4>1 DEF screen
    <3>3. QED BY <2>1, <3>1, <3>2
  <2>2. ASSUME NEW b \in Batches, PushFingerprint(b)
        PROVE  ControlInv'
    BY <2>2 DEF PushFingerprint, Ranged, screen, room
  <2>3. ASSUME NEW b \in Batches, NEW answered \in Answers, NEW scaled \in Answers,
               Track(b, answered, scaled)
        PROVE  ControlInv'
    <3>1. CASE RaisePrompt /\ UNCHANGED unsaved
      BY <2>3, <3>1 DEF Track, RaisePrompt, Ranged, collecting
    <3>2. CASE ~(RaisePrompt /\ UNCHANGED unsaved)
      <4>1. scaled /\ ruler' \in rulerRows[tracked'] /\ UNCHANGED <<ranging, alert, rulerRows>>
        BY <2>3, <3>2 DEF Track
      <4>2. QED BY <2>3, <3>2, <4>1 DEF Track, Ranged, collecting
    <3>3. QED BY <3>1, <3>2
  <2>4. CASE ViewWillAppear
    BY <2>4 DEF ViewWillAppear, NewHistory, NoPush
  <2>5. CASE StartButton
    BY <2>5 DEF StartButton, NewHistory, room
  <2>6. CASE ViewDidWait \/ ViewWillDisappear \/ ViewDidClose \/ StopButton
    BY <2>6 DEF ViewDidWait, ViewWillDisappear, ViewDidClose, StopButton, room, collecting
  <2>7. CASE PushStart \/ PushCancel
    BY <2>7 DEF PushStart, PushCancel, Touched, room, collecting
  <2>8. ASSUME NEW p \in Points \cup {NoPoint}, PushConfirm(p)
        PROVE  ControlInv'
    BY <2>8 DEF PushConfirm, NewHistory, NoPush, room
  <2>9. CASE PushStop
    BY <2>9 DEF PushStop, Touched, screen, room
  <2>10. ASSUME NEW s \in Rulers, NEW saved \in Answers, RulerConfirm(s, saved)
         PROVE  ControlInv'
    <3>1. CASE s = NoScale
      BY <2>10, <3>1 DEF RulerConfirm, collecting
    <3>2. CASE s # NoScale
      <4>1. ~unsaved' => s \in rulerRows'[tracked']
        BY <2>10, <3>2 DEF RulerConfirm
      <4>2. QED BY <2>10, <4>1 DEF RulerConfirm, collecting
    <3>3. QED BY <3>1, <3>2
  <2>11. CASE UNCHANGED vars
    BY <2>11 DEF vars, screen, room, collecting
  <2>12. QED
    BY <2>1, <2>2, <2>3, <2>4, <2>5, <2>6, <2>7, <2>8, <2>9, <2>10, <2>11
       DEF Next, DidRangeBeacons, Screen, Dialogs
<1>3. QED BY <1>1, <1>2, TypeCorrect, PTL DEF Spec

\* In every nesting of the waiting view callbacks: the ranging is served by a started
\* screen with a coordinator, unless a ruler prompt outlived the screen; a started
\* screen ranges unless a prompt is up or was lost or the first appearance waits; and
\* once all callbacks have returned, the button, the flag and the coordinator agree.
THEOREM ScreenConsistent ==
  Spec => [](RangingIsServed /\ StartedMeansRanging /\ SwitchedTogether)
<1>1. PowerInv => RangingIsServed /\ StartedMeansRanging /\ SwitchedTogether
  <2> SUFFICES ASSUME PowerInv
               PROVE  RangingIsServed /\ StartedMeansRanging /\ SwitchedTogether
    OBVIOUS
  <2>1. frames = <<>> => ~AppearWaits
    BY DEF AppearWaits
  <2>2. QED
    BY <2>1 DEF PowerInv, StartedMeansRanging, SwitchedTogether, FirstWaits
<1>2. QED BY <1>1, PowerHolds, PTL

\* The ruler that scales a pushed point is stored for the room tracked last.
THEOREM RulerIsTracked == Spec => []RulerOfTrackedRoom
<1>1. ControlInv => RulerOfTrackedRoom
  BY DEF ControlInv
<1>2. QED BY <1>1, ControlHolds, PTL

\* Every pushed fingerprint stands for exactly Rounds - 1 counted rounds.
THEOREM FullCount == Spec => []PushedFullCount
<1>1. ControlInv => PushedFullCount
  BY DEF ControlInv
<1>2. QED BY <1>1, ControlHolds, PTL

-----------------------------------------------------------------------------
(* The averages are of the collection's own readings *)

\* Multiplying by a natural number keeps the order.
LEMMA TimesKeepsOrder ==
  ASSUME NEW n \in Nat, NEW x \in Int, NEW y \in Int, x <= y
  PROVE  n * x <= n * y
<1>1. y - x \in Nat
  OBVIOUS
<1>2. n * (y - x) >= 0
  BY <1>1
<1>3. n * (y - x) = n * y - n * x
  OBVIOUS
<1>4. n * x \in Int /\ n * y \in Int
  OBVIOUS
<1>5. QED BY <1>2, <1>3, <1>4

\* C's quotient of a sum of n negative readings lies between any two readings that
\* bound the sum.
LEMMA QuotientBetween ==
  ASSUME NEW n \in Nat \ {0}, NEW s \in Int,
         NEW lo \in Weakest..Strongest, NEW hi \in Weakest..Strongest,
         lo * n <= s, s <= hi * n
  PROVE  lo <= Quotient(s, n) /\ Quotient(s, n) <= hi
<1> DEFINE q == (-s) \div n
<1>0. lo \in Int /\ hi \in Int /\ hi <= -10
  BY DEF Weakest, Strongest
<1>1. s < 0 /\ -s \in Int /\ -s > 0
  <2>1. n * hi <= n * (-10)
    BY <1>0, TimesKeepsOrder
  <2>2. QED BY <1>0, <2>1
<1>2. q \in Int /\ n * q <= -s /\ -s < n * (q + 1)
  BY <1>1
<1>3. Quotient(s, n) = -q
  BY <1>1 DEF Quotient
<1> HIDE DEF q
<1>4. lo <= -q
  <2>1. SUFFICES ASSUME 1 - lo <= q PROVE FALSE
    BY <1>0, <1>2
  <2>2. n * (1 - lo) <= n * q
    BY <1>0, <1>2, <2>1, TimesKeepsOrder
  <2>3. n * (1 - lo) = n - lo * n
    BY <1>0
  <2>4. lo * n \in Int /\ n * q \in Int
    BY <1>0, <1>2
  <2>5. QED BY <1>2, <2>2, <2>3, <2>4
<1>5. -q <= hi
  <2>1. SUFFICES ASSUME q + 1 <= -hi PROVE FALSE
    BY <1>0, <1>2
  <2>2. n * (q + 1) <= n * (-hi)
    BY <1>0, <1>2, <2>1, TimesKeepsOrder
  <2>3. n * (-hi) = -(hi * n)
    BY <1>0
  <2>4. hi * n \in Int /\ n * (q + 1) \in Int
    BY <1>0, <1>2
  <2>5. QED BY <1>2, <2>2, <2>3, <2>4
<1>6. QED BY <1>3, <1>4, <1>5

\* A sum of n readings is bounded by two of them.
Bounded(s, n, own) == \E lo, hi \in own : lo * n <= s /\ s <= hi * n

\* Only measured readings are heard.
HeardMeasured == \A m \in Majors : heard[m] \subseteq Weakest..Strongest

\* As long as no collection was given up, the first round finds the arrays cleared,
\* and a counted slot sums up readings heard from the beacon it names.
FreshSums ==
  aborts = 0 =>
    /\ rssiFlag = 1 => \A i \in Slot : rssi_Rssi[i] = 0 /\ rssi_Major_flag[i] = 0
    /\ \A i \in Slot : rssi_Major_flag[i] > 0 =>
         /\ rssi_Major[i] \in Majors
         /\ Bounded(rssi_Rssi[i], rssi_Major_flag[i], heard[rssi_Major[i]])

\* One more reading keeps a sum bounded by readings heard.
LEMMA BoundedAdds ==
  ASSUME NEW s \in Int, NEW n \in Nat, NEW own, own \subseteq Weakest..Strongest,
         NEW r \in own, (n = 0 /\ s = 0) \/ Bounded(s, n, own)
  PROVE  Bounded(s + r, n + 1, own)
<1>0. r \in Int
  BY DEF Weakest, Strongest
<1>1. CASE n = 0 /\ s = 0
  BY <1>0, <1>1 DEF Bounded
<1>2. CASE Bounded(s, n, own)
  <2>1. PICK lo \in own, hi \in own : lo * n <= s /\ s <= hi * n
    BY <1>2 DEF Bounded
  <2>2. lo \in Int /\ hi \in Int
    BY DEF Weakest, Strongest
  <2>3. PICK low \in own : low \in Int /\ low <= lo /\ low <= r
    BY <1>0, <2>2
  <2>4. PICK high \in own : high \in Int /\ hi <= high /\ r <= high
    BY <1>0, <2>2
  <2>5. low * (n + 1) <= s + r
    <3>1. n * low <= n * lo
      BY <2>2, <2>3, TimesKeepsOrder
    <3>2. low * (n + 1) = n * low + low
      BY <2>3
    <3>3. n * low \in Int /\ n * lo \in Int /\ n * lo = lo * n
      BY <2>2, <2>3
    <3>4. QED BY <1>0, <2>1, <2>3, <3>1, <3>2, <3>3
  <2>6. s + r <= high * (n + 1)
    <3>1. n * hi <= n * high
      BY <2>2, <2>4, TimesKeepsOrder
    <3>2. high * (n + 1) = n * high + high
      BY <2>4
    <3>3. n * hi \in Int /\ n * high \in Int /\ n * hi = hi * n
      BY <2>2, <2>4
    <3>4. QED BY <1>0, <2>1, <2>4, <3>1, <3>2, <3>3
  <2>7. QED BY <2>5, <2>6 DEF Bounded
<1>3. QED BY <1>1, <1>2

\* A counted round records what it hears before it is added.
LEMMA RoundHeard ==
  ASSUME NEW b \in Batches, NEW answered \in Answers, CountRound(b, answered),
         TypeOK, HeardMeasured
  PROVE  /\ \A m \in Majors : heard[m] \subseteq heard'[m]
         /\ \A k \in DOMAIN b : b[k].rssi # 0 => b[k].rssi \in heard'[b[k].major]
         /\ HeardMeasured'
<1> DEFINE new(m) == {b[k].rssi : k \in {k \in DOMAIN b : b[k].major = m /\ b[k].rssi # 0}}
<1>1. heard' = [m \in Majors |-> heard[m] \cup new(m)]
  BY DEF CountRound
<1>2. \A m \in Majors : new(m) \subseteq Weakest..Strongest
  BY BatchType
<1>3. \A k \in DOMAIN b : b[k].major \in Majors
  BY BatchType
<1>4. QED BY <1>1, <1>2, <1>3 DEF HeardMeasured

\* A counted round keeps every slot's sum bounded by what its beacon was heard with.
LEMMA RoundKeepsFresh ==
  ASSUME NEW b \in Batches, NEW answered \in Answers, CountRound(b, answered),
         TypeOK, SlotSums, HeardMeasured, FreshSums
  PROVE  FreshSums'
<1> SUFFICES ASSUME aborts = 0, NEW i \in Slot, rssi_Major_flag'[i] > 0
             PROVE  /\ rssi_Major'[i] \in Majors
                    /\ Bounded(rssi_Rssi'[i], rssi_Major_flag'[i], heard'[rssi_Major'[i]])
  <2>1. rssiFlag' # 1 /\ aborts' = aborts
    BY DEF CountRound, TypeOK
  <2>2. QED BY <2>1 DEF FreshSums, Bounded
<1>1. /\ rssi_Rssi'[i] = SumAfter(b, MajorsAfter(b), i)
      /\ rssi_Major_flag'[i] = FlagAfter(b, MajorsAfter(b), i)
      /\ rssi_Major' = MajorsAfter(b)
  BY DEF CountRound, RecordFirstRound
<1>2. /\ rssi_Rssi[i] \in Int /\ rssi_Major_flag[i] \in Nat
      /\ \A m \in Majors : heard[m] \subseteq heard'[m] /\ heard'[m] \subseteq Weakest..Strongest
  BY RoundHeard DEF TypeOK, HeardMeasured
<1>3. rssi_Major_flag[i] > 0 =>
        /\ rssi_Major'[i] = rssi_Major[i] /\ rssi_Major[i] \in Majors
        /\ Bounded(rssi_Rssi[i], rssi_Major_flag[i], heard'[rssi_Major[i]])
  BY <1>1, <1>2 DEF FreshSums, MajorsAfter, Bounded
<1>4. ~(rssi_Major_flag[i] > 0) => rssi_Major_flag[i] = 0
  BY <1>2
<1>5. CASE rssi_Rssi'[i] = rssi_Rssi[i] /\ rssi_Major_flag'[i] = rssi_Major_flag[i]
  BY <1>3, <1>5
<1>6. ASSUME NEW k \in DOMAIN b, b[k].rssi # 0, rssi_Major'[i] = b[k].major,
             rssi_Rssi'[i] = rssi_Rssi[i] + b[k].rssi,
             rssi_Major_flag'[i] = rssi_Major_flag[i] + 1
      PROVE  /\ rssi_Major'[i] \in Majors
             /\ Bounded(rssi_Rssi'[i], rssi_Major_flag'[i], heard'[rssi_Major'[i]])
  <2>1. b[k].major \in Majors
    BY BatchType
  <2>2. /\ b[k].rssi \in heard'[rssi_Major'[i]]
        /\ heard'[rssi_Major'[i]] \subseteq Weakest..Strongest
    BY <1>2, <1>6, <2>1, RoundHeard
  <2>3. \/ rssi_Major_flag[i] = 0 /\ rssi_Rssi[i] = 0
        \/ Bounded(rssi_Rssi[i], rssi_Major_flag[i], heard'[rssi_Major'[i]])
    <3>1. rssi_Major_flag[i] = 0 => rssi_Rssi[i] = 0
      BY <1>2 DEF SlotSums, Weakest, Strongest
    <3>2. QED BY <1>3, <1>4, <3>1
  <2>4. QED BY <1>2, <1>6, <2>1, <2>2, <2>3, BoundedAdds
<1>7. QED BY <1>1, <1>5, <1>6, RoundLands

\* The averages of a fingerprint lie between readings heard from their own beacons.
LEMMA FingerprintOwn ==
  ASSUME TypeOK, SlotSums, HeardMeasured, FreshSums, aborts = 0, NEW i \in Reported
  PROVE  /\ \E r \in heard[rssi_Major[i]] : r <= Fingerprint[i].rssi
         /\ \E r \in heard[rssi_Major[i]] : r >= Fingerprint[i].rssi
<1>1. i \in 1..rssi_Major_count
  BY DEF Reported
<1>2. i \in Slot /\ rssi_Rssi[i] \in Int /\ rssi_Major_flag[i] \in Nat \ {0} /\ rssi_Major_flag[i] > 0
  BY <1>1, ReportedCounted
<1>3. rssi_Major[i] \in Majors /\ Bounded(rssi_Rssi[i], rssi_Major_flag[i], heard[rssi_Major[i]])
  BY <1>2 DEF FreshSums
<1>4. PICK lo \in heard[rssi_Major[i]], hi \in heard[rssi_Major[i]] :
        lo * rssi_Major_flag[i] <= rssi_Rssi[i] /\ rssi_Rssi[i] <= hi * rssi_Major_flag[i]
  BY <1>3 DEF Bounded
<1>5. lo \in Weakest..Strongest /\ hi \in Weakest..Strongest
  BY <1>3 DEF HeardMeasured
<1>6. Fingerprint[i].rssi = Quotient(rssi_Rssi[i], rssi_Major_flag[i])
  BY DEF Fingerprint
<1>7. lo <= Fingerprint[i].rssi /\ Fingerprint[i].rssi <= hi
  BY <1>2, <1>4, <1>5, <1>6, QuotientBetween
<1>8. hi >= Fingerprint[i].rssi
  BY <1>7
<1>9. QED BY <1>4, <1>7, <1>8

\* What the arrays hold between collections, what they sum up during one, and what was
\* pushed from them.
OwnInv == HeardMeasured /\ FreshSums /\ PushedOwnReadings

LEMMA OwnHolds == Spec => []OwnInv
<1>1. Init => OwnInv
  BY DEF Init, OwnInv, HeardMeasured, FreshSums, PushedOwnReadings
<1>2. TypeOK /\ SlotSums /\ ControlInv /\ OwnInv /\ [Next]_vars => OwnInv'
  <2> SUFFICES ASSUME TypeOK, SlotSums, ControlInv, OwnInv, [Next]_vars PROVE OwnInv'
    OBVIOUS
  <2>0. HeardMeasured /\ FreshSums /\ PushedOwnReadings
    BY DEF OwnInv
  <2>1. ASSUME NewHistory PROVE HeardMeasured'
    BY <2>1 DEF NewHistory, HeardMeasured
  <2>2. ASSUME ClearArrays PROVE FreshSums'
    BY <2>2 DEF ClearArrays, FreshSums
  <2>3. ASSUME pushed' \in {pushed, NoPush} PROVE PushedOwnReadings'
    BY <2>0, <2>3 DEF PushedOwnReadings
  <2>4. ASSUME UNCHANGED <<rssiFlag, arrays, aborts, heard, pushed>> PROVE OwnInv'
    BY <2>0, <2>3, <2>4 DEF OwnInv, arrays, HeardMeasured, FreshSums, Bounded
  <2>5. ASSUME NEW b \in Batches, NEW answered \in Answers, CountRound(b, answered)
        PROVE  OwnInv'
    <3>1. HeardMeasured'
      BY <2>0, <2>5, RoundHeard
    <3>2. FreshSums'
      BY <2>0, <2>5, RoundKeepsFresh
    <3>3. pushed' = pushed
      BY <2>5 DEF CountRound
    <3>4. QED BY <2>3, <3>1, <3>2, <3>3 DEF OwnInv
  <2>6. ASSUME NEW b \in Batches, NEW answered \in Answers, SkipRound(b, answered)
        PROVE  OwnInv'
    <3>1. /\ UNCHANGED <<rssiFlag, rssi_Rssi, rssi_Major_flag, aborts, heard, pushed>>
          /\ rssiFlag # 1 => rssi_Major' = rssi_Major
      BY <2>6 DEF SkipRound, RecordFirstRound, MajorsAfter
    <3>2. FreshSums'
      <4>1. CASE rssiFlag = 1
        BY <2>0, <3>1, <4>1 DEF FreshSums
      <4>2. CASE rssiFlag # 1
        BY <2>0, <3>1, <4>2 DEF FreshSums, Bounded
      <4>3. QED BY <4>1, <4>2
    <3>3. HeardMeasured'
      BY <2>0, <3>1 DEF HeardMeasured
    <3>4. QED BY <2>3, <3>1, <3>2, <3>3 DEF OwnInv
  <2>7. ASSUME NEW b \in Batches, PushFingerprint(b)
        PROVE  OwnInv'
    <3>1. FreshSums' /\ heard' = heard
      BY <2>2, <2>7 DEF PushFingerprint
    <3>2. HeardMeasured'
      BY <2>0, <3>1 DEF HeardMeasured
    <3>3. /\ pushed'.rows = Fingerprint /\ pushed'.heard = heard
          /\ pushed'.fresh = (aborts = 0)
      BY <2>7 DEF PushFingerprint
    <3>4. /\ DOMAIN Fingerprint = Reported
          /\ \A i \in Reported : Fingerprint[i].major = rssi_Major[i]
      BY DEF Fingerprint
    <3>5. PushedOwnReadings'
      <4> SUFFICES ASSUME aborts = 0, NEW i \in Reported
                   PROVE  /\ \E r \in heard[rssi_Major[i]] : r <= Fingerprint[i].rssi
                          /\ \E r \in heard[rssi_Major[i]] : r >= Fingerprint[i].rssi
        BY <3>3, <3>4 DEF PushedOwnReadings
      <4>1. QED BY <2>0, FingerprintOwn
    <3>6. QED BY <3>1, <3>2, <3>5 DEF OwnInv
  <2>8. CASE ViewWillAppear \/ StartButton
    <3>1. ClearArrays /\ NewHistory /\ pushed' \in {pushed, NoPush}
      BY <2>8 DEF ViewWillAppear, StartButton
    <3>2. QED BY <2>1, <2>2, <2>3, <3>1 DEF OwnInv
  <2>9. ASSUME NEW p \in Points \cup {NoPoint}, PushConfirm(p)
        PROVE  OwnInv'
    <3>1. rssiFlag = 1 /\ UNCHANGED <<rssiFlag, arrays, aborts>> /\ NewHistory /\ pushed' = NoPush
      BY <2>9 DEF PushConfirm, ControlInv
    <3>2. FreshSums'
      BY <2>0, <3>1 DEF FreshSums, arrays
    <3>3. QED BY <2>1, <2>3, <3>1, <3>2 DEF OwnInv
  <2>10. CASE PushStop
    <3>1. /\ UNCHANGED <<arrays, pushed, heard>> /\ rssiFlag' = 1
          /\ aborts' = IF counted > 0 THEN aborts + 1 ELSE aborts
          /\ counted = rssiFlag - 1
      BY <2>10 DEF PushStop, ControlInv
    <3>2. FreshSums'
      <4>1. CASE counted > 0
        <5>1. aborts' # 0
          BY <3>1, <4>1 DEF TypeOK
        <5>2. QED BY <5>1 DEF FreshSums
      <4>2. CASE ~(counted > 0)
        <5>1. rssiFlag = 1 /\ aborts' = aborts
          BY <3>1, <4>2, CountsAssumption DEF TypeOK
        <5>2. QED BY <2>0, <3>1, <5>1 DEF FreshSums, arrays
      <4>3. QED BY <4>1, <4>2
    <3>3. HeardMeasured'
      BY <2>0, <3>1 DEF HeardMeasured
    <3>4. QED BY <2>3, <3>1, <3>2, <3>3 DEF OwnInv
  <2>11. ASSUME NEW b \in Batches, NEW answered \in Answers, NEW scaled \in Answers,
               Track(b, answered, scaled)
         PROVE  OwnInv'
    BY <2>4, <2>11 DEF Track, collecting
  <2>12. ASSUME NEW s \in Rulers, NEW saved \in Answers, RulerConfirm(s, saved)
         PROVE  OwnInv'
    BY <2>4, <2>12 DEF RulerConfirm, collecting
  <2>13. CASE ViewDidWait \/ ViewWillDisappear \/ ViewDidClose \/ StopButton \/ PushStart
              \/ PushCancel \/ UNCHANGED vars
    BY <2>4, <2>13 DEF ViewDidWait, ViewWillDisappear, ViewDidClose, StopButton, PushStart,
       PushCancel, vars, collecting
  <2>14. QED
    BY <2>5, <2>6, <2>7, <2>8, <2>9, <2>10, <2>11, <2>12, <2>13
       DEF Next, DidRangeBeacons, Screen, Dialogs
<1>3. QED BY <1>1, <1>2, TypeCorrect, AveragesReadable, ControlHolds, PTL DEF Spec

\* The average pushed for a beacon lies between two readings of that very beacon in
\* that very collection, unless a collection was given up before.
THEOREM OwnReadings == Spec => []PushedOwnReadings
<1>1. OwnInv => PushedOwnReadings
  BY DEF OwnInv
<1>2. QED BY <1>1, OwnHolds, PTL

-----------------------------------------------------------------------------
(* The pushed fingerprint names enough beacons *)

CountedSlots == {i \in 1..rssi_Major_count : rssi_Major_flag[i] > 0}

\* From the first counted round on, as many recorded beacons as are needed to locate
\* have been counted, and the recorded beacons are different.
StationsCounted ==
  rssiFlag > 1 =>
    /\ Cardinality(CountedSlots) >= Stations
    /\ \A i, j \in 1..rssi_Major_count : rssi_Major[i] = rssi_Major[j] => i = j

\* At least Stations beacons of a counted round's batch were measured.
LEMMA MeasuredEnough ==
  ASSUME NEW b \in Batches, Len(b) >= Stations, ~ZeroSeen(b)
  PROVE  Cardinality({k \in DOMAIN b : b[k].rssi # 0}) >= Stations
<1> DEFINE measured == {k \in DOMAIN b : b[k].rssi # 0}
<1>1. DOMAIN b = 1..Len(b) /\ Len(b) \in Nat
  BY BatchType
<1>2. IsFiniteSet(1..Len(b)) /\ Cardinality(1..Len(b)) = Len(b)
  <2>1. IsFiniteSet(1..Len(b)) /\ Cardinality(1..Len(b)) = IF 1 > Len(b) THEN 0 ELSE Len(b) - 1 + 1
    BY <1>1, FS_Interval
  <2>2. QED BY <1>1, <2>1
<1>3. Cardinality(measured) \in Nat
  <2>1. measured \subseteq 1..Len(b)
    BY <1>1
  <2>2. QED BY <1>2, <2>1, FS_Subset, FS_CardinalityType
<1>4. CASE \A k \in DOMAIN b : b[k].rssi # 0
  <2>1. measured = 1..Len(b)
    BY <1>1, <1>4
  <2>2. QED BY <1>2, <2>1
<1>5. CASE \E k \in DOMAIN b : b[k].rssi = 0
  <2>1. ~(Cardinality(measured) < Stations)
    BY <1>5 DEF ZeroSeen
  <2>2. QED BY <1>3, <2>1, CountsAssumption
<1>6. QED BY <1>4, <1>5

\* In the first counted round beacon k lands in slot k.
LEMMA FirstRoundLands ==
  ASSUME NEW b \in Batches, NEW k \in DOMAIN b, b[k].rssi # 0, rssiFlag = 1
  PROVE  k \in Slot /\ Landing(b, MajorsAfter(b), k) # {}
<1>1. k \in Slot /\ k \in 1..Len(b) /\ Len(b) \in Nat /\ Len(b) <= Slots /\ DOMAIN b = 1..Len(b)
  BY BatchType, CountsAssumption
<1>2. \A j \in 1..Len(b) : MajorsAfter(b)[j] = b[j].major
  BY <1>1, CountsAssumption DEF MajorsAfter
<1>3. \A j \in 1..(k - 1) : b[j].major # b[k].major
  <2> TAKE j \in 1..(k - 1)
  <2>1. j \in DOMAIN b /\ j # k
    BY <1>1
  <2>2. QED BY <2>1, BeaconAssumption
<1>4. Lands(b, MajorsAfter(b), k, k)
  <2>1. \A j \in 1..(k - 1) : j \in 1..Len(b)
    BY <1>1
  <2>2. QED BY <1>1, <1>2, <1>3, <2>1 DEF Lands
<1>5. QED BY <1>1, <1>4 DEF Landing

\* The slots in use can be counted.
LEMMA CountedFinite ==
  ASSUME rssi_Major_count \in Nat
  PROVE  IsFiniteSet(CountedSlots) /\ Cardinality(CountedSlots) \in Nat
<1>1. IsFiniteSet(1..rssi_Major_count) /\ CountedSlots \subseteq 1..rssi_Major_count
  BY FS_Interval DEF CountedSlots
<1>2. QED BY <1>1, FS_Subset, FS_CardinalityType

\* A counted round counts enough beacons, or finds them counted.
LEMMA RoundKeepsStations ==
  ASSUME NEW b \in Batches, NEW answered \in Answers, CountRound(b, answered),
         TypeOK, TypeOK', StationsCounted
  PROVE  StationsCounted'
<1>1. /\ rssi_Major' = MajorsAfter(b)
      /\ rssi_Major_count' = IF rssiFlag = 1 THEN Len(b) ELSE rssi_Major_count
      /\ \A i \in Slot : rssi_Major_flag'[i] = FlagAfter(b, MajorsAfter(b), i)
      /\ Len(b) >= Stations /\ ~ZeroSeen(b)
  BY DEF CountRound, RecordFirstRound, Ranged
<1>2. DOMAIN b = 1..Len(b) /\ Len(b) \in Nat /\ Len(b) <= Slots
  BY BatchType
<1>3. IsFiniteSet(CountedSlots') /\ Cardinality(CountedSlots') \in Nat
  <2>1. rssi_Major_count' \in Nat
    BY DEF TypeOK
  <2>2. IsFiniteSet(1..rssi_Major_count') /\ CountedSlots' \subseteq 1..rssi_Major_count'
    BY <2>1, FS_Interval DEF CountedSlots
  <2>3. QED BY <2>2, FS_Subset, FS_CardinalityType
<1>4. CASE rssiFlag = 1
  <2> DEFINE measured == {k \in DOMAIN b : b[k].rssi # 0}
  <2>1. measured \subseteq CountedSlots'
    <3> SUFFICES ASSUME NEW k \in DOMAIN b, b[k].rssi # 0
                 PROVE  k \in 1..rssi_Major_count' /\ rssi_Major_flag'[k] > 0
      BY DEF CountedSlots
    <3>1. k \in Slot /\ Landing(b, MajorsAfter(b), k) # {}
      BY <1>4, FirstRoundLands
    <3>2. rssi_Major_flag'[k] = rssi_Major_flag[k] + 1 /\ rssi_Major_flag[k] \in Nat
      BY <1>1, <3>1 DEF FlagAfter, TypeOK
    <3>3. QED BY <1>1, <1>2, <1>4, <3>2
  <2>2. Cardinality(measured) <= Cardinality(CountedSlots')
    BY <1>3, <2>1, FS_Subset
  <2>3. Cardinality(measured) >= Stations /\ Cardinality(measured) \in Nat
    <3>1. IsFiniteSet(measured)
      BY <1>3, <2>1, FS_Subset
    <3>2. QED BY <1>1, <3>1, MeasuredEnough, FS_CardinalityType
  <2>4. Cardinality(CountedSlots') >= Stations
    <3> HIDE DEF measured
    <3>1. QED BY <1>3, <2>2, <2>3, CountsAssumption
  <2>5. \A i, j \in 1..rssi_Major_count' : rssi_Major'[i] = rssi_Major'[j] => i = j
    <3>1. \A i \in 1..Len(b) : rssi_Major'[i] = b[i].major
      BY <1>1, <1>2, <1>4, CountsAssumption DEF MajorsAfter
    <3>2. QED BY <1>1, <1>2, <1>4, <3>1, BeaconAssumption
  <2>6. QED BY <2>4, <2>5 DEF StationsCounted
<1>5. CASE rssiFlag # 1
  <2>1. rssi_Major' = rssi_Major /\ rssi_Major_count' = rssi_Major_count /\ rssiFlag > 1
    BY <1>1, <1>5, CountsAssumption DEF MajorsAfter, TypeOK
  <2>2. CountedSlots \subseteq CountedSlots'
    <3> SUFFICES ASSUME NEW i \in 1..rssi_Major_count, rssi_Major_flag[i] > 0
                 PROVE  rssi_Major_flag'[i] > 0
      BY <2>1 DEF CountedSlots
    <3>1. i \in Slot
      BY CountsAssumption DEF TypeOK
    <3>2. rssi_Major_flag'[i] \in {rssi_Major_flag[i], rssi_Major_flag[i] + 1}
      BY <1>1, <3>1 DEF FlagAfter
    <3>3. rssi_Major_flag[i] \in Nat
      BY <3>1 DEF TypeOK
    <3>4. QED BY <3>2, <3>3
  <2>3. Cardinality(CountedSlots) >= Stations /\ Cardinality(CountedSlots) \in Nat
    <3>1. rssi_Major_count \in Nat
      BY CountsAssumption DEF TypeOK
    <3>2. QED BY <2>1, <3>1, CountedFinite DEF StationsCounted
  <2>4. Cardinality(CountedSlots) <= Cardinality(CountedSlots')
    BY <1>3, <2>2, FS_Subset
  <2>5. Cardinality(CountedSlots') >= Stations
    BY <1>3, <2>3, <2>4, CountsAssumption
  <2>6. QED BY <2>1, <2>5 DEF StationsCounted
<1>6. QED BY <1>4, <1>5

\* Every counted slot is reported under a major of its own.
LEMMA FingerprintComplete ==
  ASSUME TypeOK, SlotSums, StationsCounted, rssiFlag > 1
  PROVE  Cardinality({Fingerprint[i].major : i \in DOMAIN Fingerprint}) >= Stations
<1> DEFINE named == {Fingerprint[i].major : i \in DOMAIN Fingerprint}
           f == [i \in CountedSlots |-> rssi_Major[i]]
<1>1. rssi_Major_count \in Nat
  BY CountsAssumption DEF TypeOK
<1>2. Reported = CountedSlots
  <2>1. Reported \subseteq 1..rssi_Major_count /\ CountedSlots \subseteq 1..rssi_Major_count
    BY DEF Reported, CountedSlots
  <2>2. \A i \in 1..rssi_Major_count : i \in Reported <=> i \in CountedSlots
    BY ReportedCounted DEF CountedSlots
  <2>3. QED BY <2>1, <2>2
<1>3. named = {rssi_Major[i] : i \in CountedSlots}
  BY <1>2 DEF Fingerprint
<1>4. \A i, j \in CountedSlots : rssi_Major[i] = rssi_Major[j] => i = j
  BY DEF StationsCounted, CountedSlots
<1> HIDE DEF named
<1>5. f \in Bijection(CountedSlots, named)
  BY <1>3, <1>4 DEF Bijection, Injection, Surjection, IsInjective
<1>6. ExistsBijection(CountedSlots, named)
  BY <1>5 DEF ExistsBijection
<1>7. Cardinality(named) = Cardinality(CountedSlots)
  BY <1>1, <1>6, CountedFinite, FS_Bijection
<1>8. QED BY <1>7 DEF StationsCounted, named

CompleteInv == StationsCounted /\ PushedComplete

LEMMA CompleteHolds == Spec => []CompleteInv
<1>1. Init => CompleteInv
  BY DEF Init, CompleteInv, StationsCounted, PushedComplete
<1>2. TypeOK /\ TypeOK' /\ SlotSums /\ CompleteInv /\ [Next]_vars => CompleteInv'
  <2> SUFFICES ASSUME TypeOK, TypeOK', SlotSums, CompleteInv, [Next]_vars PROVE CompleteInv'
    OBVIOUS
  <2>0. StationsCounted /\ PushedComplete
    BY DEF CompleteInv
  <2>1. ASSUME rssiFlag' = 1 PROVE StationsCounted'
    BY <2>1 DEF StationsCounted
  <2>2. ASSUME pushed' \in {pushed, NoPush} PROVE PushedComplete'
    BY <2>0, <2>2 DEF PushedComplete
  <2>3. ASSUME UNCHANGED <<rssiFlag, rssi_Major, rssi_Major_flag, rssi_Major_count, pushed>>
        PROVE  CompleteInv'
    BY <2>0, <2>2, <2>3 DEF CompleteInv, StationsCounted, CountedSlots
  <2>4. ASSUME NEW b \in Batches, NEW answered \in Answers, CountRound(b, answered)
        PROVE  CompleteInv'
    <3>1. pushed' = pushed
      BY <2>4 DEF CountRound
    <3>2. StationsCounted'
      BY <2>0, <2>4, RoundKeepsStations
    <3>3. QED BY <2>2, <3>1, <3>2 DEF CompleteInv
  <2>5. ASSUME NEW b \in Batches, NEW answered \in Answers, SkipRound(b, answered)
        PROVE  CompleteInv'
    <3>1. /\ UNCHANGED <<rssiFlag, rssi_Major_flag, pushed>>
          /\ rssiFlag # 1 => UNCHANGED <<rssi_Major, rssi_Major_count>>
      BY <2>5 DEF SkipRound, RecordFirstRound, MajorsAfter
    <3>2. CASE rssiFlag = 1
      BY <2>1, <2>2, <3>1, <3>2 DEF CompleteInv
    <3>3. CASE rssiFlag # 1
      BY <2>3, <3>1, <3>3
    <3>4. QED BY <3>2, <3>3
  <2>6. ASSUME NEW b \in Batches, PushFingerprint(b)
        PROVE  CompleteInv'
    <3>1. rssiFlag > 1 /\ rssiFlag' = 1 /\ pushed'.rows = Fingerprint
      BY <2>6, CountsAssumption DEF PushFingerprint
    <3>2. Cardinality({Fingerprint[i].major : i \in DOMAIN Fingerprint}) >= Stations
      BY <2>0, <3>1, FingerprintComplete
    <3>3. PushedComplete'
      BY <3>1, <3>2 DEF PushedComplete
    <3>4. QED BY <2>1, <3>1, <3>3 DEF CompleteInv
  <2>7. CASE ViewWillAppear \/ StartButton \/ PushStop
    <3>1. rssiFlag' = 1 /\ pushed' \in {pushed, NoPush}
      BY <2>7 DEF ViewWillAppear, StartButton, PushStop
    <3>2. QED BY <2>1, <2>2, <3>1 DEF CompleteInv
  <2>8. ASSUME NEW p \in Points \cup {NoPoint}, PushConfirm(p)
        PROVE  CompleteInv'
    <3>1. UNCHANGED <<rssiFlag, arrays, rssi_Major_count>> /\ pushed' = NoPush
      BY <2>8 DEF PushConfirm
    <3>2. StationsCounted'
      BY <2>0, <3>1 DEF StationsCounted, CountedSlots, arrays
    <3>3. QED BY <2>2, <3>1, <3>2 DEF CompleteInv
  <2>9. ASSUME NEW b \in Batches, NEW answered \in Answers, NEW scaled \in Answers,
               Track(b, answered, scaled)
        PROVE  CompleteInv'
    BY <2>3, <2>9 DEF Track, collecting, arrays
  <2>10. ASSUME NEW s \in Rulers, NEW saved \in Answers, RulerConfirm(s, saved)
         PROVE  CompleteInv'
    BY <2>3, <2>10 DEF RulerConfirm, collecting, arrays
  <2>11. CASE ViewDidWait \/ ViewWillDisappear \/ ViewDidClose \/ StopButton \/ PushStart
              \/ PushCancel \/ UNCHANGED vars
    BY <2>3, <2>11 DEF ViewDidWait, ViewWillDisappear, ViewDidClose, StopButton, PushStart,
       PushCancel, vars, collecting, arrays
  <2>12. QED
    BY <2>4, <2>5, <2>6, <2>7, <2>8, <2>9, <2>10, <2>11
       DEF Next, DidRangeBeacons, Screen, Dialogs
<1>3. QED BY <1>1, <1>2, TypeCorrect, AveragesReadable, PTL DEF Spec

\* A pushed fingerprint names at least as many different beacons as are needed to
\* locate.
THEOREM Complete == Spec => []PushedComplete
<1>1. CompleteInv => PushedComplete
  BY DEF CompleteInv
<1>2. QED BY <1>1, CompleteHolds, PTL

=============================================================================
