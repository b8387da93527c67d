--------------------------- MODULE MqttScreens_proofs ---------------------------
(***************************************************************************)
(* What holds of MqttScreens for any number of switches and any nesting of *)
(* the run loops.                                                          *)
(***************************************************************************)
EXTENDS MqttScreens, TLAPS

\* A frame on top of the others.
LEMMA PushFrame ==
  ASSUME frames \in Seq(Frame), NEW f \in Frame, frames' = Append(frames, f)
  PROVE  /\ frames' \in Seq(Frame) /\ frames' # <<>>
         /\ Len(frames) \in Nat /\ DOMAIN frames = 1..Len(frames)
         /\ Len(frames') = Len(frames) + 1 /\ DOMAIN frames' = 1..(Len(frames) + 1)
         /\ \A n \in DOMAIN frames : n \in DOMAIN frames' /\ frames'[n] = frames[n]
         /\ Len(frames) + 1 \in DOMAIN frames' /\ frames'[Len(frames) + 1] = f
OBVIOUS

\* The innermost frame returns.
LEMMA PopFrame ==
  ASSUME frames \in Seq(Frame), frames # <<>>, frames' = Front(frames)
  PROVE  /\ frames' \in Seq(Frame)
         /\ Len(frames) \in Nat \ {0} /\ DOMAIN frames = 1..Len(frames)
         /\ Last(frames) = frames[Len(frames)] /\ Last(frames) \in Frame
         /\ Len(frames') = Len(frames) - 1 /\ DOMAIN frames' = 1..(Len(frames) - 1)
         /\ \A n \in DOMAIN frames' : n \in DOMAIN frames /\ frames'[n] = frames[n]
<1>1. /\ Len(frames) \in Nat \ {0} /\ DOMAIN frames = 1..Len(frames)
      /\ \A n \in 1..Len(frames) : frames[n] \in Frame
  OBVIOUS
<1>2. /\ frames' \in Seq(Frame) /\ Len(frames') = Len(frames) - 1
      /\ \A n \in 1..(Len(frames) - 1) : frames'[n] = frames[n]
  BY <1>1 DEF Front
<1>3. DOMAIN frames' = 1..(Len(frames) - 1)
  BY <1>2
<1>. QED  BY <1>1, <1>2, <1>3 DEF Last

\* A status that is published keeps the types.
LEMMA SendType ==
  ASSUME TypeOK, NEW p \in Presence, SendMassage(p)
  PROVE  told' \in Presence /\ outbox' \in [Clients -> Presence]
BY DEF TypeOK, SendMassage

\* The number of a switch names the MQTT object it makes.
LEMMA SwitchType ==
  ASSUME TypeOK, Switch
  PROVE  /\ switches \in Nat /\ switches' = switches + 1
         /\ switches' \in Clients /\ switches' \in 0..MaxSwitches
         /\ disturbed' \in BOOLEAN
BY SwitchesAssumption DEF TypeOK, Switch, Clients

LEMMA TypeInit == Init => TypeOK
<1> SUFFICES ASSUME Init PROVE TypeOK
  OBVIOUS
<1>1. frames \in Seq(Frame)
  BY DEF Init
<1>2. 0 \in 0..MaxSwitches
  BY SwitchesAssumption
<1>. QED  BY <1>1, <1>2 DEF Init, TypeOK, Presence

LEMMA TypeStep == TypeOK /\ [Next]_vars => TypeOK'
<1> SUFFICES ASSUME TypeOK, [Next]_vars PROVE TypeOK'
  OBVIOUS
<1>0. "true" \in Presence /\ "false" \in Presence /\ TRUE \in BOOLEAN /\ FALSE \in BOOLEAN
  BY DEF Presence
<1>1. CASE ViewWillAppear
  <2>1. /\ switches' \in Clients /\ switches' \in 0..MaxSwitches /\ disturbed' \in BOOLEAN
    BY <1>1, SwitchType DEF ViewWillAppear
  <2>2. CASE myMqtt = None
    <3>1. [call |-> "appear", mqtt |-> switches'] \in Frame
      BY <2>1 DEF Frame
    <3>2. frames' \in Seq(Frame)
      BY <1>1, <2>2, <3>1, PushFrame DEF ViewWillAppear, TypeOK
    <3>. QED  BY <1>1, <2>1, <2>2, <3>2 DEF ViewWillAppear, TypeOK
  <2>3. CASE myMqtt # None
    BY <1>1, <2>1, <2>3 DEF ViewWillAppear, TypeOK, Resume
  <2>. QED  BY <2>2, <2>3
<1>2. CASE ViewWillDisappear
  <2>1. /\ switches' \in 0..MaxSwitches /\ disturbed' \in BOOLEAN
    BY <1>2, SwitchType DEF ViewWillDisappear
  <2>2. told' \in Presence /\ outbox' \in [Clients -> Presence]
    BY <1>0, <1>2, SendType DEF ViewWillDisappear
  <2>3. said' \in BOOLEAN
    BY <1>2 DEF ViewWillDisappear, Online, HasSession
  <2>4. CASE HasSession
    <3>1. myMqtt \in Clients /\ [call |-> "disappear", mqtt |-> myMqtt] \in Frame
      BY <2>4 DEF HasSession, TypeOK, Frame
    <3>2. frames' \in Seq(Frame)
      BY <1>2, <2>4, <3>1, PushFrame DEF ViewWillDisappear, TypeOK
    <3>. QED  BY <1>2, <2>1, <2>2, <2>3, <2>4, <3>1, <3>2 DEF ViewWillDisappear, Closed, TypeOK
  <2>5. CASE ~HasSession
    BY <1>2, <2>1, <2>2, <2>3, <2>5 DEF ViewWillDisappear, Pause, TypeOK
  <2>. QED  BY <2>4, <2>5
<1>3. CASE ViewDidWait
  <2>1. frames' \in Seq(Frame) /\ Last(frames) \in Frame
    BY <1>3, PopFrame DEF ViewDidWait, Top, TypeOK
  <2>2. mySession' \subseteq Clients
    BY <1>3, <2>1 DEF ViewDidWait, TypeOK, Frame
  <2>. QED  BY <1>3, <2>1, <2>2 DEF ViewDidWait, Resume, TypeOK
<1>4. CASE ViewDidClose
  <2>1. frames' \in Seq(Frame)
    BY <1>4, PopFrame DEF ViewDidClose, Top, TypeOK
  <2>. QED  BY <1>4, <2>1 DEF ViewDidClose, MqttAfterDisconnect, Pause, TypeOK
<1>5. CASE StopButton
  BY <1>0, <1>5, SendType DEF StopButton, client, Pause, TypeOK
<1>6. CASE StartButton
  BY <1>6 DEF StartButton, client, Resume, TypeOK
<1>7. CASE DidRangeBeacons
  BY <1>0, <1>7, SendType DEF DidRangeBeacons, screen, client, TypeOK
<1>8. ASSUME NEW m \in Clients, Accept(m) PROVE TypeOK'
  BY <1>8 DEF Accept, screen, TypeOK
<1>9. ASSUME NEW m \in Clients, Broken(m) PROVE TypeOK'
  BY <1>9 DEF Broken, screen, TypeOK
<1>10. CASE UNCHANGED vars
  BY <1>10 DEF vars, screen, client, TypeOK
<1>. QED  BY <1>1, <1>2, <1>3, <1>4, <1>5, <1>6, <1>7, <1>8, <1>9, <1>10 DEF Next, Return

\* Types.
THEOREM TypeCorrect == Spec => []TypeOK
BY TypeInit, TypeStep, PTL DEF Spec

-----------------------------------------------------------------------------
(* The inductive invariant: what the frames on the stack, the MQTT objects   *)
(* and the last status have to do with one another.                          *)

Appears(n) == frames[n].call = "appear"
Disappears(n) == frames[n].call = "disappear"

\* An MQTT object that a later switch makes is nowhere yet.
Fresh ==
  /\ myMqtt <= switches
  /\ \A m \in mySession : m <= switches
  /\ \A n \in DOMAIN frames : frames[n].mqtt <= switches
  /\ \A m \in Clients : m > switches => outbox[m] = "none"

\* An object whose connect waits has no session yet, and waits in one frame.
Waiting ==
  /\ \A n \in DOMAIN frames : Appears(n) => frames[n].mqtt \notin mySession
  /\ \A i, j \in DOMAIN frames :
       Appears(i) /\ Appears(j) /\ frames[i].mqtt = frames[j].mqtt => i = j

\* An object whose disconnect waits has closed its session.
ClosedFrames ==
  \A n \in DOMAIN frames : Disappears(n) => session[frames[n].mqtt] = "closed"

\* The screen's object has its session or waits for it; it is the object of a
\* visible screen, or one that a disconnect on the stack is about to drop.
Held ==
  myMqtt # None =>
    /\ HasSession \/ \E n \in DOMAIN frames : Appears(n) /\ frames[n].mqtt = myMqtt
    /\ visible \/ \E n \in DOMAIN frames : Disappears(n)

\* What an object queued that has no session any more is never sent.
QueuedBySession ==
  \A m \in Clients : outbox[m] # "none" /\ m \notin mySession => session[m] = "closed"

\* After its goodbye a hidden screen has no open session to publish through.
Quiet ==
  ~visible /\ said => told = "false" /\ (myMqtt = None \/ session[myMqtt] = "closed")

\* A switch that found the stack empty, and where it is.
Undisturbed ==
  switches > 0 /\ ~disturbed =>
    \/ frames = <<>> /\ visible /\ HasSession /\ Running(startBool)
    \/ frames = <<>> /\ ~visible /\ myMqtt = None /\ Running(FALSE)
    \/ Len(frames) = 1 /\ visible /\ Appears(1) /\ frames[1].mqtt = myMqtt
    \/ Len(frames) = 1 /\ ~visible /\ Disappears(1)

StackInv ==
  /\ TypeOK /\ Fresh /\ Waiting /\ ClosedFrames /\ Held
  /\ QueuedBySession /\ Quiet /\ Undisturbed

\* The numbers of the objects on the stack and off it.
LEMMA Numbers ==
  ASSUME TypeOK
  PROVE  /\ switches \in Nat /\ myMqtt \in Nat /\ \A m \in mySession : m \in Nat
         /\ \A m \in Clients : m \in Nat
         /\ \A n \in DOMAIN frames : /\ frames[n] \in Frame /\ frames[n].mqtt \in Clients
                                    /\ frames[n].mqtt \in Nat
<1>1. Clients \subseteq Nat
  BY SwitchesAssumption DEF Clients
<1>2. \A n \in DOMAIN frames : frames[n] \in Frame
  <2>1. frames \in Seq(Frame)
    BY DEF TypeOK
  <2>. QED  BY <2>1
<1>3. \A f \in Frame : f.mqtt \in Clients
  BY DEF Frame
<1>4. switches \in Nat
  BY SwitchesAssumption DEF TypeOK
<1>5. myMqtt \in Nat /\ \A m \in mySession : m \in Nat
  BY <1>1 DEF TypeOK, None
<1>6. \A n \in DOMAIN frames : frames[n].mqtt \in Clients /\ frames[n].mqtt \in Nat
  BY <1>1, <1>2, <1>3
<1>. QED  BY <1>1, <1>2, <1>4, <1>5, <1>6

\* A further switch, and frames that are those of before or of a known object.
LEMMA FreshSwitch ==
  ASSUME TypeOK, Fresh, switches' = switches + 1, mySession' = mySession,
         myMqtt' <= switches',
         \A n \in DOMAIN frames' :
           (n \in DOMAIN frames /\ frames'[n] = frames[n]) \/ frames'[n].mqtt <= switches',
         \A m \in Clients : m > switches => outbox'[m] = "none"
  PROVE  Fresh'
<1>1. \A x \in Nat : x <= switches => x <= switches'
  BY Numbers
<1>2. \A m \in Clients : m > switches' => m > switches
  BY Numbers
<1>. QED  BY <1>1, <1>2, Numbers DEF Fresh

\* A status never reaches anything but the outbox of an object with a session.
LEMMA SendQueued ==
  ASSUME TypeOK, Fresh, NEW p \in Presence, SendMassage(p)
  PROVE  /\ \A m \in Clients : m \notin mySession => outbox'[m] = outbox[m]
         /\ \A m \in Clients : m > switches => outbox'[m] = "none"
<1>1. switches \in Nat
  BY SwitchesAssumption DEF TypeOK
<1>2. HasSession => myMqtt \in Clients /\ myMqtt <= switches
  BY DEF HasSession, TypeOK, Fresh
<1>. QED  BY <1>1, <1>2 DEF SendMassage, TypeOK, Fresh, Clients, HasSession

LEMMA InitStack == Init => StackInv
<1> SUFFICES ASSUME Init PROVE StackInv
  OBVIOUS
<1>1. DOMAIN frames = {}
  BY DEF Init
<1>2. Fresh /\ Waiting /\ ClosedFrames
  BY <1>1 DEF Init, Fresh, Waiting, ClosedFrames, None
<1>3. Held /\ QueuedBySession /\ Quiet /\ Undisturbed
  BY DEF Init, Held, QueuedBySession, Quiet, Undisturbed
<1>. QED  BY TypeInit, <1>2, <1>3 DEF StackInv

LEMMA AppearStack == StackInv /\ ViewWillAppear => StackInv'
<1> SUFFICES ASSUME StackInv, ViewWillAppear PROVE StackInv'
  OBVIOUS
<1> USE DEF StackInv
<1>0. TypeOK'
  BY TypeStep DEF Next
<1>1. switches \in Nat /\ switches' = switches + 1 /\ switches' \in Clients
  BY SwitchType DEF ViewWillAppear
<1>2. CASE myMqtt = None
  <2> DEFINE f == [call |-> "appear", mqtt |-> switches']
  <2>1. f \in Frame /\ f.call = "appear" /\ f.mqtt = switches'
    BY <1>1 DEF Frame
  <2>2. frames' = Append(frames, f) /\ frames \in Seq(Frame)
    BY <1>2 DEF ViewWillAppear, TypeOK
  <2> HIDE DEF f
  <2>3. /\ Len(frames) \in Nat /\ DOMAIN frames = 1..Len(frames) /\ frames' # <<>>
        /\ Len(frames') = Len(frames) + 1 /\ DOMAIN frames' = 1..(Len(frames) + 1)
        /\ \A n \in DOMAIN frames : frames'[n] = frames[n]
        /\ frames'[Len(frames) + 1] = f
    BY <2>1, <2>2, PushFrame
  <2>4. /\ mySession' = mySession /\ outbox' = outbox /\ told' = told /\ said' = said
        /\ visible' /\ myMqtt' = switches'
        /\ \A m \in Clients : m # switches' => session'[m] = session[m]
    BY <1>2, <1>1 DEF ViewWillAppear, TypeOK
  <2>5. \A n \in DOMAIN frames : frames[n].mqtt \in Clients /\ frames[n].mqtt <= switches
    BY Numbers DEF Fresh
  <2>6. Fresh'
    <3>1. \A n \in DOMAIN frames' : n \in DOMAIN frames \/ n = Len(frames) + 1
      BY <2>3
    <3>. QED  BY <1>1, <2>1, <2>3, <2>4, <3>1, FreshSwitch DEF Fresh
  <2>7. Waiting'
    BY <1>1, <2>1, <2>3, <2>4, <2>5 DEF Waiting, Appears, Fresh, Clients
  <2>8. ClosedFrames'
    BY <1>1, <2>1, <2>3, <2>4, <2>5 DEF ClosedFrames, Disappears, Clients
  <2>9. Held'
    BY <2>1, <2>3, <2>4 DEF Held, Appears
  <2>10. QueuedBySession'
    BY <1>1, <2>4 DEF QueuedBySession, Fresh, Clients
  <2>11. Quiet'
    BY <2>4 DEF Quiet
  <2>12. Undisturbed'
    <3>1. ~disturbed' => frames = <<>>
      BY DEF ViewWillAppear, Switch
    <3>2. frames = <<>> => Len(frames') = 1 /\ frames'[1] = f
      BY <2>3
    <3>. QED  BY <2>1, <2>4, <3>1, <3>2 DEF Undisturbed, Appears
  <2>. QED  BY <1>0, <2>6, <2>7, <2>8, <2>9, <2>10, <2>11, <2>12
<1>3. CASE myMqtt # None
  <2>1. /\ mySession' = mySession /\ outbox' = outbox /\ told' = told /\ said' = said
        /\ visible' /\ myMqtt' = myMqtt /\ session' = session /\ frames' = frames
    BY <1>3 DEF ViewWillAppear
  <2>2. Fresh'
    BY <1>1, <2>1, Numbers, FreshSwitch DEF Fresh
  <2>3. Waiting' /\ ClosedFrames'
    BY <2>1 DEF Waiting, ClosedFrames, Appears, Disappears
  <2>4. Held'
    BY <2>1 DEF Held, HasSession, Appears
  <2>5. QueuedBySession' /\ Quiet'
    BY <2>1 DEF QueuedBySession, Quiet
  <2>6. Undisturbed'
    <3>1. ~disturbed' => frames = <<>>
      BY DEF ViewWillAppear, Switch
    <3>2. ~visible
      BY DEF ViewWillAppear
    <3>3. frames # <<>>
      BY <1>3, <3>2 DEF Held
    <3>. QED  BY <3>1, <3>3 DEF Undisturbed
  <2>. QED  BY <1>0, <2>2, <2>3, <2>4, <2>5, <2>6
<1>. QED  BY <1>2, <1>3

LEMMA DisappearStack == StackInv /\ ViewWillDisappear => StackInv'
<1> SUFFICES ASSUME StackInv, ViewWillDisappear PROVE StackInv'
  OBVIOUS
<1> USE DEF StackInv
<1>0. TypeOK'
  BY TypeStep DEF Next
<1>1. switches \in Nat /\ switches' = switches + 1 /\ (~disturbed' => frames = <<>>)
  BY SwitchType DEF ViewWillDisappear, Switch
<1>2. /\ \A m \in Clients : m \notin mySession => outbox'[m] = outbox[m]
      /\ \A m \in Clients : m > switches => outbox'[m] = "none"
  BY SendQueued DEF ViewWillDisappear, Presence
<1>3. ~visible' /\ mySession' = mySession /\ said' = Online
  BY DEF ViewWillDisappear
<1>4. said' => told' = "false"
  BY <1>3 DEF ViewWillDisappear, SendMassage
<1>5. CASE HasSession
  <2> DEFINE f == [call |-> "disappear", mqtt |-> myMqtt]
  <2>1. /\ myMqtt \in Clients /\ f \in Frame /\ f.call = "disappear" /\ f.mqtt = myMqtt
        /\ myMqtt <= switches
    BY <1>5 DEF HasSession, TypeOK, Frame, Fresh
  <2>2. frames' = Append(frames, f) /\ frames \in Seq(Frame)
    BY <1>5 DEF ViewWillDisappear, TypeOK
  <2> HIDE DEF f
  <2>3. /\ Len(frames) \in Nat /\ DOMAIN frames = 1..Len(frames) /\ frames' # <<>>
        /\ Len(frames') = Len(frames) + 1 /\ DOMAIN frames' = 1..(Len(frames) + 1)
        /\ \A n \in DOMAIN frames : frames'[n] = frames[n]
        /\ frames'[Len(frames) + 1] = f
    BY <2>1, <2>2, PushFrame
  <2>4. /\ myMqtt' = myMqtt /\ session'[myMqtt] = "closed"
        /\ \A m \in Clients : session[m] = "closed" => session'[m] = "closed"
    BY <1>5, <2>1 DEF ViewWillDisappear, Closed, TypeOK
  <2>5. \A n \in DOMAIN frames : frames[n].mqtt \in Clients
    BY Numbers
  <2>6. Fresh'
    <3>1. \A n \in DOMAIN frames' : n \in DOMAIN frames \/ n = Len(frames) + 1
      BY <2>3
    <3>2. myMqtt <= switches'
      BY <1>1, <2>1, Numbers
    <3>. QED  BY <1>1, <1>2, <1>3, <2>1, <2>3, <2>4, <3>1, <3>2, FreshSwitch
  <2>7. Waiting'
    BY <1>3, <2>1, <2>3 DEF Waiting, Appears
  <2>8. ClosedFrames'
    BY <2>1, <2>3, <2>4, <2>5 DEF ClosedFrames, Disappears
  <2>9. Held'
    <3>1. HasSession'
      BY <1>3, <1>5, <2>4 DEF HasSession
    <3>2. \E n \in DOMAIN frames' : Disappears(n)'
      BY <2>1, <2>3 DEF Disappears
    <3>. QED  BY <3>1, <3>2 DEF Held
  <2>10. QueuedBySession'
    BY <1>2, <1>3, <2>4 DEF QueuedBySession
  <2>11. Quiet'
    BY <1>4, <2>4 DEF Quiet
  <2>12. Undisturbed'
    <3>1. frames = <<>> => Len(frames') = 1 /\ frames'[1] = f
      BY <2>3
    <3>. QED  BY <1>1, <1>3, <2>1, <3>1 DEF Undisturbed, Disappears
  <2>. QED  BY <1>0, <2>6, <2>7, <2>8, <2>9, <2>10, <2>11, <2>12
<1>6. CASE ~HasSession
  <2>1. myMqtt' = None /\ session' = session /\ frames' = frames /\ Running(FALSE)'
    BY <1>6 DEF ViewWillDisappear, Pause, Running
  <2>2. Fresh'
    <3>1. None <= switches'
      BY <1>1 DEF None
    <3>. QED  BY <1>1, <1>2, <1>3, <2>1, <3>1, FreshSwitch
  <2>3. Waiting' /\ ClosedFrames'
    BY <1>3, <2>1 DEF Waiting, ClosedFrames, Appears, Disappears
  <2>4. Held' /\ Quiet'
    BY <1>4, <2>1 DEF Held, Quiet
  <2>5. QueuedBySession'
    BY <1>2, <1>3, <2>1 DEF QueuedBySession
  <2>6. Undisturbed'
    BY <1>1, <1>3, <2>1 DEF Undisturbed
  <2>. QED  BY <1>0, <2>2, <2>3, <2>4, <2>5, <2>6
<1>. QED  BY <1>5, <1>6

LEMMA DidWaitStack == StackInv /\ ViewDidWait => StackInv'
<1> SUFFICES ASSUME StackInv, ViewDidWait PROVE StackInv'
  OBVIOUS
<1> USE DEF StackInv
<1>0. TypeOK'
  BY TypeStep DEF Next, Return
<1> DEFINE top == Len(frames)
           m == frames[top].mqtt
<1>1. /\ frames \in Seq(Frame) /\ top \in Nat \ {0} /\ DOMAIN frames = 1..top
      /\ Last(frames) = frames[top] /\ frames[top] \in Frame /\ Appears(top)
      /\ Len(frames') = top - 1 /\ DOMAIN frames' = 1..(top - 1)
      /\ \A n \in DOMAIN frames' : n \in DOMAIN frames /\ frames'[n] = frames[n]
  BY PopFrame DEF ViewDidWait, Top, TypeOK, Appears
<1>2. /\ visible' = visible /\ myMqtt' = myMqtt /\ session' = session /\ outbox' = outbox
      /\ told' = told /\ said' = said /\ switches' = switches /\ disturbed' = disturbed
      /\ mySession' = mySession \union {m} /\ Running(TRUE)'
  BY <1>1 DEF ViewDidWait, Resume, Running
<1>3. Fresh'
  BY <1>1, <1>2 DEF Fresh
<1>4. Waiting'
  <2>1. \A n \in DOMAIN frames' : Appears(n)' => Appears(n) /\ n # top
    BY <1>1 DEF Appears
  <2>2. \A n \in DOMAIN frames' : Appears(n)' => frames'[n].mqtt # m
    BY <1>1, <2>1 DEF Waiting
  <2>. QED  BY <1>1, <1>2, <2>1, <2>2 DEF Waiting
<1>5. ClosedFrames'
  BY <1>1, <1>2 DEF ClosedFrames, Disappears
<1>6. Held'
  <2> SUFFICES ASSUME myMqtt # None
               PROVE  /\ HasSession' \/ \E n \in DOMAIN frames' : Appears(n)' /\ frames'[n].mqtt = myMqtt
                      /\ visible \/ \E n \in DOMAIN frames' : Disappears(n)'
    BY <1>2 DEF Held
  <2>1. \A n \in DOMAIN frames : n = top \/ n \in DOMAIN frames'
    BY <1>1
  <2>3. ASSUME NEW n \in DOMAIN frames, Appears(n), frames[n].mqtt = myMqtt
        PROVE  HasSession' \/ \E k \in DOMAIN frames' : Appears(k)' /\ frames'[k].mqtt = myMqtt
    BY <1>1, <1>2, <2>1, <2>3 DEF HasSession, Appears
  <2>4. ASSUME NEW n \in DOMAIN frames, Disappears(n)
        PROVE  \E k \in DOMAIN frames' : Disappears(k)'
    BY <1>1, <2>1, <2>4 DEF Appears, Disappears
  <2>5. HasSession => HasSession'
    BY <1>2 DEF HasSession
  <2>6. /\ HasSession \/ \E n \in DOMAIN frames : Appears(n) /\ frames[n].mqtt = myMqtt
        /\ visible \/ \E n \in DOMAIN frames : Disappears(n)
    BY DEF Held
  <2>. QED  BY <2>3, <2>4, <2>5, <2>6
<1>7. QueuedBySession' /\ Quiet'
  BY <1>2 DEF QueuedBySession, Quiet
<1>8. Undisturbed'
  <2>1. frames # <<>> /\ (top = 1 => Appears(1) /\ frames' = <<>>)
    BY <1>1 DEF ViewDidWait, Top, Front
  <2>2. top = 1 /\ m = myMqtt => HasSession'
    BY <1>2 DEF HasSession
  <2>3. startBool' = TRUE
    BY DEF ViewDidWait, Resume
  <2>. QED  BY <1>2, <2>1, <2>2, <2>3 DEF Undisturbed, Appears, Disappears
<1>. QED  BY <1>0, <1>3, <1>4, <1>5, <1>6, <1>7, <1>8

LEMMA DidCloseStack == StackInv /\ ViewDidClose => StackInv'
<1> SUFFICES ASSUME StackInv, ViewDidClose PROVE StackInv'
  OBVIOUS
<1> USE DEF StackInv
<1>0. TypeOK'
  BY TypeStep DEF Next, Return
<1> DEFINE top == Len(frames)
           m == frames[top].mqtt
<1>1. /\ frames \in Seq(Frame) /\ top \in Nat \ {0} /\ DOMAIN frames = 1..top
      /\ Last(frames) = frames[top] /\ frames[top] \in Frame /\ Disappears(top)
      /\ Len(frames') = top - 1 /\ DOMAIN frames' = 1..(top - 1)
      /\ \A n \in DOMAIN frames' : n \in DOMAIN frames /\ frames'[n] = frames[n]
  BY PopFrame DEF ViewDidClose, Top, TypeOK, Disappears
<1>2. /\ visible' = visible /\ myMqtt' = None /\ session' = session /\ outbox' = outbox
      /\ told' = told /\ said' = said /\ switches' = switches /\ disturbed' = disturbed
      /\ mySession' = mySession \ {m} /\ Running(FALSE)'
  BY <1>1 DEF ViewDidClose, MqttAfterDisconnect, Pause, Running
<1>3. switches \in Nat
  BY SwitchesAssumption DEF TypeOK
<1>4. Fresh'
  BY <1>1, <1>2, <1>3 DEF Fresh, None
<1>5. Waiting'
  BY <1>1, <1>2 DEF Waiting, Appears
<1>6. ClosedFrames'
  BY <1>1, <1>2 DEF ClosedFrames, Disappears
<1>7. Held' /\ Quiet'
  BY <1>2 DEF Held, Quiet
<1>8. QueuedBySession'
  BY <1>1, <1>2 DEF QueuedBySession, ClosedFrames
<1>9. Undisturbed'
  <2>1. frames # <<>> /\ (top = 1 => Disappears(1) /\ frames' = <<>>)
    BY <1>1 DEF ViewDidClose, Top, Front
  <2>. QED  BY <1>2, <2>1 DEF Undisturbed, Appears, Disappears
<1>. QED  BY <1>0, <1>4, <1>5, <1>6, <1>7, <1>8, <1>9

\* What leaves the stack, the objects and their sessions alone.
LEMMA SameStack ==
  ASSUME StackInv, UNCHANGED <<visible, client, switches, disturbed, said>>
  PROVE  Waiting' /\ ClosedFrames' /\ Held'
BY DEF StackInv, client, Waiting, ClosedFrames, Held, HasSession, Appears, Disappears

LEMMA ServedStack ==
  StackInv /\ (StopButton \/ StartButton \/ DidRangeBeacons) => StackInv'
<1> SUFFICES ASSUME StackInv, StopButton \/ StartButton \/ DidRangeBeacons PROVE StackInv'
  OBVIOUS
<1> USE DEF StackInv
<1>0. TypeOK'
  BY TypeStep DEF Next
<1>1. UNCHANGED <<visible, client, switches, disturbed, said>>
  BY DEF StopButton, StartButton, DidRangeBeacons, screen
<1>2. Waiting' /\ ClosedFrames' /\ Held'
  BY <1>1, SameStack
<1>3. /\ \A m \in Clients : m \notin mySession => outbox'[m] = outbox[m]
      /\ \A m \in Clients : m > switches => outbox'[m] = "none"
  BY SendQueued DEF StopButton, StartButton, DidRangeBeacons, Presence, Fresh
<1>4. Online \/ told' = told
  BY DEF StopButton, StartButton, DidRangeBeacons, SendMassage
<1>5. Fresh'
  BY <1>1, <1>3 DEF Fresh, client
<1>6. QueuedBySession'
  BY <1>1, <1>3 DEF QueuedBySession, client
<1>7. Quiet'
  BY <1>1, <1>4 DEF Quiet, client, Online, HasSession, TypeOK, Clients, None
<1>8. Undisturbed'
  <2>1. \A on \in BOOLEAN : (Running(on) /\ DidRangeBeacons) => Running(on)'
    BY DEF Running, DidRangeBeacons, screen
  <2>2. StopButton \/ StartButton => Shown /\ Running(startBool)'
    BY DEF StopButton, StartButton, Pause, Resume, Running
  <2>3. DidRangeBeacons => startBool' = startBool /\ startBool \in BOOLEAN
    BY DEF DidRangeBeacons, screen, TypeOK
  <2>4. frames = <<>> /\ Shown => visible
    BY DEF Shown
  <2>. QED  BY <1>1, <2>1, <2>2, <2>3, <2>4 DEF Undisturbed, client, HasSession, Appears, Disappears
<1>. QED  BY <1>0, <1>2, <1>5, <1>6, <1>7, <1>8

LEMMA SessionStack ==
  ASSUME StackInv, NEW m \in Clients, Accept(m) \/ Broken(m)
  PROVE  StackInv'
<1> USE DEF StackInv
<1>0. TypeOK'
  BY TypeStep DEF Next
<1>1. UNCHANGED <<screen, myMqtt, frames, mySession, outbox, switches, disturbed, said>>
  BY DEF Accept, Broken
<1>2. \A c \in Clients : session[c] = "closed" => session'[c] = "closed"
  BY DEF Accept, Broken, TypeOK
<1>3. \A n \in DOMAIN frames : frames[n] \in Frame /\ frames[n].mqtt \in Clients
  BY Numbers
<1>4. Fresh' /\ Waiting'
  BY <1>1 DEF Fresh, Waiting, Appears
<1>5. ClosedFrames'
  BY <1>1, <1>2, <1>3 DEF ClosedFrames, Disappears
<1>6. Held'
  BY <1>1 DEF screen, Held, HasSession, Appears, Disappears
<1>7. QueuedBySession'
  BY <1>1, <1>2 DEF QueuedBySession
<1>8. Quiet'
  <2> SUFFICES ASSUME ~visible, said
               PROVE  told' = "false" /\ (myMqtt = None \/ session'[myMqtt] = "closed")
    BY <1>1 DEF Quiet, screen
  <2>1. told = "false" /\ (myMqtt = None \/ session[myMqtt] = "closed")
    BY DEF Quiet
  <2>2. myMqtt = None \/ session'[myMqtt] = "closed"
    BY <1>2, <2>1 DEF TypeOK
  <2>3. ASSUME Accept(m) PROVE outbox[m] = "none"
    <3>1. session[m] = "connecting" /\ m # None /\ m \in Live
      BY <2>3 DEF Accept, Clients, None
    <3>2. PICK n \in DOMAIN frames : frames[n].mqtt = m
      BY <2>1, <3>1 DEF Live
    <3>3. ~Disappears(n)
      BY <3>1, <3>2 DEF ClosedFrames
    <3>4. Appears(n)
      BY <1>3, <3>3 DEF Frame, Appears, Disappears
    <3>. QED  BY <3>1, <3>2, <3>4 DEF Waiting, QueuedBySession
  <2>4. told' = told
    BY <2>3 DEF Accept, Broken
  <2>. QED  BY <2>1, <2>2, <2>4
<1>9. Undisturbed'
  BY <1>1 DEF Undisturbed, screen, HasSession, Appears, Disappears, Running
<1>. QED  BY <1>0, <1>4, <1>5, <1>6, <1>7, <1>8, <1>9

\* Whatever order nested callbacks return in, an undisturbed switch of the tab
\* leaves the screen on with its session or off without one, nothing is left
\* over once the stack is empty, and no status follows a goodbye.
THEOREM StackCorrect == Spec => [](Settled /\ NothingLeftOver /\ GoodbyeIsLast)
<1>1. StackInv /\ [Next]_vars => StackInv'
  <2> SUFFICES ASSUME StackInv, [Next]_vars PROVE StackInv'
    OBVIOUS
  <2>1. CASE UNCHANGED vars
    <3>1. UNCHANGED <<visible, client, switches, disturbed, said>> /\ UNCHANGED <<screen, outbox, told>>
      BY <2>1 DEF vars, screen, client
    <3>2. Waiting' /\ ClosedFrames' /\ Held'
      BY <3>1, SameStack
    <3>3. TypeOK'
      BY TypeStep DEF StackInv
    <3>4. Fresh' /\ QueuedBySession' /\ Quiet' /\ Undisturbed'
      BY <3>1 DEF StackInv, client, screen, Fresh, QueuedBySession, Quiet, Undisturbed,
                  HasSession, Running, Appears, Disappears
    <3>. QED  BY <3>2, <3>3, <3>4 DEF StackInv
  <2>. QED  BY <2>1, AppearStack, DisappearStack, DidWaitStack, DidCloseStack, ServedStack,
               SessionStack DEF Next, Return
<1>2. StackInv => Settled /\ NothingLeftOver /\ GoodbyeIsLast
  <2> SUFFICES ASSUME StackInv PROVE Settled /\ NothingLeftOver /\ GoodbyeIsLast
    OBVIOUS
  <2>1. frames = <<>> => DOMAIN frames = {} /\ Len(frames) = 0
    OBVIOUS
  <2>2. Settled
    <3> SUFFICES ASSUME frames = <<>>, switches > 0, ~disturbed
                 PROVE  IF visible THEN HasSession /\ Running(startBool)
                                   ELSE myMqtt = None /\ Running(FALSE)
      BY DEF Settled
    <3>1. CASE visible
      BY <2>1, <3>1 DEF StackInv, Undisturbed
    <3>2. CASE ~visible
      BY <2>1, <3>2 DEF StackInv, Undisturbed, Running
    <3>. QED  BY <3>1, <3>2
  <2>3. NothingLeftOver
    BY <2>1 DEF StackInv, Held, NothingLeftOver
  <2>4. GoodbyeIsLast
    BY DEF StackInv, Quiet, GoodbyeIsLast
  <2>. QED  BY <2>2, <2>3, <2>4
<1>. QED  BY InitStack, <1>1, <1>2, PTL DEF Spec

=============================================================================
