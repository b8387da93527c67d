------------------------------ MODULE MqttScreens ------------------------------
(***************************************************************************)
(* The wrapper MQTT.m and the two view callbacks of LocationViewController *)
(* that use it.  Both block the main thread inside a nested run loop: on   *)
(* appearing, until the session is connected or ten seconds are over; on   *)
(* disappearing, until one second is over.  Meanwhile touches, beacons and *)
(* the web socket are served, so either callback may start while another   *)
(* is still on the stack, and whatever runs last is the first to return.   *)
(*                                                                         *)
(* A frame is a callback that waits, with the MQTT object it was called    *)
(* with.  Of what is published only the flag "present" is kept.            *)
(* LocationController has the same stack with the alerts, the rooms and    *)
(* the collections, and of MQTT only what decides whether a callback waits.*)
(***************************************************************************)
EXTENDS Naturals, Sequences, SequencesExt

CONSTANT MaxSwitches   \* bound on the number of times the tab is switched

ASSUME SwitchesAssumption == MaxSwitches \in Nat

Clients == 1..MaxSwitches   \* the MQTT objects, by the switch that made them
None == 0                   \* nil
Presence == {"none", "true", "false"}

VARIABLES
  visible,      \* the screen, as the last view callback says
  startBool, ranging, connectFlag,   \* as in LocationController
  myMqtt,       \* _myMqtt
  frames,       \* the callbacks inside their run loops, the innermost last
  mySession,    \* the MQTT objects whose mySession is set
  session,      \* per MQTT object, the state of the session it made
  outbox,       \* per session, the last status it queued before it connected
  told,         \* the last status that a connected session was given
  \* --- history, read by the properties only
  switches, disturbed, said

screen == <<visible, startBool, ranging, connectFlag>>
client == <<myMqtt, frames, mySession, session>>
vars == <<screen, client, outbox, told, switches, disturbed, said>>

Frame == [call : {"appear", "disappear"}, mqtt : Clients]

TypeOK ==
  /\ visible \in BOOLEAN /\ startBool \in BOOLEAN /\ ranging \in BOOLEAN
  /\ connectFlag \in BOOLEAN /\ disturbed \in BOOLEAN /\ said \in BOOLEAN
  /\ myMqtt \in Clients \union {None}
  /\ frames \in Seq(Frame) /\ mySession \subseteq Clients
  /\ session \in [Clients -> {"none", "connecting", "connected", "closed"}]
  /\ outbox \in [Clients -> Presence] /\ told \in Presence
  /\ switches \in 0..MaxSwitches

Init ==
  /\ visible = FALSE /\ startBool = TRUE /\ ranging = FALSE /\ connectFlag = FALSE
  /\ myMqtt = None /\ frames = <<>> /\ mySession = {}
  /\ session = [m \in Clients |-> "none"] /\ outbox = [m \in Clients |-> "none"]
  /\ told = "none"
  /\ switches = 0 /\ disturbed = FALSE /\ said = FALSE

-----------------------------------------------------------------------------
(* MQTT.m *)

\* ARC keeps an MQTT object for _myMqtt and for the frame that runs in it.
Live == {myMqtt} \union {frames[n].mqtt : n \in DOMAIN frames}

HasSession == myMqtt \in mySession
Online == HasSession /\ session[myMqtt] = "connected"

\* sendMassage: nothing without mySession; a session that is not connected
\* queues the message.
SendMassage(present) ==
  /\ told' = IF Online THEN present ELSE told
  /\ outbox' = IF HasSession /\ ~Online THEN [outbox EXCEPT ![myMqtt] = present] ELSE outbox

Switch ==
  /\ switches < MaxSwitches
  /\ switches' = switches + 1
  /\ disturbed' = (frames # <<>>)

Top(call) == frames # <<>> /\ Last(frames).call = call

-----------------------------------------------------------------------------
(* The view callbacks. *)

\* Mutant: the button state is left to what it was.
ResumeKeepingStart == connectFlag' = TRUE /\ ranging' = TRUE /\ startBool' = startBool

\* What viewWillAppear does after connectMQTT, and the start button.
Resume == connectFlag' = TRUE /\ ranging' = TRUE /\ startBool' = TRUE

\* What viewWillDisappear does after disconnectMQTT, and the stop button.
Pause == connectFlag' = FALSE /\ ranging' = FALSE /\ startBool' = FALSE

\* viewWillAppear up to the wait of connectMQTT, which sets _myMqtt before it
\* and mySession only after it; with an MQTT object there already, to its end.
ViewWillAppear ==
  /\ ~visible /\ Switch
  /\ visible' = TRUE
  /\ IF myMqtt = None
       THEN /\ myMqtt' = switches'
            /\ session' = [session EXCEPT ![switches'] = "connecting"]
            /\ frames' = Append(frames, [call |-> "appear", mqtt |-> switches'])
            /\ connectFlag' = FALSE
            /\ UNCHANGED <<startBool, ranging>>
       ELSE Resume /\ UNCHANGED <<myMqtt, session, frames>>
  /\ UNCHANGED <<mySession, outbox, told, said>>

\* Mutant: connectAndWaitTimeout:0.
WaitOverUntimed(m, elapsed) == session[m] # "connecting"

\* connectAndWaitTimeout: the session answered or failed, or the time is over.
WaitOver(m, elapsed) == session[m] # "connecting" \/ elapsed

ViewDidWait ==
  /\ Top("appear")
  /\ \E elapsed \in BOOLEAN : WaitOver(Last(frames).mqtt, elapsed)
  /\ mySession' = mySession \union {Last(frames).mqtt}
  /\ frames' = Front(frames)
  /\ Resume
  /\ UNCHANGED <<visible, myMqtt, session, outbox, told, switches, disturbed, said>>

\* Mutant: closeAndWait closes only after its wait.
ClosedLater(m) == session

\* Mutant: the closed session still waits for its transport.
ClosedHalf(m) == [session EXCEPT ![m] = "closing"]

\* closeAndWait: the session is closed before the wait.
Closed(m) == [session EXCEPT ![m] = "closed"]

\* viewWillDisappear up to the wait of disConnectServer; without a session
\* closeAndWait is sent to nil, and nothing waits.
ViewWillDisappear ==
  /\ visible /\ Switch
  /\ visible' = FALSE
  /\ SendMassage("false") /\ said' = Online
  /\ IF HasSession
       THEN /\ session' = Closed(myMqtt)
            /\ frames' = Append(frames, [call |-> "disappear", mqtt |-> myMqtt])
            /\ UNCHANGED <<startBool, ranging, connectFlag, myMqtt>>
       ELSE myMqtt' = None /\ Pause /\ UNCHANGED <<session, frames>>
  /\ UNCHANGED mySession

\* Mutant: disconnectMQTT keeps its MQTT object.
MqttAfterDisconnectKept == myMqtt

MqttAfterDisconnect == None

\* The rest of viewWillDisappear, whatever has run in between.
ViewDidClose ==
  /\ Top("disappear")
  /\ mySession' = mySession \ {Last(frames).mqtt}
  /\ frames' = Front(frames)
  /\ myMqtt' = MqttAfterDisconnect
  /\ Pause
  /\ UNCHANGED <<visible, session, outbox, told, switches, disturbed, said>>

-----------------------------------------------------------------------------
(* What the run loops serve besides: the buttons, beacons and the socket. *)

\* A screen whose viewWillDisappear waits is still shown and takes touches.
Shown == visible \/ \E n \in DOMAIN frames : frames[n].call = "disappear"

StopButton ==
  /\ Shown /\ startBool
  /\ SendMassage("false")
  /\ Pause
  /\ UNCHANGED <<visible, client, switches, disturbed, said>>

StartButton ==
  /\ Shown /\ ~startBool
  /\ Resume
  /\ UNCHANGED <<visible, client, outbox, told, switches, disturbed, said>>

\* didRangeBeacons while the phone is located; it does not ask who is visible.
DidRangeBeacons ==
  /\ ranging
  /\ SendMassage("true")
  /\ UNCHANGED <<screen, client, switches, disturbed, said>>

\* The broker accepts a session, which then sends what it queued; it closes an
\* older one of this phone, since every session has the same client id.
Accept(m) ==
  /\ m \in Live /\ session[m] = "connecting"
  /\ session' = [c \in Clients |-> IF c = m THEN "connected"
                                   ELSE IF session[c] = "connected" THEN "closed" ELSE session[c]]
  /\ told' = IF outbox[m] = "none" THEN told ELSE outbox[m]
  /\ UNCHANGED <<screen, myMqtt, frames, mySession, outbox, switches, disturbed, said>>

\* Refused, failed, or closed by the broker: handleEvent only logs it.
Broken(m) ==
  /\ session[m] \in {"connecting", "connected"}
  /\ session' = [session EXCEPT ![m] = "closed"]
  /\ UNCHANGED <<screen, myMqtt, frames, mySession, outbox, told, switches, disturbed, said>>

Return == ViewDidWait \/ ViewDidClose

Next ==
  \/ ViewWillAppear \/ ViewWillDisappear \/ Return
  \/ StopButton \/ StartButton \/ DidRangeBeacons
  \/ \E m \in Clients : Accept(m) \/ Broken(m)

Spec == Init /\ [][Next]_vars

\* A run loop returns when its time is over.
FairSpec == Spec /\ WF_vars(Return)

-----------------------------------------------------------------------------
(* Properties. *)

Running(on) == ranging = on /\ connectFlag = on /\ startBool = on

\* However the callbacks were nested before, a switch of the tab that nothing
\* disturbs leaves the screen as it should be: all on with an MQTT object that
\* has its session, or all off and without one.
Settled ==
  frames = <<>> /\ switches > 0 /\ ~disturbed =>
    IF visible THEN HasSession /\ Running(startBool) ELSE myMqtt = None /\ Running(FALSE)

\* Once every callback has returned, disturbed or not, a hidden screen has no
\* MQTT object and no object is left without its session: the next appearance
\* never skips connectMQTT (:289) because of something left over.
NothingLeftOver ==
  frames = <<>> /\ myMqtt # None => visible /\ HasSession

\* A hidden screen that could say goodbye is not present: a ranging callback in
\* a run loop, or on a screen that a returning callback switched on again, does
\* not publish behind the goodbye (:237).
GoodbyeIsLast == ~visible /\ said => told = "false"

\* However deep the run loops nest, all of them return.
Unwinds == []<>(frames = <<>>)

=============================================================================
