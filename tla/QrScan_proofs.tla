------------------------------ MODULE QrScan_proofs ------------------------------
(***************************************************************************)
(* Proofs about QrScan, for any codes and any length of the main queue.    *)
(***************************************************************************)
EXTENDS QrScan, TLAPS

\* The timer and the camera come with the first appearance: a tab that was never
\* loaded is hidden, and one that was loaded waits for its camera or has it.
CameraComes == IF loaded THEN pending \/ session ELSE ~visible /\ ~running /\ ~pending

\* The two invariants of the tab hold together with CameraComes, which gives
\* viewWillAppear its camera.
ScanInv == TypeOK /\ CameraComes /\ ScreenAlive /\ CameraOffWhenHidden

LEMMA InitHolds == Init => ScanInv
<1> SUFFICES ASSUME Init PROVE ScanInv
    OBVIOUS
<1>1. TypeOK
  <2>1. queued \in Seq(Codes) /\ Len(queued) <= MaxQueued
    BY ScanAssumption DEF Init
  <2>. QED  BY <2>1 DEF Init, TypeOK
<1>2. CameraComes /\ ScreenAlive /\ CameraOffWhenHidden
  BY DEF Init, CameraComes, ScreenAlive, CameraOffWhenHidden
<1>. QED  BY <1>1, <1>2 DEF ScanInv

LEMMA StepHolds == ScanInv /\ [Next]_vars => ScanInv'
<1> SUFFICES ASSUME ScanInv, [Next]_vars PROVE ScanInv'
    OBVIOUS
<1> USE ScanAssumption DEF ScanInv, TypeOK, CameraComes, ScreenAlive, CameraOffWhenHidden
<1>1. CASE ViewWillAppear
  BY <1>1 DEF ViewWillAppear, StartsOnAppear
<1>2. CASE ViewWillDisappear
  BY <1>2 DEF ViewWillDisappear, RunsAfterLeaving
<1>3. CASE SetupCamera
  <2>1. /\ setUpHidden' \in BOOLEAN /\ (~visible => setUpHidden')
        /\ pending' = FALSE /\ session' = TRUE /\ running' = TRUE
        /\ UNCHANGED <<visible, loaded, button, labels, queued>>
    BY <1>3 DEF SetupCamera
  <2>2. loaded
    BY <1>3 DEF SetupCamera
  <2>3. TypeOK'
    BY <2>1
  <2>4. CameraComes' /\ ScreenAlive' /\ CameraOffWhenHidden'
    BY <2>1, <2>2
  <2>. QED  BY <2>3, <2>4
<1>4. ASSUME NEW code \in Codes, See(code) PROVE ScanInv'
  BY <1>4 DEF See, view
<1>5. CASE Capture
  <2>1. Head(queued) \in Codes /\ Tail(queued) \in Seq(Codes) /\ Len(Tail(queued)) <= MaxQueued
    BY <1>5 DEF Capture
  <2>2. LabelsAfter(Head(queued)) \in Known \union {NoLabels}
    BY <2>1 DEF LabelsAfter
  <2>. QED  BY <1>5, <2>1, <2>2 DEF Capture, view
<1>6. CASE ResultButton
  BY <1>6 DEF ResultButton, view
<1>7. CASE UNCHANGED vars
  BY <1>7 DEF vars, view
<1>. QED  BY <1>1, <1>2, <1>3, <1>4, <1>5, <1>6, <1>7 DEF Next

\* The tab is never dead while it is shown and does not film after it was left,
\* apart from a camera set up on a hidden tab.
THEOREM ScanCorrect == Spec => [](TypeOK /\ ScreenAlive /\ CameraOffWhenHidden)
<1>1. ScanInv => TypeOK /\ ScreenAlive /\ CameraOffWhenHidden
  BY DEF ScanInv
<1>. QED  BY InitHolds, StepHolds, <1>1, PTL DEF Spec

=============================================================================
