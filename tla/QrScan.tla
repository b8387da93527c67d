--------------------------------- MODULE QrScan ---------------------------------
(***************************************************************************)
(* The scanning tab, QRCodeScanningViewController: a camera that is set up *)
(* 0.3 s after the view is loaded, whatever has become of the view by then,*)
(* view callbacks, scan results that wait in the main queue while the scan *)
(* is stopped for an earlier one, and the button that confirms a result.   *)
(*                                                                         *)
(* The phone has a camera and the application may use it.  The labels of a *)
(* result are named by the code they describe.                             *)
(***************************************************************************)
EXTENDS Naturals, Sequences

CONSTANTS
  Codes,       \* the codes held before the camera
  Known,       \* those the application has labels for
  NoLabels,    \* empty labels
  MaxQueued    \* bound on the results waiting in the main queue

ASSUME ScanAssumption ==
  /\ Known \subseteq Codes /\ NoLabels \notin Codes
  /\ MaxQueued \in Nat

VARIABLES
  visible,       \* the tab, as the last view callback says
  loaded,        \* viewDidLoad was called: the timer exists
  pending,       \* setupCamera is scheduled
  session,       \* _session # nil
  running,       \* the capture session runs
  button,        \* a result is shown, with the button that confirms it
  labels,        \* the code whose labels are set
  queued,        \* captureOutput callbacks in the main queue
  \* --- history, read by the properties only
  setUpHidden    \* the camera was set up since the tab was left

view == <<visible, loaded, pending>>
vars == <<view, session, running, button, labels, queued, setUpHidden>>

TypeOK ==
  /\ visible \in BOOLEAN /\ loaded \in BOOLEAN /\ pending \in BOOLEAN
  /\ session \in BOOLEAN /\ running \in BOOLEAN
  /\ button \in BOOLEAN /\ labels \in Known \union {NoLabels}
  /\ queued \in Seq(Codes) /\ Len(queued) <= MaxQueued
  /\ setUpHidden \in BOOLEAN

Init ==
  /\ visible = FALSE /\ loaded = FALSE /\ pending = FALSE
  /\ session = FALSE /\ running = FALSE
  /\ button = FALSE /\ labels = NoLabels /\ queued = <<>>
  /\ setUpHidden = FALSE

-----------------------------------------------------------------------------
\* Mutant: viewWillAppear leaves the scan to setupCamera.
StartsOnAppearNever == FALSE

\* viewWillAppear: both the session and the timer are there.
StartsOnAppear == session /\ loaded

\* viewDidLoad comes with the first appearance and schedules setupCamera.
ViewWillAppear ==
  /\ ~visible
  /\ visible' = TRUE /\ loaded' = TRUE
  /\ pending' = (pending \/ ~loaded)
  /\ running' = (running \/ StartsOnAppear)
  /\ setUpHidden' = FALSE
  /\ UNCHANGED <<session, button, labels, queued>>

\* Mutant: leaving stops the scan only when no result is shown.
RunsAfterLeavingResult == running /\ button

\* stopScan, also on a session that is not there yet.
RunsAfterLeaving == FALSE

ViewWillDisappear ==
  /\ visible
  /\ visible' = FALSE
  /\ running' = RunsAfterLeaving
  /\ UNCHANGED <<loaded, pending, session, button, labels, queued, setUpHidden>>

\* setupCamera ends with startScan and does not ask whether the view is shown.
SetupCamera ==
  /\ pending
  /\ pending' = FALSE /\ session' = TRUE /\ running' = TRUE
  /\ setUpHidden' = ~visible
  /\ UNCHANGED <<visible, loaded, button, labels, queued>>

\* The camera sees a code: its callback is put into the main queue.
See(code) ==
  /\ running /\ Len(queued) < MaxQueued
  /\ queued' = Append(queued, code)
  /\ UNCHANGED <<view, session, running, button, labels, setUpHidden>>

\* Mutant: a code without labels leaves the labels of the view alone and sets
\* the text of the code itself.
LabelsAfterText(code) == code

\* The texts of a known code; an unknown one leaves the texts as they are.
LabelsAfter(code) == IF code \in Known THEN code ELSE labels

\* captureOutput: the first result stops the scan, one that was queued behind it
\* replaces the result shown.
Capture ==
  /\ queued # <<>>
  /\ queued' = Tail(queued)
  /\ running' = FALSE
  /\ button' = TRUE
  /\ labels' = LabelsAfter(Head(queued))
  /\ UNCHANGED <<view, session, setUpHidden>>

ResultButton ==
  /\ visible /\ button
  /\ button' = FALSE
  /\ running' = TRUE
  /\ UNCHANGED <<view, session, labels, queued, setUpHidden>>

Next ==
  \/ ViewWillAppear \/ ViewWillDisappear \/ SetupCamera
  \/ (\E code \in Codes : See(code))
  \/ Capture \/ ResultButton

Spec == Init /\ [][Next]_vars

-----------------------------------------------------------------------------
(* Properties. *)

\* A tab that is shown is never dead: it is about to set the camera up, it
\* scans, or it shows a result whose button starts the scan again - also when it
\* was left and entered again during the set-up, under a result, or with results
\* waiting in the queue.
ScreenAlive == visible => pending \/ running \/ button

\* A tab that was left does not film, unless the camera was set up only after
\* it was left (setupCamera comes 0.3 s later and is not cancelled, :52).
CameraOffWhenHidden == ~visible /\ running => setUpHidden

=============================================================================
