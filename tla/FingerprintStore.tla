---------------------------- MODULE FingerprintStore ----------------------------
(***************************************************************************)
(* pushPoint against the shared table ibeacon: several phones collect      *)
(* fingerprints for one database.  A push is two queries, a SELECT of the  *)
(* whole table and then the UPDATE or the INSERT that its answer calls for;*)
(* the queries of different phones interleave, and a query that fails      *)
(* answers nil, which pushPoint takes for an empty answer.  The table has  *)
(* no key but what the queries make of it, and nothing deletes a row.      *)
(***************************************************************************)
EXTENDS Integers, Sequences

CONSTANTS
  Phones, Locations, Rooms, Fingerprints,
  NoJob,          \* a phone that has pushed nothing yet
  NoEntry,        \* a location without a row
  SelectAnswers,  \* {TRUE}: every SELECT is answered; BOOLEAN: some fail
  WriteAnswers,   \* the same for UPDATE and INSERT
  MaxRows         \* bound: no SELECT fails once the table has this many rows

Job == [location : Locations, room : Rooms, rssi : Fingerprints]

\* by is history: the phone that inserted the row.
RowType == [location : Locations, room : Rooms, rssi : Fingerprints, by : Phones]

ASSUME AnswerAssumption ==
  /\ NoJob \notin Job
  /\ NoEntry \notin [room : Rooms, rssi : Fingerprints]
  /\ SelectAnswers \subseteq BOOLEAN /\ WriteAnswers \subseteq BOOLEAN
  /\ MaxRows \in Nat

VARIABLES
  rows,      \* the table ibeacon
  writing,   \* per phone: its SELECT returned and its write is to come
  job,       \* per phone: the arguments of its last pushPoint
  dataFlag,  \* per phone: the SELECT showed a row of that location
  shown      \* per phone: the label "fingerprint uploaded" is on the screen

vars == <<rows, writing, job, dataFlag, shown>>

Stored(l) == \E n \in DOMAIN rows : rows[n].location = l

\* The collection's last round calls pushPoint, which reads the table.
Select(p, j, answered) ==
  /\ ~writing[p]
  /\ answered \/ Len(rows) < MaxRows
  /\ writing' = [writing EXCEPT ![p] = TRUE]
  /\ job' = [job EXCEPT ![p] = j]
  /\ dataFlag' = [dataFlag EXCEPT ![p] = answered /\ Stored(j.location)]
  /\ UNCHANGED <<rows, shown>>

\* Mutants: the UPDATE has no condition; it sets the room as well.
UpdatedEverywhere(j) == [n \in DOMAIN rows |-> [rows[n] EXCEPT !.rssi = j.rssi]]
UpdatedWithRoom(j) ==
  [n \in DOMAIN rows |-> IF rows[n].location = j.location
                         THEN [rows[n] EXCEPT !.rssi = j.rssi, !.room = j.room] ELSE rows[n]]

\* UPDATE ibeacon SET rssi WHERE location: every row of the location, no other
\* column.
Updated(j) ==
  [n \in DOMAIN rows |-> IF rows[n].location = j.location
                         THEN [rows[n] EXCEPT !.rssi = j.rssi] ELSE rows[n]]

\* Mutant: the column room is forgotten.
InsertedWithoutRoom(p) ==
  Append(rows, [location |-> job[p].location, rssi |-> job[p].rssi, by |-> p])

Inserted(p) ==
  Append(rows, [location |-> job[p].location, room |-> job[p].room,
                rssi |-> job[p].rssi, by |-> p])

\* Mutant: the answer of the SELECT is not looked at.
TableAfterInsert(p) == Inserted(p)

TableAfter(p) == IF dataFlag[p] THEN Updated(job[p]) ELSE Inserted(p)

\* The write, and the label that follows pushPoint whatever became of the write.
Write(p, answered) ==
  /\ writing[p]
  /\ rows' = IF answered THEN TableAfter(p) ELSE rows
  /\ writing' = [writing EXCEPT ![p] = FALSE]
  /\ shown' = [shown EXCEPT ![p] = TRUE]
  /\ UNCHANGED <<job, dataFlag>>

\* The timer of 1.5 seconds.
HideLabel(p) ==
  /\ shown[p]
  /\ shown' = [shown EXCEPT ![p] = FALSE]
  /\ UNCHANGED <<rows, writing, job, dataFlag>>

Init ==
  /\ rows = <<>>
  /\ writing = [p \in Phones |-> FALSE]
  /\ job = [p \in Phones |-> NoJob]
  /\ dataFlag = [p \in Phones |-> FALSE]
  /\ shown = [p \in Phones |-> FALSE]

Next ==
  \E p \in Phones :
    \/ \E j \in Job, answered \in SelectAnswers : Select(p, j, answered)
    \/ \E answered \in WriteAnswers : Write(p, answered)
    \/ HideLabel(p)

Spec == Init /\ [][Next]_vars
-----------------------------------------------------------------------------
(* Properties *)

\* Types; a row has all its columns.
TypeOK ==
  /\ rows \in Seq(RowType)
  /\ writing \in [Phones -> BOOLEAN]
  /\ job \in [Phones -> Job \cup {NoJob}]
  /\ dataFlag \in [Phones -> BOOLEAN]
  /\ shown \in [Phones -> BOOLEAN]

\* SELECT and INSERT are not one transaction (lines 1249 and 1289), so two phones may
\* both insert a row for a location; but while SELECTs are answered, a phone never
\* inserts a second row for a location, so a location has at most as many rows as
\* there are phones, however long they go on.
OneRowPerPhone ==
  \A m, n \in DOMAIN rows :
    rows[m].location = rows[n].location /\ rows[m].by = rows[n].by => m = n

\* A row is never moved, dropped, or given to another room by what any phone does.
RowsArePermanent ==
  [][\A n \in DOMAIN rows :
       /\ n \in DOMAIN rows'
       /\ rows'[n].location = rows[n].location
       /\ rows'[n].room = rows[n].room]_rows

\* When the label says so, the fingerprint is in the table (label of line 200, shown
\* at line 533): some row of its location carries it.
ShownIsStored ==
  [][\A p \in Phones : ~shown[p] /\ shown'[p] =>
       \E n \in DOMAIN rows' : /\ rows'[n].location = job[p].location
                               /\ rows'[n].rssi = job[p].rssi]_vars

RowOf(l) == CHOOSE n \in DOMAIN rows : rows[n].location = l

\* With one phone, the table is the map of FingerprintMap: every location has one row.
Map == INSTANCE FingerprintMap WITH
         map <- [l \in Locations |->
                   IF Stored(l) THEN [room |-> rows[RowOf(l)].room, rssi |-> rows[RowOf(l)].rssi]
                   ELSE NoEntry]

\* Every push by a single phone, with rooms whose points share a location and with
\* writes that fail, is a Put of that map or changes nothing.
ImplementsMap == Map!MapSpec

=============================================================================
