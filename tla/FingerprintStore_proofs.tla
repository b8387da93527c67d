------------------------- MODULE FingerprintStore_proofs -------------------------
(***************************************************************************)
(* Proofs about FingerprintStore: what several phones keep true of the     *)
(* shared table, and that a single phone implements the map of             *)
(* FingerprintMap.                                                         *)
(***************************************************************************)
EXTENDS FingerprintStore, TLAPS

\* A row is one of the written ones, and an updated row keeps its place, its
\* location, its room and its phone.
LEMMA UpdatedRows ==
  ASSUME rows \in Seq(RowType), NEW j \in Job
  PROVE  /\ Updated(j) \in Seq(RowType)
         /\ DOMAIN Updated(j) = DOMAIN rows
         /\ \A n \in DOMAIN rows :
              /\ Updated(j)[n].location = rows[n].location
              /\ Updated(j)[n].room = rows[n].room
              /\ Updated(j)[n].by = rows[n].by
              /\ Updated(j)[n].rssi =
                   IF rows[n].location = j.location THEN j.rssi ELSE rows[n].rssi
<1>1. DOMAIN rows = 1..Len(rows) /\ Len(rows) \in Nat
  OBVIOUS
<1>2. \A n \in DOMAIN rows : rows[n] \in RowType
  OBVIOUS
<1>3. \A n \in DOMAIN rows : Updated(j)[n] =
        IF rows[n].location = j.location THEN [rows[n] EXCEPT !.rssi = j.rssi] ELSE rows[n]
  BY DEF Updated
<1>4. \A n \in DOMAIN rows :
        /\ [rows[n] EXCEPT !.rssi = j.rssi] \in RowType
        /\ [rows[n] EXCEPT !.rssi = j.rssi].location = rows[n].location
        /\ [rows[n] EXCEPT !.rssi = j.rssi].room = rows[n].room
        /\ [rows[n] EXCEPT !.rssi = j.rssi].by = rows[n].by
        /\ [rows[n] EXCEPT !.rssi = j.rssi].rssi = j.rssi
  BY <1>2 DEF RowType, Job
<1>5. DOMAIN Updated(j) = DOMAIN rows
  BY DEF Updated
<1>6. Updated(j) \in [1..Len(rows) -> RowType]
  BY <1>1, <1>2, <1>3, <1>4 DEF Updated
<1>7. Updated(j) \in Seq(RowType)
  BY <1>1, <1>6
<1> QED
  BY <1>3, <1>4, <1>5, <1>7

\* An inserted row is the last one; the rows before it stay.
LEMMA InsertedRow ==
  ASSUME rows \in Seq(RowType), NEW p \in Phones, job[p] \in Job
  PROVE  /\ Inserted(p) \in Seq(RowType)
         /\ DOMAIN Inserted(p) = DOMAIN rows \cup {Len(rows) + 1}
         /\ Len(rows) + 1 \notin DOMAIN rows
         /\ \A n \in DOMAIN rows : Inserted(p)[n] = rows[n]
         /\ Inserted(p)[Len(rows) + 1].location = job[p].location
         /\ Inserted(p)[Len(rows) + 1].room = job[p].room
         /\ Inserted(p)[Len(rows) + 1].rssi = job[p].rssi
         /\ Inserted(p)[Len(rows) + 1].by = p
<1> DEFINE row == [location |-> job[p].location, room |-> job[p].room,
                   rssi |-> job[p].rssi, by |-> p]
<1>1. /\ row \in RowType
      /\ row.location = job[p].location /\ row.room = job[p].room
      /\ row.rssi = job[p].rssi /\ row.by = p
  BY DEF Job, RowType
<1>2. Inserted(p) = Append(rows, row)
  BY DEF Inserted
<1> HIDE DEF row
<1>3. /\ Append(rows, row) \in Seq(RowType)
      /\ DOMAIN Append(rows, row) = DOMAIN rows \cup {Len(rows) + 1}
      /\ Len(rows) + 1 \notin DOMAIN rows
      /\ \A n \in DOMAIN rows : Append(rows, row)[n] = rows[n]
      /\ Append(rows, row)[Len(rows) + 1] = row
  BY <1>1
<1> QED
  BY <1>1, <1>2, <1>3
-----------------------------------------------------------------------------
\* While a phone's write is to come, its push has arguments.
WritingHasJob == \A p \in Phones : writing[p] => job[p] \in Job

\* The types hold, and a phone writes what it was asked to push.
THEOREM TypeCorrect == Spec => [](TypeOK /\ WritingHasJob)
<1>1. Init => TypeOK /\ WritingHasJob
  BY DEF Init, TypeOK, WritingHasJob
<1>2. TypeOK /\ WritingHasJob /\ [Next]_vars => (TypeOK /\ WritingHasJob)'
  <2> SUFFICES ASSUME TypeOK, WritingHasJob, [Next]_vars
               PROVE  (TypeOK /\ WritingHasJob)'
    OBVIOUS
  <2>1. ASSUME NEW p \in Phones, NEW j \in Job, NEW answered \in SelectAnswers,
               Select(p, j, answered)
        PROVE  (TypeOK /\ WritingHasJob)'
    <3>1. answered \in BOOLEAN
      BY AnswerAssumption
    <3> QED
      BY <2>1, <3>1 DEF Select, TypeOK, WritingHasJob
  <2>2. ASSUME NEW p \in Phones, NEW answered \in WriteAnswers, Write(p, answered)
        PROVE  (TypeOK /\ WritingHasJob)'
    <3>1. job[p] \in Job
      BY <2>2 DEF Write, WritingHasJob
    <3>2. TableAfter(p) \in Seq(RowType)
      BY <3>1, UpdatedRows, InsertedRow DEF TableAfter, TypeOK
    <3>3. rows' \in Seq(RowType)
      BY <2>2, <3>2 DEF Write, TypeOK
    <3> QED
      BY <2>2, <3>3 DEF Write, TypeOK, WritingHasJob
  <2>3. ASSUME NEW p \in Phones, HideLabel(p)
        PROVE  (TypeOK /\ WritingHasJob)'
    BY <2>3 DEF HideLabel, TypeOK, WritingHasJob
  <2>4. CASE UNCHANGED vars
    BY <2>4 DEF vars, TypeOK, WritingHasJob
  <2> QED
    BY <2>1, <2>2, <2>3, <2>4 DEF Next
<1> QED
  BY <1>1, <1>2, PTL DEF Spec

\* Whatever any phone does, and whichever queries fail, a row stays where it is, at
\* its location and in its room.
THEOREM RowsStay == Spec => RowsArePermanent
<1> DEFINE Stay == \A n \in DOMAIN rows :
                     /\ n \in DOMAIN rows'
                     /\ rows'[n].location = rows[n].location
                     /\ rows'[n].room = rows[n].room
<1>1. TypeOK /\ WritingHasJob /\ [Next]_vars => [Stay]_rows
  <2> SUFFICES ASSUME TypeOK, WritingHasJob, [Next]_vars, rows' # rows
               PROVE  Stay
    OBVIOUS
  <2>1. PICK p \in Phones, answered \in WriteAnswers : Write(p, answered)
    BY DEF Next, Select, HideLabel, vars
  <2>2. job[p] \in Job
    BY <2>1 DEF Write, WritingHasJob
  <2>3. rows' = TableAfter(p)
    BY <2>1 DEF Write
  <2>4. CASE dataFlag[p]
    BY <2>2, <2>3, <2>4, UpdatedRows DEF TableAfter, TypeOK
  <2>5. CASE ~dataFlag[p]
    BY <2>2, <2>3, <2>5, InsertedRow DEF TableAfter, TypeOK
  <2> QED
    BY <2>4, <2>5
<1> QED
  BY <1>1, TypeCorrect, PTL DEF Spec, RowsArePermanent
-----------------------------------------------------------------------------
\* A phone that is about to insert has not inserted at that location before: nobody
\* but the phone itself inserts rows in its name, and it reads before each write.
OwnInsertIsFirst ==
  \A p \in Phones : writing[p] /\ ~dataFlag[p] =>
    \A n \in DOMAIN rows : ~(rows[n].by = p /\ rows[n].location = job[p].location)

\* As long as every SELECT is answered, no phone ever gives a location a second row.
THEOREM OneRowEach ==
  ASSUME SelectAnswers = {TRUE}
  PROVE  Spec => [](OneRowPerPhone /\ OwnInsertIsFirst)
<1> DEFINE IInv == OneRowPerPhone /\ OwnInsertIsFirst
<1>1. Init => IInv
  BY DEF Init, OneRowPerPhone, OwnInsertIsFirst
<1>2. TypeOK /\ WritingHasJob /\ IInv /\ [Next]_vars => IInv'
  <2> SUFFICES ASSUME TypeOK, WritingHasJob, IInv, [Next]_vars
               PROVE  IInv'
    OBVIOUS
  <2>1. ASSUME NEW p \in Phones, NEW j \in Job, Select(p, j, TRUE)
        PROVE  IInv'
    <3>1. OneRowPerPhone'
      BY <2>1 DEF Select, OneRowPerPhone
    <3>2. ASSUME NEW q \in Phones, writing'[q], ~dataFlag'[q], NEW n \in DOMAIN rows
          PROVE  ~(rows[n].by = q /\ rows[n].location = job'[q].location)
      <4>1. CASE q = p
        <5>1. ~Stored(j.location) /\ job'[p] = j
          BY <2>1, <3>2, <4>1 DEF Select, TypeOK
        <5> QED
          BY <4>1, <5>1 DEF Stored
      <4>2. CASE q # p
        <5>1. writing[q] /\ ~dataFlag[q] /\ job'[q] = job[q]
          BY <2>1, <3>2, <4>2 DEF Select, TypeOK
        <5> QED
          BY <5>1 DEF OwnInsertIsFirst
      <4> QED
        BY <4>1, <4>2
    <3>3. rows' = rows
      BY <2>1 DEF Select
    <3>4. OwnInsertIsFirst'
      BY <3>2, <3>3 DEF OwnInsertIsFirst
    <3> QED
      BY <3>1, <3>4
  <2>2. ASSUME NEW p \in Phones, NEW answered \in WriteAnswers, Write(p, answered)
        PROVE  IInv'
    <3>1. /\ job[p] \in Job /\ writing[p] /\ job' = job /\ dataFlag' = dataFlag
          /\ writing' = [writing EXCEPT ![p] = FALSE]
      BY <2>2 DEF Write, WritingHasJob
    <3>2. \A q \in Phones : writing'[q] => q # p /\ writing[q]
      BY <3>1 DEF TypeOK
    <3>3. CASE rows' = rows
      BY <3>1, <3>2, <3>3 DEF OneRowPerPhone, OwnInsertIsFirst
    <3>4. CASE rows' = Updated(job[p])
      <4>1. /\ DOMAIN rows' = DOMAIN rows
            /\ \A n \in DOMAIN rows : /\ rows'[n].location = rows[n].location
                                      /\ rows'[n].by = rows[n].by
        BY <3>1, <3>4, UpdatedRows DEF TypeOK
      <4> QED
        BY <3>1, <3>2, <4>1 DEF OneRowPerPhone, OwnInsertIsFirst
    <3>5. CASE rows' = Inserted(p) /\ ~dataFlag[p]
      <4> DEFINE last == Len(rows) + 1
      <4>1. /\ DOMAIN rows' = DOMAIN rows \cup {last}
            /\ last \notin DOMAIN rows
            /\ \A n \in DOMAIN rows : rows'[n] = rows[n]
            /\ rows'[last].by = p /\ rows'[last].location = job[p].location
        BY <3>1, <3>5, InsertedRow DEF TypeOK
      <4> HIDE DEF last
      <4>2. \A n \in DOMAIN rows : ~(rows[n].by = p /\ rows[n].location = job[p].location)
        BY <3>1, <3>5 DEF OwnInsertIsFirst
      <4>3. OneRowPerPhone'
        BY <4>1, <4>2 DEF OneRowPerPhone
      <4>4. OwnInsertIsFirst'
        BY <3>1, <3>2, <4>1 DEF OwnInsertIsFirst
      <4> QED
        BY <4>3, <4>4
    <3> QED
      BY <2>2, <3>3, <3>4, <3>5 DEF Write, TableAfter
  <2>3. ASSUME NEW p \in Phones, HideLabel(p)
        PROVE  IInv'
    BY <2>3 DEF HideLabel, OneRowPerPhone, OwnInsertIsFirst
  <2>4. CASE UNCHANGED vars
    BY <2>4 DEF vars, OneRowPerPhone, OwnInsertIsFirst
  <2> QED
    BY <2>1, <2>2, <2>3, <2>4 DEF Next
<1> QED
  BY <1>1, <1>2, TypeCorrect, PTL DEF Spec
-----------------------------------------------------------------------------
\* A single phone: its SELECT still tells the truth when its write is executed, and
\* every location has one row.
SelectIsCurrent ==
  \A p \in Phones : writing[p] => (dataFlag[p] <=> Stored(job[p].location))

OneRow == \A m, n \in DOMAIN rows : rows[m].location = rows[n].location => m = n

\* With one phone and answered SELECTs, nothing comes between SELECT and write.
THEOREM SinglePhone ==
  ASSUME SelectAnswers = {TRUE}, \E p \in Phones : Phones = {p}
  PROVE  Spec => [](SelectIsCurrent /\ OneRow)
<1> DEFINE IInv == SelectIsCurrent /\ OneRow
<1>1. Init => IInv
  BY DEF Init, SelectIsCurrent, OneRow
<1>2. TypeOK /\ WritingHasJob /\ IInv /\ [Next]_vars => IInv'
  <2> SUFFICES ASSUME TypeOK, WritingHasJob, IInv, [Next]_vars
               PROVE  IInv'
    OBVIOUS
  <2>1. ASSUME NEW p \in Phones, NEW j \in Job, Select(p, j, TRUE)
        PROVE  IInv'
    <3>1. /\ Phones = {p} /\ rows' = rows
          /\ job'[p] = j /\ (dataFlag'[p] <=> Stored(j.location))
      BY <2>1 DEF Select, TypeOK
    <3> QED
      BY <3>1 DEF SelectIsCurrent, OneRow, Stored
  <2>2. ASSUME NEW p \in Phones, NEW answered \in WriteAnswers, Write(p, answered)
        PROVE  IInv'
    <3>1. Phones = {p} /\ job[p] \in Job /\ writing[p] /\ ~writing'[p]
      BY <2>2 DEF Write, WritingHasJob, TypeOK
    <3>2. SelectIsCurrent'
      BY <3>1 DEF SelectIsCurrent
    <3>3. ASSUME rows' = rows
          PROVE  OneRow'
      BY <3>3 DEF OneRow
    <3>4. ASSUME rows' = Updated(job[p])
          PROVE  OneRow'
      BY <3>1, <3>4, UpdatedRows DEF OneRow, TypeOK
    <3>5. ASSUME rows' = Inserted(p), ~dataFlag[p]
          PROVE  OneRow'
      <4> DEFINE last == Len(rows) + 1
      <4>1. /\ DOMAIN rows' = DOMAIN rows \cup {last}
            /\ last \notin DOMAIN rows
            /\ \A n \in DOMAIN rows : rows'[n] = rows[n]
            /\ rows'[last].location = job[p].location
        BY <3>1, <3>5, InsertedRow DEF TypeOK
      <4> HIDE DEF last
      <4>2. \A n \in DOMAIN rows : rows[n].location # job[p].location
        BY <3>1, <3>5 DEF SelectIsCurrent, Stored
      <4> QED
        BY <4>1, <4>2 DEF OneRow
    <3>6. OneRow'
      BY <2>2, <3>3, <3>4, <3>5 DEF Write, TableAfter
    <3> QED
      BY <3>2, <3>6
  <2>3. ASSUME NEW p \in Phones, HideLabel(p)
        PROVE  IInv'
    BY <2>3 DEF HideLabel, SelectIsCurrent, OneRow, Stored
  <2>4. CASE UNCHANGED vars
    BY <2>4 DEF vars, SelectIsCurrent, OneRow, Stored
  <2> QED
    BY <2>1, <2>2, <2>3, <2>4 DEF Next
<1> QED
  BY <1>1, <1>2, TypeCorrect, PTL DEF Spec

\* Two functions that differ in one value.
LEMMA OneValueChanged ==
  ASSUME NEW D, NEW g, NEW h, NEW d \in D, NEW v,
         g = [x \in D |-> g[x]], h = [x \in D |-> h[x]],
         \A x \in D : h[x] = IF x = d THEN v ELSE g[x]
  PROVE  h = [g EXCEPT ![d] = v]
OBVIOUS

\* A single phone whose SELECTs are answered implements the map of FingerprintMap:
\* each write is a Put of the location it pushed, or, when it fails, changes nothing.
THEOREM RefinesMap ==
  ASSUME SelectAnswers = {TRUE}, \E p \in Phones : Phones = {p}
  PROVE  Spec => ImplementsMap
<1> DEFINE map == [l \in Locations |->
                     IF Stored(l)
                     THEN [room |-> rows[RowOf(l)].room, rssi |-> rows[RowOf(l)].rssi]
                     ELSE NoEntry]
<1>1. Init => Map!Init
  BY DEF Init, Map!Init, Stored
<1>2. ASSUME TypeOK, WritingHasJob, SelectIsCurrent, OneRow, OneRow', [Next]_vars
      PROVE  Map!Next \/ map' = map
  <2>1. ASSUME rows' = rows
        PROVE  map' = map
    BY <2>1 DEF Stored, RowOf
  <2>2. ASSUME NEW p \in Phones, NEW answered \in WriteAnswers, Write(p, answered), rows' # rows
        PROVE  Map!Next
    <3> DEFINE loc == job[p].location
               put == IF map[loc] = NoEntry THEN [room |-> job[p].room, rssi |-> job[p].rssi]
                      ELSE [map[loc] EXCEPT !.rssi = job[p].rssi]
    <3>1. /\ loc \in Locations /\ job[p].room \in Rooms /\ job[p].rssi \in Fingerprints
          /\ job[p] \in Job
      BY <1>2, <2>2 DEF Write, WritingHasJob, Job
    <3>2. /\ rows' = TableAfter(p)
          /\ dataFlag[p] <=> Stored(loc)
      BY <1>2, <2>2 DEF Write, SelectIsCurrent
    <3>3. ASSUME NEW x \in Locations, Stored(x)
          PROVE  RowOf(x) \in DOMAIN rows /\ rows[RowOf(x)].location = x
      BY <3>3 DEF Stored, RowOf
    <3>4. ASSUME NEW n \in DOMAIN rows'
          PROVE  Stored(rows[n].location)' /\ RowOf(rows[n].location)' = n
      BY <1>2, <3>4 DEF OneRow, Stored, RowOf
    <3>5. ASSUME NEW x \in Locations
          PROVE  map'[x] = IF x = loc THEN put ELSE map[x]
      <4>1. CASE dataFlag[p]
        <5>1. /\ DOMAIN rows' = DOMAIN rows
              /\ \A n \in DOMAIN rows :
                   /\ rows'[n].location = rows[n].location
                   /\ rows'[n].room = rows[n].room
                   /\ rows'[n].rssi = IF rows[n].location = loc THEN job[p].rssi
                                      ELSE rows[n].rssi
          BY <1>2, <3>1, <3>2, <4>1, UpdatedRows DEF TypeOK, TableAfter
        <5>2. Stored(x)' <=> Stored(x)
          BY <5>1 DEF Stored
        <5>3. CASE Stored(x)
          <6>1. RowOf(x) \in DOMAIN rows /\ rows[RowOf(x)].location = x
            BY <3>3, <5>3
          <6>2. RowOf(x)' = RowOf(x)
            BY <3>4, <5>1, <6>1
          <6>3. map[x] = [room |-> rows[RowOf(x)].room, rssi |-> rows[RowOf(x)].rssi]
            BY <5>3
          <6>4. map[x] # NoEntry
            <7>1. rows[RowOf(x)] \in RowType
              BY <1>2, <6>1 DEF TypeOK
            <7>2. map[x] \in [room : Rooms, rssi : Fingerprints]
              BY <6>3, <7>1 DEF RowType
            <7> QED
              BY <7>2, AnswerAssumption
          <6>5. map'[x] = [room |-> rows'[RowOf(x)].room, rssi |-> rows'[RowOf(x)].rssi]
            BY <5>2, <5>3, <6>2
          <6> QED
            BY <5>1, <6>1, <6>3, <6>4, <6>5
        <5>4. CASE ~Stored(x)
          BY <3>2, <4>1, <5>2, <5>4
        <5> QED
          BY <5>3, <5>4
      <4>2. CASE ~dataFlag[p]
        <5> DEFINE last == Len(rows) + 1
        <5>1. /\ DOMAIN rows' = DOMAIN rows \cup {last}
              /\ \A n \in DOMAIN rows : rows'[n] = rows[n]
              /\ rows'[last].location = loc
              /\ rows'[last].room = job[p].room
              /\ rows'[last].rssi = job[p].rssi
          BY <1>2, <3>1, <3>2, <4>2, InsertedRow DEF TypeOK, TableAfter
        <5> HIDE DEF last
        <5>2. CASE x = loc
          <6>1. Stored(x)' /\ RowOf(x)' = last
            BY <1>2, <5>1, <5>2 DEF OneRow, Stored, RowOf
          <6>2. map[x] = NoEntry
            BY <3>2, <4>2, <5>2
          <6>3. map'[x] = [room |-> job[p].room, rssi |-> job[p].rssi]
            BY <5>1, <6>1
          <6> QED
            BY <5>2, <6>2, <6>3
        <5>3. CASE x # loc /\ Stored(x)
          <6>1. RowOf(x) \in DOMAIN rows /\ rows[RowOf(x)].location = x
            BY <3>3, <5>3
          <6>2. Stored(x)' /\ RowOf(x)' = RowOf(x)
            BY <1>2, <5>1, <6>1 DEF OneRow, Stored, RowOf
          <6> QED
            BY <5>1, <5>3, <6>1, <6>2
        <5>4. CASE x # loc /\ ~Stored(x)
          <6>1. ~Stored(x)'
            BY <5>1, <5>4 DEF Stored
          <6> QED
            BY <5>4, <6>1
        <5> QED
          BY <5>2, <5>3, <5>4
      <4> QED
        BY <4>1, <4>2
    <3>6. map' = [map EXCEPT ![loc] = put]
      <4>1. map = [x \in Locations |-> map[x]] /\ map' = [x \in Locations |-> map'[x]]
        OBVIOUS
      <4> HIDE DEF map, put
      <4> QED
        BY <3>1, <3>5, <4>1, OneValueChanged
    <3>7. Map!Put(loc, job[p].room, job[p].rssi)
      BY <3>6 DEF Map!Put
    <3> QED
      BY <3>1, <3>7 DEF Map!Next
  <2> QED
    BY <1>2, <2>1, <2>2 DEF Next, Select, HideLabel, vars
<1>3. TypeOK /\ WritingHasJob /\ SelectIsCurrent /\ OneRow /\ OneRow' /\ [Next]_vars
        => [Map!Next]_map
  BY <1>2
<1> QED
  BY <1>1, <1>3, TypeCorrect, SinglePhone, PTL DEF Spec, ImplementsMap, Map!MapSpec
=============================================================================
