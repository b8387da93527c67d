----------------------- MODULE FingerprintMatch_proofs -----------------------
(***************************************************************************)
(* What holds of FingerprintMatch for every number of seats, of columns    *)
(* and of stored records, and for every order in which they are stored.    *)
(***************************************************************************)
EXTENDS FingerprintMatch, TLAPS, FiniteSetTheorems

\* A seat is empty or nearer than the limit.
UnderLimit == \A s \in Seat : max[s] <= Limit

ScanInv ==
  /\ table \in Seq(Records)
  /\ max \in [Seat -> Nat]
  /\ maxlocation \in [Seat -> 0..Len(table)]
  /\ maxArr \in [Seat -> [Column -> Nat]]
  /\ UnderLimit

\* What a record is.
LEMMA RecordType ==
  ASSUME NEW r \in Records
  PROVE  r.result \in Nat /\ r.columns \in [Column -> Nat]
BY RecordAssumption

\* A row of maxArr belongs to every seat, and to no other seat.
LEMMA RowType ==
  ASSUME NEW s \in Seat
  PROVE  /\ Row(s) \in Seat
         /\ \A t \in Seat : Row(t) = Row(s) => t = s
BY SizeAssumption DEF Row, Seat

\* One more record at the end of the table.
LEMMA AppendRecord ==
  ASSUME NEW r \in Records, table \in Seq(Records), table' = Append(table, r)
  PROVE  /\ table' \in Seq(Records) /\ Len(table') = Len(table) + 1
         /\ Len(table) \in Nat
         /\ DOMAIN table = 1..Len(table)
         /\ DOMAIN table' = 1..(Len(table) + 1)
         /\ \A n \in DOMAIN table : n \in DOMAIN table' /\ table'[n] = table[n]
         /\ table'[Len(table) + 1] = r
OBVIOUS

\* What a scanned record does to the seats: it takes one whose value it lowers, or
\* none, and then the last seat is at least as near.
LEMMA ScanCases ==
  ASSUME NEW r \in Records, Scan(r), ScanInv
  PROVE  \/ \E s \in Seat :
              /\ max[s] > r.result
              /\ max' = [max EXCEPT ![s] = r.result]
              /\ maxlocation' = [maxlocation EXCEPT ![s] = Len(table) + 1]
              /\ maxArr' = [maxArr EXCEPT ![Row(s)] = r.columns]
         \/ /\ max[Seats] <= r.result
            /\ UNCHANGED <<max, maxlocation, maxArr>>
<1>1. CASE \E s \in Seat : Takes(s, r) /\ max' = [max EXCEPT ![s] = r.result]
             /\ maxlocation' = [maxlocation EXCEPT ![s] = Len(table) + 1]
             /\ maxArr' = [maxArr EXCEPT ![Row(s)] = r.columns]
  BY <1>1 DEF Takes, Admits
<1>2. CASE (\A s \in Seat : ~Admits(s, r)) /\ UNCHANGED <<max, maxlocation, maxArr>>
  <2>1. Seats \in Seat /\ (Seats + 1)..Seats = {}
    BY SizeAssumption DEF Seat
  <2>2. ~(max[Seats] > r.result)
    BY <1>2, <2>1 DEF Admits
  <2>3. max[Seats] \in Nat /\ r.result \in Nat
    BY <2>1, RecordType DEF ScanInv
  <2>4. QED BY <1>2, <2>2, <2>3
<1>3. QED BY <1>1, <1>2 DEF Scan

\* Scanning a record raises no seat, and leaves a seat at least as near as the record.
LEMMA ScanImproves ==
  ASSUME NEW r \in Records, Scan(r), ScanInv
  PROVE  /\ \A s \in Seat : max[s] \in Nat /\ max'[s] \in Nat /\ max'[s] <= max[s]
         /\ \E s \in Seat : max'[s] <= r.result
<1>1. r.result \in Nat /\ max \in [Seat -> Nat] /\ Seats \in Seat
  BY RecordType, SizeAssumption DEF ScanInv, Seat
<1>2. CASE max[Seats] <= r.result /\ UNCHANGED max
  BY <1>1, <1>2
<1>3. ASSUME NEW s \in Seat, max[s] > r.result, max' = [max EXCEPT ![s] = r.result]
      PROVE  /\ \A t \in Seat : max[t] \in Nat /\ max'[t] \in Nat /\ max'[t] <= max[t]
             /\ max'[s] <= r.result
  BY <1>1, <1>3
<1>4. QED BY <1>2, <1>3, ScanCases

\* The scan's variables keep their types, and the seats stay under the limit.
LEMMA ScanInvariant == Spec => []ScanInv
<1>1. Init => ScanInv
  BY SizeAssumption DEF Init, ScanInv, UnderLimit
<1>2. ScanInv /\ [Next]_vars => ScanInv'
  <2> SUFFICES ASSUME ScanInv, [Next]_vars PROVE ScanInv'
    OBVIOUS
  <2>1. ASSUME NEW r \in Records, Scan(r) PROVE ScanInv'
    <3>1. table' = Append(table, r)
      BY <2>1 DEF Scan
    <3>2. table' \in Seq(Records) /\ Len(table') = Len(table) + 1 /\ Len(table) \in Nat
      BY <3>1, AppendRecord DEF ScanInv
    <3>3. CASE UNCHANGED <<max, maxlocation, maxArr>>
      BY <3>2, <3>3 DEF ScanInv, UnderLimit
    <3>4. ASSUME NEW s \in Seat, max[s] > r.result,
                 max' = [max EXCEPT ![s] = r.result],
                 maxlocation' = [maxlocation EXCEPT ![s] = Len(table) + 1],
                 maxArr' = [maxArr EXCEPT ![Row(s)] = r.columns]
          PROVE  ScanInv'
      <4>1. max' \in [Seat -> Nat] /\ maxArr' \in [Seat -> [Column -> Nat]]
        BY <3>4, RecordType DEF ScanInv
      <4>2. maxlocation' \in [Seat -> 0..Len(table')]
        BY <3>2, <3>4 DEF ScanInv
      <4>3. UnderLimit'
        BY <3>4, RecordType, SizeAssumption DEF ScanInv, UnderLimit
      <4>4. QED BY <3>2, <4>1, <4>2, <4>3 DEF ScanInv
    <3>5. QED BY <2>1, <3>3, <3>4, ScanCases
  <2>2. CASE UNCHANGED seating
    BY <2>2 DEF seating, ScanInv, UnderLimit
  <2>3. QED BY <2>1, <2>2 DEF Next, EndScan, SortStep, Finish, vars
<1>3. QED BY <1>1, <1>2, PTL DEF Spec

\* A record as near as the nearest stored one is seated, whatever the order of the
\* records.
THEOREM NearestSeated == Spec => []NearestKept
<1>1. Init => NearestKept
  BY DEF Init, NearestKept, Near
<1>2. ScanInv /\ NearestKept /\ [Next]_vars => NearestKept'
  <2> SUFFICES ASSUME ScanInv, NearestKept, [Next]_vars PROVE NearestKept'
    OBVIOUS
  <2>1. ASSUME NEW r \in Records, Scan(r) PROVE NearestKept'
    <3> SUFFICES ASSUME NEW n \in Near'
                 PROVE  \E s \in Seat : max'[s] <= table'[n].result
      BY DEF NearestKept
    <3>1. table' = Append(table, r)
      BY <2>1 DEF Scan
    <3>2. n \in DOMAIN table' /\ table'[n].result < Limit
      BY DEF Near
    <3>3. \A s \in Seat : max'[s] <= max[s] /\ max[s] \in Nat /\ max'[s] \in Nat
      BY <2>1, ScanImproves
    <3>4. CASE n \in DOMAIN table
      <4>1. table'[n] = table[n] /\ table[n] \in Records
        BY <3>1, <3>4, AppendRecord DEF ScanInv
      <4>2. PICK s \in Seat : max[s] <= table[n].result
        BY <3>2, <3>4, <4>1 DEF NearestKept, Near
      <4>3. max'[s] <= table'[n].result
        BY <3>3, <4>1, <4>2, RecordType
      <4>4. QED BY <4>3
    <3>5. CASE n \notin DOMAIN table
      <4>1. table'[n] = r
        BY <3>1, <3>2, <3>5, AppendRecord DEF ScanInv
      <4>2. \E s \in Seat : max'[s] <= r.result
        BY <2>1, ScanImproves
      <4>3. QED BY <4>1, <4>2
    <3>6. QED BY <3>4, <3>5
  <2>2. CASE UNCHANGED seating
    BY <2>2 DEF seating, NearestKept, Near
  <2>3. QED BY <2>1, <2>2 DEF Next, EndScan, SortStep, Finish, vars
<1>3. QED BY <1>1, <1>2, ScanInvariant, PTL DEF Spec

\* The value, the location and the row of a seat are those of one stored record, and
\* no record is seated twice.
THEOREM SeatsHoldRecords == Spec => []SeatsAgree
<1>1. Init => SeatsAgree
  BY DEF Init, SeatsAgree, Filled
<1>2. ScanInv /\ SeatsAgree /\ [Next]_vars => SeatsAgree'
  <2> SUFFICES ASSUME ScanInv, SeatsAgree, [Next]_vars PROVE SeatsAgree'
    OBVIOUS
  <2>1. ASSUME NEW r \in Records, Scan(r) PROVE SeatsAgree'
    <3>1. table' = Append(table, r)
      BY <2>1 DEF Scan
    <3>2. CASE UNCHANGED <<max, maxlocation, maxArr>>
      BY <3>1, <3>2, AppendRecord DEF ScanInv, SeatsAgree, Filled
    <3>3. ASSUME NEW s \in Seat, max[s] > r.result,
                 max' = [max EXCEPT ![s] = r.result],
                 maxlocation' = [maxlocation EXCEPT ![s] = Len(table) + 1],
                 maxArr' = [maxArr EXCEPT ![Row(s)] = r.columns]
          PROVE  SeatsAgree'
      <4>1. /\ max'[s] = r.result /\ r.result # Limit
            /\ maxlocation'[s] = Len(table) + 1
            /\ maxArr'[Row(s)] = r.columns
        BY <3>3, RowType, RecordType, SizeAssumption DEF ScanInv, UnderLimit
      <4>2. \A t \in Seat \ {s} : /\ max'[t] = max[t]
                                  /\ maxlocation'[t] = maxlocation[t]
                                  /\ maxArr'[Row(t)] = maxArr[Row(t)]
        BY <3>3, RowType DEF ScanInv
      <4>3. /\ Len(table) + 1 \in DOMAIN table' /\ table'[Len(table) + 1] = r
            /\ \A n \in DOMAIN table : n \in DOMAIN table' /\ table'[n] = table[n]
            /\ Len(table) + 1 \notin DOMAIN table
        BY <3>1, AppendRecord DEF ScanInv
      <4>4. \A t \in Seat \ {s} : Filled(t) =>
              maxlocation[t] \in DOMAIN table
        BY DEF SeatsAgree
      <4>5. /\ maxArr'[Seats + 1 - s] = r.columns
            /\ \A t \in Seat \ {s} : maxArr'[Seats + 1 - t] = maxArr[Seats + 1 - t]
        BY <4>1, <4>2 DEF Row
      <4>6. QED BY <4>1, <4>2, <4>3, <4>4, <4>5 DEF SeatsAgree, Filled
    <3>4. QED BY <2>1, <3>2, <3>3, ScanCases
  <2>2. CASE UNCHANGED seating
    BY <2>2 DEF seating, SeatsAgree, Filled
  <2>3. QED BY <2>1, <2>2 DEF Next, EndScan, SortStep, Finish, vars
<1>3. QED BY <1>1, <1>2, ScanInvariant, PTL DEF Spec

-----------------------------------------------------------------------------
(* Types. *)

\* What the phases have computed so far.
PhaseInv ==
  /\ phase = "scan" => rssiLocation = <<>> /\ point = <<>>
  /\ phase = "sort" => rssiLocation \in [Seat -> 0..Len(table)]

\* A row has a natural number of votes.
LEMMA VotesType == \A row \in Seat : Votes(row) \in Nat
<1> TAKE row \in Seat
<1> DEFINE won == {c \in Column :
             Cardinality({other \in Seat \ {row} : Beats(row, other, c)}) >= 2}
<1>1. IsFiniteSet(Column)
  BY SizeAssumption, FS_Interval DEF Column
<1>2. won \subseteq Column
  OBVIOUS
<1>3. IsFiniteSet(won)
  BY <1>1, <1>2, FS_Subset
<1>4. QED BY <1>3, FS_CardinalityType DEF Votes

\* The types and what the phases have computed are kept together.
LEMMA TypesAndPhase == Spec => [](TypeOK /\ PhaseInv)
<1> DEFINE Inv == TypeOK /\ PhaseInv
<1>0. Seats \in Seat /\ 1 \in Seat /\ Seats \in Nat
  BY SizeAssumption DEF Seat
<1>1. Init => Inv
  BY <1>0, SizeAssumption DEF Init, TypeOK, PhaseInv
<1>2. ScanInv' /\ Inv /\ [Next]_vars => Inv'
  <2> SUFFICES ASSUME ScanInv', Inv, [Next]_vars PROVE Inv'
    OBVIOUS
  <2>0. /\ table' \in Seq(Records) /\ max' \in [Seat -> Nat]
        /\ maxlocation' \in [Seat -> 0..Len(table')] /\ maxArr' \in [Seat -> [Column -> Nat]]
    BY DEF ScanInv
  <2>1. ASSUME NEW r \in Records, Scan(r) PROVE Inv'
    BY <2>0, <2>1 DEF Scan, TypeOK, PhaseInv
  <2>2. CASE EndScan
    <3>1. table' = table /\ maxlocation' = maxlocation
      BY <2>2 DEF EndScan, seating
    <3>2. [row \in Seat |-> Votes(row)] \in [Seat -> Nat]
      BY VotesType
    <3>3. [row \in Seat |-> maxlocation[Seats + 1 - row]] \in [Seat -> 0..Len(table)]
      <4>1. \A row \in Seat : Seats + 1 - row \in Seat
        BY <1>0 DEF Seat
      <4>2. QED BY <4>1 DEF TypeOK
    <3>4. CASE VoteReady
      BY <2>0, <2>2, <3>1, <3>2, <3>3, <3>4 DEF EndScan, TypeOK, PhaseInv
    <3>5. CASE ~VoteReady
      BY <2>0, <2>2, <3>1, <3>5 DEF EndScan, TypeOK, PhaseInv
    <3>6. QED BY <3>4, <3>5
  <2>3. CASE SortStep
    <3>1. table' = table /\ point' = point /\ phase = "sort" /\ phase' \in {"sort", "finish"}
      BY <2>3 DEF SortStep, seating
    <3>2. rssiLocation \in [Seat -> 0..Len(table)] /\ loca \in [Seat -> Nat] /\ i \in Seat /\ k \in Seat
      BY <3>1 DEF TypeOK, PhaseInv
    <3>3. loca' \in [Seat -> Nat] /\ rssiLocation' \in [Seat -> 0..Len(table)]
      BY <2>3, <3>2 DEF SortStep, Exchange, Swapped
    <3>4. i' \in Seat /\ k' \in Seat
      BY <1>0, <2>3, <3>2 DEF SortStep, InnerDone, Seat
    <3>5. QED BY <2>0, <3>1, <3>3, <3>4 DEF TypeOK, PhaseInv
  <2>4. CASE Finish
    <3>1. /\ table' = table /\ UNCHANGED <<loca, rssiLocation, i, k>> /\ phase' = "done"
      BY <2>4 DEF Finish, seating
    <3>2. point' \in {<<>>} \union [1..3 -> 0..Len(table)]
      <4>1. 1..3 \subseteq Seat
        BY SizeAssumption DEF Seat
      <4>2. CASE rssiLocation = <<>>
        BY <2>4, <4>1, <4>2 DEF Finish, TypeOK
      <4>3. CASE rssiLocation # <<>>
        BY <2>4, <4>1, <4>3 DEF Finish, TypeOK
      <4>4. QED BY <4>2, <4>3
    <3>3. QED BY <2>0, <3>1, <3>2 DEF TypeOK, PhaseInv
  <2>5. CASE UNCHANGED vars
    BY <2>0, <2>5 DEF vars, seating, TypeOK, PhaseInv
  <2>6. QED BY <2>1, <2>2, <2>3, <2>4, <2>5 DEF Next
<1>3. QED BY <1>1, <1>2, ScanInvariant, PTL DEF Spec

\* Types; the loop variables of the sort stay within the arrays.
THEOREM TypeCorrect == Spec => []TypeOK
BY TypesAndPhase, PTL

-----------------------------------------------------------------------------
(* The number of records under the limit, and the seats they fill. *)

\* The seats fill from the last one on, one for each record under the limit.
SeatsCount == \A s \in Seat : Filled(s) <=> Cardinality(Near) >= Seats + 1 - s

\* The records under the limit can be counted.
LEMMA NearFinite ==
  ASSUME table \in Seq(Records)
  PROVE  IsFiniteSet(Near) /\ Cardinality(Near) \in Nat /\ Near \subseteq 1..Len(table)
<1>1. Near \subseteq 1..Len(table) /\ Len(table) \in Nat
  BY DEF Near
<1>2. IsFiniteSet(1..Len(table))
  BY <1>1, FS_Interval
<1>3. QED BY <1>1, <1>2, FS_Subset, FS_CardinalityType

\* A scanned record is one more under the limit, or leaves their number as it is.
LEMMA NearCounts ==
  ASSUME NEW r \in Records, Scan(r), ScanInv
  PROVE  Cardinality(Near') = IF r.result < Limit THEN Cardinality(Near) + 1 ELSE Cardinality(Near)
<1> DEFINE last == Len(table) + 1
<1>1. table' = Append(table, r) /\ table \in Seq(Records)
  BY DEF Scan, ScanInv
<1>2. /\ Len(table) \in Nat /\ DOMAIN table = 1..Len(table) /\ DOMAIN table' = 1..last
      /\ \A n \in DOMAIN table : table'[n] = table[n]
      /\ table'[last] = r
  BY <1>1, AppendRecord
<1>3. 1..last = (1..Len(table)) \union {last} /\ last \notin 1..Len(table)
  BY <1>2
<1>4. Near' = IF r.result < Limit THEN Near \union {last} ELSE Near
  BY <1>2, <1>3 DEF Near
<1>5. last \notin Near /\ IsFiniteSet(Near)
  BY <1>1, <1>3, NearFinite
<1>6. QED BY <1>4, <1>5, FS_AddElement

\* While a seat is empty, a record under the limit takes the last empty one.
LEMMA LastEmptyTaken ==
  ASSUME NEW r \in Records, Scan(r), ScanInv, SeatsCount, r.result < Limit,
         NEW p \in Seat, p = Seats - Cardinality(Near)
  PROVE  max' = [max EXCEPT ![p] = r.result]
<1>0. Cardinality(Near) \in Nat /\ Seats \in Nat /\ Limit \in Nat
  BY NearFinite, SizeAssumption DEF ScanInv
<1>1. ~Filled(p) /\ \A t \in (p + 1)..Seats : Filled(t)
  <2>1. \A t \in (p + 1)..Seats : t \in Seat /\ Cardinality(Near) >= Seats + 1 - t
    BY <1>0 DEF Seat
  <2>2. ~(Cardinality(Near) >= Seats + 1 - p)
    BY <1>0
  <2>3. QED BY <2>1, <2>2 DEF SeatsCount
<1>2. Admits(p, r)
  BY <1>0, <1>1, RecordType DEF Admits, Filled
<1>3. ASSUME NEW s \in Seat, Takes(s, r) PROVE s = p
  <2>1. s \in 1..Seats /\ p \in 1..Seats
    BY DEF Seat
  <2>2. CASE s < p
    <3>1. p \in (s + 1)..Seats
      BY <1>0, <2>1, <2>2
    <3>2. QED BY <1>1, <1>3, <3>1 DEF Takes, Admits
  <2>3. CASE p < s
    <3>1. p \in 1..(s - 1)
      BY <1>0, <2>1, <2>3
    <3>2. QED BY <1>2, <1>3, <3>1 DEF Takes
  <2>4. QED BY <1>0, <2>1, <2>2, <2>3
<1>4. PICK s \in Seat : Takes(s, r) /\ max' = [max EXCEPT ![s] = r.result]
  BY <1>2 DEF Scan
<1>5. QED BY <1>3, <1>4

\* Scanning keeps the seats in step with the number of near records.
LEMMA ScanCountsSeats ==
  ASSUME NEW r \in Records, Scan(r), ScanInv, SeatsCount
  PROVE  SeatsCount'
<1> DEFINE c == Cardinality(Near)
<1>0. c \in Nat /\ Seats \in Nat /\ Limit \in Nat /\ r.result \in Nat /\ max \in [Seat -> Nat]
  BY NearFinite, SizeAssumption, RecordType DEF ScanInv
<1>1. CASE ~(r.result < Limit)
  <2>1. \A s \in Seat : ~(max[s] > r.result)
    BY <1>0, <1>1 DEF ScanInv, UnderLimit
  <2>2. UNCHANGED max
    BY <2>1, ScanCases
  <2>3. Cardinality(Near') = c
    BY <1>1, NearCounts
  <2>4. QED BY <2>2, <2>3 DEF SeatsCount, Filled
<1>2. CASE r.result < Limit /\ c < Seats
  <2> DEFINE p == Seats - c
  <2>1. p \in Seat
    BY <1>0, <1>2 DEF Seat
  <2>2. max' = [max EXCEPT ![p] = r.result]
    BY <1>2, <2>1, LastEmptyTaken
  <2>3. Cardinality(Near') = c + 1
    BY <1>2, NearCounts
  <2>4. ASSUME NEW s \in Seat PROVE max'[s] # Limit <=> c + 1 >= Seats + 1 - s
    <3>1. (max[s] # Limit) <=> c >= Seats + 1 - s
      BY DEF SeatsCount, Filled
    <3>2. max'[s] = IF s = p THEN r.result ELSE max[s]
      BY <1>0, <2>2
    <3>3. s \in Nat
      BY <1>0 DEF Seat
    <3>4. CASE s = p
      BY <1>0, <1>2, <3>2, <3>4
    <3>5. CASE s # p
      <4>1. (c >= Seats + 1 - s) <=> (c + 1 >= Seats + 1 - s)
        BY <1>0, <3>3, <3>5
      <4>2. QED BY <3>1, <3>2, <3>5, <4>1
    <3>6. QED BY <3>4, <3>5
  <2>5. QED BY <2>3, <2>4 DEF SeatsCount, Filled
<1>3. CASE r.result < Limit /\ ~(c < Seats)
  <2>1. Cardinality(Near') = c + 1
    BY <1>3, NearCounts
  <2>2. ASSUME NEW s \in Seat PROVE max'[s] # Limit /\ c + 1 >= Seats + 1 - s
    <3>1. s \in Nat /\ s >= 1
      BY <1>0 DEF Seat
    <3>2. c >= Seats + 1 - s
      BY <1>0, <1>3, <3>1
    <3>3. max[s] # Limit
      BY <3>2 DEF SeatsCount, Filled
    <3>4. max'[s] = max[s] \/ max'[s] = r.result
      BY <1>0, ScanCases
    <3>5. QED BY <1>0, <1>3, <3>1, <3>2, <3>3, <3>4
  <2>3. QED BY <2>1, <2>2 DEF SeatsCount, Filled
<1>4. QED BY <1>1, <1>2, <1>3

\* An estimate is made exactly when every seat is filled.
PointMeansFilled == phase = "done" => (point # <<>> <=> \A s \in 1..4 : Filled(s))

\* The seats count the near records, and an estimate tells that they are filled.
LEMMA SeatsFill == Spec => [](SeatsCount /\ PointMeansFilled)
<1> DEFINE Inv == SeatsCount /\ PointMeansFilled
<1>1. Init => Inv
  <2> SUFFICES ASSUME Init PROVE Inv
    OBVIOUS
  <2>1. Near = {}
    BY DEF Init, Near
  <2>2. Cardinality(Near) = 0
    BY <2>1, FS_EmptySet
  <2>3. \A s \in Seat : ~Filled(s) /\ ~(0 >= Seats + 1 - s)
    BY SizeAssumption DEF Init, Filled, Seat
  <2>4. QED BY <2>2, <2>3 DEF Init, SeatsCount, PointMeansFilled
<1>2. ScanInv /\ Inv /\ [Next]_vars => Inv'
  <2> SUFFICES ASSUME ScanInv, Inv, [Next]_vars PROVE Inv'
    OBVIOUS
  <2>1. ASSUME NEW r \in Records, Scan(r) PROVE Inv'
    <3>1. SeatsCount'
      BY <2>1, ScanCountsSeats
    <3>2. phase' # "done"
      BY <2>1 DEF Scan
    <3>3. QED BY <3>1, <3>2 DEF PointMeansFilled
  <2>2. ASSUME UNCHANGED seating PROVE SeatsCount' /\ \A s \in 1..4 : Filled(s)' <=> Filled(s)
    BY <2>2 DEF seating, SeatsCount, Filled, Near
  <2>3. CASE EndScan
    <3>1. phase' # "done" /\ UNCHANGED seating
      BY <2>3 DEF EndScan
    <3>2. QED BY <2>2, <3>1 DEF PointMeansFilled
  <2>4. CASE SortStep
    <3>1. phase' # "done" /\ UNCHANGED seating
      BY <2>4 DEF SortStep
    <3>2. QED BY <2>2, <3>1 DEF PointMeansFilled
  <2>5. CASE Finish
    <3>1. UNCHANGED seating /\ phase' = "done"
      BY <2>5 DEF Finish
    <3>2. CASE \A s \in 1..4 : Filled(s)
      <4>1. DOMAIN point' = 1..3
        BY <2>5, <3>2 DEF Finish
      <4>2. point' # <<>>
        BY <4>1
      <4>3. QED BY <2>2, <3>1, <3>2, <4>2 DEF PointMeansFilled
    <3>3. CASE ~\A s \in 1..4 : Filled(s)
      <4>1. point' = <<>>
        BY <2>5, <3>3 DEF Finish
      <4>2. QED BY <2>2, <3>1, <3>3, <4>1 DEF PointMeansFilled
    <3>4. QED BY <3>2, <3>3
  <2>6. CASE UNCHANGED vars
    BY <2>6, <2>2 DEF vars, seating, PointMeansFilled
  <2>7. QED BY <2>1, <2>3, <2>4, <2>5, <2>6 DEF Next
<1>3. QED BY <1>1, <1>2, ScanInvariant, PTL DEF Spec

\* An estimate is made exactly when as many records as there are seats lie under the
\* limit, whatever their order.
THEOREM EstimateCounts == Spec => []EstimateNeedsAllSeats
<1>1. ScanInv /\ SeatsCount /\ PointMeansFilled => EstimateNeedsAllSeats
  <2> SUFFICES ASSUME ScanInv, SeatsCount, PointMeansFilled
               PROVE  (\A s \in 1..4 : Filled(s)) <=> Cardinality(Near) >= Seats
    BY DEF EstimateNeedsAllSeats, PointMeansFilled
  <2>1. Cardinality(Near) \in Nat
    BY NearFinite DEF ScanInv
  <2>2. 1..4 \subseteq Seat /\ Seats \in Nat
    BY SizeAssumption DEF Seat
  <2>3. \A s \in 1..4 : Filled(s) <=> Cardinality(Near) >= Seats + 1 - s
    BY <2>2 DEF SeatsCount
  <2>4. QED BY <2>1, <2>2, <2>3
<1>2. QED BY <1>1, ScanInvariant, SeatsFill, PTL

-----------------------------------------------------------------------------
(* The votes are those of the stored records. *)

AllSeated == \A s \in Seat : Filled(s)

\* With every seat filled, the rows are the columns of different stored records.
LEMMA RowsSeated ==
  ASSUME ScanInv, SeatsAgree, AllSeated
  PROVE  /\ \A row \in Seat : Row(row) \in Seat /\ Row(Row(row)) = row
         /\ \A row \in Seat : maxlocation[Row(row)] \in Seated
         /\ \A row \in Seat : maxArr[row] = table[maxlocation[Row(row)]].columns
         /\ \A row, other \in Seat :
              maxlocation[Row(row)] = maxlocation[Row(other)] => row = other
         /\ \A n \in Seated : \E row \in Seat : n = maxlocation[Row(row)]
<1>1. \A row \in Seat : Row(row) \in Seat /\ Row(Row(row)) = row /\ Seats + 1 - Row(row) = row
  BY SizeAssumption DEF Row, Seat
<1>2. \A row \in Seat : Filled(Row(row))
  BY <1>1 DEF AllSeated
<1>3. \A row \in Seat : maxArr[row] = table[maxlocation[Row(row)]].columns
  <2> TAKE row \in Seat
  <2>1. maxArr[Seats + 1 - Row(row)] = table[maxlocation[Row(row)]].columns
    BY <1>1, <1>2 DEF SeatsAgree
  <2>2. QED BY <1>1, <2>1
<1>4. \A row, other \in Seat : maxlocation[Row(row)] = maxlocation[Row(other)] => row = other
  <2> SUFFICES ASSUME NEW row \in Seat, NEW other \in Seat, row # other
               PROVE  maxlocation[Row(row)] # maxlocation[Row(other)]
    OBVIOUS
  <2>1. Row(row) # Row(other)
    BY <1>1
  <2>2. QED BY <1>1, <1>2, <2>1 DEF SeatsAgree
<1>5. \A n \in Seated : \E row \in Seat : n = maxlocation[Row(row)]
  <2> TAKE n \in Seated
  <2>1. PICK s \in Seat : n = maxlocation[s]
    BY DEF Seated
  <2>2. Row(s) \in Seat /\ Row(Row(s)) = s
    BY <1>1
  <2>3. QED BY <2>1, <2>2
<1>6. QED BY <1>1, <1>3, <1>4, <1>5 DEF Seated

\* VotesOf, with the table it reads as a parameter.
VotesIn(stored, n, seated) ==
  Cardinality({c \in Column :
    Cardinality({m \in seated \ {n} : stored[n].columns[c] <= stored[m].columns[c]}) >= 2})

\* The votes of a row, counted from maxArr, are those of its record, counted from the
\* stored records.
LEMMA VotesAgree ==
  ASSUME ScanInv, SeatsAgree, AllSeated, NEW row \in Seat
  PROVE  Votes(row) = VotesIn(table, maxlocation[Row(row)], Seated)
<1> DEFINE n == maxlocation[Row(row)]
           Behind(c) == {other \in Seat \ {row} : Beats(row, other, c)}
           NoNearer(c) == {m \in Seated \ {n} : table[n].columns[c] <= table[m].columns[c]}
<1>1. ASSUME NEW c \in Column
      PROVE  Cardinality(Behind(c)) = Cardinality(NoNearer(c))
  <2> DEFINE f == [other \in Behind(c) |-> maxlocation[Row(other)]]
  <2>1. \A other \in Behind(c) : f[other] \in NoNearer(c)
    BY RowsSeated DEF Beats
  <2>2. \A a, b \in Behind(c) : f[a] = f[b] => a = b
    BY RowsSeated
  <2>3. \A m \in NoNearer(c) : \E other \in Behind(c) : f[other] = m
    <3> TAKE m \in NoNearer(c)
    <3>1. PICK other \in Seat : m = maxlocation[Row(other)]
      BY RowsSeated
    <3>2. other # row
      BY <3>1
    <3>3. Beats(row, other, c)
      BY <3>1, RowsSeated DEF Beats
    <3>4. QED BY <3>1, <3>2, <3>3
  <2>4. f \in Bijection(Behind(c), NoNearer(c))
    BY <2>1, <2>2, <2>3 DEF Bijection, Injection, Surjection, IsInjective
  <2>5. IsFiniteSet(Seat)
    BY SizeAssumption, FS_Interval DEF Seat
  <2>6. IsFiniteSet(Behind(c))
    BY <2>5, FS_Subset
  <2>7. ExistsBijection(Behind(c), NoNearer(c))
    BY <2>4 DEF ExistsBijection
  <2>8. QED BY <2>6, <2>7, FS_Bijection
<1>2. {c \in Column : Cardinality(Behind(c)) >= 2} = {c \in Column : Cardinality(NoNearer(c)) >= 2}
  BY <1>1
<1>3. QED BY <1>2 DEF Votes, VotesIn

-----------------------------------------------------------------------------
(* The sort keeps the votes with their records. *)

\* Every seated record stands at one place, with its own votes.
VotesLocated ==
  /\ rssiLocation \in [Seat -> Seated]
  /\ \A row, other \in Seat : rssiLocation[row] = rssiLocation[other] => row = other
  /\ \A n \in Seated : \E row \in Seat : rssiLocation[row] = n
  /\ \A row \in Seat : loca[row] = VotesIn(table, rssiLocation[row], Seated)

\* The places before i are final, and i is the best of those compared with it.
Sorting ==
  /\ \A a, b \in Seat : a < b /\ a < i => loca[b] <= loca[a]
  /\ \A b \in Seat : i <= b /\ b < k => loca[b] <= loca[i]

Sorted == \A a, b \in Seat : a < b => loca[b] <= loca[a]

SortInv ==
  /\ phase = "scan" => i = 1 /\ k = 1
  /\ phase = "sort" => i <= k
  /\ AllSeated /\ phase = "sort" => VotesLocated /\ Sorting
  /\ AllSeated /\ phase \in {"finish", "done"} => VotesLocated /\ Sorted
  /\ AllSeated /\ phase = "done" => point = [n \in 1..3 |-> rssiLocation[n]]

\* The vote gives every row its record and the votes of that record.
LEMMA VoteLocates ==
  ASSUME ScanInv, SeatsAgree, AllSeated, EndScan
  PROVE  phase' = "sort" /\ VotesLocated'
<1>1. VoteReady
  BY SizeAssumption DEF VoteReady, AllSeated, Seat
<1>2. /\ phase' = "sort" /\ UNCHANGED seating
      /\ loca' = [row \in Seat |-> Votes(row)]
      /\ rssiLocation' = [row \in Seat |-> maxlocation[Row(row)]]
  BY <1>1 DEF EndScan, Row
<1>3. \A row \in Seat : loca'[row] = VotesIn(table, rssiLocation'[row], Seated)
  BY <1>2, VotesAgree
<1>4. rssiLocation' \in [Seat -> Seated]
  BY <1>2, RowsSeated
<1>5. \A row, other \in Seat : rssiLocation'[row] = rssiLocation'[other] => row = other
  BY <1>2, RowsSeated
<1>6. \A n \in Seated : \E row \in Seat : rssiLocation'[row] = n
  BY <1>2, RowsSeated
<1>7. table' = table /\ Seated' = Seated
  BY <1>2 DEF Seated, seating
<1>8. QED BY <1>2, <1>3, <1>4, <1>5, <1>6, <1>7 DEF VotesLocated

\* What an iteration of the sort does to the votes: places i and k are put in order.
LEMMA SortExchanges ==
  ASSUME TypeOK, PhaseInv, SortStep, i <= k
  PROVE  LET at(p) == IF loca[i] < loca[k] THEN (IF p = i THEN k ELSE IF p = k THEN i ELSE p) ELSE p
         IN  /\ loca' = [p \in Seat |-> loca[at(p)]]
             /\ rssiLocation' = [p \in Seat |-> rssiLocation[at(p)]]
             /\ \A p \in Seat : at(p) \in Seat /\ at(at(p)) = p
<1> DEFINE at(p) == IF loca[i] < loca[k] THEN (IF p = i THEN k ELSE IF p = k THEN i ELSE p) ELSE p
<1>1. /\ phase = "sort" /\ i \in Seat /\ k \in Seat /\ loca \in [Seat -> Nat]
      /\ rssiLocation \in [Seat -> 0..Len(table)]
  BY DEF SortStep, TypeOK, PhaseInv
<1>2. CASE loca[i] < loca[k]
  <2>1. loca' = Swapped(loca) /\ rssiLocation' = Swapped(rssiLocation)
    BY <1>2 DEF SortStep, Exchange
  <2>2. \A p \in Seat : at(p) = IF p = i THEN k ELSE IF p = k THEN i ELSE p
    BY <1>2
  <2>3. Swapped(loca) = [p \in Seat |-> loca[at(p)]]
    BY <1>1, <2>2 DEF Swapped
  <2>4. Swapped(rssiLocation) = [p \in Seat |-> rssiLocation[at(p)]]
    BY <1>1, <2>2 DEF Swapped
  <2>5. \A p \in Seat : at(p) \in Seat /\ at(at(p)) = p
    BY <1>1, <1>2
  <2>6. QED BY <2>1, <2>3, <2>4, <2>5
<1>3. CASE ~(loca[i] < loca[k])
  <2>1. \A p : at(p) = p
    BY <1>3
  <2>2. loca' = loca /\ rssiLocation' = rssiLocation
    BY <1>3 DEF SortStep
  <2>3. QED BY <1>1, <2>1, <2>2
<1>4. QED BY <1>2, <1>3

\* The exchange moves votes and locations together.
LEMMA SortLocates ==
  ASSUME TypeOK, PhaseInv, SortStep, i <= k, VotesLocated
  PROVE  VotesLocated'
<1> DEFINE at(p) == IF loca[i] < loca[k] THEN (IF p = i THEN k ELSE IF p = k THEN i ELSE p) ELSE p
<1>1. /\ loca' = [p \in Seat |-> loca[at(p)]]
      /\ rssiLocation' = [p \in Seat |-> rssiLocation[at(p)]]
      /\ \A p \in Seat : at(p) \in Seat /\ at(at(p)) = p
  BY SortExchanges
<1> HIDE DEF at
<1>2. \A p \in Seat : loca'[p] = VotesIn(table, rssiLocation'[p], Seated)
  BY <1>1 DEF VotesLocated
<1>3. rssiLocation' \in [Seat -> Seated]
  BY <1>1 DEF VotesLocated
<1>4. \A row, other \in Seat : rssiLocation'[row] = rssiLocation'[other] => row = other
  BY <1>1 DEF VotesLocated
<1>5. \A n \in Seated : \E row \in Seat : rssiLocation'[row] = n
  <2> TAKE n \in Seated
  <2>1. PICK row \in Seat : rssiLocation[row] = n
    BY DEF VotesLocated
  <2>2. at(row) \in Seat /\ rssiLocation'[at(row)] = n
    BY <1>1, <2>1
  <2>3. QED BY <2>2
<1>6. table' = table /\ Seated' = Seated
  BY DEF SortStep, Seated, seating
<1>7. QED BY <1>2, <1>3, <1>4, <1>5, <1>6 DEF VotesLocated

\* After an iteration, place i is the best of the places compared with it, k included.
LEMMA SortProgress ==
  ASSUME TypeOK, PhaseInv, SortStep, i <= k, Sorting
  PROVE  /\ \A a, b \in Seat : a < b /\ a < i => loca'[b] <= loca'[a]
         /\ \A b \in Seat : i <= b /\ b <= k => loca'[b] <= loca'[i]
<1> DEFINE at(p) == IF loca[i] < loca[k] THEN (IF p = i THEN k ELSE IF p = k THEN i ELSE p) ELSE p
<1>1. /\ \A p \in Seat : loca'[p] = loca[at(p)]
      /\ \A p \in Seat : at(p) \in Seat
  BY SortExchanges
<1>2. /\ i \in Seat /\ k \in Seat /\ loca \in [Seat -> Nat] /\ Seat \subseteq Nat
  BY SizeAssumption DEF TypeOK, Seat
<1>3. ASSUME NEW a \in Seat, NEW b \in Seat, a < b, a < i
      PROVE  loca'[b] <= loca'[a]
  <2>1. at(a) = a /\ a < at(b)
    BY <1>2, <1>3
  <2>2. loca[at(b)] <= loca[a]
    BY <1>1, <1>3, <2>1 DEF Sorting
  <2>3. QED BY <1>1, <2>1, <2>2
<1>4. ASSUME NEW b \in Seat, i <= b, b <= k
      PROVE  loca'[b] <= loca'[i]
  <2>1. \A p \in Seat : loca[p] \in Nat
    BY <1>2
  <2>2. b < k => loca[b] <= loca[i]
    BY <1>4 DEF Sorting
  <2>3. CASE loca[i] < loca[k]
    <3>1. at(i) = k
      BY <2>3
    <3>2. CASE b = i
      BY <1>1, <1>2, <2>1, <3>2
    <3>3. CASE b = k
      <4>1. at(b) = i \/ at(b) = k
        BY <3>3
      <4>2. QED BY <1>1, <1>2, <2>1, <2>3, <3>1, <4>1
    <3>4. CASE b # i /\ b # k
      <4>1. at(b) = b /\ b < k
        BY <1>2, <1>4, <3>4
      <4>2. QED BY <1>1, <1>2, <2>1, <2>2, <2>3, <3>1, <4>1
    <3>5. QED BY <3>2, <3>3, <3>4
  <2>4. CASE ~(loca[i] < loca[k])
    <3>1. at(b) = b /\ at(i) = i
      BY <2>4
    <3>2. CASE b = k
      BY <1>1, <1>2, <2>1, <2>4, <3>1, <3>2
    <3>3. CASE b < k
      BY <1>1, <1>2, <2>2, <3>1, <3>3
    <3>4. QED BY <1>2, <1>4, <3>2, <3>3
  <2>5. QED BY <2>3, <2>4
<1>5. QED BY <1>3, <1>4

\* The votes stay with their records, and end up in descending order.
LEMMA VotesSorted == Spec => []SortInv
<1>0. Seat \subseteq Nat /\ 1 \in Seat /\ Seats \in Nat /\ 1..4 \subseteq Seat
  BY SizeAssumption DEF Seat
<1>1. Init => SortInv
  BY DEF Init, SortInv
<1>2. ScanInv /\ SeatsAgree /\ TypeOK /\ PhaseInv /\ SortInv /\ [Next]_vars => SortInv'
  <2> SUFFICES ASSUME ScanInv, SeatsAgree, TypeOK, PhaseInv, SortInv, [Next]_vars
               PROVE  SortInv'
    OBVIOUS
  <2>0. UNCHANGED seating => AllSeated' = AllSeated
    BY DEF AllSeated, Filled, seating
  <2>1. ASSUME NEW r \in Records, Scan(r) PROVE SortInv'
    BY <2>1 DEF Scan, SortInv
  <2>2. CASE EndScan
    <3>1. /\ UNCHANGED <<seating, i, k, point>> /\ phase' \in {"sort", "finish"}
          /\ i = 1 /\ k = 1
      BY <2>2 DEF EndScan, SortInv
    <3>2. CASE AllSeated
      <4>1. phase' = "sort" /\ VotesLocated'
        BY <2>2, <3>2, VoteLocates
      <4>2. Sorting'
        BY <3>1, SizeAssumption DEF Sorting, Seat
      <4>3. QED BY <3>1, <4>1, <4>2 DEF SortInv
    <3>3. CASE ~AllSeated
      BY <2>0, <3>1, <3>3 DEF SortInv
    <3>4. QED BY <3>2, <3>3
  <2>3. CASE SortStep
    <3>1. /\ phase = "sort" /\ i <= k /\ i \in Seat /\ k \in Seat /\ UNCHANGED seating
      BY <2>3 DEF SortStep, SortInv, TypeOK
    <3>2. \/ k # Seats /\ k' = k + 1 /\ i' = i /\ phase' = phase
          \/ k = Seats /\ i < Seats /\ i' = i + 1 /\ k' = i + 1 /\ phase' = phase
          \/ k = Seats /\ i = Seats /\ phase' = "finish" /\ i' = i /\ k' = k
      BY <2>3 DEF SortStep, InnerDone
    <3>3. phase' = "sort" => i' <= k'
      BY <1>0, <3>1, <3>2
    <3>4. phase' \in {"sort", "finish"}
      BY <3>1, <3>2
    <3>5. CASE AllSeated
      <4>1. VotesLocated /\ Sorting
        BY <3>1, <3>5 DEF SortInv
      <4>2. VotesLocated'
        BY <2>3, <3>1, <4>1, SortLocates
      <4>3. /\ \A a, b \in Seat : a < b /\ a < i => loca'[b] <= loca'[a]
            /\ \A b \in Seat : i <= b /\ b <= k => loca'[b] <= loca'[i]
        BY <2>3, <3>1, <4>1, SortProgress
      <4>4. \A b \in Seat : b <= Seats
        BY DEF Seat
      <4>5. CASE k # Seats
        <5>1. k' = k + 1 /\ i' = i /\ phase' = "sort"
          BY <3>1, <3>2, <4>5
        <5>2. \A b \in Seat : b < k + 1 => b <= k
          BY <1>0, <3>1
        <5>3. Sorting'
          BY <4>3, <5>1, <5>2 DEF Sorting
        <5>4. QED BY <3>3, <4>2, <5>1, <5>3 DEF SortInv
      <4>6. CASE k = Seats
        <5>1. \A a, b \in Seat : a < b /\ a <= i => loca'[b] <= loca'[a]
          <6> SUFFICES ASSUME NEW a \in Seat, NEW b \in Seat, a < b, a <= i
                       PROVE  loca'[b] <= loca'[a]
            OBVIOUS
          <6>1. CASE a < i
            BY <4>3, <6>1
          <6>2. CASE a = i
            BY <1>0, <3>1, <4>3, <4>4, <4>6, <6>2
          <6>3. QED BY <1>0, <3>1, <6>1, <6>2
        <5>2. CASE i < Seats
          <6>1. i' = i + 1 /\ k' = i + 1 /\ phase' = "sort"
            BY <1>0, <3>1, <3>2, <4>6, <5>2
          <6>2. \A a \in Seat : a < i + 1 => a <= i
            BY <1>0, <3>1
          <6>3. \A b \in Seat : ~(i + 1 <= b /\ b < i + 1)
            BY <1>0, <3>1
          <6>4. Sorting'
            BY <5>1, <6>1, <6>2, <6>3 DEF Sorting
          <6>5. QED BY <3>3, <4>2, <6>1, <6>4 DEF SortInv
        <5>3. CASE ~(i < Seats)
          <6>1. i = Seats /\ phase' = "finish"
            BY <1>0, <3>1, <3>2, <4>4, <4>6, <5>3
          <6>2. Sorted'
            BY <4>4, <5>1, <6>1 DEF Sorted
          <6>3. QED BY <4>2, <6>1, <6>2 DEF SortInv
        <5>4. QED BY <5>2, <5>3
      <4>7. QED BY <4>5, <4>6
    <3>6. CASE ~AllSeated
      BY <2>0, <3>1, <3>3, <3>4, <3>6 DEF SortInv
    <3>7. QED BY <3>5, <3>6
  <2>4. CASE Finish
    <3>1. /\ phase = "finish" /\ phase' = "done" /\ UNCHANGED <<seating, loca, rssiLocation, i, k>>
      BY <2>4 DEF Finish
    <3>2. CASE AllSeated
      <4>1. VotesLocated /\ Sorted
        BY <3>1, <3>2 DEF SortInv
      <4>2. VotesLocated' /\ Sorted'
        BY <3>1, <4>1 DEF VotesLocated, Sorted, Seated, seating
      <4>3. rssiLocation # <<>>
        BY <1>0, <4>1 DEF VotesLocated
      <4>4. point' = [n \in 1..3 |-> rssiLocation[n]]
        BY <1>0, <2>4, <3>2, <4>3 DEF Finish, AllSeated
      <4>5. QED BY <3>1, <4>2, <4>4 DEF SortInv
    <3>3. CASE ~AllSeated
      BY <2>0, <3>1, <3>3 DEF SortInv
    <3>4. QED BY <3>2, <3>3
  <2>5. CASE UNCHANGED vars
    <3>1. UNCHANGED <<phase, seating, loca, rssiLocation, i, k, point>>
      BY <2>5 DEF vars
    <3>2. (VotesLocated' <=> VotesLocated) /\ (Sorting' <=> Sorting) /\ (Sorted' <=> Sorted)
      BY <3>1 DEF VotesLocated, Sorting, Sorted, Seated, seating
    <3>3. QED BY <2>0, <3>1, <3>2 DEF SortInv
  <2>6. QED BY <2>1, <2>2, <2>3, <2>4, <2>5 DEF Next
<1>3. QED BY <1>1, <1>2, ScanInvariant, SeatsHoldRecords, TypesAndPhase, PTL DEF Spec

-----------------------------------------------------------------------------
(* The averaged points. *)

\* A finished estimate averages the first three places of the sorted rows.
LEMMA FirstThree ==
  ASSUME TypeOK, SeatsCount, PointMeansFilled, SortInv, phase = "done", point # <<>>
  PROVE  /\ AllSeated /\ VotesLocated /\ Sorted
         /\ 1..3 \subseteq Seat
         /\ Averaged = {rssiLocation[a] : a \in 1..3}
<1>1. 1..3 \subseteq Seat /\ 1 \in Seat /\ Seats \in Nat /\ Seat \subseteq 1..Seats
  BY SizeAssumption DEF Seat
<1>2. table \in Seq(Records)
  BY DEF TypeOK
<1>3. Cardinality(Near) \in Nat
  BY <1>2, NearFinite
<1>4. Filled(1)
  BY DEF PointMeansFilled
<1>5. Cardinality(Near) >= Seats + 1 - 1
  BY <1>1, <1>4 DEF SeatsCount
<1>6. AllSeated
  <2> SUFFICES ASSUME NEW s \in Seat PROVE Filled(s)
    BY DEF AllSeated
  <2>1. Cardinality(Near) >= Seats + 1 - s
    BY <1>1, <1>3, <1>5
  <2>2. QED BY <2>1 DEF SeatsCount
<1>7. VotesLocated /\ Sorted /\ point = [n \in 1..3 |-> rssiLocation[n]]
  BY <1>6 DEF SortInv
<1>8. Averaged = {rssiLocation[a] : a \in 1..3}
  BY <1>7 DEF Averaged
<1>9. QED BY <1>1, <1>6, <1>7, <1>8

\* A set of three different elements.
LEMMA ThreeElements ==
  ASSUME NEW x, NEW y, NEW z, x # y, x # z, y # z
  PROVE  Cardinality({x, y, z}) = 3
<1>1. IsFiniteSet({x}) /\ Cardinality({x}) = 1
  BY FS_Singleton
<1>2. IsFiniteSet({x} \union {y}) /\ Cardinality({x} \union {y}) = 2
  BY <1>1, FS_AddElement
<1>3. Cardinality(({x} \union {y}) \union {z}) = 3
  BY <1>2, FS_AddElement
<1>4. ({x} \union {y}) \union {z} = {x, y, z}
  OBVIOUS
<1>5. QED BY <1>3, <1>4

LEMMA VotesInTable == \A n, seated : VotesOf(n, seated) = VotesIn(table, n, seated)
BY DEF VotesOf, VotesIn

\* The three averaged points are different records, each with at least as many votes
\* as any seated record that is left out.
THEOREM BestAveraged == Spec => []BestVotesAveraged
<1>1. TypeOK /\ SeatsCount /\ PointMeansFilled /\ SortInv => BestVotesAveraged
  <2> SUFFICES ASSUME TypeOK, SeatsCount, PointMeansFilled, SortInv, phase = "done", point # <<>>
               PROVE  /\ Cardinality(Averaged) = 3 /\ Averaged \subseteq Seated
                      /\ \A n \in Averaged, m \in Seated \ Averaged :
                           VotesOf(n, Seated) >= VotesOf(m, Seated)
    BY DEF BestVotesAveraged
  <2>1. VotesLocated /\ Sorted /\ 1..3 \subseteq Seat /\ Averaged = {rssiLocation[a] : a \in 1..3}
    BY FirstThree
  <2>2. Averaged \subseteq Seated
    BY <2>1 DEF VotesLocated
  <2>3. Cardinality(Averaged) = 3
    <3>1. Averaged = {rssiLocation[1], rssiLocation[2], rssiLocation[3]}
      BY <2>1
    <3>2. /\ rssiLocation[1] # rssiLocation[2] /\ rssiLocation[1] # rssiLocation[3]
          /\ rssiLocation[2] # rssiLocation[3]
      BY <2>1 DEF VotesLocated
    <3>3. QED BY <3>1, <3>2, ThreeElements
  <2>4. ASSUME NEW n \in Averaged, NEW m \in Seated \ Averaged
        PROVE  VotesOf(n, Seated) >= VotesOf(m, Seated)
    <3>1. PICK a \in 1..3 : n = rssiLocation[a]
      BY <2>1
    <3>2. PICK b \in Seat : m = rssiLocation[b]
      BY <2>1 DEF VotesLocated
    <3>3. a \in Seat /\ b \notin 1..3
      BY <2>1, <3>2
    <3>4. a < b
      BY <3>1, <3>3, SizeAssumption DEF Seat
    <3>5. loca[b] <= loca[a] /\ loca[a] \in Nat /\ loca[b] \in Nat
      BY <2>1, <3>3, <3>4 DEF Sorted, TypeOK
    <3>6. loca[a] = VotesOf(n, Seated) /\ loca[b] = VotesOf(m, Seated)
      BY <2>1, <3>1, <3>2, <3>3, VotesInTable DEF VotesLocated
    <3>7. QED BY <3>5, <3>6
  <2>5. QED BY <2>2, <2>3, <2>4
<1>2. QED BY <1>1, TypesAndPhase, SeatsFill, VotesSorted, PTL

\* A record at least as near as another for every beacon has at least as many votes:
\* whatever is no nearer than the other is no nearer than it, and it gains the other
\* where it loses itself.
LEMMA DominantVotes ==
  ASSUME table \in Seq(Records), Seated \subseteq DOMAIN table,
         NEW m \in Seated, NEW n \in Seated,
         \A c \in Column : table[m].columns[c] <= table[n].columns[c]
  PROVE  /\ VotesOf(m, Seated) \in Nat /\ VotesOf(n, Seated) \in Nat
         /\ VotesOf(n, Seated) <= VotesOf(m, Seated)
<1> DEFINE NoNearer(x, c) == {p \in Seated \ {x} : table[x].columns[c] <= table[p].columns[c]}
           Won(x) == {c \in Column : Cardinality(NoNearer(x, c)) >= 2}
<1>1. IsFiniteSet(Seated)
  <2>1. DOMAIN table = 1..Len(table) /\ Len(table) \in Nat
    OBVIOUS
  <2>2. IsFiniteSet(DOMAIN table)
    BY <2>1, FS_Interval
  <2>3. QED BY <2>2, FS_Subset
<1>2. ASSUME NEW x \in Seated, NEW c \in Column PROVE table[x].columns[c] \in Nat
  <2>1. table[x] \in Records
    OBVIOUS
  <2>2. QED BY <2>1, RecordType
<1>3. ASSUME NEW x \in Seated, NEW c \in Column
      PROVE  IsFiniteSet(NoNearer(x, c)) /\ Cardinality(NoNearer(x, c)) \in Nat
  <2>1. NoNearer(x, c) \subseteq Seated
    OBVIOUS
  <2>2. QED BY <1>1, <2>1, FS_Subset, FS_CardinalityType
<1> HIDE DEF NoNearer
<1>4. ASSUME NEW c \in Column
      PROVE  Cardinality(NoNearer(n, c)) <= Cardinality(NoNearer(m, c))
  <2> DEFINE rest == NoNearer(n, c) \ {m}
  <2>0. /\ IsFiniteSet(NoNearer(n, c)) /\ Cardinality(NoNearer(n, c)) \in Nat
        /\ IsFiniteSet(NoNearer(m, c)) /\ Cardinality(NoNearer(m, c)) \in Nat
    BY <1>3
  <2>1. CASE m = n
    BY <2>0, <2>1
  <2>2. CASE m # n
    <3>1. rest \union {n} \subseteq NoNearer(m, c)
      <4>1. n \in NoNearer(m, c)
        BY <2>2 DEF NoNearer
      <4>2. ASSUME NEW p \in rest PROVE p \in NoNearer(m, c)
        <5>1. p \in Seated /\ p # m /\ table[n].columns[c] <= table[p].columns[c]
          BY DEF NoNearer
        <5>2. table[m].columns[c] <= table[p].columns[c]
          BY <1>2, <5>1
        <5>3. QED BY <5>1, <5>2 DEF NoNearer
      <4>3. QED BY <4>1, <4>2
    <3>2. IsFiniteSet(rest) /\ Cardinality(rest) + 1 >= Cardinality(NoNearer(n, c))
          /\ Cardinality(rest) \in Nat
      <4>1. IsFiniteSet(rest)
            /\ Cardinality(rest) = IF m \in NoNearer(n, c) THEN Cardinality(NoNearer(n, c)) - 1
                                  ELSE Cardinality(NoNearer(n, c))
        BY <2>0, FS_RemoveElement
      <4>2. Cardinality(rest) \in Nat
        BY <4>1, FS_CardinalityType
      <4> HIDE DEF rest
      <4>3. QED BY <2>0, <4>1, <4>2
    <3>3. Cardinality(rest \union {n}) = Cardinality(rest) + 1
      <4>1. n \notin rest
        BY DEF NoNearer
      <4>2. QED BY <3>2, <4>1, FS_AddElement
    <3>4. Cardinality(rest \union {n}) <= Cardinality(NoNearer(m, c))
      BY <2>0, <3>1, FS_Subset
    <3>5. QED BY <2>0, <3>2, <3>3, <3>4
  <2>3. QED BY <2>1, <2>2
<1>5. Won(n) \subseteq Won(m)
  <2> SUFFICES ASSUME NEW c \in Column, Cardinality(NoNearer(n, c)) >= 2
               PROVE  Cardinality(NoNearer(m, c)) >= 2
    OBVIOUS
  <2>1. Cardinality(NoNearer(n, c)) \in Nat /\ Cardinality(NoNearer(m, c)) \in Nat
    BY <1>3
  <2>2. Cardinality(NoNearer(n, c)) <= Cardinality(NoNearer(m, c))
    BY <1>4
  <2>3. QED BY <2>1, <2>2
<1>6. IsFiniteSet(Won(m)) /\ IsFiniteSet(Won(n))
  <2>1. IsFiniteSet(Column)
    BY SizeAssumption, FS_Interval DEF Column
  <2>2. Won(m) \subseteq Column /\ Won(n) \subseteq Column
    OBVIOUS
  <2>3. QED BY <2>1, <2>2, FS_Subset
<1>7. VotesOf(m, Seated) = Cardinality(Won(m)) /\ VotesOf(n, Seated) = Cardinality(Won(n))
  BY DEF VotesOf, NoNearer
<1> HIDE DEF Won
<1>8. QED BY <1>5, <1>6, <1>7, FS_Subset, FS_CardinalityType

\* A record that dominates an averaged one is left out only with the same number of
\* votes.
THEOREM DominanceKept == Spec => []DominanceRespected
<1>1. /\ TypeOK /\ SeatsAgree /\ SeatsCount /\ PointMeansFilled /\ SortInv /\ BestVotesAveraged
      => DominanceRespected
  <2> SUFFICES ASSUME TypeOK, SeatsAgree, SeatsCount, PointMeansFilled, SortInv, BestVotesAveraged,
                      phase = "done", point # <<>>,
                      NEW n \in Averaged, NEW m \in Seated \ Averaged,
                      \A c \in Column : table[m].columns[c] <= table[n].columns[c]
               PROVE  VotesOf(m, Seated) = VotesOf(n, Seated)
    BY DEF DominanceRespected
  <2>1. n \in Seated /\ VotesOf(n, Seated) >= VotesOf(m, Seated)
    BY DEF BestVotesAveraged
  <2>2. AllSeated
    BY FirstThree
  <2>3. Seated \subseteq DOMAIN table /\ table \in Seq(Records)
    BY <2>2 DEF AllSeated, SeatsAgree, Seated, TypeOK
  <2>4. /\ VotesOf(m, Seated) \in Nat /\ VotesOf(n, Seated) \in Nat
        /\ VotesOf(n, Seated) <= VotesOf(m, Seated)
    BY <2>1, <2>3, DominantVotes
  <2>5. QED BY <2>1, <2>4
<1>2. QED BY <1>1, TypesAndPhase, SeatsHoldRecords, SeatsFill, VotesSorted, BestAveraged, PTL

=============================================================================
