--------------------------- MODULE FingerprintMatch ---------------------------
(***************************************************************************)
(* The matching inside getPoint: one pass over the stored fingerprints of  *)
(* the room fills six seats (max1 .. max6), a vote per beacon ranks the    *)
(* seated fingerprints, an exchange sort orders them, and the three first  *)
(* are averaged.  An action is one iteration of a loop of that code.       *)
(*                                                                         *)
(* A stored fingerprint is reduced to what the loops compare: its columns  *)
(* (flagLong, the difference for each ranged beacon) and its result        *)
(* (rssiResult, the sum of the differences divided by the number of stored *)
(* fingerprints, line 1083: the same divisor for every one of them).       *)
(***************************************************************************)
EXTENDS Integers, Sequences, FiniteSets

CONSTANTS
  Seats,      \* max1 .. max6: 6 in the code
  Columns,    \* beacons compared: 4 in the code
  Limit,      \* what an empty seat holds: 100 in the code
  Absent,     \* what the row of an empty seat holds: 1000 in the code
  Records,    \* fingerprints that may be stored, as [result, columns]
  MaxRecords  \* bound: fingerprints stored for the room

Seat == 1..Seats
Column == 1..Columns

ASSUME SizeAssumption ==
  /\ Seats \in Nat /\ Seats >= 4
  /\ Columns \in Nat \ {0}
  /\ Limit \in Nat /\ Absent \in Nat /\ MaxRecords \in Nat

ASSUME RecordAssumption == Records \subseteq [result : Nat, columns : [Column -> Nat]]

VARIABLES
  phase,        \* "scan", "sort", "finish" or "done"
  table,        \* the fingerprints scanned so far, in their order
  max,          \* max1 .. max6
  maxlocation,  \* max1location ..: a position in table, 0 for the empty string
  maxArr,       \* one row of columns per seat, the last seat's row first
  loca,         \* votes per row
  rssiLocation, \* locations in the order of the rows, <<>> before the vote
  i, k,         \* loop variables of the sort
  point         \* the three averaged locations, <<>> for (-1,-1)

seating == <<table, max, maxlocation, maxArr>>
vars == <<phase, seating, loca, rssiLocation, i, k, point>>

-----------------------------------------------------------------------------
(* The scan *)

Filled(s) == max[s] # Limit

\* Mutants: the comparison is the wrong way round, or the guard on the seats
\* behind is forgotten.
AdmitsFarther(s, r) == (max[s] < r.result \/ max[s] = Limit) /\ \A t \in (s + 1)..Seats : Filled(t)
AdmitsAnywhere(s, r) == max[s] > r.result

\* Seat s takes a record that is nearer than its own, once all seats behind it
\* are filled.
Admits(s, r) == max[s] > r.result /\ \A t \in (s + 1)..Seats : Filled(t)

\* The cascade of else-ifs tries max1 first.
Takes(s, r) == Admits(s, r) /\ \A t \in 1..(s - 1) : ~Admits(t, r)

\* Mutant: the rows are numbered like the seats.
RowLikeSeat(s) == s

Row(s) == Seats + 1 - s

Scan(r) ==
  /\ phase = "scan"
  /\ Len(table) < MaxRecords
  /\ table' = Append(table, r)
  /\ \/ \E s \in Seat :
          /\ Takes(s, r)
          /\ max' = [max EXCEPT ![s] = r.result]
          /\ maxlocation' = [maxlocation EXCEPT ![s] = Len(table) + 1]
          /\ maxArr' = [maxArr EXCEPT ![Row(s)] = r.columns]
     \/ /\ \A s \in Seat : ~Admits(s, r)
        /\ UNCHANGED <<max, maxlocation, maxArr>>
  /\ UNCHANGED <<phase, loca, rssiLocation, i, k, point>>
-----------------------------------------------------------------------------
(* The vote *)

\* Mutant: the farther difference wins.
BeatsFarther(row, other, c) == maxArr[row][c] >= maxArr[other][c]

Beats(row, other, c) == maxArr[row][c] <= maxArr[other][c]

\* A row has the vote of a column in which at least two other rows are no nearer.
Votes(row) ==
  Cardinality({c \in Column :
    Cardinality({other \in Seat \ {row} : Beats(row, other, c)}) >= 2})

VoteReady == (Filled(1) \/ Filled(2)) /\ \A s \in 3..Seats : Filled(s)

\* The records are exhausted.
EndScan ==
  /\ phase = "scan"
  /\ IF VoteReady
     THEN /\ phase' = "sort"
          /\ loca' = [row \in Seat |-> Votes(row)]
          /\ rssiLocation' = [row \in Seat |-> maxlocation[Seats + 1 - row]]
     ELSE phase' = "finish" /\ UNCHANGED <<loca, rssiLocation>>
  /\ UNCHANGED <<seating, i, k, point>>
-----------------------------------------------------------------------------
(* The sort and the average *)

Swapped(f) == [f EXCEPT ![i] = f[k], ![k] = f[i]]

\* Mutant: the locations stay where they are.
ExchangeVotesOnly == loca' = Swapped(loca) /\ UNCHANGED rssiLocation

Exchange == loca' = Swapped(loca) /\ rssiLocation' = Swapped(rssiLocation)

\* Mutant: the inner loop runs one too far.
InnerDoneLate == k > Seats

InnerDone == k = Seats

SortStep ==
  /\ phase = "sort"
  /\ IF loca[i] < loca[k] THEN Exchange ELSE UNCHANGED <<loca, rssiLocation>>
  /\ \/ ~InnerDone /\ k' = k + 1 /\ UNCHANGED <<i, phase>>
     \/ InnerDone /\ i < Seats /\ i' = i + 1 /\ k' = i + 1 /\ UNCHANGED phase
     \/ InnerDone /\ i = Seats /\ phase' = "finish" /\ UNCHANGED <<i, k>>
  /\ UNCHANGED <<seating, point>>

Finish ==
  /\ phase = "finish"
  /\ point' = IF \A s \in 1..4 : Filled(s)
              THEN LET first == IF rssiLocation = <<>> THEN maxlocation ELSE rssiLocation
                   IN  [n \in 1..3 |-> first[n]]
              ELSE <<>>
  /\ phase' = "done"
  /\ UNCHANGED <<seating, loca, rssiLocation, i, k>>

Init ==
  /\ phase = "scan"
  /\ table = <<>>
  /\ max = [s \in Seat |-> Limit]
  /\ maxlocation = [s \in Seat |-> 0]
  /\ maxArr = [row \in Seat |-> [c \in Column |-> Absent]]
  /\ loca = [row \in Seat |-> 0]
  /\ rssiLocation = <<>>
  /\ i = 1 /\ k = 1
  /\ point = <<>>

Next == (\E r \in Records : Scan(r)) \/ EndScan \/ SortStep \/ Finish

Spec == Init /\ [][Next]_vars
-----------------------------------------------------------------------------
(* Properties *)

\* Types; the loop variables of the sort stay within the arrays (line 1166).
TypeOK ==
  /\ phase \in {"scan", "sort", "finish", "done"}
  /\ table \in Seq(Records)
  /\ max \in [Seat -> Nat]
  /\ maxlocation \in [Seat -> 0..Len(table)]
  /\ maxArr \in [Seat -> [Column -> Nat]]
  /\ loca \in [Seat -> Nat]
  /\ rssiLocation \in {<<>>} \cup [Seat -> 0..Len(table)]
  /\ i \in Seat /\ k \in Seat
  /\ point \in {<<>>} \cup [1..3 -> 0..Len(table)]

Near == {n \in DOMAIN table : table[n].result < Limit}

\* The six copies of the replacement code (lines 1085-1125) agree: a seat's value,
\* location and row (max1's is the last) are those of one stored record, no record
\* sits twice, and an empty seat has no location.
SeatsAgree ==
  /\ \A s \in Seat :
       IF Filled(s)
       THEN LET n == maxlocation[s] IN
              /\ n \in DOMAIN table
              /\ max[s] = table[n].result
              /\ maxArr[Seats + 1 - s] = table[n].columns
       ELSE maxlocation[s] = 0
  /\ \A s, t \in Seat : s # t /\ Filled(s) => maxlocation[s] # maxlocation[t]

\* A replaced record is thrown away and not moved to the next seat, so the seats do
\* not hold the six nearest records; but a record as near as the nearest is always
\* among them.
NearestKept ==
  \A n \in Near : \E s \in Seat : max[s] <= table[n].result

\* An estimate is made exactly when the room has as many records under the limit as
\* there are seats: every seat, taken in any order of the records, fills before a
\* record is wasted on a filled one (guards of lines 1085-1119, test of line 1182).
EstimateNeedsAllSeats ==
  phase = "done" => (point # <<>> <=> Cardinality(Near) >= Seats)

\* Votes of a seated record, counted from the stored records themselves.
VotesOf(n, seated) ==
  Cardinality({c \in Column :
    Cardinality({m \in seated \ {n} : table[n].columns[c] <= table[m].columns[c]}) >= 2})

Seated == {maxlocation[s] : s \in Seat}
Averaged == {point[n] : n \in DOMAIN point}

\* The three averaged points are different records, each with at least as many votes
\* as any seated record that is left out: the sort keeps votes and locations together.
BestVotesAveraged ==
  phase = "done" /\ point # <<>> =>
    /\ Cardinality(Averaged) = 3 /\ Averaged \subseteq Seated
    /\ \A n \in Averaged, m \in Seated \ Averaged : VotesOf(n, Seated) >= VotesOf(m, Seated)

\* The vote respects dominance: a record that is at least as near as another for every
\* beacon is left out in favour of it only with the same number of votes.
DominanceRespected ==
  phase = "done" /\ point # <<>> =>
    \A n \in Averaged, m \in Seated \ Averaged :
      (\A c \in Column : table[m].columns[c] <= table[n].columns[c])
        => VotesOf(m, Seated) = VotesOf(n, Seated)

=============================================================================
