--------------------------- MODULE FingerprintString ---------------------------
(***************************************************************************)
(* A fingerprint as it is stored: text that didRangeBeacons writes, one    *)
(* "major:average," per beacon (LocationViewController.m:511-519), and that*)
(* getPoint cuts by fixed widths (:1059-1083).  An action is one iteration *)
(* of a loop of that code.  A substring beyond the end of the text raises  *)
(* an exception that nobody catches.                                       *)
(*                                                                         *)
(* Texts are sequences of characters, since what may go wrong is where     *)
(* they are cut.  FingerprintMatch goes on from the differences read here. *)
(***************************************************************************)
EXTENDS Integers, Sequences, SequencesExt

CONSTANTS
  Majors,        \* majors of beacons: 16 bits
  Averages,      \* averages that are pushed: LocationController!PushedReadable
  Ranged,        \* rssi of the beacons ranged when the fingerprint is read
  Proofreading,  \* RssiProofreading
  Columns,       \* length of flagLong: 4 in the code
  MaxSlots       \* bound: beacons in a fingerprint

ASSUME StringAssumption ==
  /\ Majors \subseteq Nat /\ \A m \in Majors : m < 65536
  /\ Averages \subseteq -99..-10
  /\ Ranged \subseteq Int /\ Proofreading \in Int
  /\ Columns \in Nat /\ MaxSlots \in Nat

VARIABLES
  stored,    \* the beacons of the fingerprint, with their averages
  batch,     \* the ranged beacons: beaconArray
  phase,     \* "write", "read", "match", "done", or "raised" for the exception
  i,         \* loop variable of the writer, then of the loop over the batch
  text,      \* pushString, then rssiString: what is left to read
  major,     \* the text cut for the major
  rssiInt,   \* the average that was read
  flagLong,  \* difference per ranged beacon
  rssiAbs    \* sum of the differences

vars == <<stored, batch, phase, i, text, major, rssiInt, flagLong, rssiAbs>>

\* Sequences of at most n beacons with different majors.
Beacons(n, values) ==
  {s \in BoundedSeq([major : Majors, rssi : values], n) :
     \A j, k \in DOMAIN s : s[j].major = s[k].major => j = k}

-----------------------------------------------------------------------------
(* The writer *)

Digit == <<"0", "1", "2", "3", "4", "5", "6", "7", "8", "9">>
Power == <<1, 10, 100, 1000, 10000, 100000>>

Width(n) == CHOOSE w \in 1..5 : n < Power[w + 1] /\ (w = 1 \/ n >= Power[w])

\* %ld of a number of at most five digits.
Decimal(n) ==
  LET size == IF n < 0 THEN -n ELSE n
      width == Width(size)
      digits == [d \in 1..width |-> Digit[((size \div Power[width - d + 1]) % 10) + 1]]
  IN  IF n < 0 THEN <<"-">> \o digits ELSE digits

\* "%ld:%ld,"
SlotText(slot) == Decimal(slot.major) \o <<":">> \o Decimal(slot.rssi) \o <<",">>

WriteSlot ==
  /\ phase = "write" /\ i <= Len(stored)
  /\ text' = text \o SlotText(stored[i])
  /\ i' = i + 1
  /\ UNCHANGED <<stored, batch, phase, major, rssiInt, flagLong, rssiAbs>>

\* The text is stored, and later read for the batch.
EndWrite ==
  /\ phase = "write" /\ i > Len(stored)
  /\ phase' = "read"
  /\ UNCHANGED <<stored, batch, i, text, major, rssiInt, flagLong, rssiAbs>>

-----------------------------------------------------------------------------
(* The reader *)

\* longLongValue: a sign and the digits up to the first character that is none.
Number(t) ==
  LET negative == t # <<>> /\ t[1] = "-"
      digits == IF negative THEN Tail(t) ELSE t
      width == CHOOSE w \in 0..Len(digits) :
                 /\ \A d \in 1..w : digits[d] \in ToSet(Digit)
                 /\ w < Len(digits) => digits[w + 1] \notin ToSet(Digit)
      value[w \in 0..width] ==
        IF w = 0 THEN 0 ELSE 10 * value[w - 1] + (CHOOSE v \in 0..9 : Digit[v + 1] = digits[w])
  IN  IF negative THEN -value[width] ELSE value[width]

\* Mutant: the reading is cut one character short.
ReadingTextShort(t) == SubSeq(t, 7, 8)

MajorText(t) == SubSeq(t, 1, 5)
ReadingText(t) == SubSeq(t, 7, 9)

\* Mutant: the sign of the difference is kept.
DifferenceSigned(read, rssi) == read - rssi - Proofreading

\* labs(rssiInt - ble.rssi - RssiProofreading)
Difference(read, rssi) ==
  LET d == read - rssi - Proofreading IN IF d < 0 THEN -d ELSE d

CutSlot ==
  /\ phase = "read" /\ text # <<>>
  /\ IF Len(text) < 10
     THEN phase' = "raised" /\ UNCHANGED <<i, text, major, rssiInt>>
     ELSE /\ major' = MajorText(text)
          /\ rssiInt' = Number(ReadingText(text))
          /\ text' = SubSeq(text, 11, Len(text))
          /\ phase' = "match" /\ i' = 1
  /\ UNCHANGED <<stored, batch, flagLong, rssiAbs>>

\* The ranged beacon whose major reads like the one that was cut.
MatchBeacon ==
  /\ phase = "match" /\ i <= Len(batch)
  /\ IF Decimal(batch[i].major) = major
     THEN LET d == Difference(rssiInt, batch[i].rssi) IN
          flagLong' = [flagLong EXCEPT ![i] = d] /\ rssiAbs' = rssiAbs + d
     ELSE UNCHANGED <<flagLong, rssiAbs>>
  /\ i' = i + 1
  /\ UNCHANGED <<stored, batch, phase, text, major, rssiInt>>

EndMatch ==
  /\ phase = "match" /\ i > Len(batch)
  /\ phase' = "read"
  /\ UNCHANGED <<stored, batch, i, text, major, rssiInt, flagLong, rssiAbs>>

EndRead ==
  /\ phase = "read" /\ text = <<>>
  /\ phase' = "done"
  /\ UNCHANGED <<stored, batch, i, text, major, rssiInt, flagLong, rssiAbs>>

\* flagLong has four entries whatever the batch holds: longer batches, which
\* write past them, are left out.
Init ==
  /\ stored \in Beacons(MaxSlots, Averages)
  /\ batch \in Beacons(Columns, Ranged)
  /\ phase = "write" /\ i = 1 /\ text = <<>>
  /\ major = <<>> /\ rssiInt = 0
  /\ flagLong = [j \in 1..Columns |-> 0] /\ rssiAbs = 0

Next == WriteSlot \/ EndWrite \/ CutSlot \/ MatchBeacon \/ EndMatch \/ EndRead

Spec == Init /\ [][Next]_vars

-----------------------------------------------------------------------------
(* Properties *)

Character == ToSet(Digit) \cup {"-", ":", ","}

TypeOK ==
  /\ stored \in Beacons(MaxSlots, Averages) /\ batch \in Beacons(Columns, Ranged)
  /\ phase \in {"write", "read", "match", "done", "raised"}
  /\ i \in Nat \ {0}
  /\ text \in Seq(Character) /\ major \in Seq(Character) /\ rssiInt \in Int
  /\ flagLong \in [1..Columns -> Nat] /\ rssiAbs \in Nat

FiveDigits == \A n \in DOMAIN stored : Width(stored[n].major) = 5

\* What the stored fingerprint says of a ranged beacon: 0, as if it matched, when
\* it has no slot.
Expected(j) ==
  IF j \in DOMAIN batch /\ \E n \in DOMAIN stored : stored[n].major = batch[j].major
  THEN Difference(stored[CHOOSE n \in DOMAIN stored : stored[n].major = batch[j].major].rssi,
                  batch[j].rssi)
  ELSE 0

Total(f) ==
  LET sum[n \in 0..Columns] == IF n = 0 THEN 0 ELSE sum[n - 1] + f[n] IN sum[Columns]

\* With majors of five digits the fixed widths of the reader fit what the writer
\* wrote, whichever beacons the fingerprint and the batch have in common and in
\* whatever order: nothing is cut in the wrong place and no exception is raised.
\* One shorter major in the fingerprint is enough to lose this.
RoundTrip ==
  FiveDigits =>
    /\ phase # "raised"
    /\ phase = "done" =>
         /\ \A j \in DOMAIN flagLong : flagLong[j] = Expected(j)
         /\ rssiAbs = Total(flagLong)

=============================================================================
