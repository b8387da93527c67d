------------------------ MODULE MCLocationController ------------------------
(***************************************************************************)
(* Small instances of LocationController.                                  *)
(***************************************************************************)
EXTENDS LocationController

CONSTANTS a, b, c, hall, lab

At(m, r) == [major |-> m, rssi |-> r]

CollectReadings == {0, -10, -11, -99}
RoomReadings == {0, -10, -20}

\* Batches for the collecting runs: two orders, a beacon too many, a beacon
\* missing, a beacon unmeasured, and too few beacons.
CollectBatches ==
  {<<At(a, -10), At(b, -99)>>,
   <<At(b, -10), At(a, -11)>>,
   <<At(c, -99), At(a, -99), At(b, -10)>>,
   <<At(a, -10), At(b, 0)>>,
   <<At(a, 0), At(c, -11), At(b, -99)>>,
   <<At(c, -10)>>}

\* Batches for the room runs: either room has the strongest beacon, or none is
\* measured.
RoomBatches == {<<At(a, -20)>>, <<At(a, -20), At(b, -10)>>, <<At(a, 0)>>}

NoRooms == [m \in Majors |-> NoRoom]
TwoRooms == [m \in Majors |-> IF m = a THEN hall ELSE lab]

=============================================================================
