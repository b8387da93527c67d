----------------------------- MODULE FingerprintMap -----------------------------
(***************************************************************************)
(* What pushing a fingerprint promises: the table ibeacon is a map from    *)
(* locations to a room and a fingerprint.  A push sets the fingerprint of  *)
(* its location; the room is that of the first push to the location.       *)
(***************************************************************************)
CONSTANTS Locations, Rooms, Fingerprints, NoEntry

VARIABLE map

Entry == [room : Rooms, rssi : Fingerprints]

Put(l, r, f) ==
  map' = [map EXCEPT ![l] = IF @ = NoEntry THEN [room |-> r, rssi |-> f]
                            ELSE [@ EXCEPT !.rssi = f]]

Init == map = [l \in Locations |-> NoEntry]

Next == \E l \in Locations, r \in Rooms, f \in Fingerprints : Put(l, r, f)

MapSpec == Init /\ [][Next]_map
=============================================================================
