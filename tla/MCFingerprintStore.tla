--------------------------- MODULE MCFingerprintStore ---------------------------
(***************************************************************************)
(* FingerprintStore with a few phones, locations, rooms and fingerprints.  *)
(***************************************************************************)
EXTENDS FingerprintStore
=============================================================================
