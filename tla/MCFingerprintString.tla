------------------------- MODULE MCFingerprintString -------------------------
(***************************************************************************)
(* FingerprintString with the smallest and the largest major of five       *)
(* digits, one of three, the extreme averages and one in between.          *)
(***************************************************************************)
EXTENDS FingerprintString

MCAverages == {-99, -57, -10}
MCRanged == {-95, -42}

=============================================================================
