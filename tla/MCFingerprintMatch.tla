-------------------------- MODULE MCFingerprintMatch --------------------------
(***************************************************************************)
(* FingerprintMatch with the code's own six seats and four columns.        *)
(***************************************************************************)
EXTENDS FingerprintMatch, Functions

Stored(columns) == [result |-> SumFunction(columns), columns |-> columns]

\* Three different results, so that a replaced record may be nearer than one that
\* stays; a record dominated by another, two that are not; one out of the limit.
StoredRecords ==
  {Stored(<<0, 2, 0, 0>>), Stored(<<1, 0, 2, 1>>), Stored(<<3, 2, 1, 1>>),
   Stored(<<5, 5, 5, 5>>)}

=============================================================================
