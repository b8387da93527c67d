-------------------------------- MODULE MCQrScan --------------------------------
(***************************************************************************)
(* QrScan for TLC: a code with labels, another one, and a code without.    *)
(***************************************************************************)
EXTENDS QrScan

MCCodes == {"locator", "sniffer", "poster"}
MCKnown == {"locator", "sniffer"}

=============================================================================
