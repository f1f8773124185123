--------------------------- MODULE MCAvailability ---------------------------
(* Finite instances of Availability for TLC.  A device that has gone away  *)
(* for the last time, with everything handled, is a legal end.             *)
EXTENDS Availability, TLC
=============================================================================
