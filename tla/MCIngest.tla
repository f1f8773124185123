------------------------------ MODULE MCIngest ------------------------------
(* Finite instances of Ingest for TLC.                                     *)
EXTENDS Ingest, TLC

\* Watchers and serial numbers are interchangeable in the safety run.
Symmetry == Permutations(Watchers) \cup Permutations(Serials)
=============================================================================
