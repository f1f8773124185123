------------------------------ MODULE MCBoards ------------------------------
(* Finite instances of Boards for TLC.                                     *)
EXTENDS Boards, TLC

\* Every device may also be reached through a sub-venue.
SubDevices == [v \in Venues |-> Devices]

\* Boards and handler threads are interchangeable in the safety runs.
Symmetry == Permutations(Boards) \cup Permutations(Handlers)
=============================================================================
