----------------------------- MODULE MCSamples ------------------------------
(* Finite instances of Samples for TLC: stations are model values.         *)
EXTENDS Samples
=============================================================================
