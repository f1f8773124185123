------------------------------ MODULE EventLog ------------------------------
(***************************************************************************)
(* What the device_availability_events table promises to its readers, with *)
(* no word of topics, offsets, threads or memory: it is a log.  An event   *)
(* enters it only after the gateway has announced it, with the outage it   *)
(* was announced for, at most once per idempotency key, and it never       *)
(* changes or leaves.                                                      *)
(***************************************************************************)
EXTENDS Sequences, Functions

CONSTANT Events  \* records with a key

VARIABLES
    announced,   \* the events the gateway has announced
    log          \* the events the table holds, in order of insertion

vars == <<announced, log>>

Init == announced = {} /\ log = <<>>

Announce ==
    /\ \E e \in announced' : e \in Events /\ announced' = announced \cup {e}
    /\ UNCHANGED log

Record ==
    /\ \E e \in announced :
          /\ \A r \in Range(log) : r.key # e.key
          /\ log' = Append(log, e)
    /\ UNCHANGED announced

Next == Announce \/ Record

Spec == Init /\ [][Next]_vars
=============================================================================
