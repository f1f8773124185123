--------------------------- MODULE MCHousekeeping ---------------------------
(* Finite instances of Retention and ClientCache for TLC.  A scenario      *)
(* starts with some tables and lets the others act a few times, so that    *)
(* the workloads of the two tables add up instead of multiplying.          *)
EXTENDS ClientCache, TLC

\* Three-digit binary ids.
MCClients == {<<0, 0, 1>>, <<1, 1, 0>>, <<1, 0, 0>>}

\* Retentions of a board's venues: none kept, several venues, and one longer
\* than the clock can reach.
MCVenueLists == {{0}, {0, 1}, {9}}

Budget(ticks, edits, inserts, reports, purges, faults, restarts) ==
    [ticks |-> ticks, edits |-> edits, inserts |-> inserts, reports |-> reports,
     purges |-> purges, faults |-> faults, restarts |-> restarts]

Same(R) == [b \in Boards |-> R]
Filled(s, T) == [tab \in Tables |-> [b \in Boards |-> IF b \in ToSet(s) THEN T ELSE {}]]
Table == SetToSeq(Boards)

Start(at, s, R, T, b) ==
    [clock |-> at, order |-> s, rets |-> Same(R), rows |-> Filled(s, T), budget |-> b]

MCScenarios ==
    \* old and new rows in every board, which come and go or change
    {Start(3, Tail(Table), {0, 1}, {1, 3}, Budget(0, 2, 0, 0, 0, 0, 0))}
    \cup {Start(3, Table, R, {1, 3}, Budget(0, 1, 0, 0, 0, 0, 0)) : R \in {{0, 1}, {9}, {0}}}
    \* failing statements, restarts, time and new rows
    \cup {Start(2, Table, {0, 1}, {1}, b) :
            b \in {Budget(1, 0, 0, 0, 0, 1, 1), Budget(1, 0, 1, 0, 0, 0, 0)}}
    \* clients only
    \cup {Start(1, <<>>, {0}, {}, b) :
            b \in {Budget(0, 0, 0, 3, 0, 0, 0), Budget(1, 0, 0, 1, 1, 1, 0),
                   Budget(2, 0, 0, 2, 0, 0, 0), Budget(0, 0, 0, 2, 0, 0, 1)}}
=============================================================================
