------------------------------ MODULE MCQueries ------------------------------
(* Finite instances of Queries for TLC.  A scenario asks one kind of       *)
(* question and bounds what the others do, so that the questions add up    *)
(* instead of multiplying.                                                 *)
EXTENDS Queries

CONSTANTS b1, b2, v1, v2

Board(b, v, retention) == [id |-> b, venue |-> v, retention |-> retention, interval |-> 1]
One == {Board(b1, v1, 4)}

Budget(reports, ticks, cleanups, edits, faults) ==
    [reports |-> reports, ticks |-> ticks, cleanups |-> cleanups, edits |-> edits, faults |-> faults]

Summary0(kind, till, lookback) ==
    [kind |-> kind, token |-> TRUE, valid |-> TRUE, other |-> FALSE, serial |-> 1,
     till |-> <<till>>, lookback |-> <<lookback>>]
Windows0(kind) == {Summary0(kind, t, 1) : t \in {3, 4}}

TimeLine(from, to, max, latest) ==
    [kind |-> "timeline", board |-> b1, from |-> from, to |-> to, max |-> max, latest |-> latest, watched |-> {1}]

Base(limits) ==
    [clock |-> 1, boards |-> One, ordered |-> TRUE, serials |-> {1}, links |-> {}, contents |-> {}, traffic |-> {},
     types |-> {}, edits |-> {}, requests |-> {}, timelines |-> {}, budget |-> limits]

Content(memory, radios, links) == [memory |-> memory, radios |-> radios, links |-> links]
NoMemory == [free |-> NoValue, total |-> NoValue]
Memory(f, t) == Content([free |-> f, total |-> t], <<>>, <<>>)
Radios(s) == Content(NoMemory, s, <<>>)
Radio(b, t) == [band |-> b, temp |-> t]
Seen(s) == Content(NoMemory, <<>>, s)
Link(mac, form, rssi) == [station |-> [mac |-> mac, form |-> form], key |-> 1, rssi |-> rssi, rx |-> NoValue, tx |-> NoValue]

Both == {"rx", "tx"}

MCScenarios ==
    { \* requests that are refused, or whose router has no board or two
     [Base(Budget(0, 1, 0, 1, 1)) EXCEPT
        !.clock = 4,
        !.boards = {Board(b1, v1, 4), Board(b2, v2, 0)},
        !.edits = {{}, {Board(b1, v1, 4), Board(b2, v1, 4)}, {Board(b1, v1, 1)}},
        !.requests = {[kind |-> k, token |-> tok, valid |-> ok, other |-> o, serial |-> 1, till |-> t, lookback |-> l] :
                        k \in {"memory"}, tok \in BOOLEAN, ok \in BOOLEAN, o \in BOOLEAN,
                        t \in {<<>>, <<3>>, <<3, 3>>, <<NoValue>>, <<5>>, <<6>>},
                        l \in {<<>>, <<1>>, <<0>>, <<2>>, <<3>>, <<1, 1>>, <<NoValue>>}}],
     \* memory, with ids in any order and another device
     [Base(Budget(3, 2, 0, 0, 1)) EXCEPT
        !.clock = 2, !.ordered = FALSE,
        !.contents = {Memory(1, NoValue), Memory(2, 5), Memory(3, 2)},
        !.requests = Windows0("memory")],
     [Base(Budget(3, 2, 0, 0, 0)) EXCEPT
        !.clock = 2,
        !.contents = {Radios(<<Radio(2, 20), Radio(5, 125)>>), Radios(<<Radio(2, -41), Radio(5, -40)>>),
                      Radios(<<Radio(2, 30), Radio(2, NoValue), Radio(6, 50)>>), Radios(NoValue)},
        !.requests = Windows0("temperature")],
     [Base(Budget(3, 2, 0, 0, 0)) EXCEPT
        !.clock = 2,
        !.contents = {Seen(<<Link(1, "colon", -55), Link(2, "dot", -56)>>), Seen(<<Link(1, "dash", -75), Link(3, "plain", -127)>>),
                      Seen(<<Link(1, "plain", -67), Link(2, "bad", -1), Link(2, "colon", 0)>>), Seen(NoValue)},
        !.requests = Windows0("rssi")],
     [Base(Budget(3, 2, 0, 0, 1)) EXCEPT
        !.clock = 2, !.serials = {1, 2}, !.types = {"offline", "online"},
        !.requests = Windows0("availability")],
     \* a counter that is reset or left out, and rows of one time
     [Base(Budget(4, 2, 0, 0, 0)) EXCEPT
        !.links = {<<1, 1>>},
        !.traffic = {<<<<1, 1>>, r, n, Both>> : r \in BOOLEAN, n \in {0, 2}} \cup {<<<<1, 1>>, FALSE, 2, {"tx"}>>},
        !.requests = {Summary0("bandwidth", 3, 1)}],
     \* two clients, one on two links, and the cleanup
     [Base(Budget(3, 4, 1, 0, 0)) EXCEPT
        !.links = {<<1, 1>>, <<1, 2>>, <<2, 1>>},
        !.traffic = {<<<<1, 1>>, FALSE, 1, Both>>, <<<<1, 2>>, FALSE, 2, Both>>, <<<<2, 1>>, TRUE, 2, Both>>},
        !.requests = Windows0("bandwidth")],
     \* windows at the edge of the retention
     [Base(Budget(3, 5, 1, 1, 0)) EXCEPT
        !.contents = {Memory(1, NoValue)}, !.boards = {Board(b1, v1, 2)}, !.edits = {{Board(b1, v1, 4)}},
        !.requests = {Summary0("memory", t, 1) : t \in 2..6}],
     \* time lines of two devices
     [Base(Budget(4, 3, 0, 0, 0)) EXCEPT
        !.serials = {1, 2}, !.contents = {Memory(NoValue, 1)},
        !.timelines = {TimeLine(0, 0, 4, FALSE), TimeLine(1, 3, 3, FALSE), TimeLine(2, 0, 4, TRUE)}]}
=============================================================================
