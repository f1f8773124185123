------------------------------- MODULE Queries -------------------------------
(***************************************************************************)
(* The requests that read the history of a device or of a board.  A device *)
(* summary validates its window, asks provisioning for the venue of the    *)
(* router, finds the one board that monitors it, and then reads the time   *)
(* points in one query, or in three for the bandwidth: the window and the  *)
(* rows next to it on both sides.  Meanwhile devices report, the clock     *)
(* advances, boards change and the cleanup deletes what has expired.       *)
(***************************************************************************)
EXTENDS Summaries

CONSTANTS
    Boards, Venues,   \* ids
    Serials,          \* serial numbers, ordered
    Clients,          \* addresses of stations, ordered
    Keys,             \* bssid, ssid and band of a link
    Hour, Skew,       \* an hour and allowed.clock_skew.seconds, on the clock
    MaxLookback,      \* MaxApiLookbackHours
    MaxSamples,       \* mcp.max_samples
    MaxClock,         \* bound: the last value of the clock
    MaxRows,          \* bound: rows ever stored
    Scenarios         \* the requests, and bounds on what the others do

Links == Clients \X Keys
Kinds == {"memory", "temperature", "rssi", "bandwidth", "availability"}
Budgeted == {"reports", "ticks", "cleanups", "edits", "faults"}

BoardRows == [id : Boards, venue : Venues, retention : Nat, interval : Nat]

ASSUME QueriesAssumption ==
    /\ Serials \subseteq Nat /\ Clients \subseteq Nat
    /\ Hour \in Nat \ {0} /\ Skew \in Nat /\ MaxLookback \in Nat /\ MaxSamples \in Nat \ {0}
    /\ MaxClock \in Nat /\ MaxRows \in Nat
    /\ \A s \in Scenarios :
         /\ s.clock \in Nat
         /\ s.boards \in SUBSET BoardRows /\ \A B \in s.edits : B \in SUBSET BoardRows
         /\ \A q \in s.requests : /\ q.till \in Seq({NoValue} \cup Nat)
                                  /\ q.lookback \in Seq({NoValue} \cup Nat)

VARIABLES
    clock,            \* Utils::Now()
    rows,             \* timepoints
    events,           \* device_availability_events
    boards,           \* boards: a set of [id, venue, retention, interval]
    counter,          \* per link: the byte counter of the device
    sent,             \* history: per link, the bytes it has really carried
    trail,            \* history: (time, sent) of every report
    clean,            \* history: no counter was reset or left out, no time repeated
    purged,           \* history: (row, retention) of what the cleanup deleted
    pc, req, window, resolved, records,   \* the request and its locals
    answer,           \* its answer
    scenario, budget  \* what the others may do, and what is left of the bounds

device == <<counter, sent, trail, clean>>
locals == <<pc, req, window, resolved, records>>
vars   == <<clock, rows, events, boards, device, purged, locals, answer, scenario, budget>>

NoAnswer  == [status |-> 0, body |-> NoValue]
Error(s)  == [status |-> s, body |-> NoValue]
Spend(b)  == budget[b] > 0 /\ budget' = [budget EXCEPT ![b] = @ - 1]
Before(a, b) == a.ts < b.ts \/ (a.ts = b.ts /\ a.id < b.id)
Ids == {r.id : r \in rows} \cup {e.id : e \in events} \cup {p[1].id : p \in purged}

Init ==
    /\ scenario \in Scenarios
    /\ budget = scenario.budget
    /\ clock = scenario.clock
    /\ boards = scenario.boards
    /\ rows = {} /\ events = {} /\ purged = {}
    /\ counter = [l \in Links |-> 0] /\ sent = [l \in Links |-> 0]
    /\ trail = {} /\ clean = TRUE
    /\ pc = "idle" /\ req = NoValue /\ window = NoValue /\ resolved = NoValue /\ records = <<>>
    /\ answer = NoAnswer

----------------------------------------------------------------------------
(* The others *)

Tick ==
    /\ Spend("ticks")
    /\ clock < MaxClock
    /\ clock' = clock + 1
    /\ UNCHANGED <<rows, events, boards, device, purged, locals, answer, scenario>>

\* A row with a new uuid, which orders it anywhere among the rows of its time
Row(i, b, s, c) ==
    [id |-> i, board |-> b, serial |-> s, ts |-> clock, memory |-> c.memory, radios |-> c.radios, links |-> c.links]

FreshIds == {i \in 1..MaxRows : i \notin Ids /\ (scenario.ordered => i = Cardinality(Ids) + 1)}

\* A report is stored, with what it says of memory, radios and signals.
ReportStored(i, b, s, c) ==
    /\ Spend("reports")
    /\ i \in FreshIds
    /\ rows' = rows \cup {Row(i, b, s, c)}
    /\ UNCHANGED <<clock, events, boards, device, purged, locals, answer, scenario>>

\* A link carries some bytes, its counter perhaps starting again from zero
\* (a new association); then the device reports the counters of all links,
\* or, of that one, only those the report has.
TrafficStored(i, b, s, l, reset, bytes, has) ==
    LET count == [counter EXCEPT ![l] = (IF reset THEN 0 ELSE @) + bytes]
        total == [sent EXCEPT ![l] = @ + bytes]
        seq   == SetToSortSeq(scenario.links, LAMBDA x, y : x[1] < y[1] \/ (x[1] = y[1] /\ x[2] < y[2]))
        Of(k, c) == IF k # l \/ c \in has THEN count[k] ELSE NoValue
    IN  /\ Spend("reports")
        /\ i \in FreshIds
        /\ counter' = count /\ sent' = total
        /\ trail' = trail \cup {<<clock, total>>}
        /\ clean' = (clean /\ ~reset /\ has = {"rx", "tx"} /\ \A x \in trail : x[1] # clock)
        /\ rows' = rows \cup {Row(i, b, s,
              [memory |-> [free |-> NoValue, total |-> NoValue], radios |-> <<>>,
               links |-> [n \in DOMAIN seq |->
                            [station |-> [mac |-> seq[n][1], form |-> "colon"], key |-> seq[n][2], rssi |-> -50,
                             rx |-> Of(seq[n], "rx"), tx |-> Of(seq[n], "tx")]]])}
        /\ UNCHANGED <<clock, events, boards, purged, locals, answer, scenario>>

EventStored(i, b, s, t) ==
    /\ Spend("reports")
    /\ i \in FreshIds
    /\ events' = events \cup {[id |-> i, board |-> b, serial |-> s, ts |-> clock, type |-> t]}
    /\ UNCHANGED <<clock, rows, boards, device, purged, locals, answer, scenario>>

\* Boards are added, changed and removed.
BoardsEdited(B) ==
    /\ Spend("edits")
    /\ boards' = B
    /\ UNCHANGED <<clock, rows, events, device, purged, locals, answer, scenario>>

\* The statement of Storage::onTimer for one board
Cleanup(b) ==
    LET old == {r \in rows : r.board = b.id /\ r.ts < clock - b.retention}
    IN  /\ Spend("cleanups")
        /\ b.retention # 0 /\ clock > b.retention
        /\ rows' = rows \ old
        /\ purged' = purged \cup {<<r, b.retention>> : r \in old}
        /\ UNCHANGED <<clock, events, boards, device, locals, answer, scenario>>

----------------------------------------------------------------------------
(* The parameters of a device summary: how often each was given and with   *)
(* what value, NoValue for one that does not parse                         *)

\* ValidateWindowQuery: the window asked for, or none
ValidateWindowQuery(q, now) ==
    IF /\ ~q.other
       /\ Len(q.till) = 1 /\ q.till[1] # NoValue
       /\ q.till[1] <= now + Skew
       /\ Len(q.lookback) = 1 /\ q.lookback[1] # NoValue
       /\ q.lookback[1] \in 1..MaxLookback
       /\ q.lookback[1] * Hour <= q.till[1]
    THEN [start |-> q.till[1] - q.lookback[1] * Hour, end |-> q.till[1], hours |-> q.lookback[1]]
    ELSE NoValue

\* Mutant: only the length of the window is compared with the retention.
ValidateRetentionLength(w, retention, now) ==
    w.hours <= retention \div Hour /\ w.end <= now + Skew

ValidateRetention(w, retention, now) ==
    /\ retention \div Hour # 0 /\ w.hours <= retention \div Hour
    /\ w.start >= (IF now > retention THEN now - retention ELSE 0)
    /\ w.end <= now + Skew

EstimateExpectedSampleCount(w, interval) ==
    LET every == IF interval > 0 THEN interval ELSE 60
    IN  (w.end - w.start + every - 1) \div every

\* RouterIdResolver: the status of a failed lookup
ClassifyDeviceFetchResult(outcome) ==
    CASE outcome \in {"404", "403", "401"} -> 404
      [] OTHER -> 502

ResolveBoardForVenue(venue) == {b \in boards : b.venue = venue}

Reply(a) == answer' = a /\ pc' = "done"

\* Mutant: an invalid window is not refused.
AskedUnchecked(q) ==
    /\ pc = "idle" /\ q.token /\ q.valid
    /\ req' = q /\ window' = ValidateWindowQuery(q, clock) /\ pc' = "resolve"
    /\ UNCHANGED <<clock, rows, events, boards, device, purged, resolved, records, answer, scenario, budget>>

\* DoGet of a summary, to the call of provisioning
Asked(q) ==
    /\ pc = "idle"
    /\ req' = q
    /\ window' = ValidateWindowQuery(q, clock)
    /\ \/ ~q.token /\ Reply(Error(401))
       \/ q.token /\ ~q.valid /\ Reply(Error(400))
       \/ q.token /\ q.valid /\ window' = NoValue /\ Reply(Error(400))
       \/ q.token /\ q.valid /\ window' # NoValue /\ pc' = "resolve" /\ UNCHANGED answer
    /\ UNCHANGED <<clock, rows, events, boards, device, purged, resolved, records, scenario, budget>>

\* Provisioning answers: a venue, or a failure.  The board is looked up and
\* the window validated again, against the retention of the board.
Resolved(b) ==
    /\ resolved' = b
    /\ LET ok == /\ b.retention # 0
                 /\ ValidateRetention(window, b.retention, clock)
                 /\ \/ req.kind = "availability"
                    \/ EstimateExpectedSampleCount(window, b.interval) <= MaxSamples
       IN  \/ ok /\ pc' = "select" /\ UNCHANGED answer
           \/ ~ok /\ Reply(Error(IF b.retention = 0 THEN 404 ELSE 400))

Resolve(outcome, venue) ==
    /\ pc = "resolve"
    /\ \/ outcome # "success" /\ Reply(Error(ClassifyDeviceFetchResult(outcome)))
          /\ UNCHANGED <<resolved, budget>>
       \/ outcome = "success" /\ venue = NoValue /\ Reply(Error(404)) /\ UNCHANGED <<resolved, budget>>
       \/ outcome = "success" /\ Spend("faults") /\ Reply(Error(500)) /\ UNCHANGED resolved
       \/ /\ outcome = "success" /\ venue # NoValue
          /\ LET found == ResolveBoardForVenue(venue)
             IN  \/ found = {} /\ Reply(Error(404)) /\ UNCHANGED resolved
                 \/ Cardinality(found) > 1 /\ Reply(Error(409)) /\ UNCHANGED resolved
                 \/ Cardinality(found) = 1 /\ \E b \in found : Resolved(b)
          /\ UNCHANGED budget
    /\ UNCHANGED <<clock, rows, events, boards, device, purged, req, window, records, scenario>>

----------------------------------------------------------------------------
(* The queries *)

\* Mutant: exactly as many rows are asked for as may be used.
LimitAlone(m) == m

LimitWithOverflowSentinel(m) == m + 1

Matching(From(_)) ==
    SetToSortSeq({r \in rows : r.board = resolved.id /\ r.serial = req.serial /\ From(r.ts)}, Before)

Limited(s, n) == SubSeq(s, 1, Min({Len(s), n}))

\* SelectRecordsBySerial: at most one row more than may be used
SelectRecordsBySerial ==
    Limited(Matching(LAMBDA t : InWindow(t, window)), LimitWithOverflowSentinel(MaxSamples))

\* The other queries return one column each.  A column that does not parse
\* is empty here, and keeps the row out of the two after it.
SelectResourceRecordsBySerial == SelectRecordsBySerial
SelectRadioRecordsBySerial == SelectSeq(SelectRecordsBySerial, LAMBDA r : r.radios # NoValue)
SelectSsidRecordsBySerial  == SelectSeq(SelectRecordsBySerial, LAMBDA r : r.links # NoValue)

\* CountOfflineEventsByBoardAndSerial
CountOfflineEvents ==
    LET times == {<<e.ts, e.id>> : e \in {x \in events : /\ x.board = resolved.id /\ x.serial = req.serial
                                                         /\ x.type = "offline" /\ InWindow(x.ts, window)}}
    IN  [count |-> Cardinality(times),
         window |-> IF times = {} THEN NoValue ELSE <<Min({t[1] : t \in times}), Max({t[1] : t \in times})>>]

QueryFails ==
    /\ pc \in {"select", "startBoundary", "endBoundary"}
    /\ Spend("faults")
    /\ Reply(Error(500))
    /\ UNCHANGED <<clock, rows, events, boards, device, purged, req, window, resolved, records, scenario>>

\* The query of the window: refused when it has more rows than may be used
Queried(k) ==
    /\ pc = "select" /\ req.kind = k
    /\ UNCHANGED <<clock, rows, events, boards, device, purged, req, window, resolved, scenario, budget>>

LimitExceeded == Len(SelectRecordsBySerial) > MaxSamples

TooMany(k) == Queried(k) /\ LimitExceeded /\ Reply(Error(400)) /\ UNCHANGED records

MemorySummary ==
    \/ TooMany("memory")
    \/ /\ Queried("memory") /\ ~LimitExceeded
       /\ records' = SelectResourceRecordsBySerial
       /\ Reply([status |-> 200, body |-> CalculateMemorySummary(records')])

RadioTemperatureSummary ==
    \/ TooMany("temperature")
    \/ /\ Queried("temperature") /\ ~LimitExceeded
       /\ records' = SelectRadioRecordsBySerial
       /\ Reply([status |-> 200, body |-> CalculateRadioTemperatureSummary(records', window)])

RssiSummary ==
    \/ TooMany("rssi")
    \/ /\ Queried("rssi") /\ ~LimitExceeded
       /\ records' = SelectSsidRecordsBySerial
       /\ Reply([status |-> 200, body |-> CalculateDeviceRssiQualitySummary(records', window)])

AvailabilitySummary ==
    /\ Queried("availability")
    /\ Reply([status |-> 200, body |-> CountOfflineEvents])
    /\ UNCHANGED records

\* The bandwidth goes on to the rows next to the window.
BandwidthConsumption ==
    \/ TooMany("bandwidth")
    \/ /\ Queried("bandwidth") /\ ~LimitExceeded
       /\ records' = SelectRecordsBySerial
       /\ pc' = "startBoundary" /\ UNCHANGED answer

\* SelectLatestRecordAtOrBeforeBySerial, no older than the retention
StartBoundary ==
    /\ pc = "startBoundary"
    /\ LET oldest == IF clock > resolved.retention THEN clock - resolved.retention ELSE 0
           before == Matching(LAMBDA t : t >= oldest /\ t <= window.start)
       IN  records' = IF before = <<>> THEN records ELSE Append(records, Last(before))
    /\ pc' = "endBoundary"
    /\ UNCHANGED <<clock, rows, events, boards, device, purged, req, window, resolved, answer, scenario, budget>>

\* SelectEarliestRecordAtOrAfterBySerial, and the answer
EndBoundary ==
    /\ pc = "endBoundary"
    /\ LET after == Matching(LAMBDA t : t >= window.end)
       IN  records' = IF after = <<>> THEN records ELSE Append(records, Head(after))
    /\ Reply([status |-> 200, body |-> CalculateBandwidthConsumptionSummary(records', window)])
    /\ UNCHANGED <<clock, rows, events, boards, device, purged, req, window, resolved, scenario, budget>>

----------------------------------------------------------------------------
(* The time line of a board *)

InDates(t, q) == (q.from # 0 => t >= q.from) /\ (q.to # 0 => t <= q.to)

\* TimePointDB::SelectRecords; without dates there is no condition at all.
SelectRecords(q) ==
    Limited(SetToSortSeq({r \in rows : (q.from # 0 \/ q.to # 0 => r.board = q.board) /\ InDates(r.ts, q)},
                         LAMBDA a, b : a.ts < b.ts \/ (a.ts = b.ts /\ (a.serial < b.serial \/ (a.serial = b.serial /\ a.id < b.id)))),
            q.max)

\* GetRecordsPerDevice: the latest row of each device, of those the board
\* monitors now, the newest first
LatestPerDevice(q) ==
    LET of(s) == {r \in rows : r.board = q.board /\ InDates(r.ts, q) /\ r.serial = s}
        per   == SetToSortSeq({s \in Serials : of(s) # {}}, <)
        latest == [n \in DOMAIN per |-> CHOOSE r \in of(per[n]) : \A x \in of(per[n]) : x = r \/ Before(x, r)]
    IN  SortSeq(SelectSeq(Limited(latest, q.max), LAMBDA r : r.serial \in q.watched), LAMBDA a, b : a.ts > b.ts)

TimeLineAsked(q) ==
    /\ pc = "idle"
    /\ req' = q
    /\ IF \E b \in boards : b.id = q.board
       THEN /\ records' = IF q.latest THEN LatestPerDevice(q) ELSE SelectRecords(q)
            /\ Reply([status |-> 200, body |-> NewSort(records')])
       ELSE Reply(Error(404)) /\ UNCHANGED records
    /\ UNCHANGED <<clock, rows, events, boards, device, purged, window, resolved, scenario, budget>>

\* DoDelete: without dates the statement has no condition and fails.
TimeLineDeleted(q) ==
    /\ pc = "idle"
    /\ req' = q
    /\ IF \E b \in boards : b.id = q.board
       THEN /\ rows' = IF q.from = 0 /\ q.to = 0 THEN rows
                       ELSE {r \in rows : ~(r.board = q.board /\ InDates(r.ts, q))}
            /\ Reply([status |-> 200, body |-> NoValue])
       ELSE Reply(Error(404)) /\ UNCHANGED rows
    /\ UNCHANGED <<clock, events, boards, device, purged, window, resolved, records, scenario, budget>>

----------------------------------------------------------------------------
\* The handler object goes.
Finished ==
    /\ pc = "done"
    /\ pc' = "idle" /\ req' = NoValue /\ window' = NoValue /\ resolved' = NoValue /\ records' = <<>>
    /\ answer' = NoAnswer
    /\ UNCHANGED <<clock, rows, events, boards, device, purged, scenario, budget>>

Others ==
    \/ Tick
    \/ \E i \in 1..MaxRows, b \in {x.id : x \in scenario.boards}, s \in scenario.serials :
         \/ \E c \in scenario.contents : ReportStored(i, b, s, c)
         \/ \E x \in scenario.traffic : TrafficStored(i, b, s, x[1], x[2], x[3], x[4])
         \/ \E t \in scenario.types : EventStored(i, b, s, t)
    \/ \E B \in scenario.edits : BoardsEdited(B)
    \/ \E b \in boards : Cleanup(b)

Request ==
    \/ \E q \in scenario.requests : Asked(q)
    \/ \E outcome \in {"success", "invalid", "404", "403", "401", "500"}, v \in Venues \cup {NoValue} : Resolve(outcome, v)
    \/ MemorySummary
    \/ RadioTemperatureSummary
    \/ RssiSummary
    \/ AvailabilitySummary
    \/ BandwidthConsumption
    \/ StartBoundary
    \/ EndBoundary
    \/ QueryFails
    \/ \E q \in scenario.timelines : TimeLineAsked(q) \/ TimeLineDeleted(q)
    \/ Finished

Next == Others \/ Request
Spec == Init /\ [][Next]_vars

----------------------------------------------------------------------------
(* Properties *)

Windows == [start : Nat, end : Nat, hours : Nat]

\* Clock, tables and locals have their types, and at every stage of a
\* request what the next one reads is there.
TypeOK ==
    /\ clock \in Nat
    /\ boards \subseteq BoardRows
    /\ pc \in {"idle", "resolve", "select", "startBoundary", "endBoundary", "done"}
    /\ window \in {NoValue} \cup Windows
    /\ resolved \in {NoValue} \cup BoardRows
    /\ pc \in {"resolve", "select", "startBoundary", "endBoundary"} => window \in Windows
    /\ pc \in {"select", "startBoundary", "endBoundary"} => resolved \in BoardRows
    /\ \A r \in rows : r.ts \in Nat
    /\ \A p \in purged : p[1].ts \in Nat /\ p[2] \in Nat

Answered(k) == pc' = "done" /\ answer'.status = 200 /\ req'.kind = k
WindowRows  == {r \in rows : r.board = resolved.id /\ r.serial = req.serial /\ InWindow(r.ts, window)}

\* The average differs from the mean by at most a half.
Nearest(avg, sum, n) == 2 * avg * n <= 2 * sum + n /\ 2 * avg * n > 2 * sum - n

SumOver(S, Of(_)) == MapThenFoldSet(+, 0, Of, LAMBDA T : CHOOSE x \in T : TRUE, S)

MemoryRight(a) ==
    LET used == {r \in WindowRows : r.memory.free # NoValue /\ (r.memory.total = NoValue \/ r.memory.free <= r.memory.total)}
        free == {r.memory.free : r \in used}
    IN  /\ a.count = Cardinality(used)
        /\ used # {} =>
             /\ a.min = Min(free) /\ a.max = Max(free)
             /\ Nearest(a.avg, SumOver(used, LAMBDA r : r.memory.free), a.count)
             /\ \E r \in used : (\A x \in used : x = r \/ Before(x, r)) /\ a.latest = r.memory.free
             /\ a.from = Min({r.ts : r \in used}) /\ a.to = Max({r.ts : r \in used})

TemperatureRight(a) ==
    \A b \in {2, 5} :
      LET used == {x \in WindowRows \X (1..3) : /\ x[1].radios # NoValue /\ x[2] \in DOMAIN x[1].radios
                                                /\ x[1].radios[x[2]].band = b /\ x[1].radios[x[2]].temp \in -40..125}
          temps == {x[1].radios[x[2]].temp : x \in used}
      IN  /\ a.bands[b].count = Cardinality(used)
          /\ used # {} =>
               /\ a.bands[b].min = Min(temps) /\ a.bands[b].max = Max(temps)
               /\ a.bands[b].sum = SumOver(used, LAMBDA x : x[1].radios[x[2]].temp)
               /\ \E x \in used : /\ a.bands[b].latest = x[1].radios[x[2]].temp
                                  /\ \A y \in used : y[1] = x[1] \/ Before(y[1], x[1])
               /\ \A x \in used : a.window[1] <= x[1].ts /\ x[1].ts <= a.window[2]

RssiRight(a) ==
    LET used == {x \in WindowRows \X (1..3) : /\ x[1].links # NoValue /\ x[2] \in DOMAIN x[1].links
                                              /\ x[1].links[x[2]].station.form # "bad"
                                              /\ x[1].links[x[2]].rssi \in -127..-1}
        Mac(x) == x[1].links[x[2]].station.mac
        macs == {Mac(x) : x \in used}
    IN  /\ a.clients = Cardinality(macs) /\ a.truncated = (a.clients > MaxItems)
        /\ Len(a.items) = Min({MaxItems, a.clients})
        /\ \A n \in DOMAIN a.items :
             LET m == a.items[n].mac IN
             /\ Cardinality({k \in macs : k < m}) = n - 1
             /\ a.items[n].total = Cardinality({x \in used : Mac(x) = m})
             /\ SumOver(Qualities, LAMBDA q : a.items[n].pct[q]) \in 9998..10002
             /\ \A q \in Qualities : (a.items[n].pct[q] = 0) = (\A x \in used : Mac(x) = m => Quality(x[1].links[x[2]].rssi) # q)

AvailabilityRight(a) ==
    a.count = Cardinality({e \in events : /\ e.board = resolved.id /\ e.serial = req.serial /\ e.type = "offline"
                                          /\ window.start <= e.ts /\ e.ts < window.end})

\* A summary that is answered is the one of all rows the table holds of the
\* window, whatever their order, the readings that are left out and the limit
\* on the rows: nothing is cut off silently.
SummaryExact ==
    [][/\ Answered("memory") => MemoryRight(answer'.body)
       /\ Answered("temperature") => TemperatureRight(answer'.body)
       /\ Answered("rssi") => RssiRight(answer'.body)
       /\ Answered("availability") => AvailabilityRight(answer'.body)]_pc

\* What a client's links have carried between the reports of two times
Carried(m, from, to) ==
    SumOver({l \in Links : l[1] = m},
            LAMBDA l : Max({x[2][l] : x \in {y \in trail : y[1] <= to}}) - Min({x[2][l] : x \in {y \in trail : y[1] >= from}}))

\* The bandwidth of a client is never more than it has really transferred
\* between the first and the last record the answer names, however the
\* counters are reset, left out or repeated, and whatever is inserted or
\* deleted between the three queries.
NeverOvercounts ==
    [][Answered("bandwidth") =>
         LET a == answer'.body IN
         \A n \in DOMAIN a.items :
           LET i == a.items[n] IN
           /\ a.window = NoValue => i.rx = 0 /\ i.tx = 0
           /\ a.window # NoValue => \A c \in {"rx", "tx"} : i[c] <= Carried(i.mac, a.window[1], a.window[2])]_pc

\* As long as no counter was reset or left out and no two reports have the
\* same time, it is exactly that, for every client seen in the window.
CleanIsExact ==
    [][Answered("bandwidth") /\ clean =>
         LET a == answer'.body
             seen == {l[1] : l \in UNION {{<<x.station.mac>> : x \in ToSet(r.links)} :
                                          r \in {y \in ToSet(records) : InWindow(y.ts, window)}}}
         IN  /\ a.clients = Cardinality(seen)
             /\ \A n \in DOMAIN a.items :
                  /\ a.items[n].mac \in seen
                  /\ a.window # NoValue =>
                       a.items[n].rx = Min({MaxCounter, Carried(a.items[n].mac, a.window[1], a.window[2])})]_pc

\* When a window is accepted the cleanup has not yet deleted a row of it,
\* unless the board kept its rows for a shorter time then: the limits that
\* the two put on the age of a row agree.
AcceptedWindowIsKept ==
    [][pc = "resolve" /\ pc' = "select" =>
         \A p \in purged : p[1].board = resolved'.id /\ p[2] >= resolved'.retention => ~InWindow(p[1].ts, window)]_pc

\* The slots of a time line: no point is in two of them; a slot has at most
\* one point of a device, unless the device reported twice at one time; and
\* the points of one device alone are all there.
SlotsSound ==
    [][pc' = "done" /\ answer'.status = 200 /\ req'.kind = "timeline" /\ answer'.body # NoValue =>
         LET sp == answer'.body
             points == ToSet(records')
         IN  /\ \A i, j \in DOMAIN sp : i # j => ToSet(sp[i]) \cap ToSet(sp[j]) = {}
             /\ UNION {ToSet(sp[i]) : i \in DOMAIN sp} \subseteq points
             /\ (\A x, y \in points : x.serial = y.serial /\ x.ts = y.ts => x = y) =>
                  (Len(sp) > 1 => \A i \in DOMAIN sp : \A x, y \in ToSet(sp[i]) : x.serial = y.serial => x = y)
             /\ (\A x, y \in points : x.serial = y.serial) =>
                  UNION {ToSet(sp[i]) : i \in DOMAIN sp} = points]_pc
=============================================================================
