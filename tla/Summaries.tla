----------------------------- MODULE Summaries -----------------------------
(***************************************************************************)
(* The computations behind the device summaries and the board time line    *)
(* (RESTAPI_mcp_helpers.h, NewSort): pure functions of the rows a query    *)
(* returned.  A row is a record                                            *)
(*   [id, board, serial, ts, memory, radios, links]                        *)
(* memory is [free, total]; radios a sequence of [band, temp]; links a     *)
(* sequence of [station, key, rssi, rx, tx], where key stands for bssid,   *)
(* ssid and band, and station is [mac, form], the spelling of an address.  *)
(* NoValue stands for an absent member.                                    *)
(***************************************************************************)
EXTENDS Integers, Sequences, FiniteSets, SequencesExt, FiniteSetsExt

CONSTANTS
    NoValue,      \* an absent optional
    MaxItems,     \* clients listed in an answer (500)
    MaxCounter    \* numeric_limits<uint64_t>::max()

ASSUME SummariesAssumption == MaxItems \in Nat \ {0} /\ MaxCounter \in Nat

\* TimestampInHalfOpenWindow
InWindow(t, w) == t >= w.start /\ t < w.end

\* NormalizeClientMac: every accepted spelling of an address gives the same
\* text; anything else gives none.
Spellings == {"colon", "dash", "dot", "plain"}
NormalizeClientMac(station) == IF station.form \in Spellings THEN station.mac ELSE NoValue

\* floor(n / d + 1/2), the rounding of std::floor(x + 0.5) and std::round
Rounded(n, d) == (2 * n + d) \div (2 * d)

----------------------------------------------------------------------------
(* Memory *)

UsableMemory(r) ==
    /\ r.memory.free # NoValue
    /\ r.memory.total # NoValue => r.memory.free <= r.memory.total

\* Is the record a later word than the one the summary holds?
Later(r, s) == r.ts > s.at \/ (r.ts = s.at /\ r.id > s.id)

AddMemory(s, r) ==
    IF s.count = 0
    THEN [min |-> r.memory.free, max |-> r.memory.free, latest |-> r.memory.free,
          from |-> r.ts, to |-> r.ts, at |-> r.ts, id |-> r.id,
          sum |-> r.memory.free, count |-> 1]
    ELSE [min |-> Min({s.min, r.memory.free}), max |-> Max({s.max, r.memory.free}),
          latest |-> IF Later(r, s) THEN r.memory.free ELSE s.latest,
          from |-> Min({s.from, r.ts}), to |-> Max({s.to, r.ts}),
          at |-> IF Later(r, s) THEN r.ts ELSE s.at,
          id |-> IF Later(r, s) THEN r.id ELSE s.id,
          sum |-> s.sum + r.memory.free, count |-> s.count + 1]

CalculateMemorySummary(Records) ==
    LET s == FoldLeft(AddMemory, [count |-> 0], SelectSeq(Records, UsableMemory))
    IN  IF s.count = 0
        THEN [count |-> 0]
        ELSE [count |-> s.count, min |-> s.min, max |-> s.max, latest |-> s.latest,
              avg |-> Rounded(s.sum, s.count), from |-> s.from, to |-> s.to]

----------------------------------------------------------------------------
(* Radio temperature *)

UsableRadio(radio) ==
    /\ radio.band \in {2, 5}
    /\ radio.temp # NoValue
    /\ radio.temp >= -40 /\ radio.temp <= 125

\* AddSample
AddSample(s, v, t) ==
    [min    |-> IF s.count = 0 THEN v ELSE Min({s.min, v}),
     max    |-> IF s.count = 0 THEN v ELSE Max({s.max, v}),
     latest |-> IF s.count = 0 \/ t >= s.at THEN v ELSE s.latest,
     at     |-> IF s.count = 0 \/ t >= s.at THEN t ELSE s.at,
     sum    |-> s.sum + v,
     count  |-> s.count + 1]

NoSample == [min |-> 0, max |-> 0, latest |-> 0, at |-> 0, sum |-> 0, count |-> 0]

\* What the radios of one row add to the statistics of the two bands
AddRadios(stats, r) ==
    FoldLeft(LAMBDA s, radio :
                 IF UsableRadio(radio) THEN [s EXCEPT ![radio.band] = AddSample(@, radio.temp, r.ts)]
                 ELSE s,
             stats, r.radios)

\* The average is kept as the pair <<sum, count>>.
CalculateRadioTemperatureSummary(Records, w) ==
    LET used  == SelectSeq(Records, LAMBDA r : InWindow(r.ts, w))
        bands == FoldLeft(AddRadios, [b \in {2, 5} |-> NoSample], used)
        times == {r.ts : r \in {x \in ToSet(used) : \E i \in DOMAIN x.radios : UsableRadio(x.radios[i])}}
    IN  [bands |-> [b \in {2, 5} |->
                      IF bands[b].count = 0 THEN [count |-> 0]
                      ELSE [min |-> bands[b].min, max |-> bands[b].max, latest |-> bands[b].latest,
                            sum |-> bands[b].sum, count |-> bands[b].count]],
         window |-> IF times = {} THEN NoValue ELSE <<Min(times), Max(times)>>]

----------------------------------------------------------------------------
(* Signal quality *)

Qualities == {"excellent", "good", "fair", "poor"}
Quality(rssi) == CASE rssi >= -55 -> "excellent"
                   [] rssi < -55 /\ rssi >= -67 -> "good"
                   [] rssi < -67 /\ rssi >= -75 -> "fair"
                   [] OTHER -> "poor"

UsableLink(link) ==
    /\ NormalizeClientMac(link.station) # NoValue
    /\ link.rssi <= -1 /\ link.rssi >= -127

\* The clients of an answer, at most MaxItems of them, in its order
Listed(items) == SubSeq(items, 1, Min({Len(items), MaxItems}))

\* The readings of the window, row by row
Readings(Records, w) ==
    LET rows == SelectSeq(Records, LAMBDA r : InWindow(r.ts, w))
        Of(r) == LET l == SelectSeq(r.links, UsableLink)
                 IN  [j \in DOMAIN l |-> [mac |-> NormalizeClientMac(l[j].station),
                                          quality |-> Quality(l[j].rssi), ts |-> r.ts]]
    IN  FlattenSeq([i \in DOMAIN rows |-> Of(rows[i])])

\* Percentages are in hundredths, as RoundTwoDecimals leaves them.
CalculateDeviceRssiQualitySummary(Records, w) ==
    LET all  == Readings(Records, w)
        macs == SetToSortSeq({x.mac : x \in ToSet(all)}, <)
        Count(Test(_)) == Cardinality({i \in DOMAIN all : Test(all[i])})
        Item(m) == LET total == Count(LAMBDA x : x.mac = m)
                   IN  [mac |-> m, total |-> total,
                        pct |-> [q \in Qualities |->
                                   Rounded(10000 * Count(LAMBDA x : x.mac = m /\ x.quality = q), total)]]
        items == Listed([k \in DOMAIN macs |-> Item(macs[k])])
        times == {x.ts : x \in {y \in ToSet(all) : \E i \in DOMAIN items : items[i].mac = y.mac}}
    IN  [clients |-> Len(macs), truncated |-> Len(macs) > MaxItems, items |-> items,
         window |-> IF times = {} THEN NoValue ELSE <<Min(times), Max(times)>>]

----------------------------------------------------------------------------
(* Bandwidth *)

SaturatingAdd(a, b) == IF MaxCounter - a < b THEN MaxCounter ELSE a + b

\* Mutant: a row that two queries returned counts as two rows.
SamplesUnique(Records, mac, key) ==
    LET At(i) == {[ts |-> Records[i].ts, rx |-> l.rx, tx |-> l.tx] :
                    l \in {x \in ToSet(Records[i].links) : NormalizeClientMac(x.station) = mac /\ x.key = key}}
    IN  SetToSortSeq(UNION {At(i) : i \in {i \in DOMAIN Records : \A j \in DOMAIN Records : Records[j].ts = Records[i].ts => j = i}},
                     LAMBDA s, t : s.ts < t.ts)

\* The samples of a stream, one client on one link, without the timestamps
\* at which two rows disagree, in the order of time
Samples(Records, mac, key) ==
    LET all == UNION {{[ts |-> r.ts, rx |-> l.rx, tx |-> l.tx] :
                         l \in {x \in ToSet(r.links) : NormalizeClientMac(x.station) = mac /\ x.key = key}} :
                      r \in ToSet(Records)}
    IN  SetToSortSeq({s \in all : \A t \in all : t.ts = s.ts => t = s}, LAMBDA s, t : s.ts < t.ts)

\* Mutant: a counter that fell is taken to have wrapped.
SegmentsWrapped(s, c, w) ==
    LET p == SelectSeq(s, LAMBDA x : x[c] # NoValue)
    IN  {<<p[i - 1], IF p[i][c] >= p[i - 1][c] THEN p[i] ELSE [p[i] EXCEPT ![c] = @ + MaxCounter + 1]>> :
            i \in {i \in 2..Len(p) : InWindow(p[i - 1].ts, w) \/ InWindow(p[i].ts, w)}}

\* ApplyCounterSample: the pairs of consecutive samples of a counter that
\* are counted, those that touch the window and over which it did not fall
Segments(s, c, w) ==
    LET p == SelectSeq(s, LAMBDA x : x[c] # NoValue)
    IN  {<<p[i - 1], p[i]>> : i \in {i \in 2..Len(p) : /\ InWindow(p[i - 1].ts, w) \/ InWindow(p[i].ts, w)
                                                      /\ p[i][c] >= p[i - 1][c]}}

CalculateBandwidthConsumptionSummary(Records, w) ==
    LET links == UNION {ToSet(r.links) : r \in ToSet(Records)}
        macs  == {NormalizeClientMac(l.station) : l \in links} \ {NoValue}
        keys  == {l.key : l \in links}
        Observed(mac) == \E k \in keys : \E x \in ToSet(Samples(Records, mac, k)) : InWindow(x.ts, w)
        Counted(mac, c) == UNION {{<<k, g>> : g \in Segments(Samples(Records, mac, k), c, w)} : k \in keys}
        Total(mac, c) == MapThenFoldSet(SaturatingAdd, 0, LAMBDA x : x[2][2][c] - x[2][1][c],
                                        LAMBDA S : CHOOSE x \in S : TRUE, Counted(mac, c))
        Item(mac) == [mac |-> mac, rx |-> Total(mac, "rx"), tx |-> Total(mac, "tx"),
                      total |-> SaturatingAdd(Total(mac, "rx"), Total(mac, "tx"))]
        items == SetToSortSeq({Item(m) : m \in {x \in macs : Observed(x)}},
                              LAMBDA a, b : a.total > b.total \/ (a.total = b.total /\ a.mac < b.mac))
        ends  == UNION {{x[2][1].ts, x[2][2].ts} :
                   x \in UNION {Counted(i.mac, "rx") \cup Counted(i.mac, "tx") : i \in ToSet(Listed(items))}}
    IN  [clients |-> Len(items), truncated |-> Len(items) > MaxItems, items |-> Listed(items),
         window |-> IF ends = {} THEN NoValue ELSE <<Min(ends), Max(ends)>>]

----------------------------------------------------------------------------
(* The time line of a board *)

\* Mutant: the interval is the last gap, not the shortest.
ScanLast(s, p) ==
    IF s.ser = NoValue
    THEN [s EXCEPT !.ser = p.serial, !.start = p.ts, !.first = p.ts]
    ELSE [ser |-> p.serial, start |-> p.ts, first |-> s.first, last |-> p.ts,
          int |-> IF p.serial # s.ser THEN s.int ELSE p.ts - s.start]

\* One point of the scan for the shortest interval between two reports of a
\* device, over points sorted by device and time
Scan(s, p) ==
    IF s.ser = NoValue
    THEN [s EXCEPT !.ser = p.serial, !.start = p.ts, !.first = p.ts]
    ELSE [ser |-> p.serial, start |-> p.ts, first |-> s.first, last |-> p.ts,
          int |-> IF p.serial # s.ser \/ (s.int # 0 /\ s.int <= p.ts - s.start)
                  THEN s.int ELSE p.ts - s.start]

\* NewSort: the slots of the time line, each a sequence of points.  A slot
\* is an interval long; the first starts with the first device's first point
\* and the last reaches the last device's last point.
NewSort(points) ==
    LET tmp == SortSeq(points, LAMBDA a, b : a.serial < b.serial \/ (a.serial = b.serial /\ a.ts < b.ts))
        s   == FoldLeft(Scan, [ser |-> NoValue, start |-> 0, first |-> 0, last |-> 0, int |-> 0], tmp)
        n   == IF s.last <= s.first THEN 1 ELSE (s.last - s.first) \div s.int + 1
    IN  IF s.int = 0
        THEN <<tmp>>
        ELSE [i \in 1..n |-> SelectSeq(tmp, LAMBDA p : /\ p.ts >= s.first + (i - 1) * s.int
                                                      /\ p.ts <= s.first + i * s.int - 1)]
=============================================================================
