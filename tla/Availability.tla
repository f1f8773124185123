---------------------------- MODULE Availability ----------------------------
(***************************************************************************)
(* One device, from its gateway's Kafka messages to the rows the service   *)
(* stores about it: offline events (device_availability_events) and time   *)
(* points.  Three topics feed three receivers, whose threads merge their   *)
(* messages into the queue of the watcher; its worker applies them to the  *)
(* AP object, the only memory of what the device last did.  The consumer   *)
(* commits an offset as soon as the message is queued.  Crashes, records   *)
(* the producer writes twice, repeated disconnections and failing inserts  *)
(* are bounded by constants.                                               *)
(***************************************************************************)
EXTENDS Naturals, Sequences, Functions

CONSTANTS
    Shapes,       \* what a disconnection message carries, see Shape below
    MaxOutages,   \* bound: times the device goes away
    MaxSigns,     \* bound: pings and health reports
    MaxReports,   \* bound: state reports
    MaxRepeats,   \* bound: disconnections announced again while offline
    MaxDups,      \* bound: connection records written twice
    MaxCrashes,   \* bound: crashes of the service
    MaxDbFaults,  \* bound: failing inserts
    NoTopic

Topics == {"connection", "health", "state"}

\* With a uuid, with a timestamp only, without a timestamp, or with one that
\* is no number.
Shape == {"uuid", "timestamp", "missing", "garbled"}

ASSUME AvailabilityAssumption ==
    /\ Shapes \subseteq Shape
    /\ {MaxOutages, MaxSigns, MaxReports, MaxRepeats, MaxDups, MaxCrashes, MaxDbFaults}
           \subseteq Nat
    /\ NoTopic \notin Topics

VARIABLES
    link, now,          \* is the device connected?  the time, in seconds
    outages, count,     \* disconnections so far; what the other bounds count
    topic,              \* per topic: the records written to it
    pos, committed,     \* per topic: records consumed, offset committed
    committing,         \* the topic whose record the consumer has in hand
    inbox, wq,          \* Queue_ of each receiver and of the watcher
    ap,                 \* DI_.connected and the got_ flags of the AP
    since,              \* history: kinds handled since the last disconnection
    rows,               \* device_availability_events, in order of insertion
    points              \* history: `since' at each stored time point

kafka == <<topic, pos, committed, committing>>
world == <<link, now, outages, count>>
store == <<rows, points>>
vars  == <<world, kafka, inbox, wq, ap, since, store>>

Counters == {"signs", "reports", "repeats", "dups", "crashes", "faults"}
Bounds == [signs |-> MaxSigns, reports |-> MaxReports, repeats |-> MaxRepeats,
           dups |-> MaxDups, crashes |-> MaxCrashes, faults |-> MaxDbFaults]

\* class AP: the flags of a new object.
NewAP == [connected |-> FALSE, base |-> FALSE, health |-> FALSE, connection |-> FALSE]

APs == [connected : BOOLEAN, base : BOOLEAN, health : BOOLEAN, connection : BOOLEAN]

Messages ==
    [type : {"ping", "capabilities", "health", "state"}] \cup
    [type : {"disconnection"}, shape : Shapes, outage : Nat, time : Nat, uuid : Nat,
     first : BOOLEAN]

Keys == {"uuid", "timestamp"} \X Nat
Rows == [key : Keys, outage : Nat]

TypeOK ==
    /\ link \in BOOLEAN /\ now \in Nat /\ outages \in Nat
    /\ count \in [Counters -> Nat]
    /\ topic \in [Topics -> Seq(Messages)]
    /\ pos \in [Topics -> Nat] /\ committed \in [Topics -> Nat]
    /\ \A t \in Topics : committed[t] <= pos[t] /\ pos[t] <= Len(topic[t])
    /\ committing \in {NoTopic} \cup Topics
    /\ inbox \in [Topics -> Seq(Messages)]
    /\ wq \in Seq(Messages)
    /\ ap \in APs
    /\ since \in SUBSET Topics
    /\ rows \in Seq(Rows)
    /\ points \in SUBSET SUBSET Topics

Init ==
    /\ link = FALSE /\ now = 1 /\ outages = 0
    /\ count = [b \in Counters |-> 0]
    /\ topic = [t \in Topics |-> <<>>]
    /\ pos = [t \in Topics |-> 0] /\ committed = [t \in Topics |-> 0]
    /\ committing = NoTopic
    /\ inbox = [t \in Topics |-> <<>>]
    /\ wq = <<>>
    /\ ap = NewAP /\ since = {}
    /\ rows = <<>> /\ points = {}

Spend(b) == count[b] < Bounds[b] /\ count' = [count EXCEPT ![b] = @ + 1]
-----------------------------------------------------------------------------
(* The device and its gateway (external): what is written to Kafka.        *)

Write(t, m) ==
    /\ topic' = [topic EXCEPT ![t] = Append(@, m)]
    /\ UNCHANGED <<pos, committed, committing, inbox, wq, ap, since, store>>

Connect ==
    /\ ~link /\ link' = TRUE
    /\ Write("connection", [type |-> "capabilities"])
    /\ UNCHANGED <<now, outages, count>>

Ping ==
    /\ link /\ Spend("signs")
    /\ Write("connection", [type |-> "ping"])
    /\ UNCHANGED <<link, now, outages>>

HealthCheck ==
    /\ link /\ Spend("signs")
    /\ Write("health", [type |-> "health"])
    /\ UNCHANGED <<link, now, outages>>

Report ==
    /\ link /\ Spend("reports")
    /\ Write("state", [type |-> "state"])
    /\ UNCHANGED <<link, now, outages>>

\* A disconnection is announced within the second of the previous one, or later.
Announce(o, isFirst) ==
    \E shape \in Shapes, t \in {now, now + 1} :
        /\ now' = t
        /\ Write("connection", [type |-> "disconnection", shape |-> shape, outage |-> o,
                                time |-> t, uuid |-> Len(topic["connection"]),
                                first |-> isFirst])

Disconnect ==
    /\ link /\ link' = FALSE
    /\ outages < MaxOutages /\ outages' = outages + 1
    /\ Announce(outages + 1, TRUE)
    /\ UNCHANGED count

\* The gateway announces an outage again that it has announced already.
Repeat ==
    /\ ~link /\ outages > 0 /\ Spend("repeats")
    /\ Announce(outages, FALSE)
    /\ UNCHANGED <<link, outages>>

\* The producer's retry writes an earlier record again.
Duplicate ==
    /\ Spend("dups")
    /\ \E m \in Range(topic["connection"]) : Write("connection", m)
    /\ UNCHANGED <<link, now, outages>>
-----------------------------------------------------------------------------
(* KafkaConsumer, the receivers and the watcher's queue.                   *)

\* The consumer's callback: the receiver of the topic queues the message.
Consume(t) ==
    /\ committing = NoTopic /\ committing' = t
    /\ pos[t] < Len(topic[t])
    /\ pos' = [pos EXCEPT ![t] = @ + 1]
    /\ inbox' = [inbox EXCEPT ![t] = Append(@, topic[t][pos[t] + 1])]
    /\ UNCHANGED <<world, topic, committed, wq, ap, since, store>>

\* Seeded fault: the commit runs one record ahead of what was consumed.
CommitAhead ==
    /\ committing # NoTopic /\ committing' = NoTopic
    /\ committed' = [committed EXCEPT ![committing] = pos[committing] + 1]
    /\ UNCHANGED <<world, topic, pos, inbox, wq, ap, since, store>>

\* Consumer.commit(msg), at the end of the same callback.
Commit ==
    /\ committing # NoTopic /\ committing' = NoTopic
    /\ committed' = [committed EXCEPT ![committing] = pos[committing]]
    /\ UNCHANGED <<world, topic, pos, inbox, wq, ap, since, store>>

\* A receiver's thread posts the message to the device's watcher.
Route(t) ==
    /\ inbox[t] # <<>>
    /\ inbox' = [inbox EXCEPT ![t] = Tail(@)]
    /\ wq' = Append(wq, Head(inbox[t]))
    /\ UNCHANGED <<world, kafka, ap, since, store>>

\* The process ends and is started again: what was queued is lost, the AP
\* object is a new one, the consumer resumes at the committed offsets.
CrashRestart ==
    /\ Spend("crashes")
    /\ pos' = committed /\ committing' = NoTopic
    /\ inbox' = [t \in Topics |-> <<>>] /\ wq' = <<>>
    /\ ap' = NewAP /\ since' = {}
    /\ UNCHANGED <<link, now, outages, topic, committed, store>>
-----------------------------------------------------------------------------
(* VenueWatcher::run applies one message to the AP object.                 *)

BuildAvailabilityIdempotencyKey(m) ==
    IF m.shape = "uuid" THEN <<"uuid", m.uuid>> ELSE <<"timestamp", m.time>>

Stored(key) == \E r \in Range(rows) : r.key = key

\* Seeded fault: the insert is not guarded by the idempotency key.
CreateEventAlways(m) ==
    \/ /\ rows' = Append(rows, [key |-> BuildAvailabilityIdempotencyKey(m),
                                outage |-> m.outage])
       /\ UNCHANGED count
    \/ Spend("faults") /\ UNCHANGED rows

\* Seeded fault: the row describes the device's present state, not the message's.
CreateEventOfNow(m) ==
    LET key == BuildAvailabilityIdempotencyKey(m)
    IN  IF Stored(key)
        THEN UNCHANGED <<rows, count>>
        ELSE \/ rows' = Append(rows, [key |-> key, outage |-> outages]) /\ UNCHANGED count
             \/ Spend("faults") /\ UNCHANGED rows

\* A row with this key is inserted unless there is one, or the insert fails.
CreateEventIfAbsent(m) ==
    LET key == BuildAvailabilityIdempotencyKey(m)
    IN  \/ Stored(key) /\ UNCHANGED <<rows, count>>
        \/ /\ ~Stored(key)
           /\ rows' = Append(rows, [key |-> key, outage |-> m.outage])
           /\ UNCHANGED count
        \/ ~Stored(key) /\ Spend("faults") /\ UNCHANGED rows

\* Seeded fault: any disconnection counts as a transition.
PersistOfflineAlways(m) ==
    IF m.shape # "missing" THEN CreateEventIfAbsent(m) ELSE UNCHANGED <<rows, count>>

\* Only a device that is connected, as far as the AP object knows, goes
\* offline, and only at a known time.
PersistOfflineAvailabilityTransition(m) ==
    IF ap.connected /\ m.shape # "missing"
    THEN CreateEventIfAbsent(m)
    ELSE UNCHANGED <<rows, count>>

\* Seeded fault: a capabilities message does not mark the device as connected.
SignOfLifeQuiet(m) == [ap EXCEPT !.connection = TRUE, !.connected = (m.type = "ping")]

\* UpdateConnection, ping and capabilities.
SignOfLife(m) == [ap EXCEPT !.connection = TRUE, !.connected = TRUE]

\* Seeded fault: after a disconnection the old health is still good.
ForgetDeviceHalf == [NewAP EXCEPT !.health = ap.health]

\* UpdateConnection, disconnection: got_base, got_health, got_connection and
\* connected are cleared.
ForgetDevice == NewAP

UpdateConnection(m) ==
    \/ /\ m.type \in {"ping", "capabilities"}
       /\ ap' = SignOfLife(m)
       /\ since' = since \cup {"connection"}
       /\ UNCHANGED <<rows, count>>
    \/ /\ m.type = "disconnection" /\ m.shape # "garbled"
       /\ PersistOfflineAvailabilityTransition(m)
       /\ ap' = ForgetDevice
       /\ since' = {}
    \/ \* reading the timestamp throws
       /\ m.type = "disconnection" /\ m.shape = "garbled"
       /\ UNCHANGED <<ap, since, rows, count>>

\* The sample becomes the new base; with a base, a connection and a health
\* report the difference is stored.  A sample that fails to parse is handled
\* like any other.
UpdateStats(m) ==
    /\ m.type = "state"
    /\ ap' = [ap EXCEPT !.connected = TRUE, !.base = TRUE]
    /\ points' = IF ap.base /\ ap.connection /\ ap.health THEN points \cup {since} ELSE points
    /\ since' = since \cup {"state"}

UpdateHealth(m) ==
    /\ m.type = "health"
    /\ ap' = [ap EXCEPT !.health = TRUE]
    /\ since' = since \cup {"health"}

Handle ==
    /\ wq # <<>>
    /\ wq' = Tail(wq)
    /\ LET m == Head(wq)
       IN  \/ UpdateConnection(m) /\ UNCHANGED points
           \/ UpdateStats(m) /\ UNCHANGED <<rows, count>>
           \/ UpdateHealth(m) /\ UNCHANGED <<rows, points, count>>
    /\ UNCHANGED <<link, now, outages, kafka, inbox>>
-----------------------------------------------------------------------------
Gateway == Connect \/ Ping \/ HealthCheck \/ Report \/ Disconnect \/ Repeat \/ Duplicate

Service == (\E t \in Topics : Consume(t) \/ Route(t)) \/ Commit \/ Handle

Next == Gateway \/ Service \/ CrashRestart

Spec == Init /\ [][Next]_vars

\* The threads of the service keep running; nobody is obliged to connect,
\* disconnect or report, and nothing has to fail.
FairSpec ==
    /\ Spec
    /\ WF_vars((\E t \in Topics : Consume(t)) \/ Commit)
    /\ \A t \in Topics : WF_vars(Route(t))
    /\ WF_vars(Handle)
-----------------------------------------------------------------------------
\* Two rows never have the same idempotency key, however often Kafka
\* delivers a disconnection (the unique index, and CreateEventIfAbsent's
\* promise).
NoDuplicateRows ==
    \A i, j \in DOMAIN rows : rows[i].key = rows[j].key => i = j

\* A time point is stored only when the device has sent a sign of life, a
\* health report and an earlier sample, all handled after its last
\* disconnection (UpdateStats's three got_ flags).
PointsAreComplete == \A p \in points : p = Topics

\* The first announcement of an outage, if it carries a time, is stored.
OutageStored(o) ==
    \E m \in Range(topic["connection"]) :
        /\ m.type = "disconnection" /\ m.outage = o /\ m.first
        /\ m.shape \in {"uuid", "timestamp"} => Stored(BuildAvailabilityIdempotencyKey(m))

\* Every time a device that the service has seen connecting goes offline, an
\* event with that disconnection's key is eventually in the table (unless its
\* message says no time: PersistOfflineAvailabilityTransition returns early,
\* or the exception of an unreadable timestamp ends UpdateConnection).
EveryOfflineStored ==
    \A o \in 1..MaxOutages : outages >= o ~> OutageStored(o)

\* An outage is counted once, however often the gateway announces it.
OneRowPerOutage ==
    \A i, j \in DOMAIN rows : rows[i].outage = rows[j].outage => i = j

\* The records of all topics, and the offline events they announce.
Written == UNION {Range(topic[t]) : t \in Topics}

Announces(m) == m.type = "disconnection" /\ m.shape \in {"uuid", "timestamp"}

EventOf(m) == [key |-> BuildAvailabilityIdempotencyKey(m), outage |-> m.outage]

Announced == {EventOf(m) : m \in {w \in Written : Announces(w)}}

Log == INSTANCE EventLog WITH Events <- Rows, announced <- Announced, log <- rows

\* Through the topics, the three threads, replays after a crash, duplicates
\* and failing inserts, the table behaves like the log its readers (the
\* availability summary) take it for.
ImplementsLog == Log!Spec
=============================================================================
