------------------------- MODULE AvailabilityProofs -------------------------
(***************************************************************************)
(* Proofs about Availability: types, no two rows with one idempotency key, *)
(* and the gate in front of the time points, for any number of outages,    *)
(* repetitions, duplicates, crashes and failing inserts.                   *)
(***************************************************************************)
EXTENDS Availability, SequenceTheorems, TLAPS

\* The got_ flags never claim more than was handled since the last
\* disconnection, on every path that clears them.
FlagsJustified ==
    /\ ap.base => "state" \in since
    /\ ap.health => "health" \in since
    /\ ap.connection => "connection" \in since

\* What is handed to Kafka keeps the offsets within the topic.
LEMMA WriteType ==
    ASSUME TypeOK, NEW t \in Topics, NEW m \in Messages, Write(t, m),
           link' \in BOOLEAN, now' \in Nat, outages' \in Nat, count' \in [Counters -> Nat]
    PROVE  TypeOK'
<1>1. topic' \in [Topics -> Seq(Messages)]
  BY DEF TypeOK, Write
<1>2. ASSUME NEW u \in Topics PROVE Len(topic[u]) <= Len(topic'[u])
  <2>1. CASE u = t
    <3>1. topic'[u] = Append(topic[u], m)
      BY <2>1 DEF TypeOK, Write
    <3> QED
      BY <3>1 DEF TypeOK
  <2>2. CASE u # t
    <3>1. topic'[u] = topic[u]
      BY <2>2 DEF TypeOK, Write
    <3> QED
      BY <3>1 DEF TypeOK
  <2> QED
    BY <2>1, <2>2
<1>3. \A u \in Topics : committed'[u] <= pos'[u] /\ pos'[u] <= Len(topic'[u])
  <2> SUFFICES ASSUME NEW u \in Topics
               PROVE  committed'[u] <= pos'[u] /\ pos'[u] <= Len(topic'[u])
    OBVIOUS
  <2>1. Len(topic[u]) \in Nat /\ Len(topic'[u]) \in Nat
    BY <1>1 DEF TypeOK
  <2>2. pos'[u] = pos[u] /\ committed'[u] = committed[u]
    BY DEF Write
  <2> QED
    BY <1>2, <2>1, <2>2 DEF TypeOK
<1> QED
  BY <1>1, <1>3 DEF TypeOK, Write, store

\* Using up a bound keeps the counters' types.
LEMMA SpendType ==
    ASSUME TypeOK, NEW b \in Counters, Spend(b)
    PROVE  count' \in [Counters -> Nat]
BY DEF TypeOK, Spend

\* An announcement is a message and moves the time.
LEMMA AnnounceType ==
    ASSUME TypeOK, NEW o \in Nat, NEW f \in BOOLEAN, Announce(o, f),
           link' \in BOOLEAN, outages' \in Nat, count' \in [Counters -> Nat]
    PROVE  TypeOK'
<1>1. PICK s \in Shapes, t \in {now, now + 1} :
        /\ now' = t
        /\ Write("connection", [type |-> "disconnection", shape |-> s, outage |-> o,
                                time |-> t, uuid |-> Len(topic["connection"]), first |-> f])
  BY DEF Announce
<1>2. "connection" \in Topics
  BY DEF Topics
<1>3. t \in Nat /\ Len(topic["connection"]) \in Nat
  BY <1>2 DEF TypeOK
<1> DEFINE m == [type |-> "disconnection", shape |-> s, outage |-> o, time |-> t,
                 uuid |-> Len(topic["connection"]), first |-> f]
<1>4. m \in Messages
  BY <1>3 DEF Messages
<1> QED
  BY <1>1, <1>2, <1>3, <1>4, WriteType

\* The flags and the row set after one message keep their types.
LEMMA HandleType ==
    ASSUME TypeOK, Handle
    PROVE  TypeOK'
<1> DEFINE m == Head(wq)
<1>1. m \in Messages /\ wq' \in Seq(Messages)
  BY DEF TypeOK, Handle
<1>2. ap' \in APs /\ since' \in SUBSET Topics
  <2>1. CASE UpdateConnection(m)
    <3>1. SignOfLife(m) \in APs /\ ForgetDevice \in APs
      BY DEF SignOfLife, ForgetDevice, NewAP, TypeOK, APs
    <3>2. since \cup {"connection"} \in SUBSET Topics
      BY DEF TypeOK, Topics
    <3> QED
      BY <2>1, <3>1, <3>2 DEF UpdateConnection, TypeOK
  <2>2. CASE UpdateStats(m)
    BY <2>2 DEF UpdateStats, TypeOK, APs, Topics
  <2>3. CASE UpdateHealth(m)
    BY <2>3 DEF UpdateHealth, TypeOK, APs, Topics
  <2> QED
    BY <2>1, <2>2, <2>3 DEF Handle
<1>3. points' \in SUBSET SUBSET Topics
  BY DEF Handle, UpdateConnection, UpdateStats, UpdateHealth, TypeOK
<1>4. rows' \in Seq(Rows) /\ count' \in [Counters -> Nat]
  <2>1. CASE UNCHANGED <<rows, count>>
    BY <2>1 DEF TypeOK
  <2>2. CASE m.type = "disconnection" /\ CreateEventIfAbsent(m)
    <3>1. [key |-> BuildAvailabilityIdempotencyKey(m), outage |-> m.outage] \in Rows
      <4>1. m.outage \in Nat /\ m.time \in Nat /\ m.uuid \in Nat
        BY <1>1, <2>2 DEF Messages
      <4> QED
        BY <4>1 DEF Rows, Keys, BuildAvailabilityIdempotencyKey
    <3>2. "faults" \in Counters
      BY DEF Counters
    <3>3. CASE UNCHANGED rows
      BY <2>2, <3>2, <3>3, SpendType DEF CreateEventIfAbsent, TypeOK
    <3>4. CASE /\ rows' = Append(rows, [key |-> BuildAvailabilityIdempotencyKey(m),
                                        outage |-> m.outage])
               /\ UNCHANGED count
      BY <3>1, <3>4 DEF TypeOK
    <3> QED
      BY <2>2, <3>3, <3>4 DEF CreateEventIfAbsent
  <2> QED
    BY <2>1, <2>2 DEF Handle, UpdateConnection, PersistOfflineAvailabilityTransition
<1> QED
  BY <1>1, <1>2, <1>3, <1>4 DEF TypeOK, Handle, kafka

\* Every action keeps the types: the queues hold messages, the offsets are
\* in order.
LEMMA TypeStep == TypeOK /\ [Next]_vars => TypeOK'
<1> SUFFICES ASSUME TypeOK, [Next]_vars PROVE TypeOK'
  OBVIOUS
<1>s. \A b \in Counters : Spend(b) => count' \in [Counters -> Nat]
  BY SpendType
<1>c. {"signs", "reports", "repeats", "dups", "crashes"} \subseteq Counters
  BY DEF Counters
<1>t. {"connection", "health", "state"} \subseteq Topics
  BY DEF Topics
<1>1. CASE Connect
  <2>1. [type |-> "capabilities"] \in Messages
    BY DEF Messages
  <2> QED
    BY <1>1, <1>t, <2>1, WriteType DEF Connect, TypeOK
<1>2. CASE Ping
  <2>1. [type |-> "ping"] \in Messages
    BY DEF Messages
  <2> QED
    BY <1>2, <1>s, <1>c, <1>t, <2>1, WriteType DEF Ping, TypeOK
<1>3. CASE HealthCheck
  <2>1. [type |-> "health"] \in Messages
    BY DEF Messages
  <2> QED
    BY <1>3, <1>s, <1>c, <1>t, <2>1, WriteType DEF HealthCheck, TypeOK
<1>4. CASE Report
  <2>1. [type |-> "state"] \in Messages
    BY DEF Messages
  <2> QED
    BY <1>4, <1>s, <1>c, <1>t, <2>1, WriteType DEF Report, TypeOK
<1>5. CASE Disconnect
  <2>1. outages + 1 \in Nat /\ TRUE \in BOOLEAN
    BY DEF TypeOK
  <2>2. link' \in BOOLEAN /\ outages' \in Nat /\ count' \in [Counters -> Nat]
    BY <1>5, <2>1 DEF Disconnect, TypeOK
  <2>3. Announce(outages + 1, TRUE)
    BY <1>5 DEF Disconnect
  <2> QED
    BY <2>1, <2>2, <2>3, AnnounceType
<1>6. CASE Repeat
  BY <1>6, <1>s, <1>c, AnnounceType DEF Repeat, TypeOK
<1>7. CASE Duplicate
  <2>1. PICK m \in Range(topic["connection"]) : Write("connection", m)
    BY <1>7 DEF Duplicate
  <2>2. m \in Messages
    BY <1>t DEF Range, TypeOK
  <2> QED
    BY <1>7, <1>s, <1>c, <1>t, <2>1, <2>2, WriteType DEF Duplicate, TypeOK
<1>8. ASSUME NEW t \in Topics, Consume(t) PROVE TypeOK'
  <2>1. Len(topic[t]) \in Nat /\ pos[t] \in Nat /\ pos[t] < Len(topic[t])
    BY <1>8 DEF TypeOK, Consume
  <2>2. topic[t][pos[t] + 1] \in Messages
    BY <2>1 DEF TypeOK
  <2>3. inbox' \in [Topics -> Seq(Messages)]
    BY <1>8, <2>2 DEF TypeOK, Consume
  <2>4. pos' \in [Topics -> Nat]
    BY <1>8, <2>1 DEF TypeOK, Consume
  <2>5. \A u \in Topics : committed[u] <= pos'[u] /\ pos'[u] <= Len(topic[u])
    BY <1>8, <2>1 DEF TypeOK, Consume
  <2> QED
    BY <1>8, <2>3, <2>4, <2>5 DEF TypeOK, Consume, world, store
<1>9. CASE Commit
  <2>1. committing \in Topics
    BY <1>9 DEF TypeOK, Commit
  <2>2. committed' \in [Topics -> Nat] /\ \A u \in Topics : committed'[u] <= pos[u]
    BY <1>9, <2>1 DEF TypeOK, Commit
  <2> QED
    BY <1>9, <2>2 DEF TypeOK, Commit, world, store
<1>10. ASSUME NEW t \in Topics, Route(t) PROVE TypeOK'
  <2>1. inbox[t] \in Seq(Messages) /\ inbox[t] # <<>>
    BY <1>10 DEF TypeOK, Route
  <2>2. Head(inbox[t]) \in Messages /\ Tail(inbox[t]) \in Seq(Messages)
    BY <2>1
  <2> QED
    BY <1>10, <2>2 DEF TypeOK, Route, world, kafka, store
<1>11. CASE Handle
  BY <1>11, HandleType
<1>12. CASE CrashRestart
  <2>1. count' \in [Counters -> Nat]
    BY <1>12, <1>s, <1>c DEF CrashRestart
  <2>2. ap' \in APs /\ since' \in SUBSET Topics
    BY <1>12 DEF CrashRestart, NewAP, APs
  <2>3. \A u \in Topics : pos'[u] <= Len(topic[u]) /\ committed'[u] <= pos'[u]
    <3> SUFFICES ASSUME NEW u \in Topics
                 PROVE  pos'[u] <= Len(topic[u]) /\ committed'[u] <= pos'[u]
      OBVIOUS
    <3>1. Len(topic[u]) \in Nat
      BY DEF TypeOK
    <3> QED
      BY <1>12, <3>1 DEF CrashRestart, TypeOK
  <2> QED
    BY <1>12, <2>1, <2>2, <2>3 DEF TypeOK, CrashRestart, store
<1>13. CASE UNCHANGED vars
  BY <1>13 DEF TypeOK, vars, world, kafka, store
<1> QED
  BY <1>1, <1>2, <1>3, <1>4, <1>5, <1>6, <1>7, <1>8, <1>9, <1>10, <1>11, <1>12, <1>13
     DEF Next, Gateway, Service

\* Every variable keeps its type, and offsets are committed only for records
\* that were consumed.
THEOREM TypeCorrect == Spec => []TypeOK
<1>1. Init => TypeOK
  <2> SUFFICES ASSUME Init PROVE TypeOK
    OBVIOUS
  <2>1. topic \in [Topics -> Seq(Messages)] /\ inbox \in [Topics -> Seq(Messages)]
    BY DEF Init
  <2>2. \A t \in Topics : committed[t] <= pos[t] /\ pos[t] <= Len(topic[t])
    BY DEF Init
  <2>3. wq \in Seq(Messages) /\ rows \in Seq(Rows)
    BY DEF Init
  <2>4. ap \in APs /\ since \in SUBSET Topics /\ points \in SUBSET SUBSET Topics
    BY DEF Init, NewAP, APs
  <2> QED
    BY <2>1, <2>2, <2>3, <2>4 DEF Init, TypeOK
<1> QED
  BY <1>1, TypeStep, PTL DEF Spec

\* Only CreateEventIfAbsent adds rows, and only one with a new key.
LEMMA RowsStep == TypeOK /\ NoDuplicateRows /\ [Next]_vars => NoDuplicateRows'
<1> SUFFICES ASSUME TypeOK, NoDuplicateRows, [Next]_vars PROVE NoDuplicateRows'
  OBVIOUS
<1>1. CASE UNCHANGED rows
  BY <1>1 DEF NoDuplicateRows
<1>2. ASSUME NEW m, CreateEventIfAbsent(m) PROVE NoDuplicateRows'
  <2> DEFINE key == BuildAvailabilityIdempotencyKey(m)
             row == [key |-> key, outage |-> m.outage]
  <2>1. CASE ~Stored(key) /\ rows' = Append(rows, row)
    <3> SUFFICES ASSUME NEW i \in DOMAIN rows', NEW j \in DOMAIN rows',
                        rows'[i].key = rows'[j].key
                 PROVE  i = j
      BY DEF NoDuplicateRows
    <3>1. rows \in Seq(Rows) /\ DOMAIN rows = 1..Len(rows) /\ Len(rows) \in Nat
      BY DEF TypeOK
    <3>2. /\ DOMAIN rows' = 1..(Len(rows) + 1)
          /\ \A k \in 1..Len(rows) : rows'[k] = rows[k]
          /\ rows'[Len(rows) + 1] = row
      <4> HIDE DEF row
      <4> QED
        BY <2>1, <3>1, AppendProperties
    <3>3. \A k \in DOMAIN rows : rows[k].key # key
      BY <2>1 DEF Stored, Range
    <3>4. row.key = key
      OBVIOUS
    <3>5. CASE i \in DOMAIN rows /\ j \in DOMAIN rows
      BY <3>1, <3>2, <3>5 DEF NoDuplicateRows
    <3>6. CASE i = Len(rows) + 1 \/ j = Len(rows) + 1
      <4> HIDE DEF row, key
      <4> QED
        BY <3>1, <3>2, <3>3, <3>4, <3>6
    <3> QED
      BY <3>1, <3>2, <3>5, <3>6
  <2> QED
    BY <1>1, <1>2, <2>1 DEF CreateEventIfAbsent
<1>3. CASE Handle
  BY <1>1, <1>2, <1>3
     DEF Handle, UpdateConnection, PersistOfflineAvailabilityTransition
<1> QED
  BY <1>1, <1>3
     DEF Next, Gateway, Service, Connect, Ping, HealthCheck, Report, Disconnect, Repeat,
         Duplicate, Announce, Write, Consume, Commit, Route, CrashRestart, vars, store

\* However often a disconnection is delivered, repeated or replayed after a
\* crash, the table holds at most one row with its idempotency key
\* (CreateEventIfAbsent and the unique index).
THEOREM RowsAreUnique == Spec => []NoDuplicateRows
<1>1. Init => NoDuplicateRows
  BY DEF Init, NoDuplicateRows
<1> QED
  BY <1>1, RowsStep, TypeCorrect, PTL DEF Spec

\* The flags and the history move together, and a time point is stored only
\* with all three flags set.
LEMMA PointsStep ==
    TypeOK /\ FlagsJustified /\ PointsAreComplete /\ [Next]_vars
        => FlagsJustified' /\ PointsAreComplete'
<1> SUFFICES ASSUME TypeOK, FlagsJustified, PointsAreComplete, [Next]_vars
             PROVE  FlagsJustified' /\ PointsAreComplete'
  OBVIOUS
<1>1. CASE UNCHANGED <<ap, since, points>>
  BY <1>1 DEF FlagsJustified, PointsAreComplete
<1>2. CASE Handle
  <2> DEFINE m == Head(wq)
  <2>1. CASE UpdateConnection(m) /\ UNCHANGED points
    <3>1. PointsAreComplete'
      BY <2>1 DEF PointsAreComplete
    <3>2. CASE ap' = SignOfLife(m) /\ since' = since \cup {"connection"}
      BY <3>1, <3>2 DEF SignOfLife, FlagsJustified, TypeOK, APs
    <3>3. CASE ap' = ForgetDevice
      BY <3>1, <3>3 DEF ForgetDevice, NewAP, FlagsJustified
    <3>4. CASE UNCHANGED <<ap, since>>
      BY <3>1, <3>4 DEF FlagsJustified
    <3> QED
      BY <2>1, <3>2, <3>3, <3>4 DEF UpdateConnection
  <2>2. CASE UpdateStats(m)
    <3>1. ap.base /\ ap.connection /\ ap.health => since = Topics
      BY DEF FlagsJustified, TypeOK, Topics
    <3>2. PointsAreComplete'
      BY <2>2, <3>1 DEF UpdateStats, PointsAreComplete, Topics
    <3> QED
      BY <2>2, <3>2 DEF UpdateStats, FlagsJustified, TypeOK, APs
  <2>3. CASE UpdateHealth(m) /\ UNCHANGED points
    BY <2>3 DEF UpdateHealth, FlagsJustified, PointsAreComplete, TypeOK, APs
  <2> QED
    BY <1>2, <2>1, <2>2, <2>3 DEF Handle
<1>3. CASE CrashRestart
  BY <1>3 DEF CrashRestart, NewAP, FlagsJustified, PointsAreComplete, store
<1> QED
  BY <1>1, <1>2, <1>3
     DEF Next, Gateway, Service, Connect, Ping, HealthCheck, Report, Disconnect, Repeat,
         Duplicate, Announce, Write, Consume, Commit, Route, vars, store

\* No time point is ever stored for a device whose connection, health and
\* base sample do not all postdate its last handled disconnection.
THEOREM PointsAreGated == Spec => []PointsAreComplete
<1>1. Init => FlagsJustified /\ PointsAreComplete
  BY DEF Init, NewAP, FlagsJustified, PointsAreComplete
<1> QED
  BY <1>1, PointsStep, TypeCorrect, PTL DEF Spec

\* Whatever waits in a receiver's or the watcher's queue was written to a
\* topic: no thread makes up a message.
QueuedIsWritten ==
    /\ \A t \in Topics : Range(inbox[t]) \subseteq Written
    /\ Range(wq) \subseteq Written

\* Appending adds one element to the range, Tail none.
LEMMA RangeAppend ==
    ASSUME NEW S, NEW s \in Seq(S), NEW e \in S
    PROVE  Range(Append(s, e)) = Range(s) \cup {e}
<1>1. DOMAIN s = 1..Len(s) /\ Len(s) \in Nat
  OBVIOUS
<1>2. /\ DOMAIN Append(s, e) = 1..(Len(s) + 1)
      /\ \A i \in 1..Len(s) : Append(s, e)[i] = s[i]
      /\ Append(s, e)[Len(s) + 1] = e
  BY <1>1, AppendProperties
<1> HIDE DEF Range
<1>3. ASSUME NEW x \in Range(Append(s, e)) PROVE x \in Range(s) \cup {e}
  BY <1>1, <1>2 DEF Range
<1>4. ASSUME NEW x \in Range(s) \cup {e} PROVE x \in Range(Append(s, e))
  <2>1. CASE x = e
    BY <1>1, <1>2, <2>1 DEF Range
  <2>2. CASE x \in Range(s)
    BY <1>1, <1>2, <2>2 DEF Range
  <2> QED
    BY <2>1, <2>2
<1> QED
  BY <1>3, <1>4

\* Dequeuing yields an element and leaves a part of the rest.
LEMMA RangeTail ==
    ASSUME NEW S, NEW s \in Seq(S), s # <<>>
    PROVE  Range(Tail(s)) \subseteq Range(s) /\ Head(s) \in Range(s)
<1>1. Len(s) \in Nat \ {0} /\ DOMAIN s = 1..Len(s) /\ Head(s) = s[1]
  OBVIOUS
<1>2. /\ DOMAIN Tail(s) = 1..(Len(s) - 1)
      /\ \A i \in 1..(Len(s) - 1) : Tail(s)[i] = s[i + 1]
  OBVIOUS
<1>3. ASSUME NEW x \in Range(Tail(s)) PROVE x \in Range(s)
  BY <1>1, <1>2 DEF Range
<1> QED
  BY <1>1, <1>3 DEF Range

\* Writing a record adds just it to what has been written.
LEMMA WriteWritten ==
    ASSUME TypeOK, NEW t \in Topics, NEW m \in Messages, Write(t, m)
    PROVE  Written' = Written \cup {m}
<1>1. topic'[t] = Append(topic[t], m) /\ \A u \in Topics \ {t} : topic'[u] = topic[u]
  BY DEF TypeOK, Write
<1>2. Range(topic'[t]) = Range(topic[t]) \cup {m}
  BY <1>1, RangeAppend DEF TypeOK
<1>3. ASSUME NEW x PROVE x \in Written' <=> x \in Written \cup {m}
  BY <1>1, <1>2 DEF Written
<1> QED
  BY <1>3

\* Every action of the gateway is one write, of a message that is well formed.
LEMMA GatewayWrites ==
    ASSUME TypeOK, Gateway
    PROVE  \E t \in Topics, m \in Messages : Write(t, m)
<1>t. {"connection", "health", "state"} \subseteq Topics
  BY DEF Topics
<1>m. {[type |-> "capabilities"], [type |-> "ping"], [type |-> "health"], [type |-> "state"]}
        \subseteq Messages
  BY DEF Messages
<1>1. CASE Connect \/ Ping \/ HealthCheck \/ Report
  BY <1>t, <1>m, <1>1 DEF Connect, Ping, HealthCheck, Report
<1>2. ASSUME NEW o \in Nat, NEW f \in BOOLEAN, Announce(o, f)
      PROVE  \E t \in Topics, m \in Messages : Write(t, m)
  <2>1. PICK s \in Shapes, t \in {now, now + 1} :
          Write("connection", [type |-> "disconnection", shape |-> s, outage |-> o,
                               time |-> t, uuid |-> Len(topic["connection"]), first |-> f])
    BY <1>2 DEF Announce
  <2>2. t \in Nat /\ Len(topic["connection"]) \in Nat
    BY <1>t DEF TypeOK
  <2>3. [type |-> "disconnection", shape |-> s, outage |-> o, time |-> t,
         uuid |-> Len(topic["connection"]), first |-> f] \in Messages
    BY <2>2 DEF Messages
  <2> QED
    BY <1>t, <2>1, <2>3
<1>3. CASE Disconnect
  <2>1. outages + 1 \in Nat
    BY DEF TypeOK
  <2>2. Announce(outages + 1, TRUE)
    BY <1>3 DEF Disconnect
  <2> QED
    BY <1>2, <2>1, <2>2
<1>4. CASE Repeat
  BY <1>2, <1>4 DEF Repeat, TypeOK
<1>5. CASE Duplicate
  <2>1. Range(topic["connection"]) \subseteq Messages
    BY <1>t DEF TypeOK, Range
  <2> QED
    BY <1>t, <1>5, <2>1 DEF Duplicate
<1> QED
  BY <1>1, <1>3, <1>4, <1>5 DEF Gateway

\* The queues hold written messages only, whatever moves between them.
LEMMA QueuedStep == TypeOK /\ QueuedIsWritten /\ [Next]_vars => QueuedIsWritten'
<1> SUFFICES ASSUME TypeOK, QueuedIsWritten, [Next]_vars PROVE QueuedIsWritten'
  OBVIOUS
<1>1. CASE Gateway
  <2>1. PICK t \in Topics, m \in Messages : Write(t, m)
    BY <1>1, GatewayWrites
  <2>2. Written \subseteq Written' /\ UNCHANGED <<inbox, wq>>
    BY <2>1, WriteWritten DEF Write
  <2> QED
    BY <2>2 DEF QueuedIsWritten
<1>2. ASSUME NEW t \in Topics, Consume(t) PROVE QueuedIsWritten'
  <2> DEFINE m == topic[t][pos[t] + 1]
  <2>1. pos[t] \in Nat /\ Len(topic[t]) \in Nat /\ pos[t] + 1 \in DOMAIN topic[t]
    BY <1>2 DEF TypeOK, Consume
  <2>2. m \in Messages /\ m \in Written
    BY <2>1 DEF TypeOK, Written, Range
  <2>3. Written' = Written /\ wq' = wq
    BY <1>2 DEF Consume, Written
  <2>4. inbox'[t] = Append(inbox[t], m) /\ \A u \in Topics \ {t} : inbox'[u] = inbox[u]
    BY <1>2 DEF Consume, TypeOK
  <2>5. Range(inbox'[t]) = Range(inbox[t]) \cup {m}
    BY <2>2, <2>4, RangeAppend DEF TypeOK
  <2> QED
    BY <2>2, <2>3, <2>4, <2>5 DEF QueuedIsWritten
<1>3. ASSUME NEW t \in Topics, Route(t) PROVE QueuedIsWritten'
  <2> DEFINE m == Head(inbox[t])
  <2>1. inbox[t] \in Seq(Messages) /\ inbox[t] # <<>> /\ m \in Messages
    BY <1>3 DEF Route, TypeOK
  <2>2. Range(Tail(inbox[t])) \subseteq Range(inbox[t]) /\ m \in Range(inbox[t])
    BY <2>1, RangeTail
  <2>3. Written' = Written
    BY <1>3 DEF Route, kafka, Written
  <2>4. inbox'[t] = Tail(inbox[t]) /\ \A u \in Topics \ {t} : inbox'[u] = inbox[u]
    BY <1>3 DEF Route, TypeOK
  <2>5. Range(wq') = Range(wq) \cup {m}
    BY <1>3, <2>1, RangeAppend DEF Route, TypeOK
  <2> QED
    BY <2>2, <2>3, <2>4, <2>5 DEF QueuedIsWritten
<1>4. CASE Commit
  BY <1>4 DEF Commit, Written, QueuedIsWritten
<1>5. CASE Handle
  <2>1. Range(wq') \subseteq Range(wq)
    BY <1>5, RangeTail DEF Handle, TypeOK
  <2>2. Written' = Written /\ inbox' = inbox
    BY <1>5 DEF Handle, kafka, Written
  <2> QED
    BY <2>1, <2>2 DEF QueuedIsWritten
<1>6. CASE CrashRestart
  <2>1. Range(<<>>) = {}
    BY DEF Range
  <2>2. Written' = Written /\ wq' = <<>> /\ \A t \in Topics : inbox'[t] = <<>>
    BY <1>6 DEF CrashRestart, Written
  <2> QED
    BY <2>1, <2>2 DEF QueuedIsWritten
<1>7. CASE UNCHANGED vars
  BY <1>7 DEF vars, kafka, Written, QueuedIsWritten
<1> QED
  BY <1>1, <1>2, <1>3, <1>4, <1>5, <1>6, <1>7 DEF Next, Service

\* A readable disconnection announces an event of the table's type.
LEMMA EventType ==
    ASSUME NEW m \in Messages, Announces(m)
    PROVE  EventOf(m) \in Rows /\ EventOf(m).key = BuildAvailabilityIdempotencyKey(m)
<1>1. m.outage \in Nat /\ m.time \in Nat /\ m.uuid \in Nat
  BY DEF Announces, Messages
<1> QED
  BY <1>1 DEF EventOf, Rows, Keys, BuildAvailabilityIdempotencyKey

\* A gateway's write announces one event or none; a handled disconnection
\* records an announced one or nothing; no other step is seen by the log.
LEMMA LogStep ==
    TypeOK /\ QueuedIsWritten /\ [Next]_vars => [Log!Next]_(Log!vars)
<1> SUFFICES ASSUME TypeOK, QueuedIsWritten, [Next]_vars PROVE [Log!Next]_(Log!vars)
  OBVIOUS
<1>0. ASSUME UNCHANGED <<topic, rows>> PROVE UNCHANGED Log!vars
  BY <1>0 DEF Log!vars, Announced, Written
<1>1. CASE Gateway
  <2>1. PICK t \in Topics, m \in Messages : Write(t, m)
    BY <1>1, GatewayWrites
  <2>2. Written' = Written \cup {m} /\ UNCHANGED rows
    BY <2>1, WriteWritten DEF Write, store
  <2>3. CASE Announces(m)
    <3>1. Announced' = Announced \cup {EventOf(m)}
      BY <2>2, <2>3 DEF Announced
    <3>2. EventOf(m) \in Rows
      BY <2>3, EventType
    <3> QED
      BY <2>2, <3>1, <3>2 DEF Log!Next, Log!Announce
  <2>4. CASE ~Announces(m)
    <3>1. Announced' = Announced
      BY <2>2, <2>4 DEF Announced
    <3> QED
      BY <2>2, <3>1 DEF Log!vars
  <2> QED
    BY <2>3, <2>4
<1>2. CASE Handle
  <2> DEFINE m == Head(wq)
  <2>1. UNCHANGED topic /\ m \in Messages /\ m \in Written
    <3>1. wq \in Seq(Messages) /\ wq # <<>>
      BY <1>2 DEF Handle, TypeOK
    <3> QED
      BY <1>2, <3>1, RangeTail DEF Handle, kafka, QueuedIsWritten
  <2>2. CASE UNCHANGED rows
    BY <1>0, <2>1, <2>2
  <2>3. CASE /\ Announces(m) /\ ~Stored(BuildAvailabilityIdempotencyKey(m))
             /\ rows' = Append(rows, EventOf(m))
    <3>1. EventOf(m) \in Announced /\ Announced' = Announced
      BY <2>1, <2>3 DEF Announced, Written
    <3>2. \A r \in Log!Range(rows) : r.key # EventOf(m).key
      BY <2>1, <2>3, EventType DEF Stored, Range, Log!Range
    <3> QED
      BY <2>3, <3>1, <3>2 DEF Log!Next, Log!Record
  <2>4. UNCHANGED rows \/ (m.type = "disconnection" /\ m.shape \notin {"garbled", "missing"}
                            /\ CreateEventIfAbsent(m))
    BY <1>2 DEF Handle, UpdateConnection, PersistOfflineAvailabilityTransition
  <2>5. m.type = "disconnection" /\ m.shape \notin {"garbled", "missing"} => Announces(m)
    BY <2>1, AvailabilityAssumption DEF Announces, Messages, Shape
  <2> QED
    BY <2>2, <2>3, <2>4, <2>5 DEF CreateEventIfAbsent, EventOf
<1> QED
  BY <1>0, <1>1, <1>2
     DEF Next, Service, Consume, Commit, Route, CrashRestart, vars, kafka, store

\* For any number of outages, replays, duplicates, crashes and failing
\* inserts, the events table is a log of what the gateway announced.
THEOREM LogRefined == Spec => ImplementsLog
<1>1. Init => QueuedIsWritten /\ Log!Init
  <2> SUFFICES ASSUME Init PROVE QueuedIsWritten /\ Log!Init
    OBVIOUS
  <2>1. Range(<<>>) = {}
    BY DEF Range
  <2>2. Written = {}
    BY <2>1 DEF Init, Written
  <2> QED
    BY <2>1, <2>2 DEF Init, QueuedIsWritten, Log!Init, Announced
<1>2. Spec => []QueuedIsWritten
  BY <1>1, QueuedStep, TypeCorrect, PTL DEF Spec
<1> QED
  BY <1>1, <1>2, LogStep, TypeCorrect, PTL DEF Spec, ImplementsLog, Log!Spec
-----------------------------------------------------------------------------
(* An outage is counted once.  Two circumstances each suffice.  When the   *)
(* gateway announces no outage twice, there is one key per outage.  When   *)
(* it does, but no connection record is duplicated and no state report can *)
(* arrive after the disconnection it precedes, the connected flag of the   *)
(* AP tells the announcements apart.                                       *)

Off(m)  == m.type = "disconnection"
Sign(m) == m.type \in {"ping", "capabilities"}

AnnouncedOnce == count["repeats"] = 0
Calm == count["reports"] = 0 /\ count["dups"] = 0

\* The table holds announced events, and without repetitions an outage has
\* one announcement, whoever delivers it how often.
RowsAnnounced == Range(rows) \subseteq Announced

OneRecordPerOutage ==
    AnnouncedOnce =>
      \A m, n \in Written : Off(m) /\ Off(n) =>
          m.outage <= outages /\ (m.outage = n.outage => m = n)

\* The counters of a past that is counted never go back.
LEMMA CountsGrow ==
    ASSUME TypeOK, [Next]_vars
    PROVE  \A b \in Counters : count'[b] >= count[b]
<1>1. CASE UNCHANGED count
  BY <1>1 DEF TypeOK
<1>2. ASSUME NEW c \in Counters, Spend(c) PROVE \A b \in Counters : count'[b] >= count[b]
  BY <1>2 DEF Spend, TypeOK
<1>3. {"signs", "reports", "repeats", "dups", "crashes", "faults"} \subseteq Counters
  BY DEF Counters
<1>4. CASE Gateway
  BY <1>1, <1>2, <1>3, <1>4 DEF Gateway, Connect, Ping, HealthCheck, Report, Disconnect, Repeat, Duplicate
<1>5. CASE Handle
  BY <1>1, <1>2, <1>3, <1>5
     DEF Handle, UpdateConnection, PersistOfflineAvailabilityTransition, CreateEventIfAbsent
<1>6. CASE CrashRestart
  BY <1>2, <1>3, <1>6 DEF CrashRestart
<1> QED
  BY <1>1, <1>4, <1>5, <1>6
     DEF Next, Service, Consume, Commit, Route, vars, world

LEMMA RowsAnnouncedStep ==
    TypeOK /\ QueuedIsWritten /\ RowsAnnounced /\ [Next]_vars => RowsAnnounced'
<1> SUFFICES ASSUME TypeOK, QueuedIsWritten, RowsAnnounced, [Next]_vars PROVE RowsAnnounced'
  OBVIOUS
<1>1. [Log!Next]_(Log!vars)
  BY LogStep
<1>2. CASE UNCHANGED <<rows, Announced>>
  BY <1>2 DEF RowsAnnounced
<1>3. CASE Log!Announce
  BY <1>3 DEF Log!Announce, RowsAnnounced
<1>4. CASE Log!Record
  <2>1. PICK e \in Announced : rows' = Append(rows, e) /\ Announced' = Announced
    BY <1>4 DEF Log!Record
  <2>2. rows' \in Seq(Rows) /\ rows \in Seq(Rows)
    BY TypeStep DEF TypeOK
  <2>3. rows \in Seq(Rows \cup {e})
    BY <2>2
  <2>4. Range(rows') = Range(rows) \cup {e}
    BY <2>1, <2>3, RangeAppend
  <2> QED BY <2>1, <2>4 DEF RowsAnnounced
<1> QED
  BY <1>1, <1>2, <1>3, <1>4 DEF Log!Next, Log!vars

LEMMA OneRecordStep ==
    TypeOK /\ OneRecordPerOutage /\ [Next]_vars => OneRecordPerOutage'
<1> SUFFICES ASSUME TypeOK, OneRecordPerOutage, [Next]_vars, AnnouncedOnce' PROVE OneRecordPerOutage'
  BY DEF OneRecordPerOutage
<1>1. AnnouncedOnce
  <2>1. "repeats" \in Counters
    BY DEF Counters
  <2> QED BY <2>1, CountsGrow DEF AnnouncedOnce, TypeOK
<1>2. CASE UNCHANGED <<topic, outages>>
  <2>1. Written' = Written
    BY <1>2 DEF Written
  <2> QED BY <1>1, <1>2, <2>1 DEF OneRecordPerOutage
<1>3. ASSUME NEW t \in Topics, NEW m \in Messages, Write(t, m), ~Off(m) \/ m \in Written, UNCHANGED outages
      PROVE  OneRecordPerOutage'
  <2>1. Written' = Written \cup {m}
    BY <1>3, WriteWritten
  <2> QED BY <1>1, <1>3, <2>1 DEF OneRecordPerOutage
<1>t. {"connection", "health", "state"} \subseteq Topics
  BY DEF Topics
<1>m. {[type |-> "capabilities"], [type |-> "ping"], [type |-> "health"], [type |-> "state"]}
        \subseteq Messages
  BY DEF Messages
<1>4. CASE Connect \/ Ping \/ HealthCheck \/ Report
  BY <1>3, <1>4, <1>t, <1>m DEF Connect, Ping, HealthCheck, Report, Off
<1>5. CASE Duplicate
  <2>1. PICK m \in Range(topic["connection"]) : Write("connection", m)
    BY <1>5 DEF Duplicate
  <2>2. m \in Messages /\ m \in Written
    BY <1>t DEF Range, TypeOK, Written
  <2> QED BY <1>3, <1>5, <1>t, <2>1, <2>2 DEF Duplicate
<1>6. CASE Repeat
  <2>1. count'["repeats"] = count["repeats"] + 1
    BY <1>6 DEF Repeat, Spend, TypeOK, Counters
  <2> QED BY <1>1, <2>1 DEF AnnouncedOnce
<1>7. CASE Disconnect
  <2>1. PICK sh \in Shapes, t \in {now, now + 1} :
          Write("connection", [type |-> "disconnection", shape |-> sh, outage |-> outages + 1,
                               time |-> t, uuid |-> Len(topic["connection"]), first |-> TRUE])
    BY <1>7 DEF Disconnect, Announce
  <2>2. PICK m : m = [type |-> "disconnection", shape |-> sh, outage |-> outages + 1,
                      time |-> t, uuid |-> Len(topic["connection"]), first |-> TRUE]
    OBVIOUS
  <2>3. t \in Nat /\ Len(topic["connection"]) \in Nat /\ outages \in Nat
    BY <1>t DEF TypeOK
  <2>4. m \in Messages /\ m.outage = outages + 1 /\ Off(m)
    BY <2>2, <2>3 DEF Messages, Off
  <2>5. Written' = Written \cup {m}
    BY <1>t, <2>1, <2>2, <2>4, WriteWritten
  <2>8. Written \subseteq Messages
    BY DEF Written, TypeOK, Range
  <2>6. \A n \in Written : Off(n) => n.outage \in Nat
    BY <2>8 DEF Messages, Off
  <2>7. outages' = outages + 1
    BY <1>7 DEF Disconnect
  <2> QED BY <1>1, <2>3, <2>4, <2>5, <2>6, <2>7 DEF OneRecordPerOutage
<1>8. CASE Gateway
  BY <1>4, <1>5, <1>6, <1>7, <1>8 DEF Gateway
<1> QED
  BY <1>2, <1>8 DEF Next, Service, Consume, Commit, Route, Handle, CrashRestart, vars, world, kafka

\* One key per outage, and one row per key.
LEMMA OnceByKey ==
    TypeOK /\ NoDuplicateRows /\ RowsAnnounced /\ OneRecordPerOutage /\ AnnouncedOnce
        => OneRowPerOutage
<1> SUFFICES ASSUME TypeOK, NoDuplicateRows, RowsAnnounced, OneRecordPerOutage, AnnouncedOnce,
                    NEW i \in DOMAIN rows, NEW j \in DOMAIN rows, rows[i].outage = rows[j].outage
             PROVE  i = j
  BY DEF OneRowPerOutage
<1>1. rows[i] \in Announced /\ rows[j] \in Announced
  BY DEF RowsAnnounced, Range
<1>2. PICK m \in Written : Announces(m) /\ rows[i] = EventOf(m)
  BY <1>1 DEF Announced
<1>3. PICK n \in Written : Announces(n) /\ rows[j] = EventOf(n)
  BY <1>1 DEF Announced
<1>4. m = n
  BY <1>2, <1>3 DEF OneRecordPerOutage, Announces, Off, EventOf
<1> QED BY <1>2, <1>3, <1>4 DEF NoDuplicateRows
-----------------------------------------------------------------------------
(* The other circumstance.  A number x, the outage of a row or of a queued *)
(* disconnection, is settled with what is still to be handled, if no sign  *)
(* of life in it makes the AP connected again before a disconnection of    *)
(* the same outage.                                                        *)

\* x is smaller than any outage announced in s after position i, and than
\* the next one the gateway will announce.
Below(x, s, i, next) ==
    x < next /\ \A k \in i + 1..Len(s) : Off(s[k]) => x < s[k].outage

Settled(x, s, i, next) ==
    \A j \in i + 1..Len(s) : Sign(s[j]) => Below(x, s, j, next)

Ordered(s, top, next) ==
    \A i \in 1..Len(s) : Off(s[i]) => /\ s[i].outage \in Nat /\ s[i].outage <= top
                                      /\ Settled(s[i].outage, s, i, next)

\* The disconnections and signs of life of z are some of those of s after
\* position lo, in the same order.
Within(z, s, lo) ==
    \E f \in [1..Len(z) -> Nat] :
        /\ \A k \in 1..Len(z) : Off(z[k]) \/ Sign(z[k]) =>
               f[k] \in lo + 1..Len(s) /\ s[f[k]] = z[k]
        /\ \A k, l \in 1..Len(z) :
               k < l /\ (Off(z[k]) \/ Sign(z[k])) /\ (Off(z[l]) \/ Sign(z[l])) => f[k] < f[l]

\* Fewer messages, in the same order, are settled when the whole is.
LEMMA Carry ==
    ASSUME NEW s \in Seq(Messages), NEW z \in Seq(Messages), NEW lo \in Nat, Within(z, s, lo)
    PROVE  \A next, top \in Nat :
             /\ \A x \in Nat : Below(x, s, lo, next) => Below(x, z, 0, next)
             /\ \A x \in Nat : Settled(x, s, lo, next) => Settled(x, z, 0, next)
             /\ Ordered(s, top, next) => Ordered(z, top, next)
<1> SUFFICES ASSUME NEW next \in Nat, NEW top \in Nat
             PROVE  /\ \A x \in Nat : Below(x, s, lo, next) => Below(x, z, 0, next)
                    /\ \A x \in Nat : Settled(x, s, lo, next) => Settled(x, z, 0, next)
                    /\ Ordered(s, top, next) => Ordered(z, top, next)
  OBVIOUS
<1> PICK f \in [1..Len(z) -> Nat] :
        /\ \A k \in 1..Len(z) : Off(z[k]) \/ Sign(z[k]) =>
               f[k] \in lo + 1..Len(s) /\ s[f[k]] = z[k]
        /\ \A k, l \in 1..Len(z) :
               k < l /\ (Off(z[k]) \/ Sign(z[k])) /\ (Off(z[l]) \/ Sign(z[l])) => f[k] < f[l]
  BY DEF Within
<1>0. Len(s) \in Nat /\ Len(z) \in Nat
  OBVIOUS
<1>1. ASSUME NEW x \in Nat, NEW j \in Nat, NEW i \in Nat, Below(x, s, i, next),
             \A k \in 1..Len(z) : j < k /\ Off(z[k]) => i < f[k]
      PROVE  Below(x, z, j, next)
  <2> SUFFICES ASSUME NEW k \in j + 1..Len(z), Off(z[k]) PROVE x < z[k].outage
    BY <1>1 DEF Below
  <2>1. k \in 1..Len(z) /\ j < k /\ k \in Nat
    BY <1>0
  <2>2. f[k] \in 1..Len(s) /\ s[f[k]] = z[k] /\ i < f[k] /\ f[k] \in Nat
    BY <1>0, <1>1, <2>1
  <2>3. f[k] \in i + 1..Len(s)
    BY <1>0, <2>2
  <2> QED BY <1>1, <2>2, <2>3 DEF Below
<1>2. ASSUME NEW x \in Nat, NEW i \in Nat, NEW a \in Nat, Settled(x, s, i, next),
             \A k \in 1..Len(z) : a < k /\ (Off(z[k]) \/ Sign(z[k])) => i < f[k]
      PROVE  Settled(x, z, a, next)
  <2> SUFFICES ASSUME NEW j \in a + 1..Len(z), Sign(z[j]) PROVE Below(x, z, j, next)
    BY DEF Settled
  <2>1. j \in 1..Len(z) /\ a < j /\ j \in Nat
    BY <1>0
  <2>2. f[j] \in 1..Len(s) /\ s[f[j]] = z[j] /\ i < f[j] /\ f[j] \in Nat
    BY <1>0, <1>2, <2>1
  <2>3. f[j] \in i + 1..Len(s)
    BY <1>0, <2>2
  <2>4. Below(x, s, f[j], next)
    BY <1>2, <2>2, <2>3 DEF Settled
  <2>5. \A k \in 1..Len(z) : j < k /\ Off(z[k]) => f[j] < f[k]
    BY <2>1
  <2> QED BY <1>1, <2>1, <2>2, <2>4, <2>5
<1>3. \A x \in Nat : Below(x, s, lo, next) => Below(x, z, 0, next)
  BY <1>1
<1>4. \A x \in Nat : Settled(x, s, lo, next) => Settled(x, z, 0, next)
  BY <1>2
<1>5. ASSUME Ordered(s, top, next), NEW i \in 1..Len(z), Off(z[i])
      PROVE  z[i].outage \in Nat /\ z[i].outage <= top /\ Settled(z[i].outage, z, i, next)
  <2>1. f[i] \in 1..Len(s) /\ s[f[i]] = z[i] /\ f[i] \in Nat /\ i \in Nat
    BY <1>0, <1>5
  <2>2. z[i].outage \in Nat /\ z[i].outage <= top /\ Settled(z[i].outage, s, f[i], next)
    BY <1>5, <2>1 DEF Ordered
  <2>3. \A k \in 1..Len(z) : i < k /\ (Off(z[k]) \/ Sign(z[k])) => f[i] < f[k]
    BY <1>5
  <2> QED BY <1>2, <2>1, <2>2, <2>3
<1> QED BY <1>3, <1>4, <1>5 DEF Ordered

\* A new record: a disconnection announces the next outage, and a sign of
\* life comes when the next outage is a new one.
LEMMA Grow ==
    ASSUME NEW s \in Seq(Messages), NEW m \in Messages, NEW z, z = Append(s, m),
           NEW next \in Nat, NEW next2 \in Nat, NEW top \in Nat, NEW top2 \in Nat,
           next <= next2, top <= top2,
           Off(m) => m.outage \in Nat /\ m.outage = next /\ next <= top2,
           Sign(m) => top < next2
    PROVE  /\ \A x \in Nat, lo \in Nat : Below(x, s, lo, next) => Below(x, z, lo, next2)
           /\ \A x \in Nat, lo \in Nat :
                 x <= top /\ Settled(x, s, lo, next) => Settled(x, z, lo, next2)
           /\ Ordered(s, top, next) => Ordered(z, top2, next2)
<1>0. /\ Len(s) \in Nat /\ Len(z) = Len(s) + 1 /\ z[Len(s) + 1] = m
      /\ \A k \in 1..Len(s) : z[k] = s[k]
  OBVIOUS
<1>1. ASSUME NEW x \in Nat, NEW lo \in Nat, Below(x, s, lo, next) PROVE Below(x, z, lo, next2)
  <2>1. x < next /\ x < next2
    BY <1>1 DEF Below
  <2>2. ASSUME NEW k \in lo + 1..Len(z), Off(z[k]) PROVE x < z[k].outage
    <3>1. k \in Nat /\ (k = Len(s) + 1 \/ (k \in lo + 1..Len(s) /\ k \in 1..Len(s)))
      BY <1>0
    <3>2. CASE k = Len(s) + 1
      BY <1>0, <2>1, <2>2, <3>2
    <3>3. CASE k \in lo + 1..Len(s) /\ k \in 1..Len(s)
      BY <1>0, <1>1, <2>2, <3>3 DEF Below
    <3> QED BY <3>1, <3>2, <3>3
  <2> QED BY <2>1, <2>2 DEF Below
<1>2. ASSUME NEW x \in Nat, NEW lo \in Nat, x <= top, Settled(x, s, lo, next)
      PROVE  Settled(x, z, lo, next2)
  <2> SUFFICES ASSUME NEW j \in lo + 1..Len(z), Sign(z[j]) PROVE Below(x, z, j, next2)
    BY DEF Settled
  <2>1. j \in Nat /\ (j = Len(s) + 1 \/ (j \in lo + 1..Len(s) /\ j \in 1..Len(s)))
    BY <1>0
  <2>2. CASE j = Len(s) + 1
    <3>1. x < next2
      BY <1>0, <1>2, <2>2
    <3>2. \A k \in j + 1..Len(z) : FALSE
      BY <1>0, <2>2
    <3> QED BY <3>1, <3>2 DEF Below
  <2>3. CASE j \in lo + 1..Len(s) /\ j \in 1..Len(s)
    <3>1. Below(x, s, j, next)
      BY <1>0, <1>2, <2>3 DEF Settled
    <3> QED BY <1>1, <2>1, <3>1
  <2> QED BY <2>1, <2>2, <2>3
<1>3. ASSUME Ordered(s, top, next), NEW i \in 1..Len(z), Off(z[i])
      PROVE  z[i].outage \in Nat /\ z[i].outage <= top2 /\ Settled(z[i].outage, z, i, next2)
  <2>1. i \in Nat /\ (i = Len(s) + 1 \/ i \in 1..Len(s))
    BY <1>0
  <2>2. CASE i = Len(s) + 1
    <3>1. z[i].outage \in Nat /\ z[i].outage <= top2
      BY <1>0, <1>3, <2>2
    <3>2. \A j \in i + 1..Len(z) : FALSE
      BY <1>0, <2>2
    <3> QED BY <3>1, <3>2 DEF Settled
  <2>3. CASE i \in 1..Len(s)
    <3>1. z[i] = s[i] /\ s[i].outage \in Nat /\ s[i].outage <= top /\ Settled(s[i].outage, s, i, next)
      BY <1>0, <1>3, <2>3 DEF Ordered
    <3>2. s[i].outage <= top2
      BY <3>1
    <3> QED BY <1>2, <2>1, <3>1, <3>2
  <2> QED BY <2>1, <2>2, <2>3
<1> QED BY <1>1, <1>2, <1>3 DEF Ordered
-----------------------------------------------------------------------------
\* What is still to be handled: the watcher's queue, the receiver's, and the
\* part of the topic that is not consumed.
Flow(w, i, t, p) == (w \o i) \o SubSeq(t, p + 1, Len(t))

IsFlow(F, w, i, t, p) ==
    /\ F \in Seq(Messages) /\ Len(F) = Len(w) + Len(i) + (Len(t) - p)
    /\ \A k \in 1..Len(w) : F[k] = w[k]
    /\ \A k \in 1..Len(i) : F[Len(w) + k] = i[k]
    /\ \A k \in 1..(Len(t) - p) : F[Len(w) + Len(i) + k] = t[p + k]

LEMMA FlowIs ==
    ASSUME NEW w \in Seq(Messages), NEW i \in Seq(Messages), NEW t \in Seq(Messages),
           NEW p \in Nat, p <= Len(t)
    PROVE  IsFlow(Flow(w, i, t, p), w, i, t, p)
<1>1. Len(w) \in Nat /\ Len(i) \in Nat /\ Len(t) \in Nat
  OBVIOUS
<1> DEFINE u == SubSeq(t, p + 1, Len(t))
           q == w \o i
<1>2. \A k \in p + 1..Len(t) : t[k] \in Messages
  BY <1>1
<1>3. u \in Seq(Messages) /\ Len(u) = Len(t) - p /\ \A k \in 1..(Len(t) - p) : u[k] = t[p + k]
  <2>1. /\ u \in Seq(Messages)
        /\ Len(u) = (IF p + 1 <= Len(t) THEN Len(t) - (p + 1) + 1 ELSE 0)
        /\ \A k \in 1..(Len(t) - (p + 1) + 1) : u[k] = t[p + 1 + k - 1]
    BY <1>1, <1>2, SubSeqProperties
  <2> HIDE DEF u
  <2>2. Len(u) = Len(t) - p
    BY <1>1, <2>1
  <2>3. \A k \in 1..(Len(t) - p) : p + 1 + k - 1 = p + k
    BY <1>1
  <2>4. Len(t) - (p + 1) + 1 = Len(t) - p
    BY <1>1
  <2> QED BY <2>1, <2>2, <2>3, <2>4
<1>4. /\ q \in Seq(Messages) /\ Len(q) = Len(w) + Len(i)
      /\ \A k \in 1..Len(w) + Len(i) : q[k] = IF k <= Len(w) THEN w[k] ELSE i[k - Len(w)]
  BY ConcatProperties
<1>5. Flow(w, i, t, p) = q \o u
  BY DEF Flow
<1> HIDE DEF q, u
<1>6. /\ q \o u \in Seq(Messages) /\ Len(q \o u) = Len(q) + Len(u)
      /\ \A k \in 1..Len(q) + Len(u) : (q \o u)[k] = IF k <= Len(q) THEN q[k] ELSE u[k - Len(q)]
  <2>1. q \in Seq(Messages) /\ u \in Seq(Messages)
    BY <1>3, <1>4
  <2> QED BY <2>1, ConcatProperties
<1>7. ASSUME NEW k \in 1..Len(w) PROVE (q \o u)[k] = w[k]
  BY <1>1, <1>3, <1>4, <1>6
<1>8. ASSUME NEW k \in 1..Len(i) PROVE (q \o u)[Len(w) + k] = i[k]
  <2>1. Len(w) + k \in 1..Len(q) + Len(u) /\ Len(w) + k <= Len(q) /\ ~(Len(w) + k <= Len(w))
        /\ Len(w) + k - Len(w) = k /\ Len(w) + k \in 1..Len(w) + Len(i)
    BY <1>1, <1>3, <1>4
  <2>2. (q \o u)[Len(w) + k] = q[Len(w) + k]
    BY <1>6, <2>1
  <2>3. q[Len(w) + k] = i[Len(w) + k - Len(w)]
    BY <1>4, <2>1
  <2> QED BY <2>1, <2>2, <2>3
<1>9. ASSUME NEW k \in 1..(Len(t) - p) PROVE (q \o u)[Len(w) + Len(i) + k] = t[p + k]
  <2>1. Len(q) + k \in 1..Len(q) + Len(u) /\ ~(Len(q) + k <= Len(q)) /\ Len(q) + k - Len(q) = k
    BY <1>1, <1>3, <1>4
  <2>2. (q \o u)[Len(q) + k] = u[k]
    BY <1>6, <2>1
  <2> QED BY <1>3, <1>4, <2>2
<1> QED BY <1>1, <1>3, <1>4, <1>5, <1>6, <1>7, <1>8, <1>9 DEF IsFlow
\* Consuming a record, or posting one to the watcher, moves it within the flow.
LEMMA FlowMoves ==
    ASSUME NEW w \in Seq(Messages), NEW i \in Seq(Messages), NEW t \in Seq(Messages),
           NEW p \in Nat, p <= Len(t)
    PROVE  /\ p < Len(t) => Flow(w, Append(i, t[p + 1]), t, p + 1) = Flow(w, i, t, p)
           /\ i # <<>> => Flow(Append(w, Head(i)), Tail(i), t, p) = Flow(w, i, t, p)
<1>0. Len(w) \in Nat /\ Len(i) \in Nat /\ Len(t) \in Nat
  OBVIOUS
<1> DEFINE F == Flow(w, i, t, p)
<1>4. IsFlow(F, w, i, t, p)
  BY FlowIs
<1> HIDE DEF F
<1>1. /\ F \in Seq(Messages) /\ Len(F) = Len(w) + Len(i) + (Len(t) - p)
      /\ \A k \in 1..Len(w) : F[k] = w[k]
      /\ \A k \in 1..Len(i) : F[Len(w) + k] = i[k]
      /\ \A k \in 1..(Len(t) - p) : F[Len(w) + Len(i) + k] = t[p + k]
  BY <1>4 DEF IsFlow
<1>2. ASSUME p < Len(t) PROVE Flow(w, Append(i, t[p + 1]), t, p + 1) = F
  <2> DEFINE j == Append(i, t[p + 1])
             G == Flow(w, j, t, p + 1)
  <2>1. t[p + 1] \in Messages /\ p + 1 <= Len(t) /\ p + 1 \in Nat
    BY <1>0, <1>2
  <2>2. /\ j \in Seq(Messages) /\ Len(j) = Len(i) + 1 /\ j[Len(i) + 1] = t[p + 1]
        /\ \A k \in 1..Len(i) : j[k] = i[k]
    BY <2>1, AppendProperties
  <2> HIDE DEF j
  <2>6. IsFlow(G, w, j, t, p + 1)
    BY <2>1, <2>2, FlowIs
  <2> HIDE DEF G
  <2>3. /\ G \in Seq(Messages) /\ Len(G) = Len(w) + Len(j) + (Len(t) - (p + 1))
        /\ \A k \in 1..Len(w) : G[k] = w[k]
        /\ \A k \in 1..Len(j) : G[Len(w) + k] = j[k]
        /\ \A k \in 1..(Len(t) - (p + 1)) : G[Len(w) + Len(j) + k] = t[p + 1 + k]
    BY <2>6 DEF IsFlow
  <2>4. Len(G) = Len(F)
    BY <1>0, <1>1, <2>2, <2>3
  <2>5. ASSUME NEW k \in 1..Len(F) PROVE G[k] = F[k]
    <3>1. CASE k <= Len(w)
      BY <1>0, <1>1, <2>3, <3>1
    <3>2. ASSUME NEW l \in 1..Len(i), k = Len(w) + l PROVE G[k] = F[k]
      <4>1. l \in 1..Len(j)
        BY <1>0, <2>2
      <4> QED BY <1>1, <2>2, <2>3, <3>2, <4>1
    <3>3. CASE k = Len(w) + Len(i) + 1
      <4>1. Len(i) + 1 \in 1..Len(j) /\ k = Len(w) + (Len(i) + 1) /\ 1 \in 1..(Len(t) - p)
        BY <1>0, <1>2, <2>2, <3>3
      <4>2. G[k] = t[p + 1]
        BY <2>2, <2>3, <4>1
      <4> QED BY <1>1, <3>3, <4>1, <4>2
    <3>4. ASSUME NEW l \in 1..(Len(t) - (p + 1)), k = Len(w) + Len(i) + 1 + l PROVE G[k] = F[k]
      <4>1. k = Len(w) + Len(j) + l /\ k = Len(w) + Len(i) + (l + 1)
            /\ l + 1 \in 1..(Len(t) - p) /\ p + 1 + l = p + (l + 1)
        BY <1>0, <2>2, <3>4
      <4>2. G[k] = t[p + 1 + l]
        BY <2>3, <4>1
      <4>3. F[k] = t[p + (l + 1)]
        BY <1>1, <4>1
      <4> QED BY <4>1, <4>2, <4>3
    <3>6. k \in Nat /\ k <= Len(w) + Len(i) + (Len(t) - p)
      BY <1>0, <1>1
    <3>5. \/ k <= Len(w)
          \/ k - Len(w) \in 1..Len(i) /\ k = Len(w) + (k - Len(w))
          \/ k = Len(w) + Len(i) + 1
          \/ /\ k - (Len(w) + Len(i) + 1) \in 1..(Len(t) - (p + 1))
             /\ k = Len(w) + Len(i) + 1 + (k - (Len(w) + Len(i) + 1))
      BY <1>0, <3>6, SMTT(30)
    <3> QED BY <3>1, <3>2, <3>3, <3>4, <3>5
  <2> QED BY <1>1, <2>3, <2>4, <2>5, SeqEqual DEF G, j
<1>3. ASSUME i # <<>> PROVE Flow(Append(w, Head(i)), Tail(i), t, p) = F
  <2> DEFINE v == Append(w, Head(i))
             j == Tail(i)
             G == Flow(v, j, t, p)
  <2>1. Len(i) >= 1 /\ Head(i) = i[1] /\ Head(i) \in Messages
    BY <1>0, <1>3
  <2>2. /\ v \in Seq(Messages) /\ Len(v) = Len(w) + 1 /\ v[Len(w) + 1] = i[1]
        /\ \A k \in 1..Len(w) : v[k] = w[k]
    BY <2>1, AppendProperties
  <2>3. j \in Seq(Messages) /\ Len(j) = Len(i) - 1 /\ \A k \in 1..(Len(i) - 1) : j[k] = i[k + 1]
    BY <1>0, <2>1, <1>3
  <2> HIDE DEF v, j
  <2>7. IsFlow(G, v, j, t, p)
    BY <2>2, <2>3, FlowIs
  <2> HIDE DEF G
  <2>4. /\ G \in Seq(Messages) /\ Len(G) = Len(v) + Len(j) + (Len(t) - p)
        /\ \A k \in 1..Len(v) : G[k] = v[k]
        /\ \A k \in 1..Len(j) : G[Len(v) + k] = j[k]
        /\ \A k \in 1..(Len(t) - p) : G[Len(v) + Len(j) + k] = t[p + k]
    BY <2>7 DEF IsFlow
  <2>5. Len(G) = Len(F) /\ Len(v) + Len(j) = Len(w) + Len(i)
    BY <1>0, <1>1, <2>2, <2>3, <2>4
  <2>6. ASSUME NEW k \in 1..Len(F) PROVE G[k] = F[k]
    <3>1. CASE k <= Len(w)
      <4>1. k \in 1..Len(w) /\ k \in 1..Len(v)
        BY <1>0, <2>2, <3>1
      <4> QED BY <1>1, <2>2, <2>4, <4>1
    <3>2. CASE k = Len(w) + 1
      <4>1. k \in 1..Len(v) /\ 1 \in 1..Len(i)
        BY <1>0, <2>1, <2>2, <3>2
      <4> QED BY <1>1, <2>2, <2>4, <3>2, <4>1
    <3>3. ASSUME NEW l \in 1..(Len(i) - 1), k = Len(w) + 1 + l PROVE G[k] = F[k]
      <4>1. k = Len(v) + l /\ l \in 1..Len(j) /\ l + 1 \in 1..Len(i) /\ k = Len(w) + (l + 1)
        BY <1>0, <2>2, <2>3, <3>3
      <4>2. G[k] = i[l + 1]
        BY <2>3, <2>4, <4>1
      <4> QED BY <1>1, <4>1, <4>2
    <3>4. ASSUME NEW l \in 1..(Len(t) - p), k = Len(w) + Len(i) + l PROVE G[k] = F[k]
      BY <1>1, <2>4, <2>5, <3>4
    <3>5. \/ k <= Len(w) \/ k = Len(w) + 1
          \/ k - (Len(w) + 1) \in 1..(Len(i) - 1) /\ k = Len(w) + 1 + (k - (Len(w) + 1))
          \/ k - (Len(w) + Len(i)) \in 1..(Len(t) - p) /\ k = Len(w) + Len(i) + (k - (Len(w) + Len(i)))
      BY <1>0, <1>1
    <3> QED BY <3>1, <3>2, <3>3, <3>4, <3>5
  <2> QED BY <1>1, <2>4, <2>5, <2>6, SeqEqual DEF G, v, j
<1> QED BY <1>2, <1>3 DEF F
\* What is written comes last.
LEMMA FlowWrite ==
    ASSUME NEW w \in Seq(Messages), NEW i \in Seq(Messages), NEW t \in Seq(Messages),
           NEW p \in Nat, p <= Len(t), NEW m \in Messages
    PROVE  Flow(w, i, Append(t, m), p) = Append(Flow(w, i, t, p), m)
<1>0. Len(w) \in Nat /\ Len(i) \in Nat /\ Len(t) \in Nat
  OBVIOUS
<1> DEFINE F == Flow(w, i, t, p)
           u == Append(t, m)
           G == Flow(w, i, u, p)
           H == Append(F, m)
<1>1. IsFlow(F, w, i, t, p)
  BY FlowIs
<1>2. u \in Seq(Messages) /\ Len(u) = Len(t) + 1 /\ u[Len(t) + 1] = m /\ \A k \in 1..Len(t) : u[k] = t[k]
  BY AppendProperties
<1> HIDE DEF F, u
<1>3. IsFlow(G, w, i, u, p)
  BY <1>0, <1>2, FlowIs
<1> HIDE DEF G
<1>4. /\ F \in Seq(Messages) /\ Len(F) = Len(w) + Len(i) + (Len(t) - p) /\ Len(F) \in Nat
      /\ G \in Seq(Messages) /\ Len(G) = Len(w) + Len(i) + (Len(u) - p)
  BY <1>0, <1>1, <1>3 DEF IsFlow
<1>5. H \in Seq(Messages) /\ Len(H) = Len(F) + 1 /\ H[Len(F) + 1] = m /\ \A k \in 1..Len(F) : H[k] = F[k]
  BY <1>4, AppendProperties
<1> HIDE DEF H
<1>6. Len(G) = Len(H)
  BY <1>0, <1>2, <1>4, <1>5
<1>7. ASSUME NEW k \in 1..Len(G) PROVE G[k] = H[k]
  <2>0. k \in Nat /\ k >= 1 /\ k <= Len(F) + 1
    BY <1>5, <1>6
  <2>1. CASE k <= Len(w)
    <3>1. k \in 1..Len(w) /\ k \in 1..Len(F)
      BY <1>0, <1>4, <2>0, <2>1
    <3> QED BY <1>1, <1>3, <1>5, <3>1 DEF IsFlow
  <2>2. ASSUME NEW l \in 1..Len(i), k = Len(w) + l PROVE G[k] = H[k]
    <3>1. k \in 1..Len(F)
      BY <1>0, <1>4, <2>2
    <3> QED BY <1>1, <1>3, <1>5, <2>2, <3>1 DEF IsFlow
  <2>3. ASSUME NEW l \in 1..(Len(t) - p), k = Len(w) + Len(i) + l PROVE G[k] = H[k]
    <3>1. k \in 1..Len(F) /\ l \in 1..(Len(u) - p) /\ p + l \in 1..Len(t)
      BY <1>0, <1>2, <1>4, <2>3
    <3>2. G[k] = u[p + l] /\ F[k] = t[p + l]
      BY <1>1, <1>3, <2>3, <3>1 DEF IsFlow
    <3> QED BY <1>2, <1>5, <3>1, <3>2
  <2>4. CASE k = Len(F) + 1
    <3>1. k = Len(w) + Len(i) + (Len(t) - p + 1) /\ Len(t) - p + 1 \in 1..(Len(u) - p)
          /\ p + (Len(t) - p + 1) = Len(t) + 1
      BY <1>0, <1>2, <1>4, <2>4
    <3>2. G[k] = u[p + (Len(t) - p + 1)]
      BY <1>3, <3>1 DEF IsFlow
    <3> QED BY <1>2, <1>5, <2>4, <3>1, <3>2
  <2>6. Len(F) = Len(w) + Len(i) + (Len(t) - p)
    BY <1>4
  <2>7. k \in Nat /\ k >= 1 /\ k <= Len(w) + Len(i) + (Len(t) - p) + 1
    BY <2>0, <2>6
  <2>5. \/ k <= Len(w)
        \/ k - Len(w) \in 1..Len(i) /\ k = Len(w) + (k - Len(w))
        \/ k - (Len(w) + Len(i)) \in 1..(Len(t) - p) /\ k = Len(w) + Len(i) + (k - (Len(w) + Len(i)))
        \/ k = Len(w) + Len(i) + (Len(t) - p) + 1
    BY <1>0, <2>7
  <2> QED BY <2>1, <2>2, <2>3, <2>4, <2>5, <2>6
<1>8. G = H
  BY <1>4, <1>5, <1>6, <1>7, SeqEqual
<1> QED BY <1>8 DEF F, G, H, u

\* A health report between them changes nothing about the others.
LEMMA FlowOther ==
    ASSUME NEW w \in Seq(Messages), NEW i \in Seq(Messages), NEW t \in Seq(Messages),
           NEW p \in Nat, p <= Len(t), NEW m \in Messages, ~Off(m), ~Sign(m)
    PROVE  Within(Flow(Append(w, m), i, t, p), Flow(w, i, t, p), 0)
<1>0. Len(w) \in Nat /\ Len(i) \in Nat /\ Len(t) \in Nat
  OBVIOUS
<1> DEFINE F == Flow(w, i, t, p)
           v == Append(w, m)
           G == Flow(v, i, t, p)
           f == [k \in 1..Len(G) |-> IF k <= Len(w) THEN k ELSE k - 1]
<1>1. IsFlow(F, w, i, t, p)
  BY FlowIs
<1>2. v \in Seq(Messages) /\ Len(v) = Len(w) + 1 /\ v[Len(w) + 1] = m /\ \A k \in 1..Len(w) : v[k] = w[k]
  BY AppendProperties
<1> HIDE DEF F, v
<1>3. IsFlow(G, v, i, t, p)
  BY <1>2, FlowIs
<1> HIDE DEF G
<1>4. /\ Len(F) = Len(w) + Len(i) + (Len(t) - p) /\ Len(F) \in Nat
      /\ Len(G) = Len(v) + Len(i) + (Len(t) - p) /\ Len(G) = Len(F) + 1
  BY <1>0, <1>1, <1>2, <1>3 DEF IsFlow
<1>5. f \in [1..Len(G) -> Nat]
  BY <1>0, <1>4
<1>6. ASSUME NEW k \in 1..Len(G), Off(G[k]) \/ Sign(G[k]) PROVE f[k] \in 1..Len(F) /\ F[f[k]] = G[k]
  <2>0. k \in Nat /\ k >= 1 /\ k <= Len(F) + 1
    BY <1>4
  <2>1. CASE k <= Len(w)
    <3>1. k \in 1..Len(w) /\ k \in 1..Len(v) /\ k \in 1..Len(F) /\ f[k] = k
      BY <1>0, <1>2, <1>4, <2>0, <2>1
    <3> QED BY <1>1, <1>2, <1>3, <3>1 DEF IsFlow
  <2>2. k # Len(w) + 1
    <3>1. Len(w) + 1 \in 1..Len(v)
      BY <1>0, <1>2
    <3>2. G[Len(w) + 1] = m
      BY <1>2, <1>3, <3>1 DEF IsFlow
    <3> QED BY <1>6, <3>2
  <2>3. ASSUME NEW l \in 1..Len(i), k = Len(v) + l PROVE f[k] \in 1..Len(F) /\ F[f[k]] = G[k]
    <3>1. f[k] = Len(w) + l /\ Len(w) + l \in 1..Len(F)
      BY <1>0, <1>2, <1>4, <2>0, <2>3
    <3>2. G[k] = i[l] /\ F[Len(w) + l] = i[l]
      BY <1>1, <1>3, <2>3 DEF IsFlow
    <3> QED BY <3>1, <3>2
  <2>4. ASSUME NEW l \in 1..(Len(t) - p), k = Len(v) + Len(i) + l PROVE f[k] \in 1..Len(F) /\ F[f[k]] = G[k]
    <3>1. f[k] = Len(w) + Len(i) + l /\ Len(w) + Len(i) + l \in 1..Len(F)
      BY <1>0, <1>2, <1>4, <2>0, <2>4
    <3>2. G[k] = t[p + l] /\ F[Len(w) + Len(i) + l] = t[p + l]
      BY <1>1, <1>3, <2>4 DEF IsFlow
    <3> QED BY <3>1, <3>2
  <2>5. \/ k <= Len(w) \/ k = Len(w) + 1
        \/ k - Len(v) \in 1..Len(i) /\ k = Len(v) + (k - Len(v))
        \/ k - (Len(v) + Len(i)) \in 1..(Len(t) - p) /\ k = Len(v) + Len(i) + (k - (Len(v) + Len(i)))
    BY <1>0, <1>2, <1>4, <2>0
  <2> HIDE DEF f
  <2> QED BY <2>1, <2>2, <2>3, <2>4, <2>5
<1>7. ASSUME NEW k \in 1..Len(G), NEW l \in 1..Len(G), k < l,
             Off(G[k]) \/ Sign(G[k]), Off(G[l]) \/ Sign(G[l])
      PROVE  f[k] < f[l]
  <2>1. k # Len(w) + 1 /\ l # Len(w) + 1
    <3>1. Len(w) + 1 \in 1..Len(v)
      BY <1>0, <1>2
    <3>2. G[Len(w) + 1] = m
      BY <1>2, <1>3, <3>1 DEF IsFlow
    <3> QED BY <1>7, <3>2
  <2>2. k \in Nat /\ l \in Nat /\ f[k] = (IF k <= Len(w) THEN k ELSE k - 1)
        /\ f[l] = (IF l <= Len(w) THEN l ELSE l - 1)
    BY <1>4
  <2> HIDE DEF f
  <2> QED BY <1>0, <1>7, <2>1, <2>2
<1> HIDE DEF f
<1>9. \A k \in 1..Len(G) : Off(G[k]) \/ Sign(G[k]) => f[k] \in 0 + 1..Len(F) /\ F[f[k]] = G[k]
  BY <1>4, <1>6
<1>8. Within(G, F, 0)
  BY <1>5, <1>7, <1>9, Zenon DEF Within
<1> QED BY <1>8 DEF F, G, v

\* The worker takes the first message of the flow.
LEMMA FlowTail ==
    ASSUME NEW w \in Seq(Messages), NEW i \in Seq(Messages), NEW t \in Seq(Messages),
           NEW p \in Nat, p <= Len(t), w # <<>>
    PROVE  /\ Within(Flow(Tail(w), i, t, p), Flow(w, i, t, p), 1)
           /\ 1 \in 1..Len(Flow(w, i, t, p)) /\ Flow(w, i, t, p)[1] = Head(w)
<1>0. Len(w) \in Nat /\ Len(i) \in Nat /\ Len(t) \in Nat /\ Len(w) >= 1 /\ Head(w) = w[1]
  OBVIOUS
<1> DEFINE F == Flow(w, i, t, p)
           v == Tail(w)
           G == Flow(v, i, t, p)
           f == [k \in 1..Len(G) |-> k + 1]
<1>1. IsFlow(F, w, i, t, p)
  BY FlowIs
<1>2. v \in Seq(Messages) /\ Len(v) = Len(w) - 1 /\ \A k \in 1..(Len(w) - 1) : v[k] = w[k + 1]
  BY <1>0
<1> HIDE DEF F, v
<1>3. IsFlow(G, v, i, t, p)
  BY <1>2, FlowIs
<1> HIDE DEF G
<1>4. /\ Len(F) = Len(w) + Len(i) + (Len(t) - p) /\ Len(F) \in Nat
      /\ Len(G) = Len(v) + Len(i) + (Len(t) - p) /\ Len(G) + 1 = Len(F) /\ Len(G) \in Nat
  BY <1>0, <1>1, <1>2, <1>3 DEF IsFlow
<1>10. 1 \in 1..Len(F) /\ F[1] = Head(w)
  <2>1. 1 \in 1..Len(w) /\ 1 \in 1..Len(F)
    BY <1>0, <1>4
  <2> QED BY <1>0, <1>1, <2>1 DEF IsFlow
<1>5. f \in [1..Len(G) -> Nat]
  OBVIOUS
<1>6. ASSUME NEW k \in 1..Len(G) PROVE F[k + 1] = G[k]
  <2>0. k \in Nat /\ k >= 1 /\ k <= Len(v) + Len(i) + (Len(t) - p)
    BY <1>4
  <2>1. CASE k <= Len(v)
    <3>1. k \in 1..Len(v) /\ k + 1 \in 1..Len(w) /\ k \in 1..(Len(w) - 1)
      BY <1>0, <1>2, <2>0, <2>1
    <3> QED BY <1>1, <1>2, <1>3, <3>1 DEF IsFlow
  <2>3. ASSUME NEW l \in 1..Len(i), k = Len(v) + l PROVE F[k + 1] = G[k]
    <3>1. k + 1 = Len(w) + l
      BY <1>0, <1>2, <2>3
    <3>2. G[k] = i[l] /\ F[Len(w) + l] = i[l]
      BY <1>1, <1>3, <2>3 DEF IsFlow
    <3> QED BY <3>1, <3>2
  <2>4. ASSUME NEW l \in 1..(Len(t) - p), k = Len(v) + Len(i) + l PROVE F[k + 1] = G[k]
    <3>1. k + 1 = Len(w) + Len(i) + l
      BY <1>0, <1>2, <2>4
    <3>2. G[k] = t[p + l] /\ F[Len(w) + Len(i) + l] = t[p + l]
      BY <1>1, <1>3, <2>4 DEF IsFlow
    <3> QED BY <3>1, <3>2
  <2>6. Len(v) \in Nat
    BY <1>2
  <2>5. \/ k <= Len(v)
        \/ k - Len(v) \in 1..Len(i) /\ k = Len(v) + (k - Len(v))
        \/ k - (Len(v) + Len(i)) \in 1..(Len(t) - p) /\ k = Len(v) + Len(i) + (k - (Len(v) + Len(i)))
    BY <1>0, <2>0, <2>6
  <2> QED BY <2>1, <2>3, <2>4, <2>5
<1>7. \A k \in 1..Len(G) : f[k] \in 1 + 1..Len(F) /\ F[f[k]] = G[k]
  BY <1>4, <1>6
<1>8. \A k, l \in 1..Len(G) : k < l => f[k] < f[l]
  BY <1>4
<1> HIDE DEF f
<1>9. Within(G, F, 1)
  BY <1>5, <1>7, <1>8, Zenon DEF Within
<1> QED BY <1>9, <1>10 DEF F, G, v

\* After a crash there is what follows the committed offset.
LEMMA FlowReplay ==
    ASSUME NEW t \in Seq(Messages), NEW c \in Nat, c <= Len(t)
    PROVE  Within(Flow(<<>>, <<>>, t, c), t, c)
<1> DEFINE e == <<>>
           G == Flow(e, e, t, c)
           f == [k \in 1..Len(G) |-> c + k]
<1>0. e \in Seq(Messages) /\ Len(e) = 0 /\ Len(t) \in Nat
  OBVIOUS
<1> HIDE DEF e
<1>1. IsFlow(G, e, e, t, c)
  BY <1>0, FlowIs
<1> HIDE DEF G
<1>2. Len(G) = Len(t) - c /\ Len(G) \in Nat
  BY <1>0, <1>1 DEF IsFlow
<1>3. ASSUME NEW k \in 1..Len(G) PROVE G[k] = t[c + k] /\ c + k \in c + 1..Len(t)
  <2>1. k \in 1..(Len(t) - c) /\ Len(e) + Len(e) + k = k
    BY <1>0, <1>2
  <2>2. G[Len(e) + Len(e) + k] = t[c + k]
    BY <1>1, <2>1 DEF IsFlow
  <2> QED BY <1>0, <1>2, <2>1, <2>2
<1>4. f \in [1..Len(G) -> Nat]
  OBVIOUS
<1>5. \A k \in 1..Len(G) : f[k] \in c + 1..Len(t) /\ t[f[k]] = G[k]
  BY <1>3
<1>6. \A k, l \in 1..Len(G) : k < l => f[k] < f[l]
  BY <1>2
<1> HIDE DEF f
<1>7. Within(G, t, c)
  BY <1>4, <1>5, <1>6, Zenon DEF Within
<1> QED BY <1>7 DEF G, e
-----------------------------------------------------------------------------
Conn == topic["connection"]

Pipe == Flow(wq, inbox["connection"], Conn, pos["connection"])

\* The outage the next announcement will be about.
NextOff == IF link THEN outages + 1 ELSE outages

RowOutages == {rows[i].outage : i \in DOMAIN rows}

QueuedOutages == {m.outage : m \in {q \in Range(wq) \cup Range(inbox["connection"]) : Off(q)}}

\* Without state reports, what comes from the other topics is health.
Kinds ==
    /\ \A t \in Topics \ {"connection"} :
         \A m \in Range(topic[t]) \cup Range(inbox[t]) : m.type = "health"
    /\ \A m \in Range(Conn) \cup Range(inbox["connection"]) \cup Range(wq) : m.type # "state"

\* The consumer commits a connection record before it takes the next.
OneInHand ==
    \/ committed["connection"] = pos["connection"]
    \/ committing = "connection" /\ committed["connection"] + 1 = pos["connection"]

\* No sign of life that is still to be handled, now or after a crash, can
\* let an outage in that has its row.
Separated ==
    /\ Ordered(Conn, outages, NextOff)
    /\ Ordered(Pipe, outages, NextOff)
    /\ \A x \in RowOutages : /\ Settled(x, Pipe, 0, NextOff)
                             /\ ap.connected => Below(x, Pipe, 0, NextOff)
    /\ \A x \in RowOutages \cup QueuedOutages :
         x \in Nat /\ x <= outages /\ Settled(x, Conn, committed["connection"], NextOff)

OnceInv == Kinds /\ OneInHand /\ Separated /\ OneRowPerOutage

\* A step after which no report and no duplicate has been counted is neither.
LEMMA CalmStep ==
    ASSUME TypeOK, [Next]_vars, Calm'
    PROVE  Calm /\ ~Report /\ ~Duplicate
<1>1. {"reports", "dups"} \subseteq Counters
  BY DEF Counters
<1>2. \A b \in Counters : count[b] \in Nat /\ count'[b] \in Nat /\ count'[b] >= count[b]
  BY CountsGrow, TypeStep DEF TypeOK
<1>3. Calm
  BY <1>1, <1>2 DEF Calm
<1>4. ~Report
  BY <1>1, <1>3 DEF Report, Spend, TypeOK, Calm
<1>5. ~Duplicate
  BY <1>1, <1>3 DEF Duplicate, Spend, TypeOK, Calm
<1> QED BY <1>3, <1>4, <1>5

\* A write to the connection topic that is no report.
LEMMA WriteKinds ==
    ASSUME TypeOK, Kinds, NEW t \in Topics, NEW m \in Messages, Write(t, m),
           IF t = "connection" THEN m.type # "state" ELSE m.type = "health"
    PROVE  Kinds'
<1>1. topic'[t] = Append(topic[t], m) /\ \A u \in Topics \ {t} : topic'[u] = topic[u]
  BY DEF TypeOK, Write
<1>2. Range(topic'[t]) = Range(topic[t]) \cup {m}
  BY <1>1, RangeAppend DEF TypeOK
<1>3. UNCHANGED <<inbox, wq>> /\ "connection" \in Topics
  BY DEF Write, Topics
<1>4. \A u \in Topics : Range(topic'[u]) \subseteq Range(topic[u]) \cup (IF u = t THEN {m} ELSE {})
  BY <1>1, <1>2
<1> QED BY <1>3, <1>4 DEF Kinds, Conn

LEMMA ServiceKinds ==
    ASSUME TypeOK, Kinds, Service \/ CrashRestart
    PROVE  Kinds'
<1>c. "connection" \in Topics
  BY DEF Topics
<1>1. ASSUME NEW t \in Topics, Consume(t) PROVE Kinds'
  <2> DEFINE m == topic[t][pos[t] + 1]
  <2>1. pos[t] + 1 \in DOMAIN topic[t]
    BY <1>1 DEF TypeOK, Consume
  <2>2. m \in Messages /\ m \in Range(topic[t])
    BY <2>1 DEF TypeOK, Range
  <2>3. inbox'[t] = Append(inbox[t], m) /\ \A u \in Topics \ {t} : inbox'[u] = inbox[u]
    BY <1>1 DEF Consume, TypeOK
  <2>4. Range(inbox'[t]) = Range(inbox[t]) \cup {m}
    BY <2>2, <2>3, RangeAppend DEF TypeOK
  <2>5. UNCHANGED <<topic, wq>>
    BY <1>1 DEF Consume
  <2>6. \A u \in Topics : Range(inbox'[u]) \subseteq Range(inbox[u]) \cup Range(topic[u])
    BY <2>2, <2>3, <2>4
  <2> QED BY <1>c, <2>5, <2>6 DEF Kinds, Conn
<1>2. ASSUME NEW t \in Topics, Route(t) PROVE Kinds'
  <2> DEFINE m == Head(inbox[t])
  <2>1. inbox[t] \in Seq(Messages) /\ inbox[t] # <<>> /\ m \in Messages
    BY <1>2 DEF Route, TypeOK
  <2>2. Range(Tail(inbox[t])) \subseteq Range(inbox[t]) /\ m \in Range(inbox[t])
    BY <2>1, RangeTail
  <2>3. m.type # "state"
    BY <2>2 DEF Kinds
  <2>4. inbox'[t] = Tail(inbox[t]) /\ \A u \in Topics \ {t} : inbox'[u] = inbox[u]
    BY <1>2 DEF Route, TypeOK
  <2>5. Range(wq') = Range(wq) \cup {m} /\ UNCHANGED topic
    BY <1>2, <2>1, RangeAppend DEF Route, TypeOK, kafka
  <2>6. \A u \in Topics : Range(inbox'[u]) \subseteq Range(inbox[u])
    BY <2>2, <2>4
  <2> QED BY <1>c, <2>3, <2>5, <2>6 DEF Kinds, Conn
<1>3. CASE Commit
  BY <1>3 DEF Commit, Kinds, Conn
<1>4. CASE Handle
  <2>1. Range(wq') \subseteq Range(wq)
    BY <1>4, RangeTail DEF Handle, TypeOK
  <2>2. UNCHANGED <<topic, inbox>>
    BY <1>4 DEF Handle, kafka
  <2> QED BY <2>1, <2>2 DEF Kinds, Conn
<1>5. CASE CrashRestart
  <2>1. Range(<<>>) = {}
    BY DEF Range
  <2>2. topic' = topic /\ wq' = <<>> /\ \A t \in Topics : inbox'[t] = <<>>
    BY <1>5 DEF CrashRestart
  <2> QED BY <1>c, <2>1, <2>2 DEF Kinds, Conn
<1> QED BY <1>1, <1>2, <1>3, <1>4, <1>5 DEF Service
\* The types of what is in flight.
LEMMA PipeType ==
    ASSUME TypeOK
    PROVE  /\ Conn \in Seq(Messages) /\ wq \in Seq(Messages) /\ inbox["connection"] \in Seq(Messages)
           /\ pos["connection"] \in Nat /\ committed["connection"] \in Nat /\ Len(Conn) \in Nat
           /\ committed["connection"] <= pos["connection"] /\ pos["connection"] <= Len(Conn)
           /\ committed["connection"] <= Len(Conn)
           /\ Pipe \in Seq(Messages) /\ outages \in Nat /\ NextOff \in Nat
<1>1. "connection" \in Topics
  BY DEF Topics
<1>2. /\ Conn \in Seq(Messages) /\ wq \in Seq(Messages) /\ inbox["connection"] \in Seq(Messages)
      /\ pos["connection"] \in Nat /\ committed["connection"] \in Nat
      /\ committed["connection"] <= pos["connection"] /\ pos["connection"] <= Len(Conn)
      /\ outages \in Nat
  BY <1>1 DEF TypeOK, Conn
<1>3. Len(Conn) \in Nat
  BY <1>2
<1>4. Pipe \in Seq(Messages)
  BY <1>2, FlowIs DEF Pipe, IsFlow
<1>5. NextOff \in Nat
  BY <1>2 DEF NextOff
<1>6. committed["connection"] <= Len(Conn)
  BY <1>2, <1>3
<1> QED BY <1>2, <1>3, <1>4, <1>5, <1>6

LEMMA NextOffType == outages' \in Nat => NextOff' \in Nat
<1> SUFFICES ASSUME outages' \in Nat PROVE NextOff' \in Nat
  OBVIOUS
<1>1. CASE link'
  <2>1. NextOff' = outages' + 1
    BY <1>1 DEF NextOff
  <2>2. \A k \in Nat : k + 1 \in Nat
    OBVIOUS
  <2>3. outages' + 1 \in Nat
    BY <2>2
  <2> QED BY <2>1, <2>3, Zenon
<1>2. CASE ~link'
  <2>1. NextOff' = outages'
    BY <1>2 DEF NextOff
  <2> QED BY <2>1
<1> QED BY <1>1, <1>2

\* A new connection record, from a gateway that announces outages in order.
LEMMA WriteSeparated ==
    ASSUME TypeOK, TypeOK', Separated, NEW m \in Messages, Write("connection", m),
           outages <= outages', NextOff <= NextOff',
           Off(m) => m.outage = NextOff /\ NextOff <= outages',
           Sign(m) => outages < NextOff'
    PROVE  Separated'
<1>1. PICK n, n2, o, o2, T, F, c :
        /\ n = NextOff /\ n2 = NextOff' /\ o = outages /\ o2 = outages'
        /\ T = Conn /\ F = Pipe /\ c = committed["connection"]
  OBVIOUS
<1>2. /\ n \in Nat /\ n2 \in Nat /\ o \in Nat /\ o2 \in Nat /\ n <= n2 /\ o <= o2
      /\ T \in Seq(Messages) /\ F \in Seq(Messages) /\ c \in Nat
      /\ Off(m) => m.outage \in Nat /\ m.outage = n /\ n <= o2
      /\ Sign(m) => o < n2
  <2>2. n \in Nat /\ o \in Nat /\ T \in Seq(Messages) /\ F \in Seq(Messages) /\ c \in Nat
    BY <1>1, PipeType
  <2>3. outages' \in Nat
    BY DEF TypeOK
  <2>5. NextOff' \in Nat
    BY <2>3, NextOffType
  <2>4. n2 \in Nat /\ o2 \in Nat
    BY <1>1, <2>3, <2>5
  <2> QED BY <1>1, <2>2, <2>4
<1>3. Conn' = Append(T, m) /\ Pipe' = Append(F, m) /\ committed'["connection"] = c
  <2>1. Conn' = Append(T, m) /\ UNCHANGED <<pos, committed, wq, inbox>>
    BY <1>1 DEF Write, Conn, TypeOK, Topics
  <2>2. Pipe' = Flow(wq, inbox["connection"], Append(T, m), pos["connection"])
    BY <2>1 DEF Pipe
  <2>3. Pipe' = Append(F, m)
    BY <1>1, <2>2, PipeType, FlowWrite DEF Pipe
  <2> QED BY <1>1, <2>1, <2>3
<1>4. UNCHANGED <<rows, ap, wq, inbox>>
  BY DEF Write, store
<1>5. RowOutages' = RowOutages /\ QueuedOutages' = QueuedOutages
  BY <1>4 DEF RowOutages, QueuedOutages
<1>6. PICK T2, F2 : T2 = Append(T, m) /\ F2 = Append(F, m)
  OBVIOUS
<1>7. /\ \A x \in Nat, lo \in Nat : Below(x, F, lo, n) => Below(x, F2, lo, n2)
      /\ \A x \in Nat, lo \in Nat : x <= o /\ Settled(x, F, lo, n) => Settled(x, F2, lo, n2)
      /\ Ordered(F, o, n) => Ordered(F2, o2, n2)
  BY <1>2, <1>6, Grow, ZenonT(40)
<1>8. /\ \A x \in Nat, lo \in Nat : x <= o /\ Settled(x, T, lo, n) => Settled(x, T2, lo, n2)
      /\ Ordered(T, o, n) => Ordered(T2, o2, n2)
  BY <1>2, <1>6, Grow, ZenonT(40)
<1>9. /\ Ordered(T, o, n) /\ Ordered(F, o, n)
      /\ \A x \in RowOutages : Settled(x, F, 0, n) /\ (ap.connected => Below(x, F, 0, n))
      /\ \A x \in RowOutages \cup QueuedOutages : x \in Nat /\ x <= o /\ Settled(x, T, c, n)
  BY <1>1 DEF Separated
<1>10. Ordered(Conn, outages, NextOff)' /\ Ordered(Pipe, outages, NextOff)'
  BY <1>1, <1>3, <1>6, <1>7, <1>8, <1>9
<1>11. \A x \in RowOutages : Settled(x, F2, 0, n2) /\ (ap.connected => Below(x, F2, 0, n2))
  BY <1>2, <1>7, <1>9
<1>12. \A x \in RowOutages \cup QueuedOutages : x \in Nat /\ x <= o2 /\ Settled(x, T2, c, n2)
  BY <1>2, <1>8, <1>9
<1>13. F2 = Pipe' /\ T2 = Conn' /\ n2 = NextOff' /\ o2 = outages' /\ c = committed'["connection"]
  BY <1>1, <1>3, <1>6
<1> QED BY <1>4, <1>5, <1>10, <1>11, <1>12, <1>13 DEF Separated
\* Later in the topic there is less to settle.
LEMMA SettledLater ==
    ASSUME NEW s \in Seq(Messages), NEW c \in Nat, NEW d \in Nat, NEW x, NEW next,
           Settled(x, s, c, next), c <= d
    PROVE  Settled(x, s, d, next)
<1>1. \A j \in d + 1..Len(s) : j \in c + 1..Len(s)
  OBVIOUS
<1> QED BY <1>1 DEF Settled

\* A step that only moves messages along: rows, AP and topic stay, the flow
\* holds nothing new, and neither do the queues.
LEMMA MoveSeparated ==
    ASSUME TypeOK, TypeOK', Separated, UNCHANGED <<rows, ap, topic, link, outages>>,
           Pipe' = Pipe \/ Within(Pipe', Pipe, 0),
           committed["connection"] <= committed'["connection"],
           \A x \in QueuedOutages' : \/ x \in QueuedOutages
                                    \/ /\ x \in Nat /\ x <= outages
                                       /\ Settled(x, Conn, committed["connection"], NextOff)
    PROVE  Separated'
<1>1. PICK n, o, T, F, G, c, d :
        /\ n = NextOff /\ o = outages /\ T = Conn /\ F = Pipe /\ G = Pipe'
        /\ c = committed["connection"] /\ d = committed'["connection"]
  OBVIOUS
<1>2. /\ n \in Nat /\ o \in Nat /\ T \in Seq(Messages) /\ F \in Seq(Messages) /\ c \in Nat
      /\ d \in Nat /\ c <= d
  <2>1. d \in Nat
    BY <1>1 DEF TypeOK, Topics
  <2> QED BY <1>1, <2>1, PipeType
<1>3. n = NextOff' /\ o = outages' /\ T = Conn' /\ RowOutages' = RowOutages /\ ap' = ap
  BY <1>1 DEF NextOff, Conn, RowOutages
<1>4. G \in Seq(Messages)
  <2>1. /\ Conn' \in Seq(Messages) /\ wq' \in Seq(Messages) /\ inbox'["connection"] \in Seq(Messages)
        /\ pos'["connection"] \in Nat /\ pos'["connection"] <= Len(Conn')
    BY DEF TypeOK, Topics, Conn
  <2> QED BY <1>1, <2>1, FlowIs DEF Pipe, IsFlow
<1>5. /\ Ordered(T, o, n) /\ Ordered(F, o, n)
      /\ \A x \in RowOutages : Settled(x, F, 0, n) /\ (ap.connected => Below(x, F, 0, n))
      /\ \A x \in RowOutages \cup QueuedOutages : x \in Nat /\ x <= o /\ Settled(x, T, c, n)
  BY <1>1 DEF Separated
<1>6. /\ Ordered(G, o, n)
      /\ \A x \in RowOutages : Settled(x, G, 0, n) /\ (ap.connected => Below(x, G, 0, n))
  <2>1. CASE G = F
    BY <1>5, <2>1
  <2>2. CASE Within(G, F, 0)
    <3>1. /\ \A x \in Nat : Below(x, F, 0, n) => Below(x, G, 0, n)
          /\ \A x \in Nat : Settled(x, F, 0, n) => Settled(x, G, 0, n)
          /\ Ordered(F, o, n) => Ordered(G, o, n)
      BY <1>2, <1>4, <2>2, Carry
    <3> QED BY <1>5, <3>1
  <2> QED BY <1>1, <2>1, <2>2
<1>7. \A x \in RowOutages \cup QueuedOutages' : x \in Nat /\ x <= o /\ Settled(x, T, d, n)
  <2>1. \A x \in RowOutages \cup QueuedOutages' : x \in Nat /\ x <= o /\ Settled(x, T, c, n)
    BY <1>1, <1>5
  <2> QED BY <1>2, <2>1, SettledLater
<1>8. d = committed'["connection"] /\ G = Pipe'
  BY <1>1
<1> QED BY <1>3, <1>5, <1>6, <1>7, <1>8 DEF Separated

LEMMA ConsumeOnce ==
    ASSUME TypeOK, TypeOK', OneInHand, Separated, NEW t \in Topics, Consume(t)
    PROVE  OneInHand' /\ Separated'
<1>1. committing = NoTopic /\ committing' = t /\ NoTopic # "connection"
  BY AvailabilityAssumption DEF Consume, Topics
<1>2. committed["connection"] = pos["connection"]
  BY <1>1 DEF OneInHand
<1>3. UNCHANGED <<rows, ap, topic, link, outages, committed, wq>>
  BY DEF Consume, world, store
<1>4. CASE t # "connection"
  <2>1. pos'["connection"] = pos["connection"] /\ inbox'["connection"] = inbox["connection"]
    BY <1>4 DEF Consume, TypeOK, Topics
  <2>2. Pipe' = Pipe /\ QueuedOutages' = QueuedOutages
    BY <1>3, <2>1 DEF Pipe, Conn, QueuedOutages
  <2>3. OneInHand'
    BY <1>2, <1>3, <2>1 DEF OneInHand
  <2>4. committed["connection"] <= committed'["connection"]
    BY <1>3, PipeType
  <2>5. Separated'
    BY <1>3, <2>2, <2>4, MoveSeparated
  <2> QED BY <2>3, <2>5
<1>5. CASE t = "connection"
  <2>1. PICK p, i, w, T, m : /\ p = pos["connection"] /\ i = inbox["connection"] /\ w = wq
                             /\ T = Conn /\ m = T[p + 1]
    OBVIOUS
  <2>2. /\ p \in Nat /\ p < Len(T) /\ Len(T) \in Nat /\ i \in Seq(Messages) /\ w \in Seq(Messages)
        /\ T \in Seq(Messages) /\ p <= Len(T)
    BY <1>5, <2>1, PipeType DEF Consume, Conn
  <2>3. pos'["connection"] = p + 1 /\ inbox'["connection"] = Append(i, m)
    BY <1>5, <2>1 DEF Consume, TypeOK, Topics, Conn
  <2>4. Pipe' = Pipe
    <3>1. Pipe' = Flow(w, Append(i, T[p + 1]), T, p + 1)
      BY <1>3, <2>1, <2>3 DEF Pipe, Conn
    <3>2. Pipe = Flow(w, i, T, p)
      BY <2>1 DEF Pipe
    <3> QED BY <2>2, <3>1, <3>2, FlowMoves
  <2>5. m \in Messages /\ p + 1 \in 1..Len(T)
    BY <2>1, <2>2
  <2>6. Range(inbox'["connection"]) = Range(i) \cup {m}
    BY <2>2, <2>3, <2>5, RangeAppend
  <2>7. \A x \in QueuedOutages' : x \in QueuedOutages \/ (x = m.outage /\ Off(m))
    BY <1>3, <2>1, <2>6 DEF QueuedOutages
  <2>8. ASSUME Off(m) PROVE /\ m.outage \in Nat /\ m.outage <= outages
                            /\ Settled(m.outage, Conn, committed["connection"], NextOff)
    <3>1. /\ m.outage \in Nat /\ m.outage <= outages
          /\ Settled(m.outage, T, p + 1, NextOff)
      BY <2>1, <2>5, <2>8 DEF Separated, Ordered
    <3>2. ~Sign(T[p + 1])
      BY <2>1, <2>8 DEF Off, Sign
    <3>3. \A j \in p + 1..Len(T) : j = p + 1 \/ j \in p + 1 + 1..Len(T)
      BY <2>2
    <3>4. Settled(m.outage, T, p, NextOff)
      BY <3>1, <3>2, <3>3 DEF Settled
    <3> QED BY <1>2, <2>1, <3>1, <3>4
  <2>9. committed["connection"] <= committed'["connection"]
    BY <1>3, PipeType
  <2>10. Separated'
    BY <1>3, <2>4, <2>7, <2>8, <2>9, MoveSeparated
  <2>11. OneInHand'
    BY <1>1, <1>2, <1>3, <1>5, <2>1, <2>3 DEF OneInHand
  <2> QED BY <2>10, <2>11
<1> QED BY <1>4, <1>5

LEMMA CommitOnce ==
    ASSUME TypeOK, TypeOK', OneInHand, Separated, Commit
    PROVE  OneInHand' /\ Separated'
<1>1. UNCHANGED <<rows, ap, topic, link, outages, pos, wq, inbox>> /\ committing \in Topics
  BY DEF Commit, world, store, TypeOK
<1>2. Pipe' = Pipe /\ QueuedOutages' = QueuedOutages
  BY <1>1 DEF Pipe, Conn, QueuedOutages
<1>3. CASE committing = "connection"
  <2>1. committed'["connection"] = pos["connection"]
    BY <1>3 DEF Commit, TypeOK, Topics
  <2>2. OneInHand'
    BY <1>1, <2>1 DEF OneInHand
  <2>3. committed["connection"] <= committed'["connection"]
    BY <2>1, PipeType
  <2>4. Separated'
    BY <1>1, <1>2, <2>3, MoveSeparated
  <2> QED BY <2>2, <2>4
<1>4. CASE committing # "connection"
  <2>1. committed'["connection"] = committed["connection"]
    BY <1>4 DEF Commit, TypeOK, Topics
  <2>2. OneInHand'
    BY <1>1, <1>4, <2>1 DEF OneInHand
  <2>3. committed["connection"] <= committed'["connection"]
    BY <2>1, PipeType
  <2>4. Separated'
    BY <1>1, <1>2, <2>3, MoveSeparated
  <2> QED BY <2>2, <2>4
<1> QED BY <1>3, <1>4

LEMMA RouteOnce ==
    ASSUME TypeOK, TypeOK', Kinds, OneInHand, Separated, NEW t \in Topics, Route(t)
    PROVE  OneInHand' /\ Separated'
<1>1. UNCHANGED <<rows, ap, topic, link, outages, pos, committed, committing>>
  BY DEF Route, world, kafka, store
<1>2. OneInHand' /\ committed["connection"] <= committed'["connection"]
  BY <1>1, PipeType DEF OneInHand
<1>3. PICK p, i, w, T, m : /\ p = pos["connection"] /\ i = inbox["connection"] /\ w = wq
                           /\ T = Conn /\ m = Head(inbox[t])
  OBVIOUS
<1>4. /\ p \in Nat /\ p <= Len(T) /\ i \in Seq(Messages) /\ w \in Seq(Messages)
      /\ T \in Seq(Messages) /\ Pipe = Flow(w, i, T, p)
  BY <1>3, PipeType DEF Pipe
<1>5. inbox[t] \in Seq(Messages) /\ inbox[t] # <<>> /\ m \in Messages /\ wq' = Append(w, m)
  BY <1>3 DEF Route, TypeOK
<1>6. Range(Tail(inbox[t])) \subseteq Range(inbox[t]) /\ m \in Range(inbox[t])
  BY <1>3, <1>5, RangeTail
<1>7. Range(wq') = Range(w) \cup {m}
  BY <1>4, <1>5, RangeAppend
<1>8. CASE t = "connection"
  <2>1. inbox'["connection"] = Tail(i) /\ m = Head(i) /\ i # <<>>
    BY <1>3, <1>5, <1>8 DEF Route, TypeOK, Topics
  <2>2. Pipe' = Flow(Append(w, Head(i)), Tail(i), T, p)
    BY <1>1, <1>3, <1>5, <2>1 DEF Pipe, Conn
  <2>3. Pipe' = Pipe
    BY <1>4, <2>1, <2>2, FlowMoves
  <2>4. \A x \in QueuedOutages' : x \in QueuedOutages
    BY <1>3, <1>6, <1>7, <1>8, <2>1 DEF QueuedOutages
  <2> QED BY <1>1, <1>2, <2>3, <2>4, MoveSeparated
<1>9. CASE t # "connection"
  <2>1. inbox'["connection"] = i
    BY <1>3, <1>9 DEF Route, TypeOK, Topics
  <2>2. m.type = "health"
    BY <1>6, <1>9 DEF Kinds
  <2>3. ~Off(m) /\ ~Sign(m)
    BY <2>2 DEF Off, Sign
  <2>4. Pipe' = Flow(Append(w, m), i, T, p)
    BY <1>1, <1>3, <1>5, <2>1 DEF Pipe, Conn
  <2>5. Within(Pipe', Pipe, 0)
    BY <1>4, <1>5, <2>3, <2>4, FlowOther
  <2>6. \A x \in QueuedOutages' : x \in QueuedOutages
    BY <1>3, <1>7, <2>1, <2>3 DEF QueuedOutages
  <2> QED BY <1>1, <1>2, <2>5, <2>6, MoveSeparated
<1> QED BY <1>8, <1>9
\* The worker handles a message: only a disconnection of a connected AP adds
\* a row, and only a sign of life makes an AP connected.
LEMMA HandleEffect ==
    ASSUME TypeOK, Kinds, Handle, NEW m, m = Head(wq)
    PROVE  /\ ap'.connected => ap.connected \/ Sign(m)
           /\ \/ UNCHANGED rows
              \/ Off(m) /\ ap.connected /\ ~ap'.connected /\ rows' = Append(rows, EventOf(m))
<1>1. wq \in Seq(Messages) /\ wq # <<>>
  BY DEF Handle, TypeOK
<1>2. m \in Range(wq)
  BY <1>1, RangeTail
<1>3. m.type # "state"
  BY <1>2 DEF Kinds
<1>4. CASE UpdateHealth(m) /\ UNCHANGED <<rows, points, count>>
  <2>1. ap'.connected = ap.connected
    BY <1>4 DEF UpdateHealth, TypeOK, APs
  <2> QED BY <1>4, <2>1
<1>5. CASE UpdateConnection(m) /\ m.type \in {"ping", "capabilities"}
  BY <1>5 DEF UpdateConnection, Sign
<1>6. CASE UpdateConnection(m) /\ m.type = "disconnection"
  <2>1. ap'.connected => ap.connected
    BY <1>6 DEF UpdateConnection, ForgetDevice, NewAP
  <2>2. UNCHANGED rows \/ (ap.connected /\ ~ap'.connected /\ rows' = Append(rows, EventOf(m)))
    BY <1>6 DEF UpdateConnection, PersistOfflineAvailabilityTransition, CreateEventIfAbsent, EventOf,
                ForgetDevice, NewAP
  <2> QED BY <1>6, <2>1, <2>2 DEF Off
<1> QED BY <1>3, <1>4, <1>5, <1>6 DEF Handle, UpdateConnection, UpdateStats

LEMMA HandleOnce ==
    ASSUME TypeOK, TypeOK', OnceInv, Handle
    PROVE  OneInHand' /\ Separated' /\ OneRowPerOutage'
<1> USE DEF OnceInv
<1>1. UNCHANGED <<topic, link, outages, pos, committed, committing, inbox>> /\ wq' = Tail(wq) /\ wq # <<>>
  BY DEF Handle, kafka
<1>2. OneInHand'
  BY <1>1 DEF OneInHand
<1>3. PICK p, i, w, T, m, F, G, n, o, c :
        /\ p = pos["connection"] /\ i = inbox["connection"] /\ w = wq /\ T = Conn /\ m = Head(w)
        /\ F = Pipe /\ G = Pipe' /\ n = NextOff /\ o = outages /\ c = committed["connection"]
  OBVIOUS
<1>4. /\ p \in Nat /\ p <= Len(T) /\ i \in Seq(Messages) /\ w \in Seq(Messages) /\ w # <<>>
      /\ T \in Seq(Messages) /\ F = Flow(w, i, T, p) /\ F \in Seq(Messages)
      /\ n \in Nat /\ o \in Nat /\ c \in Nat /\ m \in Messages /\ rows \in Seq(Rows)
  <2>1. m \in Messages /\ rows \in Seq(Rows)
    BY <1>1, <1>3 DEF TypeOK
  <2> QED BY <1>1, <1>3, <2>1, PipeType DEF Pipe
<1>5. G = Flow(Tail(w), i, T, p)
  BY <1>1, <1>3 DEF Pipe, Conn
<1>6. Within(G, F, 1) /\ 1 \in 1..Len(F) /\ F[1] = m
  BY <1>3, <1>4, <1>5, FlowTail
<1>7. G \in Seq(Messages)
  <2>1. Tail(w) \in Seq(Messages)
    BY <1>4
  <2> QED BY <1>4, <1>5, <2>1, FlowIs DEF IsFlow
<1>8. /\ \A x \in Nat : Below(x, F, 1, n) => Below(x, G, 0, n)
      /\ \A x \in Nat : Settled(x, F, 1, n) => Settled(x, G, 0, n)
      /\ Ordered(F, o, n) => Ordered(G, o, n)
  BY <1>4, <1>6, <1>7, Carry
<1>9. /\ Ordered(T, o, n) /\ Ordered(F, o, n)
      /\ \A x \in RowOutages : Settled(x, F, 0, n) /\ (ap.connected => Below(x, F, 0, n))
      /\ \A x \in RowOutages \cup QueuedOutages : x \in Nat /\ x <= o /\ Settled(x, T, c, n)
  BY <1>3 DEF Separated
<1>10. n = NextOff' /\ o = outages' /\ T = Conn' /\ c = committed'["connection"] /\ G = Pipe'
  BY <1>1, <1>3 DEF NextOff, Conn
<1>11. /\ ap'.connected => ap.connected \/ Sign(m)
       /\ UNCHANGED rows \/ (Off(m) /\ ap.connected /\ ~ap'.connected /\ rows' = Append(rows, EventOf(m)))
  BY <1>3, HandleEffect
<1>12. \A x \in Nat : Below(x, F, 0, n) => Below(x, F, 1, n)
  <2>1. \A k \in 1 + 1..Len(F) : k \in 0 + 1..Len(F)
    BY <1>4
  <2> QED BY <2>1 DEF Below
<1>13. \A x \in RowOutages : Settled(x, G, 0, n) /\ (ap'.connected => Below(x, G, 0, n))
  <2> SUFFICES ASSUME NEW x \in RowOutages
               PROVE  Settled(x, G, 0, n) /\ (ap'.connected => Below(x, G, 0, n))
    OBVIOUS
  <2>1. x \in Nat /\ Settled(x, F, 0, n) /\ (ap.connected => Below(x, F, 0, n))
    BY <1>9
  <2>2. Settled(x, G, 0, n)
    <3>1. Settled(x, F, 1, n)
      BY <1>4, <2>1, SettledLater
    <3> QED BY <1>8, <2>1, <3>1
  <2>3. CASE ap.connected
    BY <1>8, <1>12, <2>1, <2>2, <2>3
  <2>4. CASE Sign(m)
    <3>1. 1 \in 0 + 1..Len(F)
      BY <1>6
    <3>2. Below(x, F, 1, n)
      BY <1>6, <2>1, <2>4, <3>1 DEF Settled
    <3> QED BY <1>8, <2>1, <2>2, <3>2
  <2> QED BY <1>11, <2>2, <2>3, <2>4
<1>14. QueuedOutages' \subseteq QueuedOutages /\ (Off(m) => m.outage \in QueuedOutages)
  <2>1. Range(wq') \subseteq Range(wq) /\ m \in Range(wq)
    BY <1>1, <1>3, <1>4, RangeTail
  <2> QED BY <1>1, <2>1 DEF QueuedOutages
<1>15. CASE UNCHANGED rows
  <2>1. RowOutages' = RowOutages /\ OneRowPerOutage'
    BY <1>15 DEF RowOutages, OneRowPerOutage
  <2>2. \A x \in RowOutages' \cup QueuedOutages' : x \in Nat /\ x <= o /\ Settled(x, T, c, n)
    BY <1>9, <1>14, <2>1
  <2>3. Separated'
    BY <1>8, <1>9, <1>10, <1>13, <2>1, <2>2 DEF Separated
  <2> QED BY <1>2, <2>1, <2>3
<1>16. CASE Off(m) /\ ap.connected /\ ~ap'.connected /\ rows' = Append(rows, EventOf(m))
  <2>1. /\ DOMAIN rows = 1..Len(rows) /\ Len(rows) \in Nat
        /\ DOMAIN rows' = 1..(Len(rows) + 1)
        /\ \A k \in 1..Len(rows) : rows'[k] = rows[k]
        /\ rows'[Len(rows) + 1].outage = m.outage
    <3>0. EventOf(m).outage = m.outage
      BY DEF EventOf
    <3>1. PICK e : e = EventOf(m) /\ e.outage = m.outage
      BY <3>0
    <3>2. rows \in Seq(Rows \cup {e})
      BY <1>4
    <3>3. rows' = Append(rows, e)
      BY <1>16, <3>1
    <3>4. /\ DOMAIN rows = 1..Len(rows) /\ Len(rows) \in Nat
          /\ DOMAIN rows' = 1..(Len(rows) + 1)
          /\ \A k \in 1..Len(rows) : rows'[k] = rows[k]
          /\ rows'[Len(rows) + 1] = e
      BY <3>2, <3>3, AppendProperties
    <3> QED BY <3>1, <3>4
  <2>2. RowOutages' = RowOutages \cup {m.outage}
    <3>1. \A x \in RowOutages' : x \in RowOutages \cup {m.outage}
      BY <2>1 DEF RowOutages
    <3>2. \A x \in RowOutages : x \in RowOutages'
      BY <2>1 DEF RowOutages
    <3>3. m.outage \in RowOutages'
      BY <2>1 DEF RowOutages
    <3> QED BY <3>1, <3>2, <3>3
  <2>3. \A x \in RowOutages : x < m.outage /\ x \in Nat
    <3>1. 1 \in 0 + 1..Len(F)
      BY <1>6
    <3> QED BY <1>6, <1>9, <1>16, <3>1 DEF Below
  <2>4. OneRowPerOutage'
    <3> SUFFICES ASSUME NEW j \in 1..(Len(rows) + 1), NEW k \in 1..(Len(rows) + 1),
                        rows'[j].outage = rows'[k].outage
                 PROVE  j = k
      BY <2>1 DEF OneRowPerOutage
    <3>0. m.outage \in Nat
      BY <1>9, <1>14, <1>16
    <3>1. CASE j \in 1..Len(rows) /\ k \in 1..Len(rows)
      BY <2>1, <3>1 DEF OneRowPerOutage
    <3>2. ASSUME NEW l \in 1..Len(rows) PROVE rows'[l].outage # m.outage
      <4>1. rows'[l].outage \in RowOutages
        BY <2>1 DEF RowOutages
      <4> QED BY <2>3, <3>0, <4>1
    <3>3. CASE j = Len(rows) + 1 /\ k \in 1..Len(rows)
      BY <2>1, <3>2, <3>3
    <3>4. CASE k = Len(rows) + 1 /\ j \in 1..Len(rows)
      BY <2>1, <3>2, <3>4
    <3>5. \A l \in 1..(Len(rows) + 1) : l \in 1..Len(rows) \/ l = Len(rows) + 1
      BY <2>1
    <3> QED BY <3>1, <3>3, <3>4, <3>5
  <2>5. Settled(m.outage, G, 0, n)
    <3>1. m.outage \in Nat /\ Settled(m.outage, F, 1, n)
      BY <1>6, <1>9, <1>16 DEF Ordered
    <3> QED BY <1>8, <3>1
  <2>7. \A x \in RowOutages' \cup QueuedOutages' : x \in Nat /\ x <= o /\ Settled(x, T, c, n)
    BY <1>9, <1>14, <1>16, <2>2
  <2>8. \A x \in RowOutages' : Settled(x, G, 0, n)
    BY <1>13, <2>2, <2>5
  <2>9. Separated'
    BY <1>8, <1>9, <1>10, <1>16, <2>7, <2>8 DEF Separated
  <2> QED BY <1>2, <2>4, <2>9
<1> QED BY <1>11, <1>15, <1>16
\* A crash throws the queues away and goes back to the committed offset,
\* with an AP that is not connected.
LEMMA CrashOnce ==
    ASSUME TypeOK, TypeOK', Separated, CrashRestart
    PROVE  OneInHand' /\ Separated'
<1>1. /\ UNCHANGED <<rows, topic, link, outages, committed>> /\ pos' = committed /\ ~ap'.connected
      /\ wq' = <<>> /\ inbox'["connection"] = <<>>
  BY DEF CrashRestart, store, NewAP, Topics
<1>2. OneInHand'
  BY <1>1 DEF OneInHand
<1>3. PICK T, G, n, o, c :
        T = Conn /\ G = Pipe' /\ n = NextOff /\ o = outages /\ c = committed["connection"]
  OBVIOUS
<1>4. T \in Seq(Messages) /\ n \in Nat /\ o \in Nat /\ c \in Nat /\ c <= Len(T)
  BY <1>3, PipeType
<1>5. G = Flow(<<>>, <<>>, T, c)
  BY <1>1, <1>3 DEF Pipe, Conn
<1>6. Within(G, T, c)
  BY <1>4, <1>5, FlowReplay
<1>7. G \in Seq(Messages)
  <2>1. <<>> \in Seq(Messages)
    OBVIOUS
  <2> QED BY <1>4, <1>5, <2>1, FlowIs DEF IsFlow
<1>8. /\ \A x \in Nat : Settled(x, T, c, n) => Settled(x, G, 0, n)
      /\ Ordered(T, o, n) => Ordered(G, o, n)
  BY <1>4, <1>6, <1>7, Carry
<1>9. Ordered(T, o, n) /\ \A x \in RowOutages : x \in Nat /\ x <= o /\ Settled(x, T, c, n)
  BY <1>3 DEF Separated
<1>10. /\ n = NextOff' /\ o = outages' /\ T = Conn' /\ c = committed'["connection"] /\ G = Pipe'
       /\ RowOutages' = RowOutages
  BY <1>1, <1>3 DEF NextOff, Conn, RowOutages
<1>11. QueuedOutages' = {}
  <2>1. Range(<<>>) = {}
    BY DEF Range
  <2> QED BY <1>1, <2>1 DEF QueuedOutages
<1>12. Separated'
  BY <1>1, <1>8, <1>9, <1>10, <1>11 DEF Separated
<1> QED BY <1>2, <1>12

\* What the gateway writes, other than duplicates and reports.
LEMMA GatewayOnce ==
    ASSUME TypeOK, TypeOK', OnceInv, Connect \/ Ping \/ HealthCheck \/ Disconnect \/ Repeat
    PROVE  OnceInv'
<1>1. UNCHANGED <<pos, committed, committing, inbox, wq, ap, rows>>
  BY DEF Connect, Ping, HealthCheck, Disconnect, Repeat, Announce, Write, store
<1>2. OneInHand' /\ OneRowPerOutage'
  BY <1>1 DEF OnceInv, OneInHand, OneRowPerOutage
<1>3. "connection" \in Topics /\ "health" \in Topics /\ outages \in Nat
  BY DEF Topics, TypeOK
<1>10. now \in Nat /\ Len(topic["connection"]) \in Nat
  BY PipeType DEF TypeOK, Conn
<1>4. CASE Connect
  <2>1. PICK m \in Messages : m = [type |-> "capabilities"]
    BY DEF Messages
  <2>2. Write("connection", m) /\ m.type # "state" /\ ~Off(m)
    BY <1>4, <2>1 DEF Connect, Off
  <2>3. outages' = outages /\ NextOff = outages /\ NextOff' = outages + 1
    BY <1>4 DEF Connect, NextOff
  <2>4. outages <= outages' /\ NextOff <= NextOff' /\ outages < NextOff'
    BY <1>3, <2>3
  <2>5. Separated'
    BY <2>2, <2>4, WriteSeparated DEF OnceInv
  <2>6. Kinds'
    BY <1>3, <2>2, WriteKinds DEF OnceInv
  <2> QED BY <1>2, <2>5, <2>6 DEF OnceInv
<1>5. CASE Ping
  <2>1. PICK m \in Messages : m = [type |-> "ping"]
    BY DEF Messages
  <2>2. Write("connection", m) /\ m.type # "state" /\ ~Off(m)
    BY <1>5, <2>1 DEF Ping, Off
  <2>3. outages' = outages /\ NextOff = outages + 1 /\ NextOff' = outages + 1
    BY <1>5 DEF Ping, NextOff
  <2>4. outages <= outages' /\ NextOff <= NextOff' /\ outages < NextOff'
    BY <1>3, <2>3
  <2>5. Separated'
    BY <2>2, <2>4, WriteSeparated DEF OnceInv
  <2>6. Kinds'
    BY <1>3, <2>2, WriteKinds DEF OnceInv
  <2> QED BY <1>2, <2>5, <2>6 DEF OnceInv
<1>6. CASE HealthCheck
  <2>1. PICK m \in Messages : m = [type |-> "health"]
    BY DEF Messages
  <2>2. Write("health", m) /\ m.type = "health"
    BY <1>6, <2>1 DEF HealthCheck
  <2>3. topic'["connection"] = topic["connection"] /\ UNCHANGED <<link, outages>>
    BY <1>3, <1>6, <2>2 DEF HealthCheck, Write, TypeOK
  <2>4. Pipe' = Pipe /\ Conn' = Conn /\ NextOff' = NextOff /\ RowOutages' = RowOutages
        /\ QueuedOutages' = QueuedOutages
    BY <1>1, <2>3 DEF Pipe, Conn, NextOff, RowOutages, QueuedOutages
  <2>5. Separated'
    BY <1>1, <2>3, <2>4 DEF OnceInv, Separated
  <2>6. Kinds'
    BY <1>3, <2>2, WriteKinds DEF OnceInv
  <2> QED BY <1>2, <2>5, <2>6 DEF OnceInv
<1>7. ASSUME NEW o \in Nat, NEW f \in BOOLEAN, Announce(o, f), o = NextOff, outages <= outages',
             NextOff' = NextOff, NextOff <= outages'
      PROVE  OnceInv'
  <2>1. PICK sh \in Shapes, t \in {now, now + 1} :
          Write("connection", [type |-> "disconnection", shape |-> sh, outage |-> o,
                               time |-> t, uuid |-> Len(topic["connection"]), first |-> f])
    BY <1>7 DEF Announce
  <2>2. t \in Nat /\ Len(topic["connection"]) \in Nat
    BY <1>10
  <2>3. PICK m : m = [type |-> "disconnection", shape |-> sh, outage |-> o,
                      time |-> t, uuid |-> Len(topic["connection"]), first |-> f]
    OBVIOUS
  <2>4. m \in Messages /\ m.outage = o /\ m.type = "disconnection" /\ ~Sign(m)
    BY <2>2, <2>3 DEF Messages, Sign
  <2>5. Write("connection", m)
    BY <2>1, <2>3
  <2>6. NextOff <= NextOff'
    BY <1>7
  <2>7. Separated'
    BY <1>7, <2>4, <2>5, <2>6, WriteSeparated DEF OnceInv
  <2>8. Kinds'
    BY <1>3, <2>4, <2>5, WriteKinds DEF OnceInv
  <2> QED BY <1>2, <2>7, <2>8 DEF OnceInv
<1>8. CASE Disconnect
  <2>1. NextOff = outages + 1 /\ NextOff' = outages + 1 /\ outages' = outages + 1
        /\ Announce(outages + 1, TRUE)
    BY <1>8 DEF Disconnect, NextOff
  <2>2. outages + 1 \in Nat /\ outages <= outages' /\ NextOff <= outages' /\ TRUE \in BOOLEAN
    BY <1>3, <2>1
  <2> QED BY <1>7, <2>1, <2>2
<1>9. CASE Repeat
  <2>1. NextOff = outages /\ NextOff' = outages /\ outages' = outages /\ Announce(outages, FALSE)
    BY <1>9 DEF Repeat, NextOff
  <2>2. outages <= outages' /\ NextOff <= outages' /\ FALSE \in BOOLEAN
    BY <1>3, <2>1
  <2> QED BY <1>3, <1>7, <2>1, <2>2
<1> QED BY <1>4, <1>5, <1>6, <1>8, <1>9

LEMMA OnceStep == TypeOK /\ (Calm => OnceInv) /\ [Next]_vars => (Calm => OnceInv)'
<1> SUFFICES ASSUME TypeOK, Calm => OnceInv, [Next]_vars, Calm' PROVE OnceInv'
  OBVIOUS
<1>1. OnceInv /\ ~Report /\ ~Duplicate /\ TypeOK'
  BY CalmStep, TypeStep
<1>2. CASE Gateway
  BY <1>1, <1>2, GatewayOnce DEF Gateway
<1>3. CASE Handle
  BY <1>1, <1>3, HandleOnce, ServiceKinds DEF OnceInv, Service
<1>4. CASE CrashRestart
  <2>1. OneRowPerOutage'
    BY <1>1, <1>4 DEF CrashRestart, store, OnceInv, OneRowPerOutage
  <2> QED BY <1>1, <1>4, <2>1, CrashOnce, ServiceKinds DEF OnceInv
<1>5. CASE Commit
  <2>1. OneRowPerOutage'
    BY <1>1, <1>5 DEF Commit, store, OnceInv, OneRowPerOutage
  <2> QED BY <1>1, <1>5, <2>1, CommitOnce, ServiceKinds DEF OnceInv, Service
<1>6. ASSUME NEW t \in Topics, Consume(t) PROVE OnceInv'
  <2>1. OneRowPerOutage'
    BY <1>1, <1>6 DEF Consume, store, OnceInv, OneRowPerOutage
  <2> QED BY <1>1, <1>6, <2>1, ConsumeOnce, ServiceKinds DEF OnceInv, Service
<1>7. ASSUME NEW t \in Topics, Route(t) PROVE OnceInv'
  <2>1. OneRowPerOutage'
    BY <1>1, <1>7 DEF Route, store, OnceInv, OneRowPerOutage
  <2> QED BY <1>1, <1>7, <2>1, RouteOnce, ServiceKinds DEF OnceInv, Service
<1>8. CASE UNCHANGED vars
  <2>1. UNCHANGED <<link, outages, topic, pos, committed, committing, inbox, wq, ap, rows>>
    BY <1>8 DEF vars, world, kafka, store
  <2>2. Pipe' = Pipe /\ Conn' = Conn /\ NextOff' = NextOff /\ RowOutages' = RowOutages
        /\ QueuedOutages' = QueuedOutages
    BY <2>1 DEF Pipe, Conn, NextOff, RowOutages, QueuedOutages
  <2>3. Kinds' /\ OneInHand' /\ OneRowPerOutage'
    BY <1>1, <2>1, <2>2 DEF OnceInv, Kinds, OneInHand, OneRowPerOutage
  <2>4. Separated'
    BY <1>1, <2>1, <2>2 DEF OnceInv, Separated
  <2> QED BY <2>3, <2>4 DEF OnceInv
<1> QED BY <1>2, <1>3, <1>4, <1>5, <1>6, <1>7, <1>8 DEF Next, Service

LEMMA OnceInit == Init => OnceInv
<1> SUFFICES ASSUME Init PROVE OnceInv
  OBVIOUS
<1>1. Range(<<>>) = {}
  BY DEF Range
<1>2. /\ \A t \in Topics : topic[t] = <<>> /\ inbox[t] = <<>> /\ pos[t] = 0 /\ committed[t] = 0
      /\ wq = <<>> /\ rows = <<>> /\ "connection" \in Topics
  BY DEF Init, Topics
<1>3. Kinds /\ OneInHand /\ OneRowPerOutage
  BY <1>1, <1>2 DEF Kinds, Conn, OneInHand, OneRowPerOutage
<1>4. RowOutages = {} /\ QueuedOutages = {}
  BY <1>1, <1>2 DEF RowOutages, QueuedOutages
<1>5. PICK e : e = <<>>
  OBVIOUS
<1>6. e \in Seq(Messages) /\ Len(e) = 0
  BY <1>5
<1>7. Conn = e /\ Pipe = Flow(e, e, e, 0)
  BY <1>2, <1>5 DEF Conn, Pipe
<1>8. Len(Pipe) = 0
  <2>1. 0 \in Nat /\ 0 <= Len(e)
    BY <1>6
  <2>2. IsFlow(Pipe, e, e, e, 0)
    BY <1>6, <1>7, <2>1, FlowIs
  <2> QED BY <1>6, <2>2 DEF IsFlow
<1>9. Ordered(Conn, outages, NextOff) /\ Ordered(Pipe, outages, NextOff)
  BY <1>6, <1>7, <1>8 DEF Ordered
<1> QED BY <1>3, <1>4, <1>9 DEF OnceInv, Separated

\* An outage is counted once, however many there are and whatever crashes,
\* replays and failing inserts happen, if the gateway repeats no
\* announcement (then records may be duplicated and reports be late), or if
\* no connection record is duplicated and no state report has been sent
\* (then it may repeat announcements at will).
THEOREM OutagesCountedOnce ==
    Spec => [](AnnouncedOnce \/ Calm => OneRowPerOutage)
<1>1. Init => RowsAnnounced /\ OneRecordPerOutage /\ QueuedIsWritten
  <2> SUFFICES ASSUME Init PROVE RowsAnnounced /\ OneRecordPerOutage /\ QueuedIsWritten
    OBVIOUS
  <2>1. Range(<<>>) = {}
    BY DEF Range
  <2>2. Written = {}
    BY <2>1 DEF Init, Written
  <2> QED BY <2>1, <2>2 DEF Init, RowsAnnounced, OneRecordPerOutage, QueuedIsWritten
<1>2. Spec => [](RowsAnnounced /\ OneRecordPerOutage)
  BY <1>1, QueuedStep, RowsAnnouncedStep, OneRecordStep, TypeCorrect, PTL DEF Spec
<1>3. Spec => [](Calm => OnceInv)
  BY OnceInit, OnceStep, TypeCorrect, PTL DEF Spec
<1>4. /\ TypeOK /\ NoDuplicateRows /\ RowsAnnounced /\ OneRecordPerOutage /\ (Calm => OnceInv)
      => (AnnouncedOnce \/ Calm => OneRowPerOutage)
  BY OnceByKey DEF OnceInv
<1> QED BY <1>2, <1>3, <1>4, TypeCorrect, RowsAreUnique, PTL
=============================================================================
