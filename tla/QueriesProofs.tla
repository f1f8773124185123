--------------------------- MODULE QueriesProofs ---------------------------
(***************************************************************************)
(* For any boards, clients, limits and interleaving: the types of Queries, *)
(* and that the window a request may ask for and the rows the cleanup      *)
(* keeps agree.                                                            *)
(***************************************************************************)
EXTENDS Queries, TLAPS

\* The rows that the cleanup deleted are older than the retention it used,
\* and stay so.
PurgedOld == \A p \in purged : p[1].ts + p[2] < clock

\* What TypeOK says of the parameters of the behaviour
Given == scenario \in Scenarios

IInv == TypeOK /\ Given /\ PurgedOld

\* ValidateWindowQuery returns a window or nothing.
LEMMA WindowType ==
    ASSUME NEW q, q.till \in Seq({NoValue} \cup Nat), q.lookback \in Seq({NoValue} \cup Nat), NEW now \in Nat
    PROVE  ValidateWindowQuery(q, now) \in {NoValue} \cup Windows
<1>1. CASE Len(q.till) = 1 /\ q.till[1] # NoValue /\ Len(q.lookback) = 1 /\ q.lookback[1] # NoValue
  <2>1. q.till[1] \in Nat /\ q.lookback[1] \in Nat
    BY <1>1
  <2>2. q.lookback[1] * Hour \in Nat
    BY <2>1, QueriesAssumption
  <2>3. q.lookback[1] * Hour <= q.till[1] => q.till[1] - q.lookback[1] * Hour \in Nat
    BY <2>1, <2>2
  <2> QED BY <2>1, <2>3 DEF ValidateWindowQuery, Windows
<1>2. CASE ~(Len(q.till) = 1 /\ q.till[1] # NoValue /\ Len(q.lookback) = 1 /\ q.lookback[1] # NoValue)
  BY <1>2 DEF ValidateWindowQuery
<1> QED BY <1>1, <1>2

\* The invariant holds at the start.
LEMMA InitIInv == Init => IInv
BY QueriesAssumption DEF Init, IInv, TypeOK, Given, PurgedOld

\* The steps of the environment keep it.
LEMMA OthersIInv == IInv /\ Others => IInv'
<1> SUFFICES ASSUME IInv, Others PROVE IInv'
  OBVIOUS
<1> USE DEF IInv, TypeOK, Given, PurgedOld, locals, device
<1>1. CASE Tick
  BY <1>1 DEF Tick
<1>2. ASSUME NEW i, NEW b, NEW s, NEW c, ReportStored(i, b, s, c) PROVE IInv'
  BY <1>2 DEF ReportStored, Row
<1>3. ASSUME NEW i, NEW b, NEW s, NEW l, NEW reset, NEW bytes, NEW has, TrafficStored(i, b, s, l, reset, bytes, has)
      PROVE IInv'
  BY <1>3 DEF TrafficStored, Row
<1>4. ASSUME NEW i, NEW b, NEW s, NEW t, EventStored(i, b, s, t) PROVE IInv'
  BY <1>4 DEF EventStored
<1>5. ASSUME NEW B \in scenario.edits, BoardsEdited(B) PROVE IInv'
  BY <1>5, QueriesAssumption DEF BoardsEdited
<1>6. ASSUME NEW b \in boards, Cleanup(b) PROVE IInv'
  <2> DEFINE old == {r \in rows : r.board = b.id /\ r.ts < clock - b.retention}
  <2>1. b.retention \in Nat
    BY DEF BoardRows
  <2>2. rows' = rows \ old /\ purged' = purged \cup {<<r, b.retention>> : r \in old}
    BY <1>6 DEF Cleanup
  <2>3. \A r \in old : r.ts \in Nat /\ r.ts + b.retention < clock
    BY <2>1
  <2>4. \A p \in purged' : p[1].ts \in Nat /\ p[2] \in Nat /\ p[1].ts + p[2] < clock
    BY <2>1, <2>2, <2>3
  <2> QED BY <1>6, <2>2, <2>4 DEF Cleanup
<1> QED BY <1>1, <1>2, <1>3, <1>4, <1>5, <1>6 DEF Others

\* The steps of a request keep it.
LEMMA RequestIInv == IInv /\ Request => IInv'
<1> SUFFICES ASSUME IInv, Request PROVE IInv'
  OBVIOUS
<1> USE DEF IInv, TypeOK, Given, PurgedOld, locals, device
<1>1. ASSUME NEW q \in scenario.requests, Asked(q) PROVE IInv'
  <2>1. window' \in {NoValue} \cup Windows
    BY <1>1, WindowType, QueriesAssumption DEF Asked
  <2> QED BY <1>1, <2>1 DEF Asked, Reply
<1>2. ASSUME NEW outcome, NEW v, Resolve(outcome, v) PROVE IInv'
  <2>1. resolved' \in {NoValue} \cup BoardRows /\ (pc' = "select" => resolved' \in BoardRows) /\ pc' \in {"done", "select"}
    BY <1>2 DEF Resolve, Resolved, Reply, ResolveBoardForVenue
  <2>2. pc' = "select" => window' \in Windows
    BY <1>2 DEF Resolve
  <2> QED BY <1>2, <2>1, <2>2 DEF Resolve
<1>3. CASE MemorySummary \/ RadioTemperatureSummary \/ RssiSummary \/ AvailabilitySummary \/ BandwidthConsumption
  BY <1>3 DEF MemorySummary, RadioTemperatureSummary, RssiSummary, AvailabilitySummary, BandwidthConsumption,
              TooMany, Queried, Reply
<1>4. CASE StartBoundary
  BY <1>4 DEF StartBoundary
<1>5. CASE EndBoundary
  BY <1>5 DEF EndBoundary, Reply
<1>6. CASE QueryFails
  BY <1>6 DEF QueryFails, Reply
<1>7. ASSUME NEW q, TimeLineAsked(q) PROVE IInv'
  BY <1>7 DEF TimeLineAsked, Reply
<1>8. ASSUME NEW q, TimeLineDeleted(q) PROVE IInv'
  BY <1>8 DEF TimeLineDeleted, Reply
<1>9. CASE Finished
  BY <1>9 DEF Finished
<1> QED BY <1>1, <1>2, <1>3, <1>4, <1>5, <1>6, <1>7, <1>8, <1>9 DEF Request

\* IInv is inductive.
LEMMA NextIInv == IInv /\ [Next]_vars => IInv'
<1>1. IInv /\ UNCHANGED vars => IInv'
  BY DEF IInv, TypeOK, Given, PurgedOld, vars, locals
<1> QED BY <1>1, OthersIInv, RequestIInv DEF Next

\* The types of the tables and of a request's locals.
THEOREM TypeCorrect == Spec => []TypeOK
<1>1. IInv => TypeOK
  BY DEF IInv
<1> QED BY <1>1, InitIInv, NextIInv, PTL DEF Spec

\* Only the answer of provisioning takes a request from there to its query.
LEMMA Accepting ==
    ASSUME IInv, [Next]_vars, pc = "resolve", pc' = "select"
    PROVE  /\ UNCHANGED <<clock, window>>
           /\ window \in Windows /\ resolved' \in BoardRows
           /\ ValidateRetention(window, resolved'.retention, clock)
<1>1. \E outcome, v : Resolve(outcome, v)
  BY DEF Next, vars, locals, Others, Request, Tick, ReportStored, TrafficStored, EventStored, BoardsEdited, Cleanup,
         Asked, MemorySummary, RadioTemperatureSummary, RssiSummary, AvailabilitySummary, BandwidthConsumption, TooMany,
         Queried, StartBoundary, EndBoundary, QueryFails, TimeLineAsked, TimeLineDeleted, Finished
<1>2. PICK outcome, v : Resolve(outcome, v)
  BY <1>1
<1>3. \E b \in boards : Resolved(b)
  BY <1>2 DEF Resolve, Reply, ResolveBoardForVenue
<1>4. PICK b \in boards : Resolved(b)
  BY <1>3
<1>5. resolved' = b /\ ValidateRetention(window, b.retention, clock)
  BY <1>4 DEF Resolved, Reply
<1> QED BY <1>2, <1>5 DEF Resolve, IInv, TypeOK

\* A window that is accepted starts no earlier than anything the cleanup
\* kept with the same or a longer retention: no row of it has been deleted.
THEOREM AcceptedIsKept == Spec => AcceptedWindowIsKept
<1>1. ASSUME IInv, [Next]_vars, pc = "resolve", pc' = "select",
             NEW p \in purged, p[1].board = resolved'.id, p[2] >= resolved'.retention
      PROVE  ~InWindow(p[1].ts, window)
  <2> DEFINE r == resolved'.retention
  <2>1. r \in Nat /\ clock \in Nat /\ window.start \in Nat /\ p[1].ts \in Nat /\ p[2] \in Nat
    BY <1>1, Accepting DEF Windows, BoardRows, IInv, TypeOK
  <2>2. window.start >= (IF clock > r THEN clock - r ELSE 0)
    BY <1>1, Accepting DEF ValidateRetention
  <2>3. p[1].ts + p[2] < clock
    BY <1>1 DEF IInv, PurgedOld
  <2> HIDE DEF r
  <2>4. p[2] >= r
    BY <1>1 DEF r
  <2>5. p[1].ts < window.start
    BY <2>1, <2>2, <2>3, <2>4
  <2> QED BY <2>1, <2>5 DEF InWindow
<1>2. IInv /\ [Next]_vars =>
        [pc = "resolve" /\ pc' = "select" =>
           \A p \in purged : p[1].board = resolved'.id /\ p[2] >= resolved'.retention => ~InWindow(p[1].ts, window)]_pc
  BY <1>1
<1> QED BY <1>2, InitIInv, NextIInv, PTL DEF Spec, AcceptedWindowIsKept
=============================================================================
