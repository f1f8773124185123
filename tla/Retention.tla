------------------------------ MODULE Retention ------------------------------
(***************************************************************************)
(* The periodic cleanup of the tables (Storage::onTimer): it pages through *)
(* the boards by offset, deletes the time points and the availability      *)
(* events that are older than the retention of their board, and at the end *)
(* the WiFi client history that is older than a fixed age.  REST handlers  *)
(* add, change and remove boards while a round runs, watchers insert rows, *)
(* and any statement of the cleanup may fail.                              *)
(***************************************************************************)
EXTENDS Naturals, Sequences, FiniteSetsExt, SequencesExt

CONSTANTS
    Boards,       \* board ids
    Batch,        \* boards per page
    VenueLists,   \* what a board's venueList may hold: sets of retentions
    Venues,       \* venues the WiFi client history is kept for
    Clients,      \* stations
    AgeLimit,     \* wificlient.age.limit, in units of the clock
    MaxClock,     \* bound: the last value of the clock
    Scenarios     \* what an earlier process left, and bounds on what the others do

Tables == {"points", "events"}
Times  == 1..MaxClock
Budgeted == {"ticks", "edits", "inserts", "reports", "purges", "faults", "restarts"}

ASSUME RetentionAssumption ==
    /\ Boards # {}
    /\ Batch \in Nat \ {0}
    /\ \A R \in VenueLists : R \subseteq Nat /\ \E m \in R \cup {0} : \A r \in R : r <= m
    /\ VenueLists # {}
    /\ AgeLimit \in Nat
    /\ MaxClock \in Nat \ {0}
    /\ \A s \in Scenarios : /\ s.order \in Seq(Boards)
                            /\ s.rets \in [Boards -> VenueLists]
                            /\ s.rows \in [Tables -> [Boards -> SUBSET Times]]
                            /\ s.clock \in Times
                            /\ s.budget \in [Budgeted -> Nat]

VARIABLES
    clock,          \* Utils::Now()
    order, rets,    \* the boards table: its rows as a scan returns them, their venueList
    fresh,          \* board ids POST has not handed out yet
    rows,           \* per table and board: the timestamps of its rows
    clients,        \* wificlienthistory: (venue, client, timestamp)
    pc, start, page, now, size,  \* locals of onTimer
    held,           \* history: per board, the retentions in force since the round began
    began, quiet,   \* history: when the round began; was it left alone since?
    budget          \* what is left of the bounds

round == <<pc, start, page, now, size, began>>
vars  == <<clock, order, rets, fresh, rows, clients, round, held, quiet, budget>>

PCs == {"idle", "page", "points", "events", "clients"}

\* EffectiveBoardRetention: the longest of the board's venues.
EffectiveBoardRetention(R) == CHOOSE m \in R \cup {0} : \A r \in R : r <= m

\* Mutant: the unsigned difference without the guard.
RetentionCutoffWraps(Now, Retention) ==
    IF Retention = 0 THEN 0 ELSE (Now + 2^4 - Retention) % 2^4

RetentionCutoff(Now, Retention) ==
    IF Retention = 0 \/ Retention >= Now THEN 0 ELSE Now - Retention

\* The rows of a query with OFFSET off LIMIT n.
ComputeRange(s, off, n) == SubSeq(s, off + 1, IF Len(s) < off + n THEN Len(s) ELSE off + n)

Listed(b)  == b \in ToSet(order)
Expired(b, t, at) == LET r == EffectiveBoardRetention(rets[b])
                     IN  Listed(b) /\ r # 0 /\ t + r < at

Entry == [id : Boards, rets : VenueLists]

TypeOK ==
    /\ clock \in Times
    /\ order \in Seq(Boards) /\ rets \in [Boards -> VenueLists]
    /\ fresh \in SUBSET Boards
    /\ rows \in [Tables -> [Boards -> SUBSET Times]]
    /\ clients \in SUBSET (Venues \X Clients \X Times)
    /\ pc \in PCs /\ start \in Nat /\ page \in Seq(Entry)
    /\ now \in Times /\ size \in Nat /\ began \in Times
    /\ held \in [Boards -> SUBSET Nat]
    /\ quiet \in BOOLEAN
    /\ budget \in [Budgeted -> Nat]

InRound(S) == IF pc = "idle" THEN {} ELSE S

Init ==
    /\ \E s \in Scenarios : /\ clock = s.clock /\ order = s.order /\ rets = s.rets
                            /\ rows = s.rows /\ budget = s.budget
    /\ fresh = Boards \ ToSet(order)
    /\ clients = {}
    /\ pc = "idle" /\ start = 0 /\ page = <<>> /\ now = 1 /\ size = 0
    /\ held = [b \in Boards |-> {}] /\ began = 1 /\ quiet = FALSE

Spend(what) == budget[what] > 0 /\ budget' = [budget EXCEPT ![what] = @ - 1]
-----------------------------------------------------------------------------
(* The others: time, the REST handlers and the watchers.                   *)

Tick ==
    /\ clock < MaxClock
    /\ Spend("ticks")
    /\ clock' = clock + 1
    /\ UNCHANGED <<order, rets, fresh, rows, clients, round, held, quiet>>

\* POST: the new row may land anywhere in the scan.
BoardAdded(b, R) ==
    /\ b \in fresh
    /\ Spend("edits")
    /\ fresh' = fresh \ {b}
    /\ \E i \in 1..Len(order) + 1 : order' = InsertAt(order, i, b)
    /\ rets' = [rets EXCEPT ![b] = R]
    /\ held' = [held EXCEPT ![b] = InRound({EffectiveBoardRetention(R)})]
    /\ quiet' = FALSE
    /\ UNCHANGED <<clock, rows, clients, round>>

\* PUT: PostgreSQL may write the new version of the row at another place.
BoardChanged(b, R) ==
    /\ Spend("edits")
    /\ \E i \in DOMAIN order :
          order[i] = b /\ order' \in {order, Append(RemoveAt(order, i), b)}
    /\ rets' = [rets EXCEPT ![b] = R]
    /\ held' = [held EXCEPT ![b] = @ \cup InRound({EffectiveBoardRetention(R)})]
    /\ quiet' = FALSE
    /\ UNCHANGED <<clock, fresh, rows, clients, round>>

\* DELETE: the board and its rows.
BoardRemoved(b) ==
    /\ Spend("edits")
    /\ \E i \in DOMAIN order : order[i] = b /\ order' = RemoveAt(order, i)
    /\ rows' = [tab \in Tables |-> [rows[tab] EXCEPT ![b] = {}]]
    /\ quiet' = FALSE
    /\ UNCHANGED <<clock, rets, fresh, clients, round, held>>

RowInserted(tab, b) ==
    /\ Listed(b)
    /\ Spend("inserts")
    /\ rows' = [rows EXCEPT ![tab][b] = @ \cup {clock}]
    /\ UNCHANGED <<clock, order, rets, fresh, clients, round, held, quiet>>
-----------------------------------------------------------------------------
(* Storage::onTimer.                                                       *)

TimerFires ==
    /\ pc = "idle"
    /\ pc' = "page" /\ start' = 0
    /\ held' = [b \in Boards |-> {EffectiveBoardRetention(rets[b])}] /\ began' = clock /\ quiet' = TRUE
    /\ UNCHANGED <<clock, order, rets, fresh, rows, clients, page, now, size, budget>>

\* Mutant: a full page is taken for the last one.
NextBoardOnePage(p) ==
    /\ page' = p
    /\ pc' = IF p # <<>> THEN "points" ELSE "clients"
    /\ UNCHANGED start

\* Mutant: the offset moves the wrong way.
NextBoardBack(p) ==
    /\ page' = p
    /\ \/ p # <<>> /\ pc' = "points" /\ UNCHANGED start
       \/ p = <<>> /\ size' < Batch /\ pc' = "clients" /\ UNCHANGED start
       \/ p = <<>> /\ size' >= Batch /\ pc' = "page" /\ start' = start - size'

NextBoard(p) ==
    /\ page' = p
    /\ \/ p # <<>> /\ pc' = "points" /\ UNCHANGED start
       \/ p = <<>> /\ size' < Batch /\ pc' = "clients" /\ UNCHANGED start
       \/ p = <<>> /\ size' >= Batch /\ pc' = "page" /\ start' = start + size'

\* GetRecords reports an empty page and a failure alike: the round goes on
\* with the clients.
ReadPage ==
    LET Batched == ComputeRange(order, start, Batch)
        Entries == [i \in 1..Len(Batched) |-> [id |-> Batched[i], rets |-> rets[Batched[i]]]]
    IN  /\ pc = "page"
        /\ \/ /\ Batched # <<>>
              /\ now' = clock /\ size' = Len(Batched)
              /\ NextBoard(Entries)
              /\ UNCHANGED <<quiet, budget>>
           \/ /\ Batched = <<>>
              /\ pc' = "clients"
              /\ UNCHANGED <<start, page, now, size, quiet, budget>>
           \/ /\ Spend("faults") /\ quiet' = FALSE
              /\ pc' = "clients"
              /\ UNCHANGED <<start, page, now, size>>
        /\ UNCHANGED <<clock, order, rets, fresh, rows, clients, held, began>>

\* TimePointsDB().DeleteRecords and DeleteExpiredEventsForBoard: a failure is
\* logged and the round goes on.
Expire(tab) ==
    LET e == Head(page)
        Cutoff == RetentionCutoff(now, EffectiveBoardRetention(e.rets))
    IN  \/ /\ rows' = [rows EXCEPT ![tab][e.id] = {t \in @ : t >= Cutoff}]
           /\ UNCHANGED <<quiet, budget>>
        \/ /\ Spend("faults") /\ quiet' = FALSE
           /\ UNCHANGED rows

SkipBoard ==
    /\ pc = "points"
    /\ EffectiveBoardRetention(Head(page).rets) = 0
    /\ size' = size
    /\ NextBoard(Tail(page))
    /\ UNCHANGED <<clock, order, rets, fresh, rows, clients, now, held, began, quiet, budget>>

ExpirePoints ==
    /\ pc = "points"
    /\ EffectiveBoardRetention(Head(page).rets) # 0
    /\ Expire("points")
    /\ pc' = "events"
    /\ UNCHANGED <<clock, order, rets, fresh, clients, start, page, now, size, held, began>>

\* Mutant: the loop stays with the same board.
ExpireEventsStays ==
    /\ pc = "events"
    /\ Expire("events")
    /\ size' = size
    /\ NextBoard(page)
    /\ UNCHANGED <<clock, order, rets, fresh, clients, now, held, began>>

ExpireEvents ==
    /\ pc = "events"
    /\ Expire("events")
    /\ size' = size
    /\ NextBoard(Tail(page))
    /\ UNCHANGED <<clock, order, rets, fresh, clients, now, held, began>>

\* onTimer returns, or dies with the process: its locals are gone.
EndRound ==
    /\ pc' = "idle" /\ start' = 0 /\ page' = <<>> /\ now' = 1 /\ size' = 0
    /\ began' = 1 /\ held' = [b \in Boards |-> {}]

ExpireClients ==
    /\ pc = "clients"
    /\ EndRound
    /\ \/ clients' = {c \in clients : c[3] + AgeLimit >= clock} /\ UNCHANGED budget
       \/ Spend("faults") /\ UNCHANGED clients
    /\ quiet' = FALSE
    /\ UNCHANGED <<clock, order, rets, fresh, rows>>

Cleanup == TimerFires \/ ReadPage \/ SkipBoard \/ ExpirePoints \/ ExpireEvents \/ ExpireClients

\* The process dies, at any point of a round, and is started again.
Restart ==
    /\ Spend("restarts")
    /\ EndRound /\ quiet' = FALSE
    /\ UNCHANGED <<clock, order, rets, fresh, rows, clients>>

Work ==
    \/ Tick
    \/ \E b \in Boards, R \in VenueLists : BoardAdded(b, R) \/ BoardChanged(b, R)
    \/ \E b \in Boards : BoardRemoved(b)
    \/ \E tab \in Tables, b \in Boards : RowInserted(tab, b)
    \/ Cleanup

Next == Work \/ Restart

Spec == Init /\ [][Next]_vars
-----------------------------------------------------------------------------
(* Properties.                                                             *)

\* A statement of the cleanup only removes a row that is older than a
\* retention its board had while this round ran: neither a stale page, nor a
\* zero retention, nor one longer than the clock loses a row that is to be kept.
ExpiredOnly ==
    [][order' = order =>
         \A tab \in Tables, b \in Boards : \A t \in rows[tab][b] \ rows'[tab][b] :
            \E r \in held[b] : r # 0 /\ t + r < clock]_vars

\* A round nobody interferes with and in which nothing fails reaches every
\* board, whatever the number of pages: at its end no row is left that was
\* expired when it began.
RoundComplete ==
    [][pc = "clients" /\ pc' = "idle" /\ quiet =>
         \A tab \in Tables, b \in Boards : \A t \in rows[tab][b] : ~Expired(b, t, began)]_vars

\* An expired row does not stay: whatever the rounds that skipped its board
\* because a page boundary moved or a statement failed, it is deleted, unless
\* its board goes or is given a longer retention.
ExpiredGone ==
    \A b \in Boards, t \in Times :
        LET HasOld == \E tab \in Tables : t \in rows[tab][b] /\ Expired(b, t, clock)
        IN  HasOld ~> ~HasOld
=============================================================================
