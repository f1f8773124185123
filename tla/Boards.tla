------------------------------- MODULE Boards -------------------------------
(***************************************************************************)
(* The life of an analytics board: the REST handlers that create, modify   *)
(* and delete it, the VenueCoordinator that starts, refreshes and retires  *)
(* the watcher of every board, the boards / timepoints / availability      *)
(* tables, and the provisioning service (external) that owns the venues.   *)
(*                                                                         *)
(* Processes: the coordinator's sweep thread (VenueCoordinator::run), its  *)
(* reconcile timer (onReconcileTimer) and the REST handler threads.  A     *)
(* step is what a process does between two points where another process    *)
(* can observe or disturb it: a database statement, an HTTP call to        *)
(* provisioning, or a section under VenueCoordinator::Mutex_.              *)
(***************************************************************************)
EXTENDS Naturals

CONSTANTS Boards,          \* board ids (UUIDs) that POST may hand out
          Venues,          \* venue ids known to provisioning
          Devices,         \* serial numbers
          SubVenueDevices, \* venue -> devices of its sub-venues
          Handlers,        \* REST handler threads
          Tables,          \* bound: the history tables the instance follows
          DBFaults,        \* may a database statement fail?
          MaxEdits,        \* bound: device moves made in provisioning
          MaxPuts,         \* bound: PUT requests
          MaxOutages,      \* bound: outages of the provisioning service
          MaxCrashes,      \* bound: crashes of this service
          NoRecord, NoList, NoProc

Sweep     == "sweep"
Reconcile == "reconcile"
Procs     == Handlers \cup {Sweep, Reconcile}

\* AnalyticsObjects::BoardInfo: exactly one venue (HasExactlyOneVenue), and
\* whether its sub-venues are monitored as well.
Record  == [venue : Venues, sub : BOOLEAN]
DevList == SUBSET Devices

MaybeRecord == {NoRecord} \cup Record
MaybeList   == {NoList} \cup DevList

ASSUME BoardsAssumption ==
    /\ Boards # {}
    /\ SubVenueDevices \in [Venues -> DevList]
    /\ Tables \subseteq {"timepoints", "events"}
    /\ DBFaults \in BOOLEAN
    /\ MaxEdits \in Nat /\ MaxPuts \in Nat /\ MaxOutages \in Nat /\ MaxCrashes \in Nat
    /\ Sweep \notin Handlers /\ Reconcile \notin Handlers
    /\ NoProc \notin Procs
    /\ \A r \in Record : r # NoRecord
    /\ \A D \in DevList : D # NoList

VARIABLES
    venues,        \* provisioning: the venues that exist
    provDevices,   \* provisioning: the devices placed directly in each venue
    provUp,        \* provisioning: does it answer?
    db,            \* boards table: id -> record
    timepoints,    \* boards that have rows in the timepoints table
    events,        \* boards that have rows in device_availability_events
    mutex,         \* owner of VenueCoordinator::Mutex_ across several steps
    createMutex,   \* owner of Storage::BoardCreateMutex
    watchers,      \* Watchers_: id -> SerialNumbers_ of the running watcher
    existing,      \* ExistingBoards_: id -> device list last applied
    toWatch,       \* BoardsToWatch_: snapshot of the table, consumed by run()
    reconTodo,     \* watchers the reconcile loop has not visited yet
    pc, brd, rec, devs, \* per process: next step and its local variables
    issued,        \* board ids already handed out
    retired,       \* history: boards whose RetireBoard has run to its end
    stopped,       \* history: boards whose watcher this process has stopped
    edits, puts, outages, crashes  \* what the bounds count

prov   == <<venues, provDevices, provUp>>
tables == <<db, timepoints, events>>
coord  == <<watchers, existing, toWatch, reconTodo>>
locals == <<pc, brd, rec, devs>>
locks  == <<mutex, createMutex>>
bounds == <<edits, puts, outages, crashes>>
history == <<retired, stopped>>
vars   == <<prov, tables, coord, locals, locks, issued, history, bounds>>

PCs == {"idle", "create", "add", "write", "scan", "update", "fetch", "apply",
        "stop", "record", "timepoints", "events"}

TypeOK ==
    /\ venues \in SUBSET Venues
    /\ provDevices \in [Venues -> DevList]
    /\ provUp \in BOOLEAN
    /\ db \in [Boards -> MaybeRecord]
    /\ timepoints \in SUBSET Boards
    /\ events \in SUBSET Boards
    /\ mutex \in {Sweep, Reconcile, NoProc}
    /\ createMutex \in Handlers \cup {NoProc}
    /\ watchers \in [Boards -> MaybeList]
    /\ existing \in [Boards -> MaybeList]
    /\ toWatch \in [Boards -> MaybeRecord]
    /\ reconTodo \in SUBSET Boards
    /\ pc \in [Procs -> PCs]
    /\ brd \in [Procs -> Boards]
    /\ rec \in [Procs -> MaybeRecord]
    /\ devs \in [Procs -> DevList]
    /\ issued \in SUBSET Boards
    /\ retired \in SUBSET Boards
    /\ stopped \in SUBSET Boards
    /\ edits \in 0..MaxEdits
    /\ puts \in 0..MaxPuts
    /\ outages \in 0..MaxOutages
    /\ crashes \in 0..MaxCrashes

InTable(b)  == db[b] # NoRecord
Watching(b) == existing[b] # NoList      \* VenueCoordinator::Watching
Watched(b)  == watchers[b] # NoList
AnyBoard    == CHOOSE b \in Boards : TRUE

Init ==
    /\ venues = Venues
    /\ provDevices \in [Venues -> DevList]
    /\ provUp = TRUE
    /\ db = [b \in Boards |-> NoRecord]
    /\ timepoints = {} /\ events = {}
    /\ watchers = [b \in Boards |-> NoList]
    /\ existing = [b \in Boards |-> NoList]
    /\ toWatch = [b \in Boards |-> NoRecord]
    /\ reconTodo = {}
    /\ pc = [p \in Procs |-> "idle"] /\ brd = [p \in Procs |-> AnyBoard]
    /\ rec = [p \in Procs |-> NoRecord] /\ devs = [p \in Procs |-> {}]
    /\ mutex = NoProc /\ createMutex = NoProc
    /\ issued = {} /\ retired = {} /\ stopped = {}
    /\ edits = 0 /\ puts = 0 /\ outages = 0 /\ crashes = 0
-----------------------------------------------------------------------------
(* Provisioning (external), and the SDK calls that read it.                *)

VenueEdited(v, D) ==
    /\ edits < MaxEdits
    /\ v \in venues /\ D # provDevices[v]
    /\ provDevices' = [provDevices EXCEPT ![v] = D]
    /\ edits' = edits + 1
    /\ UNCHANGED <<venues, provUp, tables, coord, locals, locks, issued, history,
                   puts, outages, crashes>>

VenueDeleted(v) ==
    /\ v \in venues
    /\ venues' = venues \ {v}
    /\ UNCHANGED <<provDevices, provUp, tables, coord, locals, locks, issued, history,
                   bounds>>

ProvisioningDown ==
    /\ provUp /\ outages < MaxOutages
    /\ provUp' = FALSE
    /\ outages' = outages + 1
    /\ UNCHANGED <<venues, provDevices, tables, coord, locals, locks, issued, history,
                   edits, puts, crashes>>

ProvisioningUp ==
    /\ ~provUp
    /\ provUp' = TRUE
    /\ UNCHANGED <<venues, provDevices, tables, coord, locals, locks, issued, history,
                   bounds>>

\* The device list provisioning holds for a board's record.
DeviceList(r) ==
    IF r.venue \in venues
    THEN provDevices[r.venue] \cup (IF r.sub THEN SubVenueDevices[r.venue] ELSE {})
    ELSE {}

\* Seeded fault: a 404 is an error of the call, as in Venue::Get.
GetDevices404Fails(r) ==
    [ok |-> provUp /\ r.venue \in venues, exists |-> provUp => r.venue \in venues,
     devices |-> DeviceList(r)]

\* SDK::Prov::Venue::GetDevices: a 404 answers TRUE with an empty list and
\* VenueExists = FALSE; any other failure answers FALSE.
GetDevices(r) ==
    [ok |-> provUp, exists |-> provUp => r.venue \in venues, devices |-> DeviceList(r)]

\* Seeded fault: every answer that is not a 200 counts as "does not exist".
ExistsFailOpen(v) == [ok |-> TRUE, exists |-> provUp /\ v \in venues]

\* Seeded fault: a 404 counts as a failed call.
Exists404Fails(v) == [ok |-> provUp /\ v \in venues, exists |-> provUp /\ v \in venues]

\* SDK::Prov::Venue::Exists: TRUE for 200 and 404, FALSE for any other failure.
Exists(v) == [ok |-> provUp, exists |-> provUp /\ v \in venues]
-----------------------------------------------------------------------------
(* Control shared by the processes.                                        *)

\* Mutex_ is recursive: p may enter when nobody else owns it.
MayLock(p) == mutex \in {NoProc, p}

Goto(p, l) == pc' = [pc EXCEPT ![p] = l]

\* A call made on behalf of p returns: a handler answers its request, the
\* sweep and the reconcile loop go on to their next board.
Return(p) ==
    /\ Goto(p, IF p \in Handlers THEN "idle" ELSE "scan")
    /\ brd'  = [brd EXCEPT ![p] = AnyBoard]
    /\ rec'  = [rec EXCEPT ![p] = NoRecord]
    /\ devs' = [devs EXCEPT ![p] = {}]

\* A statement on a table either takes effect or, when the database fails,
\* is logged and leaves the table as it was.
Execute(table, new) ==
    \/ table' = new
    \/ DBFaults /\ table' = table
-----------------------------------------------------------------------------
(* Removing a board.  RetireBoard and DELETE run the same four calls:      *)
(* StopBoard, then the three deletes, whose results nobody looks at.       *)

\* Seeded fault: StopBoard also forgets the board in ExistingBoards_.
StopBoardForgets(p) ==
    /\ pc[p] = "stop" /\ MayLock(p)
    /\ watchers' = [watchers EXCEPT ![brd[p]] = NoList]
    /\ existing' = [existing EXCEPT ![brd[p]] = NoList]
    /\ stopped' = IF Watched(brd[p]) THEN stopped \cup {brd[p]} ELSE stopped
    /\ Goto(p, "record")
    /\ UNCHANGED <<prov, tables, toWatch, reconTodo, brd, rec, devs, locks, issued,
                   retired, bounds>>

StopBoard(p) ==
    /\ pc[p] = "stop" /\ MayLock(p)
    /\ watchers' = [watchers EXCEPT ![brd[p]] = NoList]
    /\ stopped' = IF Watched(brd[p]) THEN stopped \cup {brd[p]} ELSE stopped
    /\ Goto(p, "record")
    /\ UNCHANGED <<prov, tables, existing, toWatch, reconTodo, brd, rec, devs, locks,
                   issued, retired, bounds>>

DeleteRecord(p) ==
    /\ pc[p] = "record"
    /\ Execute(db, [db EXCEPT ![brd[p]] = NoRecord])
    /\ Goto(p, "timepoints")
    /\ UNCHANGED <<prov, timepoints, events, coord, brd, rec, devs, locks, issued,
                   history, bounds>>

DeleteTimePoints(p) ==
    /\ pc[p] = "timepoints"
    /\ Execute(timepoints, timepoints \ {brd[p]})
    /\ Goto(p, "events")
    /\ UNCHANGED <<prov, db, events, coord, brd, rec, devs, locks, issued, history,
                   bounds>>

DeleteEvents(p) ==
    /\ pc[p] = "events"
    /\ Execute(events, events \ {brd[p]})
    /\ retired' = IF p \in Handlers THEN retired ELSE retired \cup {brd[p]}
    /\ Return(p)
    /\ UNCHANGED <<prov, db, timepoints, coord, locks, issued, stopped, bounds>>
-----------------------------------------------------------------------------
(* VenueCoordinator::UpdateBoard, called by the reconcile loop (which owns *)
(* Mutex_) and by PUT (which takes it only for the last step).             *)

\* Seeded fault: Mutex_ is taken before the record is read, so that a PUT
\* keeps it through its HTTP call.
UpdateBoardReadLocked(p) ==
    /\ pc[p] = "update" /\ MayLock(p) /\ InTable(brd[p])
    /\ mutex' = p
    /\ rec' = [rec EXCEPT ![p] = db[brd[p]]]
    /\ Goto(p, "fetch")
    /\ UNCHANGED <<prov, tables, coord, brd, devs, createMutex, issued, history, bounds>>

UpdateBoardRead(p) ==
    /\ pc[p] = "update"
    /\ \/ /\ ~InTable(brd[p])
          /\ Return(p)
       \/ /\ InTable(brd[p])
          /\ rec' = [rec EXCEPT ![p] = db[brd[p]]]
          /\ Goto(p, "fetch")
          /\ UNCHANGED <<brd, devs>>
    /\ UNCHANGED <<prov, tables, coord, locks, issued, history, bounds>>

UpdateBoardFetch(p) ==
    /\ pc[p] = "fetch"
    /\ LET answer == GetDevices(rec[p])
       IN  IF answer.ok
           THEN /\ devs' = [devs EXCEPT ![p] = answer.devices]
                /\ Goto(p, "apply")
                /\ UNCHANGED <<brd, rec>>
           ELSE IF answer.exists
           THEN Return(p)
           ELSE Goto(p, "stop") /\ UNCHANGED <<brd, rec, devs>>
    /\ UNCHANGED <<prov, tables, coord, locks, issued, history, bounds>>

\* Seeded fault: the new list is recorded but not handed to the watcher.
UpdateBoardApplyHalf(p) ==
    /\ pc[p] = "apply" /\ MayLock(p)
    /\ existing' = IF Watching(brd[p]) THEN [existing EXCEPT ![brd[p]] = devs[p]]
                                        ELSE existing
    /\ Return(p)
    /\ UNCHANGED <<prov, tables, watchers, toWatch, reconTodo, locks, issued, history,
                   bounds>>

UpdateBoardApply(p) ==
    /\ pc[p] = "apply" /\ MayLock(p)
    /\ LET b == brd[p]
       IN  IF Watching(b) /\ existing[b] # devs[p]
           THEN /\ existing' = [existing EXCEPT ![b] = devs[p]]
                /\ watchers' = IF Watched(b) THEN [watchers EXCEPT ![b] = devs[p]]
                                             ELSE watchers
           ELSE UNCHANGED <<existing, watchers>>
    /\ Return(p)
    /\ UNCHANGED <<prov, tables, toWatch, reconTodo, locks, issued, history, bounds>>
-----------------------------------------------------------------------------
(* VenueCoordinator::run, one round every 60 seconds under Mutex_.         *)

SweepBegin ==
    /\ pc[Sweep] = "idle" /\ mutex = NoProc
    /\ mutex' = Sweep
    /\ toWatch' = db                                   \* GetBoardList
    /\ Goto(Sweep, "scan")
    /\ UNCHANGED <<prov, tables, watchers, existing, reconTodo, brd, rec, devs,
                   createMutex, issued, history, bounds>>

\* RetireBoard(b), called by the sweep.
SweepRetire(b) ==
    /\ Goto(Sweep, "stop")
    /\ brd' = [brd EXCEPT ![Sweep] = b]

\* Seeded fault: ExistingBoards_ is filled in before the devices are known.
StartBoardEarly(b) ==
    /\ pc[Sweep] = "scan" /\ toWatch[b] # NoRecord /\ ~Watching(b)
    /\ toWatch' = [toWatch EXCEPT ![b] = NoRecord]
    /\ LET answer == GetDevices(toWatch[b])
       IN  /\ existing' = [existing EXCEPT ![b] = answer.devices]
           /\ watchers' = IF answer.ok THEN [watchers EXCEPT ![b] = answer.devices]
                                       ELSE watchers
    /\ UNCHANGED <<prov, tables, reconTodo, locals, locks, issued, history, bounds>>

\* run() reaches a board that is not watched: StartBoard.
StartBoard(b) ==
    /\ pc[Sweep] = "scan" /\ toWatch[b] # NoRecord /\ ~Watching(b)
    /\ toWatch' = [toWatch EXCEPT ![b] = NoRecord]
    /\ LET answer == GetDevices(toWatch[b])
       IN  IF answer.ok
           THEN /\ existing' = [existing EXCEPT ![b] = answer.devices]
                /\ watchers' = [watchers EXCEPT ![b] = answer.devices]
                /\ UNCHANGED <<pc, brd>>
           ELSE /\ UNCHANGED <<existing, watchers>>
                /\ IF answer.exists THEN UNCHANGED <<pc, brd>> ELSE SweepRetire(b)
    /\ UNCHANGED <<prov, tables, reconTodo, rec, devs, locks, issued, history, bounds>>

\* run() reaches a watched board: retire it if its venue is gone.
CheckBoard(b) ==
    /\ pc[Sweep] = "scan" /\ toWatch[b] # NoRecord /\ Watching(b)
    /\ toWatch' = [toWatch EXCEPT ![b] = NoRecord]
    /\ LET answer == Exists(toWatch[b].venue)
       IN  IF answer.ok /\ ~answer.exists THEN SweepRetire(b) ELSE UNCHANGED <<pc, brd>>
    /\ UNCHANGED <<prov, tables, watchers, existing, reconTodo, rec, devs, locks,
                   issued, history, bounds>>

SweepEnd ==
    /\ pc[Sweep] = "scan" /\ \A b \in Boards : toWatch[b] = NoRecord
    /\ mutex' = NoProc
    /\ Goto(Sweep, "idle")
    /\ UNCHANGED <<prov, tables, coord, brd, rec, devs, createMutex, issued, history,
                   bounds>>
-----------------------------------------------------------------------------
(* VenueCoordinator::onReconcileTimer, every 3 minutes under Mutex_.       *)

ReconcileBegin ==
    /\ pc[Reconcile] = "idle" /\ mutex = NoProc
    /\ mutex' = Reconcile
    /\ reconTodo' = {b \in Boards : Watched(b)}
    /\ Goto(Reconcile, "scan")
    /\ UNCHANGED <<prov, tables, watchers, existing, toWatch, brd, rec, devs,
                   createMutex, issued, history, bounds>>

ReconcileBoard(b) ==
    /\ pc[Reconcile] = "scan" /\ b \in reconTodo
    /\ reconTodo' = reconTodo \ {b}
    /\ brd' = [brd EXCEPT ![Reconcile] = b]
    /\ Goto(Reconcile, "update")
    /\ UNCHANGED <<prov, tables, watchers, existing, toWatch, rec, devs, locks, issued,
                   history, bounds>>

ReconcileEnd ==
    /\ pc[Reconcile] = "scan" /\ reconTodo = {}
    /\ mutex' = NoProc
    /\ Goto(Reconcile, "idle")
    /\ UNCHANGED <<prov, tables, coord, brd, rec, devs, createMutex, issued, history,
                   bounds>>
-----------------------------------------------------------------------------
(* RESTAPI_board_handler.                                                  *)

\* FindBoardsByVenue found nothing: the venue is free.
VenueFree(v) == \A b \in Boards : InTable(b) => db[b].venue # v

\* Seeded fault: BoardCreateMutex does not cover the check.
PostCheckUnlocked(h, v, sub) ==
    /\ pc[h] = "idle"
    /\ issued # Boards
    /\ VenueFree(v)
    /\ rec' = [rec EXCEPT ![h] = [venue |-> v, sub |-> sub]]
    /\ Goto(h, "create")
    /\ UNCHANGED <<prov, tables, coord, brd, devs, locks, issued, history, bounds>>

\* DoPost up to FindBoardsByVenue, under BoardCreateMutex.  A venue that
\* already has a board is refused, which changes nothing.
PostCheck(h, v, sub) ==
    /\ pc[h] = "idle" /\ createMutex = NoProc
    /\ issued # Boards                                 \* bound: ids left
    /\ VenueFree(v)
    /\ createMutex' = h
    /\ rec' = [rec EXCEPT ![h] = [venue |-> v, sub |-> sub]]
    /\ Goto(h, "create")
    /\ UNCHANGED <<prov, tables, coord, brd, devs, mutex, issued, history, bounds>>

\* DoPost: CreateRecord under a fresh id, and the end of BoardCreateMutex.
PostCreate(h, b) ==
    /\ pc[h] = "create" /\ b \notin issued
    /\ createMutex' = NoProc
    /\ issued' = issued \cup {b}
    /\ \/ /\ db' = [db EXCEPT ![b] = rec[h]]
          /\ brd' = [brd EXCEPT ![h] = b]
          /\ Goto(h, "add")
       \/ /\ DBFaults
          /\ Goto(h, "idle")
          /\ UNCHANGED <<db, brd>>
    /\ rec' = [rec EXCEPT ![h] = NoRecord]
    /\ UNCHANGED <<prov, timepoints, events, coord, devs, mutex, history, bounds>>

\* DoPost: VenueCoordinator::AddBoard.
AddBoard(h) ==
    /\ pc[h] = "add" /\ MayLock(h)
    /\ toWatch' = IF InTable(brd[h]) THEN [toWatch EXCEPT ![brd[h]] = db[brd[h]]]
                                     ELSE toWatch
    /\ Return(h)
    /\ UNCHANGED <<prov, tables, watchers, existing, reconTodo, locks, issued, history,
                   bounds>>

\* DoPut: read the record and apply the request to the copy.  The venue may
\* not change; the sub-venue switch may.
PutRead(h, b, sub) ==
    /\ pc[h] = "idle" /\ InTable(b) /\ puts < MaxPuts
    /\ puts' = puts + 1
    /\ brd' = [brd EXCEPT ![h] = b]
    /\ rec' = [rec EXCEPT ![h] = [db[b] EXCEPT !.sub = sub]]
    /\ Goto(h, "write")
    /\ UNCHANGED <<prov, tables, coord, devs, locks, issued, history, edits, outages,
                   crashes>>

\* Seeded fault: UpdateRecord inserts the row when it is missing.
PutWriteUpsert(h) ==
    /\ pc[h] = "write"
    /\ db' = [db EXCEPT ![brd[h]] = rec[h]]
    /\ Goto(h, "update")
    /\ rec' = [rec EXCEPT ![h] = NoRecord]
    /\ UNCHANGED <<prov, timepoints, events, coord, brd, devs, locks, issued, history,
                   bounds>>

\* DoPut: UpdateRecord writes the whole copy back (and succeeds on no row).
PutWrite(h) ==
    /\ pc[h] = "write"
    /\ \/ /\ db' = IF InTable(brd[h]) THEN [db EXCEPT ![brd[h]] = rec[h]] ELSE db
          /\ Goto(h, "update")
          /\ rec' = [rec EXCEPT ![h] = NoRecord]
          /\ UNCHANGED <<brd, devs>>
       \/ /\ DBFaults
          /\ Return(h)
          /\ UNCHANGED db
    /\ UNCHANGED <<prov, timepoints, events, coord, locks, issued, history, bounds>>

\* DoDelete: the record exists; what follows is StopBoard and the deletes.
DeleteRequest(h, b) ==
    /\ pc[h] = "idle" /\ InTable(b)
    /\ brd' = [brd EXCEPT ![h] = b]
    /\ Goto(h, "stop")
    /\ UNCHANGED <<prov, tables, coord, rec, devs, locks, issued, history, bounds>>
-----------------------------------------------------------------------------
(* What a running watcher does to the tables (AP::UpdateStats and          *)
(* PersistOfflineAvailabilityTransition), and a crash with its restart.    *)

PersistTimePoint(b) ==
    /\ "timepoints" \in Tables /\ Watched(b) /\ watchers[b] # {}
    /\ timepoints' = timepoints \cup {b}
    /\ UNCHANGED <<prov, db, events, coord, locals, locks, issued, history, bounds>>

PersistEvent(b) ==
    /\ "events" \in Tables /\ Watched(b) /\ watchers[b] # {}
    /\ events' = events \cup {b}
    /\ UNCHANGED <<prov, db, timepoints, coord, locals, locks, issued, history, bounds>>

\* The process dies, and comes up again in VenueCoordinator::Start.
CrashRestart ==
    /\ crashes < MaxCrashes
    /\ crashes' = crashes + 1
    /\ watchers' = [b \in Boards |-> NoList]
    /\ existing' = [b \in Boards |-> NoList]
    /\ toWatch' = db
    /\ reconTodo' = {}
    /\ pc' = [p \in Procs |-> "idle"] /\ brd' = [p \in Procs |-> AnyBoard]
    /\ rec' = [p \in Procs |-> NoRecord] /\ devs' = [p \in Procs |-> {}]
    /\ mutex' = NoProc /\ createMutex' = NoProc
    /\ stopped' = {}
    /\ UNCHANGED <<prov, tables, issued, retired, edits, puts, outages>>
-----------------------------------------------------------------------------
SweepRound ==
    \/ SweepBegin \/ SweepEnd
    \/ \E b \in Boards : StartBoard(b) \/ CheckBoard(b)

ReconcileRound ==
    \/ ReconcileBegin \/ ReconcileEnd
    \/ \E b \in Boards : ReconcileBoard(b)

UpdateBoard(p) == UpdateBoardRead(p) \/ UpdateBoardFetch(p) \/ UpdateBoardApply(p)

Remove(p) == StopBoard(p) \/ DeleteRecord(p) \/ DeleteTimePoints(p) \/ DeleteEvents(p)

Request(h) ==
    \/ \E v \in Venues, sub \in BOOLEAN : PostCheck(h, v, sub)
    \/ \E b \in Boards : DeleteRequest(h, b) \/ \E sub \in BOOLEAN : PutRead(h, b, sub)

\* The steps of POST and PUT that are not shared with the coordinator.
Serve(h) == AddBoard(h) \/ PutWrite(h) \/ \E b \in Boards : PostCreate(h, b)

Environment ==
    \/ \E v \in Venues : VenueDeleted(v) \/ \E D \in DevList : VenueEdited(v, D)
    \/ ProvisioningDown \/ ProvisioningUp
    \/ CrashRestart

Next ==
    \/ SweepRound \/ ReconcileRound
    \/ \E p \in Procs : UpdateBoard(p) \/ Remove(p)
    \/ \E h \in Handlers : Request(h) \/ Serve(h)
    \/ \E b \in Boards : PersistTimePoint(b) \/ PersistEvent(b)
    \/ Environment

\* Threads keep running and an outage of provisioning ends.  Strong fairness
\* for what waits on Mutex_: the sweep sleeps 60 s and the timer 3 minutes
\* between two rounds, so the mutex is free again and again and for long.
\* Nobody is obliged to send a request.
Fairness ==
    /\ SF_vars(SweepRound \/ Remove(Sweep))
    /\ SF_vars(ReconcileRound \/ UpdateBoard(Reconcile) \/ Remove(Reconcile))
    /\ \A h \in Handlers : SF_vars(Serve(h) \/ UpdateBoard(h) \/ Remove(h))
    /\ WF_vars(ProvisioningUp)

Spec     == Init /\ [][Next]_vars
FairSpec == Spec /\ Fairness
-----------------------------------------------------------------------------
(* Safety.                                                                 *)

\* Two POSTs never assign one venue to two boards, however their check and
\* their insert interleave (BoardCreateMutex in DoPost), and neither a PUT
\* nor a failed statement undoes that.
VenueUnique ==
    \A a, b \in Boards :
        InTable(a) /\ InTable(b) /\ db[a].venue = db[b].venue => a = b

\* UpdateBoard compares the new list with ExistingBoards_ and not with what
\* the watcher really watches, so the two must never drift apart, whichever
\* of sweep, timer and PUT wrote last; and StartBoard, which consults
\* ExistingBoards_ only, never replaces a running watcher.
ListsAgree == \A b \in Boards : Watched(b) => existing[b] = watchers[b]

\* onReconcileTimer iterates over Watchers_ with a range-for: nothing may
\* insert into or erase from the map while it does (the erase in StopBoard,
\* reachable through UpdateBoard -> RetireBoard, would invalidate the
\* iterator).
ReconcileIterates ==
    mutex = Reconcile /\ mutex' = Reconcile
        => \A b \in Boards : Watched(b) <=> Watched(b)'

\* Action property over ReconcileIterates.
ReconcileIterationSafe == [][ReconcileIterates]_vars

\* While the process lives, a board whose watcher was stopped never gets a
\* new one: a sweep that still has the board in its snapshot, or finds it in
\* the table between DELETE's StopBoard and its DeleteRecord, must not
\* resurrect it.  (StopBoard leaves the board in ExistingBoards_.)
StoppedStaysStopped == \A b \in stopped : ~Watched(b)

\* A board leaves the table only on a DELETE, or because its venue is really
\* gone from provisioning; an outage of provisioning never costs a board its
\* record and history.
RemovalJustified ==
    \A b \in Boards : InTable(b) /\ ~InTable(b)' =>
        \/ \E h \in Handlers : pc[h] = "record" /\ brd[h] = b
        \/ db[b].venue \notin venues

\* Action property over RemovalJustified.
RemovedOnlyForCause == [][RemovalJustified]_vars

\* Once the coordinator has retired a board, nothing of it is left and
\* nothing comes back: no watcher, no record, no row, although requests for
\* the board may still be in flight (without database faults).
RetiredLeavesNothing ==
    ~DBFaults => \A b \in retired :
        ~Watched(b) /\ ~InTable(b) /\ b \notin timepoints /\ b \notin events
-----------------------------------------------------------------------------
(* Liveness, under FairSpec and without database faults.                   *)

\* A board whose venue exists is eventually watched (or it is deleted, or
\* its venue is), across outages and crashes.
BoardGetsWatched ==
    \A b \in Boards :
        InTable(b) /\ db[b].venue \in venues
            ~> Watched(b) \/ ~InTable(b) \/ db[b].venue \notin venues

\* A board whose venue is gone is eventually retired, although GetDevices
\* hides the 404 from StartBoard and UpdateBoard.
VanishedVenueRetired ==
    \A b \in Boards : InTable(b) /\ db[b].venue \notin venues ~> ~InTable(b)

\* Once provisioning and the records stop changing, every watcher ends up
\* with its venue's device list for good: a PUT that applies a stale answer
\* after a fresher one is repaired by a later reconcile round.
DevicesConverge ==
    <>[](\A b \in Boards :
            InTable(b) /\ Watched(b) => watchers[b] = DeviceList(db[b]))
=============================================================================
