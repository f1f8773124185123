---------------------------- MODULE BoardsProofs ----------------------------
(* Theorems about Boards, for every value of its constants.                *)
EXTENDS Boards, TLAPS

\* A process that is about to use its copy of a record has one.
LocalsOK == \A p \in Procs : pc[p] \in {"fetch", "create", "write"} => rec[p] \in Record

\* The type invariant with what its induction needs.
TypeInv == TypeOK /\ LocalsOK

\* Who may be where: the sweep and the timer own Mutex_ for a whole round,
\* and the timer's UpdateBoard never ends up in RetireBoard.
LockInv ==
    /\ pc[Sweep] \in {"idle", "scan", "stop", "record", "timepoints", "events"}
    /\ pc[Reconcile] \in {"idle", "scan", "update", "fetch", "apply"}
    /\ pc[Sweep] # "idle" <=> mutex = Sweep
    /\ pc[Reconcile] # "idle" <=> mutex = Reconcile

\* ExistingBoards_ covers the running watchers with the same lists, and the
\* stopped ones.
WatchInv == ListsAgree /\ \A b \in stopped : Watching(b) /\ ~Watched(b)

\* Ids are handed out once, so a copy of a record that outlives a statement
\* still has the venue of the row with its id.
CopyInv ==
    /\ \A b \in Boards : InTable(b) => b \in issued
    /\ \A b \in Boards : toWatch[b] # NoRecord => b \in issued
    /\ \A h \in Handlers : pc[h] = "write" => brd[h] \in issued
    /\ \A b \in Boards :
        toWatch[b] # NoRecord /\ InTable(b) => toWatch[b].venue = db[b].venue
    /\ \A h \in Handlers :
        pc[h] = "write" /\ InTable(brd[h]) => rec[h].venue = db[brd[h]].venue

\* The venue a POST found free stays free until its insert.
CreateInv ==
    \A h \in Handlers :
        pc[h] = "create" => createMutex = h /\ VenueFree(rec[h].venue)

\* The sweep removes a record only if its venue is gone.
CauseInv ==
    pc[Sweep] \in {"stop", "record"} =>
        /\ brd[Sweep] \in issued
        /\ InTable(brd[Sweep]) => db[brd[Sweep]].venue \notin venues

\* How far a retirement has got, and that nothing of it comes back.
RetireInv ==
    ~DBFaults =>
        /\ \A b \in retired :
            /\ ~Watched(b) /\ ~InTable(b) /\ b \notin timepoints /\ b \notin events
            /\ toWatch[b] = NoRecord /\ b \in issued
        /\ pc[Sweep] \in {"stop", "record", "timepoints", "events"} =>
            toWatch[brd[Sweep]] = NoRecord /\ brd[Sweep] \in issued
        /\ pc[Sweep] \in {"record", "timepoints", "events"} => ~Watched(brd[Sweep])
        /\ pc[Sweep] \in {"timepoints", "events"} => ~InTable(brd[Sweep])
        /\ pc[Sweep] = "events" => brd[Sweep] \notin timepoints

\* What a call that returns does to the process's locals keeps their types.
LEMMA ReturnType ==
    ASSUME TypeOK, NEW p \in Procs, Return(p)
    PROVE  /\ pc' \in [Procs -> PCs]
           /\ brd' \in [Procs -> Boards]
           /\ rec' \in [Procs -> MaybeRecord]
           /\ devs' \in [Procs -> DevList]
<1>1. AnyBoard \in Boards
  BY BoardsAssumption DEF AnyBoard
<1>2. {} \in DevList /\ NoRecord \in MaybeRecord
  BY DEF DevList, MaybeRecord
<1>3. "idle" \in PCs /\ "scan" \in PCs
  BY DEF PCs
<1>. QED  BY <1>1, <1>2, <1>3 DEF TypeOK, Return, Goto

\* Going to another step keeps pc well typed.
LEMMA GotoType ==
    ASSUME TypeOK, NEW p \in Procs, NEW l \in PCs, Goto(p, l)
    PROVE  pc' \in [Procs -> PCs]
  BY DEF TypeOK, Goto

\* What provisioning answers for a record is a list of devices.
LEMMA DeviceListType ==
    ASSUME TypeOK, NEW r \in Record
    PROVE  DeviceList(r) \in DevList
<1>1. r.venue \in Venues
  BY DEF Record
<1>2. provDevices[r.venue] \in SUBSET Devices /\ SubVenueDevices[r.venue] \in SUBSET Devices
  BY <1>1, BoardsAssumption DEF TypeOK, DevList
<1>. QED  BY <1>2 DEF DeviceList, DevList

LEMMA InitType == Init => TypeOK
<1>. SUFFICES ASSUME Init PROVE TypeOK
  OBVIOUS
<1>1. AnyBoard \in Boards
  BY BoardsAssumption DEF AnyBoard
<1>2. "idle" \in PCs
  BY DEF PCs
<1>. QED  BY <1>1, <1>2, BoardsAssumption DEF Init, TypeOK, DevList, MaybeRecord, MaybeList

LEMMA NextType == TypeInv /\ [Next]_vars => TypeInv'
<1>. SUFFICES ASSUME TypeInv, [Next]_vars PROVE TypeInv'
  OBVIOUS
<1>. USE DEF TypeInv, TypeOK, LocalsOK, prov, tables, coord, locals, locks, history, bounds
<1>1. CASE SweepBegin
  BY <1>1 DEF SweepBegin, Goto, PCs
<1>2. CASE SweepEnd
  BY <1>2 DEF SweepEnd, Goto, PCs
<1>3. ASSUME NEW b \in Boards, StartBoard(b)
     PROVE  TypeInv'
  <2>1. toWatch[b] \in Record
    BY <1>3 DEF StartBoard, MaybeRecord
  <2>2. GetDevices(toWatch[b]).devices \in DevList
    BY <2>1, DeviceListType DEF GetDevices
  <2>3. existing' \in [Boards -> MaybeList] /\ watchers' \in [Boards -> MaybeList]
    BY <1>3, <2>2 DEF StartBoard, MaybeList
  <2>4. toWatch' \in [Boards -> MaybeRecord]
    BY <1>3 DEF StartBoard, MaybeRecord
  <2>5. /\ pc' \in [Procs -> PCs] /\ brd' \in [Procs -> Boards]
        /\ \A p \in Procs : pc'[p] = pc[p] \/ pc'[p] = "stop"
    BY <1>3 DEF StartBoard, SweepRetire, Goto, PCs
  <2>. QED  BY <1>3, <2>3, <2>4, <2>5 DEF StartBoard
<1>4. ASSUME NEW b \in Boards, CheckBoard(b)
     PROVE  TypeInv'
  BY <1>4 DEF CheckBoard, Goto, PCs, SweepRetire, MaybeRecord
<1>5. CASE ReconcileBegin
  BY <1>5 DEF ReconcileBegin, Goto, PCs
<1>6. CASE ReconcileEnd
  BY <1>6 DEF ReconcileEnd, Goto, PCs
<1>7. ASSUME NEW b \in Boards, ReconcileBoard(b)
     PROVE  TypeInv'
  BY <1>7 DEF ReconcileBoard, Goto, PCs
<1>8. ASSUME NEW p \in Procs, UpdateBoardRead(p)
     PROVE  TypeInv'
  BY <1>8, ReturnType DEF UpdateBoardRead, Goto, Return, PCs, MaybeRecord, InTable
<1>9. ASSUME NEW p \in Procs, UpdateBoardFetch(p)
     PROVE  TypeInv'
  <2>1. rec[p] \in Record
    BY <1>9 DEF UpdateBoardFetch
  <2>2. GetDevices(rec[p]).devices \in DevList
    BY <2>1, DeviceListType DEF GetDevices
  <2>3. CASE GetDevices(rec[p]).ok
    BY <1>9, <2>2, <2>3 DEF UpdateBoardFetch, Goto, PCs
  <2>4. CASE ~GetDevices(rec[p]).ok /\ GetDevices(rec[p]).exists
    BY <1>9, <2>4, ReturnType DEF UpdateBoardFetch, Return, Goto
  <2>5. CASE ~GetDevices(rec[p]).ok /\ ~GetDevices(rec[p]).exists
    BY <1>9, <2>5 DEF UpdateBoardFetch, Goto, PCs
  <2>. QED  BY <2>3, <2>4, <2>5
<1>10. ASSUME NEW p \in Procs, UpdateBoardApply(p)
     PROVE  TypeInv'
  <2>1. brd[p] \in Boards /\ devs[p] \in DevList
    OBVIOUS
  <2>2. existing' \in [Boards -> MaybeList] /\ watchers' \in [Boards -> MaybeList]
    BY <1>10, <2>1 DEF UpdateBoardApply, MaybeList
  <2>3. Return(p)
    BY <1>10 DEF UpdateBoardApply
  <2>4. LocalsOK'
    BY <2>3 DEF Return, Goto
  <2>. QED  BY <1>10, <2>2, <2>3, <2>4, ReturnType DEF UpdateBoardApply
<1>11. ASSUME NEW p \in Procs, StopBoard(p)
     PROVE  TypeInv'
  BY <1>11 DEF StopBoard, Goto, PCs, MaybeList
<1>12. ASSUME NEW p \in Procs, DeleteRecord(p)
     PROVE  TypeInv'
  BY <1>12 DEF DeleteRecord, Goto, PCs, Execute, MaybeRecord
<1>13. ASSUME NEW p \in Procs, DeleteTimePoints(p)
     PROVE  TypeInv'
  BY <1>13 DEF DeleteTimePoints, Goto, PCs, Execute
<1>14. ASSUME NEW p \in Procs, DeleteEvents(p)
     PROVE  TypeInv'
  BY <1>14, ReturnType, ZenonT(40) DEF DeleteEvents, Goto, Return, Execute
<1>15. ASSUME NEW h \in Handlers, NEW v \in Venues, NEW sub \in BOOLEAN, PostCheck(h, v, sub)
     PROVE  TypeInv'
  <2>1. [venue |-> v, sub |-> sub] \in Record
    BY DEF Record
  <2>2. /\ rec' = [rec EXCEPT ![h] = [venue |-> v, sub |-> sub]]
        /\ pc' = [pc EXCEPT ![h] = "create"]
        /\ createMutex' = h
    BY <1>15 DEF PostCheck, Goto
  <2>3. rec' \in [Procs -> MaybeRecord] /\ pc' \in [Procs -> PCs]
    BY <2>1, <2>2 DEF MaybeRecord, PCs
  <2>4. LocalsOK'
    BY <2>1, <2>2
  <2>. QED  BY <1>15, <2>2, <2>3, <2>4 DEF PostCheck
<1>16. ASSUME NEW h \in Handlers, NEW b \in Boards, DeleteRequest(h, b)
     PROVE  TypeInv'
  BY <1>16 DEF DeleteRequest, Goto, PCs
<1>17. ASSUME NEW h \in Handlers, NEW b \in Boards, NEW sub \in BOOLEAN, PutRead(h, b, sub)
     PROVE  TypeInv'
  <2>1. [db[b] EXCEPT !.sub = sub] \in Record
    BY <1>17 DEF PutRead, InTable, MaybeRecord, Record
  <2>2. /\ rec' = [rec EXCEPT ![h] = [db[b] EXCEPT !.sub = sub]]
        /\ pc' = [pc EXCEPT ![h] = "write"]
        /\ brd' = [brd EXCEPT ![h] = b]
    BY <1>17 DEF PutRead, Goto
  <2>3. rec' \in [Procs -> MaybeRecord] /\ pc' \in [Procs -> PCs] /\ brd' \in [Procs -> Boards]
    BY <2>1, <2>2 DEF MaybeRecord, PCs
  <2>4. LocalsOK'
    BY <2>1, <2>2
  <2>5. puts' \in 0..MaxPuts
    BY <1>17, BoardsAssumption DEF PutRead
  <2>. QED  BY <1>17, <2>3, <2>4, <2>5 DEF PutRead
<1>18. ASSUME NEW h \in Handlers, AddBoard(h)
     PROVE  TypeInv'
  BY <1>18, ReturnType DEF AddBoard, Goto, Return, MaybeRecord, InTable
<1>19. ASSUME NEW h \in Handlers, PutWrite(h)
     PROVE  TypeInv'
  <2>0. h \in Procs
    BY DEF Procs
  <2>1. rec[h] \in Record
    BY <1>19, <2>0 DEF PutWrite
  <2>2. db' \in [Boards -> MaybeRecord]
    BY <1>19, <2>1 DEF PutWrite, MaybeRecord
  <2>3. CASE Return(h)
    BY <1>19, <2>0, <2>2, <2>3, ReturnType DEF PutWrite, Return, Goto
  <2>4. CASE Goto(h, "update") /\ rec' = [rec EXCEPT ![h] = NoRecord] /\ UNCHANGED <<brd, devs>>
    BY <1>19, <2>2, <2>4 DEF PutWrite, Goto, PCs, MaybeRecord
  <2>. QED  BY <1>19, <2>3, <2>4 DEF PutWrite
<1>20. ASSUME NEW h \in Handlers, NEW b \in Boards, PostCreate(h, b)
     PROVE  TypeInv'
  <2>0. h \in Procs
    BY DEF Procs
  <2>1. rec[h] \in Record
    BY <1>20, <2>0 DEF PostCreate
  <2>2. db' \in [Boards -> MaybeRecord]
    BY <1>20, <2>1 DEF PostCreate, MaybeRecord
  <2>3. /\ pc' \in [Procs -> PCs] /\ brd' \in [Procs -> Boards]
        /\ rec' = [rec EXCEPT ![h] = NoRecord]
        /\ pc' = [pc EXCEPT ![h] = "add"] \/ pc' = [pc EXCEPT ![h] = "idle"]
    BY <1>20 DEF PostCreate, Goto, PCs
  <2>4. rec' \in [Procs -> MaybeRecord] /\ LocalsOK'
    BY <2>3 DEF MaybeRecord
  <2>. QED  BY <1>20, <2>2, <2>3, <2>4 DEF PostCreate
<1>21. ASSUME NEW b \in Boards, PersistTimePoint(b)
     PROVE  TypeInv'
  BY <1>21 DEF PersistTimePoint
<1>22. ASSUME NEW b \in Boards, PersistEvent(b)
     PROVE  TypeInv'
  BY <1>22 DEF PersistEvent
<1>23. ASSUME NEW v \in Venues, VenueDeleted(v)
     PROVE  TypeInv'
  BY <1>23 DEF VenueDeleted
<1>24. ASSUME NEW v \in Venues, NEW D \in DevList, VenueEdited(v, D)
     PROVE  TypeInv'
  BY <1>24, BoardsAssumption DEF VenueEdited
<1>25. CASE ProvisioningDown
  <2>1. outages' \in 0..MaxOutages
    BY <1>25, BoardsAssumption DEF ProvisioningDown
  <2>. QED  BY <1>25, <2>1 DEF ProvisioningDown
<1>26. CASE ProvisioningUp
  BY <1>26 DEF ProvisioningUp
<1>27. CASE CrashRestart
  <2>1. AnyBoard \in Boards /\ crashes' \in 0..MaxCrashes
    BY <1>27, BoardsAssumption DEF CrashRestart, AnyBoard
  <2>2. /\ watchers' \in [Boards -> MaybeList] /\ existing' \in [Boards -> MaybeList]
        /\ toWatch' \in [Boards -> MaybeRecord]
    BY <1>27 DEF CrashRestart, MaybeList
  <2>3. /\ pc' \in [Procs -> PCs] /\ brd' \in [Procs -> Boards]
        /\ rec' \in [Procs -> MaybeRecord] /\ devs' \in [Procs -> DevList]
        /\ LocalsOK'
    BY <1>27, <2>1 DEF CrashRestart, PCs, MaybeRecord, DevList
  <2>. QED  BY <1>27, <2>1, <2>2, <2>3 DEF CrashRestart
<1>28. CASE UNCHANGED vars
  BY <1>28 DEF vars
<1>. QED
  BY <1>1, <1>2, <1>3, <1>4, <1>5, <1>6, <1>7, <1>8, <1>9, <1>10, <1>11, <1>12, <1>13, <1>14, <1>15, <1>16, <1>17, <1>18, <1>19, <1>20, <1>21, <1>22, <1>23, <1>24, <1>25, <1>26, <1>27, <1>28
  DEF Next, SweepRound, ReconcileRound, UpdateBoard, Remove, Request, Serve,
      Environment

LEMMA SpecType == Spec => []TypeInv
<1>1. Init => TypeInv
  BY InitType DEF Init, TypeInv, LocalsOK
<1>. QED  BY <1>1, NextType, PTL DEF Spec

\* Every variable keeps its type, whatever the processes do: in particular a
\* process that reads or writes its copy of a record always has one.
THEOREM TypeCorrect == Spec => []TypeOK
<1>1. TypeInv => TypeOK
  BY DEF TypeInv
<1>. QED  BY <1>1, SpecType, PTL

-----------------------------------------------------------------------------
(* ExistingBoards_ and the watchers.                                       *)

\* Only four operations touch Watchers_ or ExistingBoards_.
LEMMA WatchFrame ==
    ASSUME [Next]_vars
    PROVE  \/ \E b \in Boards : StartBoard(b)
           \/ \E p \in Procs : UpdateBoardApply(p) \/ StopBoard(p)
           \/ CrashRestart
           \/ UNCHANGED <<watchers, existing, stopped>>
  BY ZenonT(40) DEF Next, SweepRound, ReconcileRound, UpdateBoard, Remove, Request, Serve,
         Environment, SweepBegin, SweepEnd, CheckBoard, ReconcileBegin, ReconcileEnd,
         ReconcileBoard, UpdateBoardRead, UpdateBoardFetch, DeleteRecord,
         DeleteTimePoints, DeleteEvents, PostCheck, DeleteRequest, PutRead, AddBoard,
         PutWrite, PostCreate, PersistTimePoint, PersistEvent, VenueDeleted,
         VenueEdited, ProvisioningDown, ProvisioningUp, vars, coord, history

LEMMA NextWatch == TypeInv /\ WatchInv /\ [Next]_vars => WatchInv'
<1>. SUFFICES ASSUME TypeInv, WatchInv, [Next]_vars PROVE WatchInv'
  OBVIOUS
<1>. USE DEF TypeInv, TypeOK, WatchInv, ListsAgree, Watching, Watched
<1>1. ASSUME NEW b \in Boards, StartBoard(b)
     PROVE  WatchInv'
  <2>1. toWatch[b] \in Record
    BY <1>1 DEF StartBoard, MaybeRecord
  <2>2. GetDevices(toWatch[b]).devices \in DevList
    BY <2>1, DeviceListType DEF GetDevices
  <2>3. stopped' = stopped /\ b \notin stopped
    BY <1>1 DEF StartBoard, history
  <2>. QED  BY <1>1, <2>2, <2>3, BoardsAssumption DEF StartBoard
<1>2. ASSUME NEW p \in Procs, UpdateBoardApply(p)
     PROVE  WatchInv'
  <2>1. brd[p] \in Boards /\ devs[p] \in DevList /\ devs[p] # NoList
    BY BoardsAssumption
  <2>2. stopped' = stopped
    BY <1>2 DEF UpdateBoardApply, history
  <2>. QED  BY <1>2, <2>1, <2>2 DEF UpdateBoardApply
<1>3. ASSUME NEW p \in Procs, StopBoard(p)
     PROVE  WatchInv'
  <2>1. brd[p] \in Boards
    OBVIOUS
  <2>2. watchers' = [watchers EXCEPT ![brd[p]] = NoList] /\ existing' = existing
    BY <1>3 DEF StopBoard
  <2>3. stopped' \subseteq stopped \cup {b \in Boards : b = brd[p] /\ Watched(b)}
    BY <1>3, <2>1 DEF StopBoard
  <2>4. \A b \in Boards : watchers[b] # NoList => existing[b] # NoList
    OBVIOUS
  <2>. QED  BY <2>1, <2>2, <2>3, <2>4
<1>4. CASE CrashRestart
  BY <1>4 DEF CrashRestart
<1>5. CASE UNCHANGED <<watchers, existing, stopped>>
  BY <1>5
<1>. QED  BY <1>1, <1>2, <1>3, <1>4, <1>5, WatchFrame

LEMMA SpecWatch == Spec => []WatchInv
<1>1. Init => WatchInv
  BY DEF Init, WatchInv, ListsAgree, Watched
<1>. QED  BY <1>1, SpecType, NextWatch, PTL DEF Spec

\* ListsAgree holds for any number of boards, devices and handler threads:
\* what ExistingBoards_ says of a running watcher is what it watches.
THEOREM WatcherListsAgree == Spec => []ListsAgree
<1>1. WatchInv => ListsAgree
  BY DEF WatchInv
<1>. QED  BY <1>1, SpecWatch, PTL

\* StoppedStaysStopped: the sweep never restarts a board whose watcher was
\* stopped by DELETE or RetireBoard.
THEOREM NoResurrection == Spec => []StoppedStaysStopped
<1>1. WatchInv => StoppedStaysStopped
  BY DEF WatchInv, StoppedStaysStopped
<1>. QED  BY <1>1, SpecWatch, PTL
-----------------------------------------------------------------------------
(* The coordinator's mutex, and the reconcile iteration.                   *)

LEMMA NextLock == TypeInv /\ LockInv /\ [Next]_vars => LockInv'
<1>. SUFFICES ASSUME TypeInv, LockInv, [Next]_vars PROVE LockInv'
  OBVIOUS
<1>. USE DEF TypeInv, TypeOK, LockInv, Procs, Sweep, Reconcile, locals, locks
<1>1. CASE SweepBegin
  BY <1>1, BoardsAssumption DEF SweepBegin, Goto
<1>2. CASE SweepEnd
  BY <1>2, BoardsAssumption DEF SweepEnd, Goto
<1>3. ASSUME NEW b \in Boards, StartBoard(b)
     PROVE  LockInv'
  <2>1. GetDevices(toWatch[b]).ok \/ GetDevices(toWatch[b]).exists
    BY DEF GetDevices
  <2>. QED  BY <1>3, <2>1 DEF StartBoard
<1>4. ASSUME NEW b \in Boards, CheckBoard(b)
     PROVE  LockInv'
  BY <1>4, BoardsAssumption DEF CheckBoard, SweepRetire, Goto
<1>5. CASE ReconcileBegin
  BY <1>5, BoardsAssumption DEF ReconcileBegin, Goto
<1>6. CASE ReconcileEnd
  BY <1>6, BoardsAssumption DEF ReconcileEnd, Goto
<1>7. ASSUME NEW b \in Boards, ReconcileBoard(b)
     PROVE  LockInv'
  BY <1>7, BoardsAssumption DEF ReconcileBoard, Goto
<1>8. ASSUME NEW p \in Procs, UpdateBoardRead(p)
     PROVE  LockInv'
  BY <1>8, BoardsAssumption DEF UpdateBoardRead, Goto, Return
<1>9. ASSUME NEW p \in Procs, UpdateBoardFetch(p)
     PROVE  LockInv'
  <2>1. GetDevices(rec[p]).ok \/ GetDevices(rec[p]).exists
    BY DEF GetDevices
  <2>. QED  BY <1>9, <2>1, BoardsAssumption DEF UpdateBoardFetch, Return, Goto
<1>10. ASSUME NEW p \in Procs, UpdateBoardApply(p)
     PROVE  LockInv'
  BY <1>10, BoardsAssumption DEF UpdateBoardApply, Goto, Return
<1>11. ASSUME NEW p \in Procs, StopBoard(p)
     PROVE  LockInv'
  BY <1>11, BoardsAssumption DEF StopBoard, Goto
<1>12. ASSUME NEW p \in Procs, DeleteRecord(p)
     PROVE  LockInv'
  BY <1>12, BoardsAssumption DEF DeleteRecord, Goto
<1>13. ASSUME NEW p \in Procs, DeleteTimePoints(p)
     PROVE  LockInv'
  BY <1>13, BoardsAssumption DEF DeleteTimePoints, Goto
<1>14. ASSUME NEW p \in Procs, DeleteEvents(p)
     PROVE  LockInv'
  BY <1>14, BoardsAssumption DEF DeleteEvents, Goto, Return
<1>15. ASSUME NEW h \in Handlers, NEW v \in Venues, NEW sub \in BOOLEAN, PostCheck(h, v, sub)
     PROVE  LockInv'
  BY <1>15, BoardsAssumption DEF PostCheck, Goto
<1>16. ASSUME NEW h \in Handlers, NEW b \in Boards, DeleteRequest(h, b)
     PROVE  LockInv'
  BY <1>16, BoardsAssumption DEF DeleteRequest, Goto
<1>17. ASSUME NEW h \in Handlers, NEW b \in Boards, NEW sub \in BOOLEAN, PutRead(h, b, sub)
     PROVE  LockInv'
  BY <1>17, BoardsAssumption DEF PutRead, Goto
<1>18. ASSUME NEW h \in Handlers, AddBoard(h)
     PROVE  LockInv'
  BY <1>18, BoardsAssumption DEF AddBoard, Goto, Return
<1>19. ASSUME NEW h \in Handlers, PutWrite(h)
     PROVE  LockInv'
  BY <1>19, BoardsAssumption DEF PutWrite, Goto, Return
<1>20. ASSUME NEW h \in Handlers, NEW b \in Boards, PostCreate(h, b)
     PROVE  LockInv'
  BY <1>20, BoardsAssumption DEF PostCreate, Goto
<1>21. ASSUME NEW b \in Boards, PersistTimePoint(b)
     PROVE  LockInv'
  BY <1>21, BoardsAssumption DEF PersistTimePoint
<1>22. ASSUME NEW b \in Boards, PersistEvent(b)
     PROVE  LockInv'
  BY <1>22, BoardsAssumption DEF PersistEvent
<1>23. ASSUME NEW v \in Venues, VenueDeleted(v)
     PROVE  LockInv'
  BY <1>23, BoardsAssumption DEF VenueDeleted
<1>24. ASSUME NEW v \in Venues, NEW D \in DevList, VenueEdited(v, D)
     PROVE  LockInv'
  BY <1>24, BoardsAssumption DEF VenueEdited
<1>25. CASE ProvisioningDown
  BY <1>25, BoardsAssumption DEF ProvisioningDown
<1>26. CASE ProvisioningUp
  BY <1>26, BoardsAssumption DEF ProvisioningUp
<1>27. CASE CrashRestart
  BY <1>27, BoardsAssumption DEF CrashRestart
<1>28. CASE UNCHANGED vars
  BY <1>28 DEF vars
<1>. QED
  BY <1>1, <1>2, <1>3, <1>4, <1>5, <1>6, <1>7, <1>8, <1>9, <1>10, <1>11, <1>12, <1>13, <1>14, <1>15, <1>16, <1>17, <1>18, <1>19, <1>20, <1>21, <1>22, <1>23, <1>24, <1>25, <1>26, <1>27, <1>28
  DEF Next, SweepRound, ReconcileRound, UpdateBoard, Remove, Request, Serve,
      Environment

LEMMA SpecLock == Spec => []LockInv
<1>1. Init => LockInv
  BY BoardsAssumption DEF Init, LockInv, Procs, Sweep, Reconcile
<1>. QED  BY <1>1, SpecType, NextLock, PTL DEF Spec

\* ReconcileIterationSafe: no step changes which boards are in Watchers_
\* while the timer iterates over it.  It rests on GetDevices answering TRUE
\* for a venue that is gone: its caller's RetireBoard is never reached.
THEOREM ReconcileNeverErases == Spec => ReconcileIterationSafe
<1>1. TypeInv /\ LockInv /\ WatchInv /\ [Next]_vars => [ReconcileIterates]_vars
  <2>. SUFFICES ASSUME TypeInv, LockInv, WatchInv, [Next]_vars,
                       mutex = Reconcile, mutex' = Reconcile
                PROVE  \A b \in Boards : Watched(b) <=> Watched(b)'
    BY DEF ReconcileIterates
  <2>. USE DEF TypeInv, TypeOK, LockInv, Procs, Sweep, Reconcile, Watched
  <2>1. ASSUME NEW b \in Boards, StartBoard(b) PROVE FALSE
    BY <2>1 DEF StartBoard
  <2>2. ASSUME NEW p \in Procs, StopBoard(p) PROVE FALSE
    BY <2>2, BoardsAssumption DEF StopBoard, MayLock
  <2>3. ASSUME NEW p \in Procs, UpdateBoardApply(p)
        PROVE  \A b \in Boards : Watched(b) <=> Watched(b)'
    <3>1. devs[p] # NoList /\ brd[p] \in Boards
      BY BoardsAssumption
    <3>. QED  BY <2>3, <3>1 DEF UpdateBoardApply
  <2>4. CASE CrashRestart
    BY <2>4, BoardsAssumption DEF CrashRestart
  <2>5. CASE UNCHANGED <<watchers, existing, stopped>>
    BY <2>5
  <2>. QED  BY <2>1, <2>2, <2>3, <2>4, <2>5, WatchFrame
<1>. QED  BY <1>1, SpecType, SpecLock, SpecWatch, PTL DEF Spec, ReconcileIterationSafe
-----------------------------------------------------------------------------
(* Copies of records, and one board per venue.                             *)

LEMMA NextCopy == TypeInv /\ CopyInv /\ [Next]_vars => CopyInv'
<1>. SUFFICES ASSUME TypeInv, CopyInv, [Next]_vars PROVE CopyInv'
  OBVIOUS
<1>. USE DEF TypeInv, TypeOK, CopyInv, InTable, Procs, prov, tables, coord, locals
<1>1. CASE SweepBegin
  BY <1>1, BoardsAssumption DEF SweepBegin, Goto
<1>2. CASE SweepEnd
  BY <1>2, BoardsAssumption DEF SweepEnd, Goto
<1>3. ASSUME NEW b \in Boards, StartBoard(b)
     PROVE  CopyInv'
  BY <1>3, BoardsAssumption DEF StartBoard, SweepRetire, Goto
<1>4. ASSUME NEW b \in Boards, CheckBoard(b)
     PROVE  CopyInv'
  BY <1>4, BoardsAssumption DEF CheckBoard, SweepRetire, Goto
<1>5. CASE ReconcileBegin
  BY <1>5, BoardsAssumption DEF ReconcileBegin, Goto
<1>6. CASE ReconcileEnd
  BY <1>6, BoardsAssumption DEF ReconcileEnd, Goto
<1>7. ASSUME NEW b \in Boards, ReconcileBoard(b)
     PROVE  CopyInv'
  BY <1>7, BoardsAssumption DEF ReconcileBoard, Goto
<1>8. ASSUME NEW p \in Procs, UpdateBoardRead(p)
     PROVE  CopyInv'
  BY <1>8, BoardsAssumption DEF UpdateBoardRead, Goto, Return
<1>9. ASSUME NEW p \in Procs, UpdateBoardFetch(p)
     PROVE  CopyInv'
  BY <1>9, BoardsAssumption DEF UpdateBoardFetch, Goto, Return
<1>10. ASSUME NEW p \in Procs, UpdateBoardApply(p)
     PROVE  CopyInv'
  BY <1>10, BoardsAssumption DEF UpdateBoardApply, Goto, Return
<1>11. ASSUME NEW p \in Procs, StopBoard(p)
     PROVE  CopyInv'
  BY <1>11, BoardsAssumption DEF StopBoard, Goto
<1>12. ASSUME NEW p \in Procs, DeleteRecord(p)
     PROVE  CopyInv'
  BY <1>12, BoardsAssumption DEF DeleteRecord, Goto, Execute
<1>13. ASSUME NEW p \in Procs, DeleteTimePoints(p)
     PROVE  CopyInv'
  BY <1>13, BoardsAssumption DEF DeleteTimePoints, Goto
<1>14. ASSUME NEW p \in Procs, DeleteEvents(p)
     PROVE  CopyInv'
  BY <1>14, BoardsAssumption DEF DeleteEvents, Goto, Return
<1>15. ASSUME NEW h \in Handlers, NEW v \in Venues, NEW sub \in BOOLEAN, PostCheck(h, v, sub)
     PROVE  CopyInv'
  BY <1>15, BoardsAssumption DEF PostCheck, Goto
<1>16. ASSUME NEW h \in Handlers, NEW b \in Boards, DeleteRequest(h, b)
     PROVE  CopyInv'
  BY <1>16, BoardsAssumption DEF DeleteRequest, Goto
<1>17. ASSUME NEW h \in Handlers, NEW b \in Boards, NEW sub \in BOOLEAN, PutRead(h, b, sub)
     PROVE  CopyInv'
  BY <1>17, BoardsAssumption DEF PutRead, Goto
<1>18. ASSUME NEW h \in Handlers, AddBoard(h)
     PROVE  CopyInv'
  BY <1>18, BoardsAssumption DEF AddBoard, Goto, Return
<1>19. ASSUME NEW h \in Handlers, PutWrite(h)
     PROVE  CopyInv'
  BY <1>19, BoardsAssumption DEF PutWrite, Goto, Return
<1>20. ASSUME NEW h \in Handlers, NEW b \in Boards, PostCreate(h, b)
     PROVE  CopyInv'
  BY <1>20, BoardsAssumption DEF PostCreate, Goto
<1>21. ASSUME NEW b \in Boards, PersistTimePoint(b)
     PROVE  CopyInv'
  BY <1>21, BoardsAssumption DEF PersistTimePoint
<1>22. ASSUME NEW b \in Boards, PersistEvent(b)
     PROVE  CopyInv'
  BY <1>22, BoardsAssumption DEF PersistEvent
<1>23. ASSUME NEW v \in Venues, VenueDeleted(v)
     PROVE  CopyInv'
  BY <1>23, BoardsAssumption DEF VenueDeleted
<1>24. ASSUME NEW v \in Venues, NEW D \in DevList, VenueEdited(v, D)
     PROVE  CopyInv'
  BY <1>24, BoardsAssumption DEF VenueEdited
<1>25. CASE ProvisioningDown
  BY <1>25, BoardsAssumption DEF ProvisioningDown
<1>26. CASE ProvisioningUp
  BY <1>26, BoardsAssumption DEF ProvisioningUp
<1>27. CASE CrashRestart
  BY <1>27, BoardsAssumption DEF CrashRestart
<1>28. CASE UNCHANGED vars
  BY <1>28 DEF vars
<1>. QED
  BY <1>1, <1>2, <1>3, <1>4, <1>5, <1>6, <1>7, <1>8, <1>9, <1>10, <1>11, <1>12, <1>13, <1>14, <1>15, <1>16, <1>17, <1>18, <1>19, <1>20, <1>21, <1>22, <1>23, <1>24, <1>25, <1>26, <1>27, <1>28
  DEF Next, SweepRound, ReconcileRound, UpdateBoard, Remove, Request, Serve,
      Environment

LEMMA SpecCopy == Spec => []CopyInv
<1>1. Init => CopyInv
  BY DEF Init, CopyInv, InTable, Procs
<1>. QED  BY <1>1, SpecType, NextCopy, PTL DEF Spec

LEMMA NextCreate == TypeInv /\ CopyInv /\ CreateInv /\ [Next]_vars => CreateInv'
<1>. SUFFICES ASSUME TypeInv, CopyInv, CreateInv, [Next]_vars PROVE CreateInv'
  OBVIOUS
<1>. USE DEF TypeInv, TypeOK, CreateInv, CopyInv, InTable, VenueFree, Procs, prov, tables, coord, locals, locks
<1>1. CASE SweepBegin
  BY <1>1, BoardsAssumption DEF SweepBegin, Goto
<1>2. CASE SweepEnd
  BY <1>2, BoardsAssumption DEF SweepEnd, Goto
<1>3. ASSUME NEW b \in Boards, StartBoard(b)
     PROVE  CreateInv'
  BY <1>3, BoardsAssumption DEF StartBoard, SweepRetire, Goto
<1>4. ASSUME NEW b \in Boards, CheckBoard(b)
     PROVE  CreateInv'
  BY <1>4, BoardsAssumption DEF CheckBoard, SweepRetire, Goto
<1>5. CASE ReconcileBegin
  BY <1>5, BoardsAssumption DEF ReconcileBegin, Goto
<1>6. CASE ReconcileEnd
  BY <1>6, BoardsAssumption DEF ReconcileEnd, Goto
<1>7. ASSUME NEW b \in Boards, ReconcileBoard(b)
     PROVE  CreateInv'
  BY <1>7, BoardsAssumption DEF ReconcileBoard, Goto
<1>8. ASSUME NEW p \in Procs, UpdateBoardRead(p)
     PROVE  CreateInv'
  BY <1>8, BoardsAssumption DEF UpdateBoardRead, Goto, Return
<1>9. ASSUME NEW p \in Procs, UpdateBoardFetch(p)
     PROVE  CreateInv'
  BY <1>9, BoardsAssumption DEF UpdateBoardFetch, Goto, Return
<1>10. ASSUME NEW p \in Procs, UpdateBoardApply(p)
     PROVE  CreateInv'
  BY <1>10, BoardsAssumption DEF UpdateBoardApply, Goto, Return
<1>11. ASSUME NEW p \in Procs, StopBoard(p)
     PROVE  CreateInv'
  BY <1>11, BoardsAssumption DEF StopBoard, Goto
<1>12. ASSUME NEW p \in Procs, DeleteRecord(p)
     PROVE  CreateInv'
  BY <1>12, BoardsAssumption DEF DeleteRecord, Goto, Execute
<1>13. ASSUME NEW p \in Procs, DeleteTimePoints(p)
     PROVE  CreateInv'
  BY <1>13, BoardsAssumption DEF DeleteTimePoints, Goto
<1>14. ASSUME NEW p \in Procs, DeleteEvents(p)
     PROVE  CreateInv'
  BY <1>14, BoardsAssumption DEF DeleteEvents, Goto, Return
<1>15. ASSUME NEW h \in Handlers, NEW v \in Venues, NEW sub \in BOOLEAN, PostCheck(h, v, sub)
     PROVE  CreateInv'
  BY <1>15, BoardsAssumption DEF PostCheck, Goto
<1>16. ASSUME NEW h \in Handlers, NEW b \in Boards, DeleteRequest(h, b)
     PROVE  CreateInv'
  BY <1>16, BoardsAssumption DEF DeleteRequest, Goto
<1>17. ASSUME NEW h \in Handlers, NEW b \in Boards, NEW sub \in BOOLEAN, PutRead(h, b, sub)
     PROVE  CreateInv'
  BY <1>17, BoardsAssumption DEF PutRead, Goto
<1>18. ASSUME NEW h \in Handlers, AddBoard(h)
     PROVE  CreateInv'
  BY <1>18, BoardsAssumption DEF AddBoard, Goto, Return
<1>19. ASSUME NEW h \in Handlers, PutWrite(h)
     PROVE  CreateInv'
  BY <1>19, BoardsAssumption DEF PutWrite, Goto, Return
<1>20. ASSUME NEW h \in Handlers, NEW b \in Boards, PostCreate(h, b)
     PROVE  CreateInv'
  BY <1>20, BoardsAssumption DEF PostCreate, Goto
<1>21. ASSUME NEW b \in Boards, PersistTimePoint(b)
     PROVE  CreateInv'
  BY <1>21, BoardsAssumption DEF PersistTimePoint
<1>22. ASSUME NEW b \in Boards, PersistEvent(b)
     PROVE  CreateInv'
  BY <1>22, BoardsAssumption DEF PersistEvent
<1>23. ASSUME NEW v \in Venues, VenueDeleted(v)
     PROVE  CreateInv'
  BY <1>23, BoardsAssumption DEF VenueDeleted
<1>24. ASSUME NEW v \in Venues, NEW D \in DevList, VenueEdited(v, D)
     PROVE  CreateInv'
  BY <1>24, BoardsAssumption DEF VenueEdited
<1>25. CASE ProvisioningDown
  BY <1>25, BoardsAssumption DEF ProvisioningDown
<1>26. CASE ProvisioningUp
  BY <1>26, BoardsAssumption DEF ProvisioningUp
<1>27. CASE CrashRestart
  BY <1>27, BoardsAssumption DEF CrashRestart
<1>28. CASE UNCHANGED vars
  BY <1>28 DEF vars
<1>. QED
  BY <1>1, <1>2, <1>3, <1>4, <1>5, <1>6, <1>7, <1>8, <1>9, <1>10, <1>11, <1>12, <1>13, <1>14, <1>15, <1>16, <1>17, <1>18, <1>19, <1>20, <1>21, <1>22, <1>23, <1>24, <1>25, <1>26, <1>27, <1>28
  DEF Next, SweepRound, ReconcileRound, UpdateBoard, Remove, Request, Serve,
      Environment

LEMMA SpecCreate == Spec => []CreateInv
<1>1. Init => CreateInv
  BY DEF Init, CreateInv, Procs
<1>. QED  BY <1>1, SpecType, SpecCopy, NextCreate, PTL DEF Spec

\* Only three statements write the boards table.
LEMMA TableFrame ==
    ASSUME [Next]_vars
    PROVE  \/ \E p \in Procs : DeleteRecord(p)
           \/ \E h \in Handlers : PutWrite(h) \/ \E b \in Boards : PostCreate(h, b)
           \/ UNCHANGED db
  BY DEF Next, SweepRound, ReconcileRound, UpdateBoard, Remove, Request, Serve,
         Environment, SweepBegin, SweepEnd, StartBoard, CheckBoard, ReconcileBegin,
         ReconcileEnd, ReconcileBoard, UpdateBoardRead, UpdateBoardFetch,
         UpdateBoardApply, StopBoard, DeleteTimePoints, DeleteEvents, PostCheck,
         DeleteRequest, PutRead, AddBoard, PersistTimePoint, PersistEvent, VenueDeleted,
         VenueEdited, ProvisioningDown, ProvisioningUp, CrashRestart, vars, tables

LEMMA NextUnique ==
    TypeInv /\ CopyInv /\ CreateInv /\ VenueUnique /\ [Next]_vars => VenueUnique'
<1>. SUFFICES ASSUME TypeInv, CopyInv, CreateInv, VenueUnique, [Next]_vars
              PROVE  VenueUnique'
  OBVIOUS
<1>. USE DEF TypeInv, TypeOK, VenueUnique, InTable, Procs
<1>1. ASSUME NEW p \in Procs, DeleteRecord(p)
     PROVE  VenueUnique'
  BY <1>1 DEF DeleteRecord, Execute
<1>2. ASSUME NEW h \in Handlers, PutWrite(h)
     PROVE  VenueUnique'
  <2>1. \A b \in Boards : InTable(b)' => InTable(b) /\ db'[b].venue = db[b].venue
    BY <1>2 DEF PutWrite, CopyInv
  <2>. QED  BY <2>1
<1>3. ASSUME NEW h \in Handlers, NEW b \in Boards, PostCreate(h, b)
     PROVE  VenueUnique'
  <2>1. VenueFree(rec[h].venue)
    BY <1>3 DEF PostCreate, CreateInv
  <2>. QED  BY <1>3, <2>1 DEF PostCreate, VenueFree
<1>4. CASE UNCHANGED db
  BY <1>4
<1>. QED  BY <1>1, <1>2, <1>3, <1>4, TableFrame

\* VenueUnique: at most one board per venue, for any number of concurrent
\* POST, PUT and DELETE requests.
THEOREM OneBoardPerVenue == Spec => []VenueUnique
<1>1. Init => VenueUnique
  BY DEF Init, VenueUnique, InTable
<1>. QED  BY <1>1, SpecType, SpecCopy, SpecCreate, NextUnique, PTL DEF Spec
-----------------------------------------------------------------------------
(* Why a record disappears.                                                *)

LEMMA NextCause == TypeInv /\ LockInv /\ CopyInv /\ CauseInv /\ [Next]_vars => CauseInv'
<1>. SUFFICES ASSUME TypeInv, LockInv, CopyInv, CauseInv, [Next]_vars PROVE CauseInv'
  OBVIOUS
<1>. USE DEF TypeInv, TypeOK, LockInv, CopyInv, CauseInv, InTable, Procs, Sweep, Reconcile, prov, tables, coord, locals, locks
<1>1. CASE SweepBegin
  BY <1>1, BoardsAssumption DEF SweepBegin, Goto
<1>2. CASE SweepEnd
  BY <1>2, BoardsAssumption DEF SweepEnd, Goto
<1>3. ASSUME NEW b \in Boards, StartBoard(b)
     PROVE  CauseInv'
  <2>1. GetDevices(toWatch[b]).ok \/ GetDevices(toWatch[b]).exists
    BY DEF GetDevices
  <2>. QED  BY <1>3, <2>1 DEF StartBoard
<1>4. ASSUME NEW b \in Boards, CheckBoard(b)
     PROVE  CauseInv'
  <2>1. CASE SweepRetire(b)
    <3>1. toWatch[b].venue \notin venues
      <4>1. CASE Exists(toWatch[b].venue).ok /\ ~Exists(toWatch[b].venue).exists
        BY <4>1 DEF Exists
      <4>2. CASE ~(Exists(toWatch[b].venue).ok /\ ~Exists(toWatch[b].venue).exists)
        BY <1>4, <2>1, <4>2 DEF CheckBoard, SweepRetire, Goto
      <4>. QED  BY <4>1, <4>2
    <3>. QED  BY <1>4, <2>1, <3>1 DEF CheckBoard, SweepRetire, Goto
  <2>2. CASE UNCHANGED <<pc, brd>>
    BY <1>4, <2>2 DEF CheckBoard
  <2>. QED  BY <1>4, <2>1, <2>2 DEF CheckBoard
<1>5. CASE ReconcileBegin
  BY <1>5, BoardsAssumption DEF ReconcileBegin, Goto
<1>6. CASE ReconcileEnd
  BY <1>6, BoardsAssumption DEF ReconcileEnd, Goto
<1>7. ASSUME NEW b \in Boards, ReconcileBoard(b)
     PROVE  CauseInv'
  BY <1>7, BoardsAssumption DEF ReconcileBoard, Goto
<1>8. ASSUME NEW p \in Procs, UpdateBoardRead(p)
     PROVE  CauseInv'
  BY <1>8, BoardsAssumption DEF UpdateBoardRead, Goto, Return
<1>9. ASSUME NEW p \in Procs, UpdateBoardFetch(p)
     PROVE  CauseInv'
  BY <1>9, BoardsAssumption DEF UpdateBoardFetch, Goto, Return
<1>10. ASSUME NEW p \in Procs, UpdateBoardApply(p)
     PROVE  CauseInv'
  BY <1>10, BoardsAssumption DEF UpdateBoardApply, Goto, Return
<1>11. ASSUME NEW p \in Procs, StopBoard(p)
     PROVE  CauseInv'
  BY <1>11, BoardsAssumption DEF StopBoard, Goto
<1>12. ASSUME NEW p \in Procs, DeleteRecord(p)
     PROVE  CauseInv'
  BY <1>12, BoardsAssumption DEF DeleteRecord, Goto, Execute
<1>13. ASSUME NEW p \in Procs, DeleteTimePoints(p)
     PROVE  CauseInv'
  BY <1>13, BoardsAssumption DEF DeleteTimePoints, Goto
<1>14. ASSUME NEW p \in Procs, DeleteEvents(p)
     PROVE  CauseInv'
  BY <1>14, BoardsAssumption DEF DeleteEvents, Goto, Return
<1>15. ASSUME NEW h \in Handlers, NEW v \in Venues, NEW sub \in BOOLEAN, PostCheck(h, v, sub)
     PROVE  CauseInv'
  BY <1>15, BoardsAssumption DEF PostCheck, Goto
<1>16. ASSUME NEW h \in Handlers, NEW b \in Boards, DeleteRequest(h, b)
     PROVE  CauseInv'
  BY <1>16, BoardsAssumption DEF DeleteRequest, Goto
<1>17. ASSUME NEW h \in Handlers, NEW b \in Boards, NEW sub \in BOOLEAN, PutRead(h, b, sub)
     PROVE  CauseInv'
  BY <1>17, BoardsAssumption DEF PutRead, Goto
<1>18. ASSUME NEW h \in Handlers, AddBoard(h)
     PROVE  CauseInv'
  BY <1>18, BoardsAssumption DEF AddBoard, Goto, Return
<1>19. ASSUME NEW h \in Handlers, PutWrite(h)
     PROVE  CauseInv'
  BY <1>19, BoardsAssumption DEF PutWrite, Goto, Return
<1>20. ASSUME NEW h \in Handlers, NEW b \in Boards, PostCreate(h, b)
     PROVE  CauseInv'
  BY <1>20, BoardsAssumption DEF PostCreate, Goto
<1>21. ASSUME NEW b \in Boards, PersistTimePoint(b)
     PROVE  CauseInv'
  BY <1>21, BoardsAssumption DEF PersistTimePoint
<1>22. ASSUME NEW b \in Boards, PersistEvent(b)
     PROVE  CauseInv'
  BY <1>22, BoardsAssumption DEF PersistEvent
<1>23. ASSUME NEW v \in Venues, VenueDeleted(v)
     PROVE  CauseInv'
  BY <1>23, BoardsAssumption DEF VenueDeleted
<1>24. ASSUME NEW v \in Venues, NEW D \in DevList, VenueEdited(v, D)
     PROVE  CauseInv'
  BY <1>24, BoardsAssumption DEF VenueEdited
<1>25. CASE ProvisioningDown
  BY <1>25, BoardsAssumption DEF ProvisioningDown
<1>26. CASE ProvisioningUp
  BY <1>26, BoardsAssumption DEF ProvisioningUp
<1>27. CASE CrashRestart
  BY <1>27, BoardsAssumption DEF CrashRestart
<1>28. CASE UNCHANGED vars
  BY <1>28 DEF vars
<1>. QED
  BY <1>1, <1>2, <1>3, <1>4, <1>5, <1>6, <1>7, <1>8, <1>9, <1>10, <1>11, <1>12, <1>13, <1>14, <1>15, <1>16, <1>17, <1>18, <1>19, <1>20, <1>21, <1>22, <1>23, <1>24, <1>25, <1>26, <1>27, <1>28
  DEF Next, SweepRound, ReconcileRound, UpdateBoard, Remove, Request, Serve,
      Environment

LEMMA SpecCause == Spec => []CauseInv
<1>1. Init => CauseInv
  BY DEF Init, CauseInv, Procs
<1>. QED  BY <1>1, SpecType, SpecLock, SpecCopy, NextCause, PTL DEF Spec

\* RemovedOnlyForCause: a record disappears only by a DELETE or because
\* provisioning no longer has its venue, whatever outages there are.
THEOREM RemovalIsJustified == Spec => RemovedOnlyForCause
<1>1. TypeInv /\ LockInv /\ CopyInv /\ CreateInv /\ CauseInv /\ [Next]_vars
        => [RemovalJustified]_vars
  <2>. SUFFICES ASSUME TypeInv, LockInv, CopyInv, CauseInv, [Next]_vars,
                       NEW b \in Boards, InTable(b), ~InTable(b)'
                PROVE  \/ \E h \in Handlers : pc[h] = "record" /\ brd[h] = b
                       \/ db[b].venue \notin venues
    BY DEF RemovalJustified
  <2>. USE DEF TypeInv, TypeOK, LocalsOK, InTable, Procs
  <2>1. ASSUME NEW p \in Procs, DeleteRecord(p)
        PROVE  \/ \E h \in Handlers : pc[h] = "record" /\ brd[h] = b
               \/ db[b].venue \notin venues
    <3>1. pc[p] = "record" /\ brd[p] = b
      BY <2>1 DEF DeleteRecord, Execute
    <3>2. p # Reconcile
      BY <3>1 DEF LockInv
    <3>. QED  BY <3>1, <3>2 DEF CauseInv
  <2>2. ASSUME NEW h \in Handlers, PutWrite(h) \/ \E a \in Boards : PostCreate(h, a)
        PROVE  FALSE
    <3>1. rec[h] \in Record
      BY <2>2 DEF PutWrite, PostCreate
    <3>. QED  BY <2>2, <3>1, BoardsAssumption DEF PutWrite, PostCreate
  <2>3. CASE UNCHANGED db
    BY <2>3
  <2>. QED  BY <2>1, <2>2, <2>3, TableFrame
<1>. QED  BY <1>1, SpecType, SpecLock, SpecCopy, SpecCreate, SpecCause, PTL
          DEF Spec, RemovedOnlyForCause
-----------------------------------------------------------------------------
(* What a retirement leaves.                                               *)

LEMMA NextRetire == TypeInv /\ LockInv /\ CopyInv /\ WatchInv /\ RetireInv /\ [Next]_vars => RetireInv'
<1>. SUFFICES ASSUME TypeInv, LockInv, CopyInv, WatchInv, RetireInv, [Next]_vars PROVE RetireInv'
  OBVIOUS
<1>. USE DEF TypeInv, TypeOK, LockInv, CopyInv, WatchInv, ListsAgree, RetireInv, InTable, Watched, Watching, MayLock, Execute, Procs, Sweep, Reconcile, prov, tables, coord, locals, locks, history
<1>1. CASE SweepBegin
  BY <1>1, BoardsAssumption DEF SweepBegin, Goto
<1>2. CASE SweepEnd
  BY <1>2, BoardsAssumption DEF SweepEnd, Goto
<1>3. ASSUME NEW b \in Boards, StartBoard(b)
     PROVE  RetireInv'
  <2>1. GetDevices(toWatch[b]).ok \/ GetDevices(toWatch[b]).exists
    BY DEF GetDevices
  <2>. QED  BY <1>3, <2>1 DEF StartBoard
<1>4. ASSUME NEW b \in Boards, CheckBoard(b)
     PROVE  RetireInv'
  BY <1>4, BoardsAssumption DEF CheckBoard, SweepRetire, Goto
<1>5. CASE ReconcileBegin
  BY <1>5, BoardsAssumption DEF ReconcileBegin, Goto
<1>6. CASE ReconcileEnd
  BY <1>6, BoardsAssumption DEF ReconcileEnd, Goto
<1>7. ASSUME NEW b \in Boards, ReconcileBoard(b)
     PROVE  RetireInv'
  BY <1>7, BoardsAssumption DEF ReconcileBoard, Goto
<1>8. ASSUME NEW p \in Procs, UpdateBoardRead(p)
     PROVE  RetireInv'
  BY <1>8, BoardsAssumption DEF UpdateBoardRead, Goto, Return
<1>9. ASSUME NEW p \in Procs, UpdateBoardFetch(p)
     PROVE  RetireInv'
  BY <1>9, BoardsAssumption DEF UpdateBoardFetch, Goto, Return
<1>10. ASSUME NEW p \in Procs, UpdateBoardApply(p)
     PROVE  RetireInv'
  BY <1>10, BoardsAssumption DEF UpdateBoardApply, Goto, Return
<1>11. ASSUME NEW p \in Procs, StopBoard(p)
     PROVE  RetireInv'
  BY <1>11, BoardsAssumption DEF StopBoard, Goto
<1>12. ASSUME NEW p \in Procs, DeleteRecord(p)
     PROVE  RetireInv'
  BY <1>12, BoardsAssumption DEF DeleteRecord, Goto, Execute
<1>13. ASSUME NEW p \in Procs, DeleteTimePoints(p)
     PROVE  RetireInv'
  BY <1>13, BoardsAssumption DEF DeleteTimePoints, Goto
<1>14. ASSUME NEW p \in Procs, DeleteEvents(p)
     PROVE  RetireInv'
  BY <1>14, BoardsAssumption DEF DeleteEvents, Goto, Return
<1>15. ASSUME NEW h \in Handlers, NEW v \in Venues, NEW sub \in BOOLEAN, PostCheck(h, v, sub)
     PROVE  RetireInv'
  BY <1>15, BoardsAssumption DEF PostCheck, Goto
<1>16. ASSUME NEW h \in Handlers, NEW b \in Boards, DeleteRequest(h, b)
     PROVE  RetireInv'
  BY <1>16, BoardsAssumption DEF DeleteRequest, Goto
<1>17. ASSUME NEW h \in Handlers, NEW b \in Boards, NEW sub \in BOOLEAN, PutRead(h, b, sub)
     PROVE  RetireInv'
  BY <1>17, BoardsAssumption DEF PutRead, Goto
<1>18. ASSUME NEW h \in Handlers, AddBoard(h)
     PROVE  RetireInv'
  BY <1>18, BoardsAssumption DEF AddBoard, Goto, Return
<1>19. ASSUME NEW h \in Handlers, PutWrite(h)
     PROVE  RetireInv'
  BY <1>19, BoardsAssumption DEF PutWrite, Goto, Return
<1>20. ASSUME NEW h \in Handlers, NEW b \in Boards, PostCreate(h, b)
     PROVE  RetireInv'
  BY <1>20, BoardsAssumption DEF PostCreate, Goto
<1>21. ASSUME NEW b \in Boards, PersistTimePoint(b)
     PROVE  RetireInv'
  BY <1>21, BoardsAssumption DEF PersistTimePoint
<1>22. ASSUME NEW b \in Boards, PersistEvent(b)
     PROVE  RetireInv'
  BY <1>22, BoardsAssumption DEF PersistEvent
<1>23. ASSUME NEW v \in Venues, VenueDeleted(v)
     PROVE  RetireInv'
  BY <1>23, BoardsAssumption DEF VenueDeleted
<1>24. ASSUME NEW v \in Venues, NEW D \in DevList, VenueEdited(v, D)
     PROVE  RetireInv'
  BY <1>24, BoardsAssumption DEF VenueEdited
<1>25. CASE ProvisioningDown
  BY <1>25, BoardsAssumption DEF ProvisioningDown
<1>26. CASE ProvisioningUp
  BY <1>26, BoardsAssumption DEF ProvisioningUp
<1>27. CASE CrashRestart
  BY <1>27, BoardsAssumption DEF CrashRestart
<1>28. CASE UNCHANGED vars
  BY <1>28 DEF vars
<1>. QED
  BY <1>1, <1>2, <1>3, <1>4, <1>5, <1>6, <1>7, <1>8, <1>9, <1>10, <1>11, <1>12, <1>13, <1>14, <1>15, <1>16, <1>17, <1>18, <1>19, <1>20, <1>21, <1>22, <1>23, <1>24, <1>25, <1>26, <1>27, <1>28
  DEF Next, SweepRound, ReconcileRound, UpdateBoard, Remove, Request, Serve,
      Environment

LEMMA SpecRetire == Spec => []RetireInv
<1>1. Init => RetireInv
  BY DEF Init, RetireInv, Procs
<1>. QED  BY <1>1, SpecType, SpecLock, SpecCopy, SpecWatch, NextRetire, PTL DEF Spec

\* RetiredLeavesNothing: without database faults nothing of a retired board
\* is left, and no request in flight, sweep or restart brings it back.
THEOREM RetirementIsFinal == Spec => []RetiredLeavesNothing
<1>1. RetireInv => RetiredLeavesNothing
  BY DEF RetireInv, RetiredLeavesNothing
<1>. QED  BY <1>1, SpecRetire, PTL
=============================================================================
