------------------------------- MODULE Ingest -------------------------------
(***************************************************************************)
(* From Kafka to a board's worker thread: the three receivers (state,      *)
(* connection status, health), each with a queue, a thread and a mutex,    *)
(* the VenueWatchers with theirs, and the VenueCoordinator thread that     *)
(* starts, modifies and stops watchers (one operation at a time, under its *)
(* own mutex).                                                             *)
(*                                                                         *)
(* Locks.  A receiver's thread keeps the receiver's Mutex_ while it posts  *)
(* one message to every target, and each post takes the target watcher's   *)
(* Mutex_.  ModifySerialNumbers keeps the watcher's Mutex_ while it        *)
(* registers with the receivers, and each registration takes a receiver's  *)
(* Mutex_.  All other sections are a single step here.                     *)
(***************************************************************************)
EXTENDS Naturals, Sequences, SequencesExt

CONSTANTS Watchers,     \* VenueWatcher objects
          Serials,      \* device serial numbers
          MaxBacklog,   \* bound: messages waiting in all queues together
          MaxModifies,  \* bound: calls of ModifySerialNumbers
          NoWatcher, NoSerial, NoReg

SetKinds == {"status", "health"}         \* receivers that keep a set per watcher
Kinds    == SetKinds \cup {"state"}

ASSUME IngestAssumption ==
    /\ MaxBacklog \in Nat /\ MaxModifies \in Nat
    /\ NoWatcher \notin Watchers /\ NoSerial \notin Serials

VARIABLES
    rq, rmsg, rtodo,  \* per receiver: Queue_, message in hand, targets left
    stateReg,         \* StateReceiver::Notifiers_: serial -> list of watchers
    setReg,           \* Notifiers_ of the other two: watcher -> set of serials
    life,             \* is the watcher object alive?
    serials, aps,     \* SerialNumbers_ and the keys of APs_
    running,          \* VenueWatcher::Running_
    wq, wpc, wmsg,    \* per watcher: Queue_, its worker, message in hand
    op, cw, prog,     \* the coordinator's operation, its watcher, steps left
    left, target,     \* serials left in the step's loop; the new device list
    modifies          \* what MaxModifies counts

receivers == <<rq, rmsg, rtodo>>
regs      == <<stateReg, setReg>>
workers   == <<running, wq, wpc, wmsg>>
coord     == <<op, cw, prog, left, target>>
vars      == <<receivers, regs, life, serials, aps, workers, coord, modifies>>

WorkerPCs == {"none", "starting", "run", "blocked", "got", "null", "done"}
Steps     == {"add", "remove", "status", "health", "launch", "commit", "signal",
              "join", "destroy"}

TypeOK ==
    /\ rq \in [Kinds -> Seq(Serials)]
    /\ rmsg \in [Kinds -> Serials \cup {NoSerial}]
    /\ rtodo \in [Kinds -> Seq(Watchers)]
    /\ \A k \in Kinds : rmsg[k] = NoSerial <=> rtodo[k] = <<>>
    /\ stateReg \in [Serials -> Seq(Watchers)]
    /\ setReg \in [SetKinds -> [Watchers -> {NoReg} \cup SUBSET Serials]]
    /\ life \in [Watchers -> BOOLEAN]
    /\ serials \in [Watchers -> SUBSET Serials]
    /\ aps \in [Watchers -> SUBSET Serials]
    /\ running \in [Watchers -> BOOLEAN]
    /\ wq \in [Watchers -> Seq(Serials)]
    /\ wpc \in [Watchers -> WorkerPCs]
    /\ wmsg \in [Watchers -> Serials \cup {NoSerial}]
    /\ op \in {"none", "start", "modify", "stop"}
    /\ cw \in Watchers \cup {NoWatcher}
    /\ op = "none" <=> cw = NoWatcher
    /\ prog \in Seq(Steps)
    /\ left \in SUBSET Serials
    /\ target \in SUBSET Serials
    /\ modifies \in 0..MaxModifies

Init ==
    /\ rq = [k \in Kinds |-> <<>>]
    /\ rmsg = [k \in Kinds |-> NoSerial]
    /\ rtodo = [k \in Kinds |-> <<>>]
    /\ stateReg = [s \in Serials |-> <<>>]
    /\ setReg = [k \in SetKinds |-> [w \in Watchers |-> NoReg]]
    /\ life = [w \in Watchers |-> FALSE]
    /\ serials = [w \in Watchers |-> {}]
    /\ aps = [w \in Watchers |-> {}]
    /\ running = [w \in Watchers |-> FALSE]
    /\ wq = [w \in Watchers |-> <<>>]
    /\ wpc = [w \in Watchers |-> "none"]
    /\ wmsg = [w \in Watchers |-> NoSerial]
    /\ op = "none" /\ cw = NoWatcher /\ prog = <<>> /\ left = {} /\ target = {}
    /\ modifies = 0

\* Nobody holds the receiver's, the watcher's Mutex_ across steps.
ReceiverFree(k) == rmsg[k] = NoSerial

\* Seeded fault: Start keeps the watcher's Mutex_ while it registers.
WatcherFreeStart(w) == ~(op \in {"modify", "start"} /\ cw = w)
WatcherFree(w)  == ~(op = "modify" /\ cw = w)
-----------------------------------------------------------------------------
(* The receivers.                                                          *)

\* The messages waiting in the queues.
Backlog == Cardinality({x \in Kinds \X (1..MaxBacklog) : x[2] <= Len(rq[x[1]])})
         + Cardinality({x \in Watchers \X (1..MaxBacklog) : x[2] <= Len(wq[x[1]])})

\* StateReceived, DeviceStatusReceived, HealthReceived: the Kafka thread.
Receive(k, s) ==
    /\ Backlog < MaxBacklog
    /\ ReceiverFree(k)
    /\ rq' = [rq EXCEPT ![k] = Append(@, s)]
    /\ UNCHANGED <<rmsg, rtodo, regs, life, serials, aps, workers, coord, modifies>>

\* The watchers a message goes to: all that registered the serial with the
\* StateReceiver, the first that has it in the maps of the other two.
TargetLists(k, s) ==
    IF k = "state" THEN {stateReg[s]}
    ELSE LET holders == {w \in Watchers : setReg[k][w] # NoReg /\ s \in setReg[k][w]}
         IN  IF holders = {} THEN {<<>>} ELSE {<<w>> : w \in holders}

\* Seeded fault: a device nobody watches leaves the receiver locked.
DispatchStuck(k) ==
    /\ ReceiverFree(k) /\ rq[k] # <<>>
    /\ rq' = [rq EXCEPT ![k] = Tail(@)]
    /\ \E targets \in TargetLists(k, Head(rq[k])) : rtodo' = [rtodo EXCEPT ![k] = targets]
    /\ rmsg' = [rmsg EXCEPT ![k] = Head(rq[k])]
    /\ UNCHANGED <<regs, life, serials, aps, workers, coord, modifies>>

\* run(): take the next message and, under the receiver's Mutex_, look up
\* its targets.  Without any, the Mutex_ is released at once.
Dispatch(k) ==
    /\ ReceiverFree(k) /\ rq[k] # <<>>
    /\ rq' = [rq EXCEPT ![k] = Tail(@)]
    /\ \E targets \in TargetLists(k, Head(rq[k])) :
        /\ rtodo' = [rtodo EXCEPT ![k] = targets]
        /\ rmsg' = [rmsg EXCEPT ![k] = IF targets = <<>> THEN NoSerial ELSE Head(rq[k])]
    /\ UNCHANGED <<regs, life, serials, aps, workers, coord, modifies>>

\* A message that does not parse, or has no payload, is dropped.
DropMalformed(k) ==
    /\ ReceiverFree(k) /\ rq[k] # <<>>
    /\ rq' = [rq EXCEPT ![k] = Tail(@)]
    /\ UNCHANGED <<rmsg, rtodo, regs, life, serials, aps, workers, coord, modifies>>

\* PostState, PostConnection, PostHealth, under the watcher's Mutex_.  A
\* Poco::NotificationQueue hands the message to a thread that waits in
\* waitDequeueNotification, and queues it otherwise.
Post(k) ==
    /\ ~ReceiverFree(k)
    /\ LET w == Head(rtodo[k])
       IN  /\ WatcherFree(w)
           /\ IF wpc[w] = "blocked"
              THEN /\ wpc' = [wpc EXCEPT ![w] = "got"]
                   /\ wmsg' = [wmsg EXCEPT ![w] = rmsg[k]]
                   /\ UNCHANGED wq
              ELSE /\ wq' = [wq EXCEPT ![w] = Append(@, rmsg[k])]
                   /\ UNCHANGED <<wpc, wmsg>>
    /\ rtodo' = [rtodo EXCEPT ![k] = Tail(@)]
    /\ rmsg' = [rmsg EXCEPT ![k] = IF Len(rtodo[k]) = 1 THEN NoSerial ELSE @]
    /\ UNCHANGED <<rq, regs, life, serials, aps, running, coord, modifies>>
-----------------------------------------------------------------------------
(* VenueWatcher::run, the worker thread of a watcher.                      *)

\* The thread begins, and only then sets Running_.
WorkerBegin(w) ==
    /\ wpc[w] = "starting"
    /\ running' = [running EXCEPT ![w] = TRUE]
    /\ wpc' = [wpc EXCEPT ![w] = "run"]
    /\ UNCHANGED <<receivers, regs, life, serials, aps, wq, wmsg, coord, modifies>>

\* waitDequeueNotification: take a message, or go to sleep.
WorkerDequeue(w) ==
    /\ wpc[w] = "run"
    /\ IF wq[w] = <<>>
       THEN /\ wpc' = [wpc EXCEPT ![w] = "blocked"]
            /\ UNCHANGED <<wq, wmsg>>
       ELSE /\ wpc' = [wpc EXCEPT ![w] = "got"]
            /\ wmsg' = [wmsg EXCEPT ![w] = Head(wq[w])]
            /\ wq' = [wq EXCEPT ![w] = Tail(@)]
    /\ UNCHANGED <<receivers, regs, life, serials, aps, running, coord, modifies>>

\* while (Msg && Running_): look the device up under Mutex_ and let it
\* handle the message (see Availability), or leave the loop.
WorkerHandle(w) ==
    /\ wpc[w] = "got" /\ running[w] /\ WatcherFree(w)
    /\ wpc' = [wpc EXCEPT ![w] = "run"]
    /\ wmsg' = [wmsg EXCEPT ![w] = NoSerial]
    /\ UNCHANGED <<receivers, regs, life, serials, aps, running, wq, coord, modifies>>

WorkerExit(w) ==
    /\ wpc[w] = "null" \/ (wpc[w] = "got" /\ ~running[w])
    /\ wpc' = [wpc EXCEPT ![w] = "done"]
    /\ wmsg' = [wmsg EXCEPT ![w] = NoSerial]
    /\ UNCHANGED <<receivers, regs, life, serials, aps, running, wq, coord, modifies>>
-----------------------------------------------------------------------------
(* The coordinator's operations on a watcher: each is a list of steps.     *)

Begin(o, w, steps, set) ==
    /\ op = "none"
    /\ op' = o /\ cw' = w /\ prog' = steps /\ target' = set

\* StartBoard makes a watcher and calls VenueWatcher::Start.
StartWatcher(w, S) ==
    /\ ~life[w]
    /\ Begin("start", w, <<"add", "status", "health", "launch">>, S)
    /\ left' = S
    /\ life' = [life EXCEPT ![w] = TRUE]
    /\ serials' = [serials EXCEPT ![w] = S]
    /\ aps' = [aps EXCEPT ![w] = S]
    /\ wq' = [wq EXCEPT ![w] = <<>>]
    /\ UNCHANGED <<receivers, regs, running, wpc, wmsg, modifies>>

\* UpdateBoard calls VenueWatcher::ModifySerialNumbers, which takes the
\* watcher's Mutex_ for all of its steps.
ModifyWatcher(w, S) ==
    /\ modifies < MaxModifies
    /\ life[w] /\ S # serials[w]
    /\ Begin("modify", w, <<"remove", "add", "health", "status", "commit">>, S)
    /\ left' = serials[w] \ S
    /\ modifies' = modifies + 1
    /\ UNCHANGED <<receivers, regs, life, serials, aps, workers>>

\* Seeded faults: Stop deregisters before it joins; Stop forgets the health
\* receiver.
StopWatcherEarly(w) ==
    /\ life[w]
    /\ Begin("stop", w, <<"remove", "status", "health", "signal", "join", "destroy">>, {})
    /\ left' = serials[w]
    /\ UNCHANGED <<receivers, regs, life, serials, aps, workers, modifies>>

StopWatcherForgets(w) ==
    /\ life[w]
    /\ Begin("stop", w, <<"signal", "join", "remove", "status", "destroy">>, {})
    /\ UNCHANGED <<receivers, regs, life, serials, aps, workers, left, modifies>>

\* StopBoard calls VenueWatcher::Stop and destroys the watcher.
StopWatcher(w) ==
    /\ life[w]
    /\ Begin("stop", w, <<"signal", "join", "remove", "status", "health", "destroy">>, {})
    /\ UNCHANGED <<receivers, regs, life, serials, aps, workers, left, modifies>>

At(step) == prog # <<>> /\ Head(prog) = step

\* The step is over; `loop' is what the next one iterates over.
Done(loop) == prog' = Tail(prog) /\ left' = loop

\* The registration of one serial with the StateReceiver; when there is
\* none left, on to the next step.
AddSerial ==
    /\ At("add")
    /\ \/ /\ left = {}
          /\ Done({})
          /\ UNCHANGED <<stateReg, aps>>
       \/ \E s \in left :
          /\ ReceiverFree("state")
          /\ stateReg' = [stateReg EXCEPT ![s] = Append(@, cw)]
          /\ aps' = [aps EXCEPT ![cw] = @ \cup {s}]
          /\ left' = left \ {s}
          /\ UNCHANGED prog
    /\ UNCHANGED <<receivers, setReg, life, serials, workers, op, cw, target, modifies>>

\* std::list::erase of the first entry equal to w.
EraseFirst(list, w) ==
    IF Contains(list, w)
    THEN RemoveAt(list, CHOOSE i \in 1..Len(list) :
                            list[i] = w /\ \A j \in 1..(i - 1) : list[j] # w)
    ELSE list

\* Seeded fault: Modify registers the whole new list, not only the newcomers.
RemoveSerialAll ==
    /\ At("remove")
    /\ \/ /\ left = {}
          /\ Done(target)
          /\ UNCHANGED <<stateReg, aps>>
       \/ \E s \in left :
          /\ ReceiverFree("state")
          /\ stateReg' = [stateReg EXCEPT ![s] = EraseFirst(@, cw)]
          /\ aps' = IF op = "modify" THEN [aps EXCEPT ![cw] = @ \ {s}] ELSE aps
          /\ left' = left \ {s}
          /\ UNCHANGED prog
    /\ UNCHANGED <<receivers, setReg, life, serials, workers, op, cw, target, modifies>>

\* Modify removes the devices that left, Stop all of them.
RemoveSerial ==
    /\ At("remove")
    /\ \/ /\ left = {}
          /\ Done(target \ serials[cw])
          /\ UNCHANGED <<stateReg, aps>>
       \/ \E s \in left :
          /\ ReceiverFree("state")
          /\ stateReg' = [stateReg EXCEPT ![s] = EraseFirst(@, cw)]
          /\ aps' = IF op = "modify" THEN [aps EXCEPT ![cw] = @ \ {s}] ELSE aps
          /\ left' = left \ {s}
          /\ UNCHANGED prog
    /\ UNCHANGED <<receivers, setReg, life, serials, workers, op, cw, target, modifies>>

\* Register (Start, Modify) or DeRegister (Stop) with a set-keeping receiver.
RegisterSet(k) ==
    /\ At(k) /\ ReceiverFree(k)
    /\ setReg' = [setReg EXCEPT ![k][cw] = IF op = "stop" THEN NoReg ELSE target]
    /\ Done({})
    /\ UNCHANGED <<receivers, stateReg, life, serials, aps, workers, op, cw, target,
                   modifies>>

\* The last step of an operation: it returns.
Finish ==
    /\ op' = "none" /\ cw' = NoWatcher /\ target' = {}
    /\ Done({})

\* Start: Worker_.start.
Launch ==
    /\ At("launch")
    /\ wpc' = [wpc EXCEPT ![cw] = "starting"]
    /\ Finish
    /\ UNCHANGED <<receivers, regs, life, serials, aps, running, wq, wmsg, modifies>>

\* Modify: SerialNumbers_ = SerialNumbers, and the Mutex_ is released.
Commit ==
    /\ At("commit")
    /\ serials' = [serials EXCEPT ![cw] = target]
    /\ Finish
    /\ UNCHANGED <<receivers, regs, life, aps, workers, modifies>>

\* Stop: Running_ = false; wakeUpAll reaches a worker that is asleep now.
Signal ==
    /\ At("signal")
    /\ running' = [running EXCEPT ![cw] = FALSE]
    /\ wpc' = IF wpc[cw] = "blocked" THEN [wpc EXCEPT ![cw] = "null"] ELSE wpc
    /\ Done({})
    /\ UNCHANGED <<receivers, regs, life, serials, aps, wq, wmsg, op, cw, target,
                   modifies>>

\* Stop: Worker_.join.
Join ==
    /\ At("join") /\ wpc[cw] = "done"
    /\ Done(serials[cw])
    /\ UNCHANGED <<receivers, regs, life, serials, aps, workers, op, cw, target, modifies>>

\* Watchers_.erase: the watcher and what is left in its queue are gone.
Destroy ==
    /\ At("destroy")
    /\ life' = [life EXCEPT ![cw] = FALSE]
    /\ serials' = [serials EXCEPT ![cw] = {}]
    /\ aps' = [aps EXCEPT ![cw] = {}]
    /\ wq' = [wq EXCEPT ![cw] = <<>>]
    /\ wpc' = [wpc EXCEPT ![cw] = "none"]
    /\ Finish
    /\ UNCHANGED <<receivers, regs, running, wmsg, modifies>>
-----------------------------------------------------------------------------
Request ==
    \E w \in Watchers :
        \/ \E S \in SUBSET Serials : StartWatcher(w, S) \/ ModifyWatcher(w, S)
        \/ StopWatcher(w)

CoordinatorStep ==
    \/ AddSerial \/ RemoveSerial \/ \E k \in SetKinds : RegisterSet(k)
    \/ Launch \/ Commit \/ Signal \/ Join \/ Destroy

ReceiverStep(k) == Dispatch(k) \/ DropMalformed(k) \/ Post(k)

WorkerStep(w) ==
    WorkerBegin(w) \/ WorkerDequeue(w) \/ WorkerHandle(w) \/ WorkerExit(w)

Next ==
    \/ Request \/ CoordinatorStep
    \/ \E k \in Kinds : ReceiverStep(k) \/ \E s \in Serials : Receive(k, s)
    \/ \E w \in Watchers : WorkerStep(w)

\* The receiver takes a report of device s, and it is well formed.
DispatchOf(k, s) == rq[k] # <<>> /\ Head(rq[k]) = s /\ Dispatch(k)

\* Threads keep running, a mutex that is released again and again is
\* eventually acquired, and devices keep reporting, not always in malformed
\* messages.  Nobody is obliged to start, modify or stop a board.
Fairness ==
    /\ SF_vars(CoordinatorStep)
    /\ \A k \in Kinds : WF_vars(ReceiverStep(k))
    /\ \A s \in Serials : SF_vars(DispatchOf("state", s))
    /\ \A w \in Watchers : WF_vars(WorkerStep(w))
    /\ \A s \in Serials : SF_vars(Receive("state", s))

Spec     == Init /\ [][Next]_vars
FairSpec == Spec /\ Fairness
-----------------------------------------------------------------------------
\* The receivers hold raw VenueWatcher pointers: whatever they have in their
\* maps, or are still about to post to, is a live watcher.  (Stop joins the
\* worker and deregisters before StopBoard erases the watcher.)
NoDanglingWatcher ==
    \A w \in Watchers : ~life[w] =>
        /\ \A s \in Serials : ~Contains(stateReg[s], w)
        /\ \A k \in SetKinds : setReg[k][w] = NoReg
        /\ \A k \in Kinds : ~Contains(rtodo[k], w)

\* Between two operations of the coordinator a watcher is registered for
\* exactly its devices, and only once: Notifiers_ is a list without a check
\* for duplicates, and a second entry would store every sample twice.
RegisteredOnce ==
    op = "none" => \A w \in Watchers : life[w] =>
        /\ aps[w] = serials[w]
        /\ \A k \in SetKinds : setReg[k][w] = serials[w]
        /\ \A s \in Serials :
            /\ Contains(stateReg[s], w) <=> s \in serials[w]
            /\ \A i, j \in DOMAIN stateReg[s] :
                  stateReg[s][i] = w /\ stateReg[s][j] = w => i = j

\* Starting a watcher always completes: Start gives the watcher's Mutex_ up
\* before it registers, so a receiver that already posts to the half
\* registered watcher cannot block it.
StartCompletes == op = "start" ~> op = "none"

\* Stopping a watcher that has devices and whose worker was running when
\* Running_ was cleared completes.  wakeUpAll may miss a worker that is about
\* to go to sleep, but the watcher is still registered then, and the next
\* report of one of its devices ends the wait.
StopCompletes ==
    \A w \in Watchers :
        At("join") /\ cw = w /\ serials[w] # {} /\ ~running[w] /\ wpc[w] # "starting"
            ~> op = "none"

\* A receiver that has begun to hand out a message finishes: its thread is
\* never blocked for good on a watcher's Mutex_ (with the receiver's own
\* Mutex_ held, which would also stop the Kafka thread).
DispatchCompletes == \A k \in Kinds : ~ReceiverFree(k) ~> ReceiverFree(k)

\* As long as no device list changes, the coordinator and the receivers never
\* wait for each other for good: whatever either of them begins completes.
NoMutualWait == StartCompletes /\ DispatchCompletes
=============================================================================
