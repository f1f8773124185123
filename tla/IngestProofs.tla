---------------------------- MODULE IngestProofs ----------------------------
(***************************************************************************)
(* Proofs about Ingest: types, no receiver with a pointer to a dead        *)
(* watcher, and every watcher registered once for exactly its devices,     *)
(* for any number of watchers, devices, messages and modifications.        *)
(***************************************************************************)
EXTENDS Ingest, SequenceTheorems, TLAPS

-----------------------------------------------------------------------------
(* Lists without duplicates.                                               *)

\* No watcher is twice in the list.
NoTwice(list) == \A i, j \in DOMAIN list : list[i] = list[j] => i = j

\* A watcher appended to a list that lacks it is in it once.
LEMMA AppendOnce ==
    ASSUME NEW list \in Seq(Watchers), NEW w \in Watchers,
           NoTwice(list), ~Contains(list, w)
    PROVE  /\ Append(list, w) \in Seq(Watchers)
           /\ NoTwice(Append(list, w))
           /\ \A v \in Watchers :
                Contains(Append(list, w), v) <=> Contains(list, v) \/ v = w
<1> DEFINE l2 == Append(list, w)
<1>1. /\ l2 \in Seq(Watchers) /\ Len(list) \in Nat /\ Len(l2) = Len(list) + 1
      /\ DOMAIN list = 1..Len(list) /\ DOMAIN l2 = 1..Len(l2)
      /\ \A i \in 1..Len(list) : l2[i] = list[i]
      /\ l2[Len(list) + 1] = w
  BY AppendProperties
<1>2. \A i \in 1..Len(list) : list[i] # w
  BY DEF Contains
<1> HIDE DEF l2
<1>3. NoTwice(l2)
  BY <1>1, <1>2 DEF NoTwice
<1>4. ASSUME NEW v \in Watchers PROVE Contains(l2, v) <=> Contains(list, v) \/ v = w
  BY <1>1 DEF Contains
<1> QED
  BY <1>1, <1>3, <1>4 DEF l2

\* There is a first occurrence.
LEMMA FirstExists ==
    ASSUME NEW list \in Seq(Watchers), NEW w \in Watchers, NoTwice(list), Contains(list, w)
    PROVE  \E i \in 1..Len(list) : list[i] = w /\ \A j \in 1..(i - 1) : list[j] # w
<1>1. PICK i \in 1..Len(list) : list[i] = w
  BY DEF Contains
<1>2. Len(list) \in Nat /\ DOMAIN list = 1..Len(list)
  OBVIOUS
<1>3. \A j \in 1..(i - 1) : list[j] # w
  BY <1>1, <1>2 DEF NoTwice
<1> QED
  BY <1>1, <1>3

\* Erasing from a list without duplicates takes just that watcher out.
LEMMA EraseOnce ==
    ASSUME NEW list \in Seq(Watchers), NEW w \in Watchers, NoTwice(list)
    PROVE  /\ EraseFirst(list, w) \in Seq(Watchers)
           /\ NoTwice(EraseFirst(list, w))
           /\ \A v \in Watchers :
                Contains(EraseFirst(list, w), v) <=> Contains(list, v) /\ v # w
<1>1. CASE ~Contains(list, w)
  BY <1>1 DEF EraseFirst
<1>2. CASE Contains(list, w)
  <2> DEFINE First(i) == list[i] = w /\ \A j \in 1..(i - 1) : list[j] # w
             n == CHOOSE i \in 1..Len(list) : First(i)
             l2 == RemoveAt(list, n)
  <2>1. n \in 1..Len(list) /\ list[n] = w
    <3>1. \E i \in 1..Len(list) : First(i)
      BY <1>2, FirstExists
    <3>2. n \in 1..Len(list) /\ First(n)
      <4> HIDE DEF First
      <4> QED
        BY <3>1
    <3> QED
      BY <3>2
  <2>2. EraseFirst(list, w) = l2
    BY <1>2 DEF EraseFirst
  <2> HIDE DEF n
  <2>3. Len(list) \in Nat /\ DOMAIN list = 1..Len(list)
    OBVIOUS
  <2> DEFINE head == SubSeq(list, 1, n - 1)
             tail == SubSeq(list, n + 1, Len(list))
  <2>4. /\ head \in Seq(Watchers) /\ Len(head) = n - 1
        /\ \A i \in 1..(n - 1) : head[i] = list[i]
    <3>1. \A i \in 1..(n - 1) : list[i] \in Watchers
      BY <2>1, <2>3
    <3>2. /\ head \in Seq(Watchers)
          /\ Len(head) = IF 1 <= n - 1 THEN (n - 1) - 1 + 1 ELSE 0
          /\ \A i \in 1..((n - 1) - 1 + 1) : head[i] = list[1 + i - 1]
      BY <2>1, <2>3, <3>1, SubSeqProperties
    <3> HIDE DEF head
    <3> QED
      BY <2>1, <2>3, <3>2
  <2>5. /\ tail \in Seq(Watchers) /\ Len(tail) = Len(list) - n
        /\ \A i \in 1..(Len(list) - n) : tail[i] = list[n + i]
    <3>1. \A i \in (n + 1)..Len(list) : list[i] \in Watchers
      BY <2>1, <2>3
    <3>2. /\ tail \in Seq(Watchers)
          /\ Len(tail) = IF n + 1 <= Len(list) THEN Len(list) - (n + 1) + 1 ELSE 0
          /\ \A i \in 1..(Len(list) - (n + 1) + 1) : tail[i] = list[(n + 1) + i - 1]
      <4>1. n + 1 \in Int /\ Len(list) \in Int
        BY <2>1, <2>3
      <4> HIDE DEF n
      <4> QED
        BY <3>1, <4>1, SubSeqProperties
    <3> HIDE DEF tail
    <3>3. Len(tail) = Len(list) - n
      <4>1. Len(tail) = IF n + 1 <= Len(list) THEN Len(list) - (n + 1) + 1 ELSE 0
        BY <3>2
      <4>2. n \in Int /\ Len(list) \in Int /\ n <= Len(list)
        BY <2>1, <2>3
      <4> QED
        BY <4>1, <4>2
    <3>4. ASSUME NEW i \in 1..(Len(list) - n) PROVE tail[i] = list[n + i]
      <4>1. i \in 1..(Len(list) - (n + 1) + 1) /\ (n + 1) + i - 1 = n + i
        BY <2>1, <2>3
      <4> QED
        BY <3>2, <4>1
    <3> QED
      BY <3>2, <3>3, <3>4
  <2>6. /\ l2 \in Seq(Watchers) /\ Len(l2) = Len(list) - 1
        /\ DOMAIN l2 = 1..(Len(list) - 1)
        /\ \A i \in 1..(n - 1) : l2[i] = list[i]
        /\ \A i \in n..(Len(list) - 1) : l2[i] = list[i + 1]
    <3>1. l2 = head \o tail
      BY DEF RemoveAt
    <3> HIDE DEF head, tail, l2
    <3>2. /\ l2 \in Seq(Watchers) /\ Len(l2) = Len(head) + Len(tail)
          /\ \A i \in 1..(Len(head) + Len(tail)) :
                l2[i] = IF i <= Len(head) THEN head[i] ELSE tail[i - Len(head)]
      BY <2>4, <2>5, <3>1, ConcatProperties
    <3>3. Len(l2) = Len(list) - 1 /\ DOMAIN l2 = 1..(Len(list) - 1)
      BY <2>1, <2>3, <2>4, <2>5, <3>2
    <3>4. \A i \in 1..(n - 1) : l2[i] = list[i]
      <4> SUFFICES ASSUME NEW i \in 1..(n - 1) PROVE l2[i] = list[i]
        OBVIOUS
      <4>1. i \in 1..(Len(head) + Len(tail)) /\ i <= Len(head)
        BY <2>1, <2>3, <2>4, <2>5
      <4> QED
        BY <2>4, <3>2, <4>1
    <3>5. \A i \in n..(Len(list) - 1) : l2[i] = list[i + 1]
      <4> SUFFICES ASSUME NEW i \in n..(Len(list) - 1) PROVE l2[i] = list[i + 1]
        OBVIOUS
      <4>1. /\ i \in 1..(Len(head) + Len(tail)) /\ ~(i <= Len(head))
            /\ i - Len(head) \in 1..(Len(list) - n) /\ n + (i - Len(head)) = i + 1
        BY <2>1, <2>3, <2>4, <2>5
      <4> QED
        BY <2>5, <3>2, <4>1
    <3> QED
      BY <3>2, <3>3, <3>4, <3>5
  <2> HIDE DEF l2
  <2>7. NoTwice(l2)
    <3> SUFFICES ASSUME NEW i \in DOMAIN l2, NEW j \in DOMAIN l2, l2[i] = l2[j]
                 PROVE  i = j
      BY DEF NoTwice
    <3> DEFINE Old(k) == IF k < n THEN k ELSE k + 1
    <3>1. Old(i) \in DOMAIN list /\ Old(j) \in DOMAIN list /\ list[Old(i)] = list[Old(j)]
      BY <2>1, <2>3, <2>6
    <3>2. Old(i) = Old(j)
      BY <3>1 DEF NoTwice
    <3> QED
      BY <2>1, <2>3, <2>6, <3>2
  <2>8. ASSUME NEW v \in Watchers PROVE Contains(l2, v) <=> Contains(list, v) /\ v # w
    <3>1. ASSUME Contains(l2, v) PROVE Contains(list, v) /\ v # w
      <4>1. PICK i \in DOMAIN l2 : l2[i] = v
        BY <2>3, <2>6, <3>1 DEF Contains
      <4>2. PICK k \in DOMAIN list : k # n /\ list[k] = v
        BY <2>1, <2>3, <2>6, <4>1
      <4> QED
        BY <2>1, <2>3, <4>2 DEF Contains, NoTwice
    <3>2. ASSUME Contains(list, v), v # w PROVE Contains(l2, v)
      <4>1. PICK k \in 1..Len(list) : list[k] = v /\ k # n
        BY <2>1, <3>2 DEF Contains
      <4>2. CASE k < n
        BY <2>1, <2>3, <2>6, <4>1, <4>2 DEF Contains
      <4>3. CASE k > n
        <5>1. k - 1 \in n..(Len(list) - 1) /\ l2[k - 1] = v
          BY <2>1, <2>3, <2>6, <4>1, <4>3
        <5> QED
          BY <2>1, <2>3, <2>6, <5>1 DEF Contains
      <4> QED
        BY <2>1, <4>1, <4>2, <4>3
    <3> QED
      BY <3>1, <3>2
  <2> QED
    BY <2>2, <2>6, <2>7, <2>8
<1> QED
  BY <1>1, <1>2
-----------------------------------------------------------------------------
(* Types.                                                                  *)

\* A queue that is not empty splits into its head and its tail.
LEMMA HeadTail ==
    ASSUME NEW S, NEW s \in Seq(S), s # <<>>
    PROVE  Head(s) \in S /\ Tail(s) \in Seq(S) /\ (Tail(s) = <<>> <=> Len(s) = 1)
<1>1. Len(s) \in Nat \ {0} /\ Len(Tail(s)) = Len(s) - 1 /\ Tail(s) \in Seq(S)
  OBVIOUS
<1> DEFINE t == Tail(s)
<1>2. Len(<<>>) = 0 /\ (t # <<>> => Len(t) \in Nat \ {0})
  <2> HIDE DEF t
  <2>1. t \in Seq(S)
    BY <1>1 DEF t
  <2> QED
    BY <2>1, EmptySeq
<1> HIDE DEF t
<1>3. t = <<>> <=> Len(t) = 0
  BY <1>2
<1>4. Len(t) = Len(s) - 1
  BY <1>1 DEF t
<1>5. t = <<>> <=> Len(s) = 1
  BY <1>1, <1>3, <1>4
<1> QED
  BY <1>1, <1>5 DEF t

\* The receivers' steps keep the types.
LEMMA ReceiverTypes ==
    ASSUME TypeOK, NEW k \in Kinds,
           ReceiverStep(k) \/ \E s \in Serials : Receive(k, s)
    PROVE  TypeOK'
<1>1. ASSUME NEW s \in Serials, Receive(k, s) PROVE TypeOK'
  <2>1. rq' \in [Kinds -> Seq(Serials)]
    BY <1>1 DEF TypeOK, Receive
  <2> QED
    BY <1>1, <2>1 DEF TypeOK, Receive, regs, workers, coord
<1>2. CASE Dispatch(k)
  <2>1. rq[k] \in Seq(Serials) /\ rq[k] # <<>>
    BY <1>2 DEF Dispatch, TypeOK
  <2>2. Head(rq[k]) \in Serials /\ Tail(rq[k]) \in Seq(Serials)
    BY <2>1, HeadTail
  <2>3. rq' \in [Kinds -> Seq(Serials)]
    BY <1>2, <2>2 DEF Dispatch, TypeOK
  <2>4. PICK targets \in TargetLists(k, Head(rq[k])) :
          /\ rtodo' = [rtodo EXCEPT ![k] = targets]
          /\ rmsg' = [rmsg EXCEPT ![k] = IF targets = <<>> THEN NoSerial ELSE Head(rq[k])]
    BY <1>2 DEF Dispatch
  <2>5. targets \in Seq(Watchers)
    <3>1. CASE k = "state"
      BY <2>2, <3>1 DEF TargetLists, TypeOK
    <3>2. CASE k # "state"
      <4>1. \A w \in Watchers : <<w>> \in Seq(Watchers)
        OBVIOUS
      <4> QED
        BY <3>2, <4>1, EmptySeq DEF TargetLists
    <3> QED
      BY <3>1, <3>2
  <2>6. rtodo' \in [Kinds -> Seq(Watchers)] /\ rmsg' \in [Kinds -> Serials \cup {NoSerial}]
    BY <2>2, <2>4, <2>5 DEF TypeOK
  <2>7. \A j \in Kinds : rmsg'[j] = NoSerial <=> rtodo'[j] = <<>>
    <3> SUFFICES ASSUME NEW j \in Kinds PROVE rmsg'[j] = NoSerial <=> rtodo'[j] = <<>>
      OBVIOUS
    <3>1. CASE j = k
      <4>1. Head(rq[k]) # NoSerial
        BY <2>2, IngestAssumption
      <4>2. rtodo'[k] = targets /\ rmsg'[k] = IF targets = <<>> THEN NoSerial ELSE Head(rq[k])
        BY <2>4 DEF TypeOK
      <4> QED
        BY <3>1, <4>1, <4>2
    <3>2. CASE j # k
      BY <2>4, <3>2 DEF TypeOK
    <3> QED
      BY <3>1, <3>2
  <2> QED
    BY <1>2, <2>3, <2>6, <2>7 DEF TypeOK, Dispatch, regs, workers, coord
<1>3. CASE DropMalformed(k)
  <2>1. rq' \in [Kinds -> Seq(Serials)]
    BY <1>3, HeadTail DEF DropMalformed, TypeOK
  <2> QED
    BY <1>3, <2>1 DEF TypeOK, DropMalformed, regs, workers, coord
<1>4. CASE Post(k)
  <2>1. rmsg[k] \in Serials /\ rtodo[k] \in Seq(Watchers) /\ rtodo[k] # <<>>
    BY <1>4 DEF Post, ReceiverFree, TypeOK
  <2>2. /\ Head(rtodo[k]) \in Watchers /\ Tail(rtodo[k]) \in Seq(Watchers)
        /\ (Tail(rtodo[k]) = <<>> <=> Len(rtodo[k]) = 1)
    BY <2>1, HeadTail
  <2>3. rtodo' \in [Kinds -> Seq(Watchers)] /\ rmsg' \in [Kinds -> Serials \cup {NoSerial}]
    BY <1>4, <2>2 DEF Post, TypeOK
  <2>4. \A j \in Kinds : rmsg'[j] = NoSerial <=> rtodo'[j] = <<>>
    <3> SUFFICES ASSUME NEW j \in Kinds PROVE rmsg'[j] = NoSerial <=> rtodo'[j] = <<>>
      OBVIOUS
    <3>1. CASE j = k
      <4>1. /\ rtodo'[k] = Tail(rtodo[k])
            /\ rmsg'[k] = IF Len(rtodo[k]) = 1 THEN NoSerial ELSE rmsg[k]
        BY <1>4 DEF Post, TypeOK
      <4>2. rmsg[k] # NoSerial
        BY <2>1, IngestAssumption
      <4> QED
        BY <2>2, <3>1, <4>1, <4>2
    <3>2. CASE j # k
      BY <1>4, <3>2 DEF Post, TypeOK
    <3> QED
      BY <3>1, <3>2
  <2>5. wpc' \in [Watchers -> WorkerPCs] /\ wmsg' \in [Watchers -> Serials \cup {NoSerial}]
    <3>1. \/ wpc' = wpc /\ wmsg' = wmsg
          \/ /\ wpc' = [wpc EXCEPT ![Head(rtodo[k])] = "got"]
             /\ wmsg' = [wmsg EXCEPT ![Head(rtodo[k])] = rmsg[k]]
      BY <1>4 DEF Post
    <3> QED
      BY <2>1, <2>2, <3>1 DEF TypeOK, WorkerPCs
  <2>6. wq' \in [Watchers -> Seq(Serials)]
    <3>1. \A v \in Watchers : Append(wq[v], rmsg[k]) \in Seq(Serials)
      BY <2>1 DEF TypeOK
    <3>2. wq' = wq \/ wq' = [wq EXCEPT ![Head(rtodo[k])] = Append(@, rmsg[k])]
      BY <1>4 DEF Post
    <3> QED
      BY <2>2, <3>1, <3>2 DEF TypeOK
  <2> QED
    BY <1>4, <2>3, <2>4, <2>5, <2>6 DEF TypeOK, Post, regs, coord
<1> QED
  BY <1>1, <1>2, <1>3, <1>4 DEF ReceiverStep

\* A worker's steps keep the types.
LEMMA WorkerTypes ==
    ASSUME TypeOK, NEW w \in Watchers, WorkerStep(w)
    PROVE  TypeOK'
<1>1. CASE WorkerBegin(w)
  BY <1>1 DEF TypeOK, WorkerBegin, WorkerPCs, receivers, regs, coord
<1>2. CASE WorkerDequeue(w)
  <2>1. wpc' \in [Watchers -> WorkerPCs]
    BY <1>2 DEF TypeOK, WorkerDequeue, WorkerPCs
  <2>2. wq' \in [Watchers -> Seq(Serials)] /\ wmsg' \in [Watchers -> Serials \cup {NoSerial}]
    <3>1. CASE wq[w] = <<>>
      BY <1>2, <3>1 DEF TypeOK, WorkerDequeue
    <3>2. CASE wq[w] # <<>>
      <4>1. Head(wq[w]) \in Serials /\ Tail(wq[w]) \in Seq(Serials)
        BY <3>2, HeadTail DEF TypeOK
      <4>2. wq' = [wq EXCEPT ![w] = Tail(wq[w])] /\ wmsg' = [wmsg EXCEPT ![w] = Head(wq[w])]
        BY <1>2, <3>2 DEF TypeOK, WorkerDequeue
      <4> QED
        BY <4>1, <4>2 DEF TypeOK
    <3> QED
      BY <3>1, <3>2
  <2> QED
    BY <1>2, <2>1, <2>2 DEF TypeOK, WorkerDequeue, receivers, regs, coord
<1>3. CASE WorkerHandle(w)
  BY <1>3 DEF TypeOK, WorkerHandle, WorkerPCs, receivers, regs, coord
<1>4. CASE WorkerExit(w)
  BY <1>4 DEF TypeOK, WorkerExit, WorkerPCs, receivers, regs, coord
<1> QED
  BY <1>1, <1>2, <1>3, <1>4 DEF WorkerStep

\* A step of the program is over.
LEMMA DoneTypes ==
    ASSUME TypeOK, prog # <<>>, NEW loop \in SUBSET Serials, Done(loop)
    PROVE  prog' \in Seq(Steps) /\ left' \in SUBSET Serials
BY HeadTail DEF TypeOK, Done

\* The coordinator's requests keep the types.
LEMMA RequestTypes ==
    ASSUME TypeOK, Request
    PROVE  TypeOK'
<1>1. ASSUME NEW w \in Watchers, NEW S \in SUBSET Serials, StartWatcher(w, S)
      PROVE  TypeOK'
  <2>1. <<"add", "status", "health", "launch">> \in Seq(Steps)
    BY DEF Steps
  <2>2. /\ op' = "start" /\ cw' = w /\ target' = S /\ prog' \in Seq(Steps)
        /\ cw' # NoWatcher
    BY <1>1, <2>1, IngestAssumption DEF StartWatcher, Begin
  <2>3. wq' \in [Watchers -> Seq(Serials)]
    BY <1>1, EmptySeq DEF StartWatcher, TypeOK
  <2> QED
    BY <1>1, <2>2, <2>3 DEF TypeOK, StartWatcher, receivers, regs
<1>2. ASSUME NEW w \in Watchers, NEW S \in SUBSET Serials, ModifyWatcher(w, S)
      PROVE  TypeOK'
  <2>1. <<"remove", "add", "health", "status", "commit">> \in Seq(Steps)
    BY DEF Steps
  <2>2. /\ op' = "modify" /\ cw' = w /\ target' = S /\ prog' \in Seq(Steps)
        /\ cw' # NoWatcher
    BY <1>2, <2>1, IngestAssumption DEF ModifyWatcher, Begin
  <2>3. modifies' \in 0..MaxModifies
    BY <1>2, IngestAssumption DEF ModifyWatcher, TypeOK
  <2> QED
    BY <1>2, <2>2, <2>3 DEF TypeOK, ModifyWatcher, receivers, regs, workers
<1>3. ASSUME NEW w \in Watchers, StopWatcher(w) PROVE TypeOK'
  <2>1. <<"signal", "join", "remove", "status", "health", "destroy">> \in Seq(Steps)
    BY DEF Steps
  <2>2. /\ op' = "stop" /\ cw' = w /\ target' = {} /\ prog' \in Seq(Steps)
        /\ cw' # NoWatcher
    BY <1>3, <2>1, IngestAssumption DEF StopWatcher, Begin
  <2> QED
    BY <1>3, <2>2 DEF TypeOK, StopWatcher, receivers, regs, workers
<1> QED
  BY <1>1, <1>2, <1>3 DEF Request

\* The coordinator works on a watcher as long as its program has steps.
ProgramHasWatcher == op = "none" => prog = <<>>

\* The coordinator's steps keep the types.
LEMMA CoordinatorTypes ==
    ASSUME TypeOK, ProgramHasWatcher, \A s \in Serials : NoTwice(stateReg[s]),
           CoordinatorStep
    PROVE  TypeOK'
<1>1. prog # <<>> /\ cw \in Watchers /\ op # "none"
  BY DEF CoordinatorStep, AddSerial, RemoveSerial, RegisterSet, Launch, Commit, Signal, Join,
         Destroy, At, ProgramHasWatcher, TypeOK
<1>2. {} \in SUBSET Serials /\ target \ serials[cw] \in SUBSET Serials
      /\ serials[cw] \in SUBSET Serials
  BY <1>1 DEF TypeOK
<1>3. CASE AddSerial
  <2>1. CASE left = {} /\ Done({}) /\ UNCHANGED <<stateReg, aps>>
    BY <1>1, <1>2, <1>3, <2>1, DoneTypes DEF TypeOK, AddSerial, receivers, workers
  <2>2. ASSUME NEW s \in left,
               stateReg' = [stateReg EXCEPT ![s] = Append(@, cw)],
               aps' = [aps EXCEPT ![cw] = @ \cup {s}],
               left' = left \ {s}, UNCHANGED prog
        PROVE  TypeOK'
    <3>1. stateReg' \in [Serials -> Seq(Watchers)]
      BY <1>1, <2>2 DEF TypeOK
    <3>2. aps' \in [Watchers -> SUBSET Serials] /\ left' \in SUBSET Serials
      BY <1>1, <2>2 DEF TypeOK
    <3> QED
      BY <1>3, <2>2, <3>1, <3>2 DEF TypeOK, AddSerial, receivers, workers
  <2> QED
    BY <1>3, <2>1, <2>2 DEF AddSerial
<1>4. CASE RemoveSerial
  <2>1. CASE left = {} /\ Done(target \ serials[cw]) /\ UNCHANGED <<stateReg, aps>>
    BY <1>1, <1>2, <1>4, <2>1, DoneTypes DEF TypeOK, RemoveSerial, receivers, workers
  <2>2. ASSUME NEW s \in left,
               stateReg' = [stateReg EXCEPT ![s] = EraseFirst(@, cw)],
               aps' = IF op = "modify" THEN [aps EXCEPT ![cw] = @ \ {s}] ELSE aps,
               left' = left \ {s}, UNCHANGED prog
        PROVE  TypeOK'
    <3>1. stateReg[s] \in Seq(Watchers) /\ NoTwice(stateReg[s])
      BY <2>2 DEF TypeOK
    <3>2. EraseFirst(stateReg[s], cw) \in Seq(Watchers)
      BY <1>1, <2>2, <3>1, EraseOnce
    <3>3. stateReg' \in [Serials -> Seq(Watchers)]
      BY <2>2, <3>2 DEF TypeOK
    <3>4. aps' \in [Watchers -> SUBSET Serials] /\ left' \in SUBSET Serials
      BY <1>1, <2>2 DEF TypeOK
    <3> QED
      BY <1>4, <2>2, <3>3, <3>4 DEF TypeOK, RemoveSerial, receivers, workers
  <2> QED
    BY <1>4, <2>1, <2>2 DEF RemoveSerial
<1>5. ASSUME NEW k \in SetKinds, RegisterSet(k) PROVE TypeOK'
  <2>1. setReg' \in [SetKinds -> [Watchers -> {NoReg} \cup SUBSET Serials]]
    BY <1>1, <1>5 DEF TypeOK, RegisterSet
  <2> QED
    BY <1>1, <1>2, <1>5, <2>1, DoneTypes DEF TypeOK, RegisterSet, receivers, workers
<1>6. CASE Launch
  BY <1>1, <1>2, <1>6, DoneTypes DEF TypeOK, Launch, Finish, WorkerPCs, receivers, regs
<1>7. CASE Commit
  BY <1>1, <1>2, <1>7, DoneTypes DEF TypeOK, Commit, Finish, receivers, regs, workers
<1>8. CASE Signal
  BY <1>1, <1>2, <1>8, DoneTypes DEF TypeOK, Signal, WorkerPCs, receivers, regs
<1>9. CASE Join
  BY <1>1, <1>2, <1>9, DoneTypes DEF TypeOK, Join, receivers, regs, workers
<1>10. CASE Destroy
  <2>1. wq' \in [Watchers -> Seq(Serials)]
    BY <1>10, EmptySeq DEF TypeOK, Destroy
  <2> QED
    BY <1>1, <1>2, <1>10, <2>1, DoneTypes
       DEF TypeOK, Destroy, Finish, WorkerPCs, receivers, regs
<1> QED
  BY <1>3, <1>4, <1>5, <1>6, <1>7, <1>8, <1>9, <1>10 DEF CoordinatorStep
-----------------------------------------------------------------------------
(* Where the coordinator is in its program.                                *)

\* What is left of the three operations.
StartRest == {<<"add", "status", "health", "launch">>, <<"status", "health", "launch">>,
              <<"health", "launch">>, <<"launch">>}

ModifyRest == {<<"remove", "add", "health", "status", "commit">>,
               <<"add", "health", "status", "commit">>,
               <<"health", "status", "commit">>, <<"status", "commit">>, <<"commit">>}

StopRest == {<<"signal", "join", "remove", "status", "health", "destroy">>,
             <<"join", "remove", "status", "health", "destroy">>,
             <<"remove", "status", "health", "destroy">>,
             <<"status", "health", "destroy">>, <<"health", "destroy">>, <<"destroy">>}

ProgramOK ==
    /\ op = "none" => prog = <<>>
    /\ op = "start" => prog \in StartRest
    /\ op = "modify" => prog \in ModifyRest
    /\ op = "stop" => prog \in StopRest

\* The step an operation is at determines what is left of it.
LEMMA Where ==
    ASSUME ProgramOK, op \in {"none", "start", "modify", "stop"}
    PROVE  /\ At("add") =>
                \/ op = "start" /\ prog = <<"add", "status", "health", "launch">>
                \/ op = "modify" /\ prog = <<"add", "health", "status", "commit">>
           /\ At("remove") =>
                \/ op = "modify" /\ prog = <<"remove", "add", "health", "status", "commit">>
                \/ op = "stop" /\ prog = <<"remove", "status", "health", "destroy">>
           /\ At("status") =>
                \/ op = "start" /\ prog = <<"status", "health", "launch">>
                \/ op = "modify" /\ prog = <<"status", "commit">>
                \/ op = "stop" /\ prog = <<"status", "health", "destroy">>
           /\ At("health") =>
                \/ op = "start" /\ prog = <<"health", "launch">>
                \/ op = "modify" /\ prog = <<"health", "status", "commit">>
                \/ op = "stop" /\ prog = <<"health", "destroy">>
           /\ At("launch") => op = "start" /\ prog = <<"launch">>
           /\ At("commit") => op = "modify" /\ prog = <<"commit">>
           /\ At("signal") =>
                op = "stop" /\ prog = <<"signal", "join", "remove", "status", "health", "destroy">>
           /\ At("join") => op = "stop" /\ prog = <<"join", "remove", "status", "health", "destroy">>
           /\ At("destroy") => op = "stop" /\ prog = <<"destroy">>
<1>1. CASE op = "none"
  BY <1>1 DEF ProgramOK, At
<1>2. CASE op = "start"
  BY <1>2 DEF ProgramOK, StartRest, At
<1>3. CASE op = "modify"
  <2>1. CASE prog = <<"remove", "add", "health", "status", "commit">>
    BY <1>3, <2>1 DEF At
  <2>2. CASE prog = <<"add", "health", "status", "commit">>
    BY <1>3, <2>2 DEF At
  <2>3. CASE prog = <<"health", "status", "commit">>
    BY <1>3, <2>3 DEF At
  <2>4. CASE prog = <<"status", "commit">>
    BY <1>3, <2>4 DEF At
  <2>5. CASE prog = <<"commit">>
    BY <1>3, <2>5 DEF At
  <2> QED
    BY <1>3, <2>1, <2>2, <2>3, <2>4, <2>5 DEF ProgramOK, ModifyRest
<1>4. CASE op = "stop"
  <2>1. CASE prog = <<"signal", "join", "remove", "status", "health", "destroy">>
    BY <1>4, <2>1 DEF At
  <2>2. CASE prog = <<"join", "remove", "status", "health", "destroy">>
    BY <1>4, <2>2 DEF At
  <2>3. CASE prog = <<"remove", "status", "health", "destroy">>
    BY <1>4, <2>3 DEF At
  <2>4. CASE prog = <<"status", "health", "destroy">>
    BY <1>4, <2>4 DEF At
  <2>5. CASE prog = <<"health", "destroy">>
    BY <1>4, <2>5 DEF At
  <2>6. CASE prog = <<"destroy">>
    BY <1>4, <2>6 DEF At
  <2> QED
    BY <1>4, <2>1, <2>2, <2>3, <2>4, <2>5, <2>6 DEF ProgramOK, StopRest
<1> QED
  BY <1>1, <1>2, <1>3, <1>4

\* The tails of the programs.
LEMMA Tails ==
    /\ Tail(<<"add", "status", "health", "launch">>) = <<"status", "health", "launch">>
    /\ Tail(<<"status", "health", "launch">>) = <<"health", "launch">>
    /\ Tail(<<"health", "launch">>) = <<"launch">>
    /\ Tail(<<"launch">>) = <<>>
    /\ Tail(<<"remove", "add", "health", "status", "commit">>)
          = <<"add", "health", "status", "commit">>
    /\ Tail(<<"add", "health", "status", "commit">>) = <<"health", "status", "commit">>
    /\ Tail(<<"health", "status", "commit">>) = <<"status", "commit">>
    /\ Tail(<<"status", "commit">>) = <<"commit">>
    /\ Tail(<<"commit">>) = <<>>
    /\ Tail(<<"signal", "join", "remove", "status", "health", "destroy">>)
          = <<"join", "remove", "status", "health", "destroy">>
    /\ Tail(<<"join", "remove", "status", "health", "destroy">>)
          = <<"remove", "status", "health", "destroy">>
    /\ Tail(<<"remove", "status", "health", "destroy">>) = <<"status", "health", "destroy">>
    /\ Tail(<<"status", "health", "destroy">>) = <<"health", "destroy">>
    /\ Tail(<<"health", "destroy">>) = <<"destroy">>
    /\ Tail(<<"destroy">>) = <<>>
OBVIOUS

\* The next step of the operation o after step h.
Follows(o, h, n) ==
    \/ o = "start"  /\ <<h, n>> \in {<<"add", "status">>, <<"status", "health">>,
                                    <<"health", "launch">>}
    \/ o = "modify" /\ <<h, n>> \in {<<"remove", "add">>, <<"add", "health">>,
                                    <<"health", "status">>, <<"status", "commit">>}
    \/ o = "stop"   /\ <<h, n>> \in {<<"signal", "join">>, <<"join", "remove">>,
                                    <<"remove", "status">>, <<"status", "health">>,
                                    <<"health", "destroy">>}

\* When a step other than the last is over, the operation is at the next.
LEMMA Advance ==
    ASSUME ProgramOK, op \in {"none", "start", "modify", "stop"},
           NEW h \in Steps \ {"launch", "commit", "destroy"}, At(h),
           op' = op, prog' = Tail(prog)
    PROVE  ProgramOK' /\ \E n \in Steps : Follows(op, h, n) /\ At(n)'
<1>1. CASE h = "add"
  <2>1. CASE op = "start" /\ prog = <<"add", "status", "health", "launch">>
    <3>1. prog' = <<"status", "health", "launch">>
      BY <2>1, Tails
    <3> QED
      BY <1>1, <2>1, <3>1 DEF ProgramOK, StartRest, Follows, At, Steps
  <2>2. CASE op = "modify" /\ prog = <<"add", "health", "status", "commit">>
    <3>1. prog' = <<"health", "status", "commit">>
      BY <2>2, Tails
    <3> QED
      BY <1>1, <2>2, <3>1 DEF ProgramOK, ModifyRest, Follows, At, Steps
  <2> QED
    BY <1>1, <2>1, <2>2, Where
<1>2. CASE h = "remove"
  <2>1. CASE op = "modify" /\ prog = <<"remove", "add", "health", "status", "commit">>
    <3>1. prog' = <<"add", "health", "status", "commit">>
      BY <2>1, Tails
    <3> QED
      BY <1>2, <2>1, <3>1 DEF ProgramOK, ModifyRest, Follows, At, Steps
  <2>2. CASE op = "stop" /\ prog = <<"remove", "status", "health", "destroy">>
    <3>1. prog' = <<"status", "health", "destroy">>
      BY <2>2, Tails
    <3> QED
      BY <1>2, <2>2, <3>1 DEF ProgramOK, StopRest, Follows, At, Steps
  <2> QED
    BY <1>2, <2>1, <2>2, Where
<1>3. CASE h = "status"
  <2>1. CASE op = "start" /\ prog = <<"status", "health", "launch">>
    <3>1. prog' = <<"health", "launch">>
      BY <2>1, Tails
    <3> QED
      BY <1>3, <2>1, <3>1 DEF ProgramOK, StartRest, Follows, At, Steps
  <2>2. CASE op = "modify" /\ prog = <<"status", "commit">>
    <3>1. prog' = <<"commit">>
      BY <2>2, Tails
    <3> QED
      BY <1>3, <2>2, <3>1 DEF ProgramOK, ModifyRest, Follows, At, Steps
  <2>3. CASE op = "stop" /\ prog = <<"status", "health", "destroy">>
    <3>1. prog' = <<"health", "destroy">>
      BY <2>3, Tails
    <3> QED
      BY <1>3, <2>3, <3>1 DEF ProgramOK, StopRest, Follows, At, Steps
  <2> QED
    BY <1>3, <2>1, <2>2, <2>3, Where
<1>4. CASE h = "health"
  <2>1. CASE op = "start" /\ prog = <<"health", "launch">>
    <3>1. prog' = <<"launch">>
      BY <2>1, Tails
    <3> QED
      BY <1>4, <2>1, <3>1 DEF ProgramOK, StartRest, Follows, At, Steps
  <2>2. CASE op = "modify" /\ prog = <<"health", "status", "commit">>
    <3>1. prog' = <<"status", "commit">>
      BY <2>2, Tails
    <3> QED
      BY <1>4, <2>2, <3>1 DEF ProgramOK, ModifyRest, Follows, At, Steps
  <2>3. CASE op = "stop" /\ prog = <<"health", "destroy">>
    <3>1. prog' = <<"destroy">>
      BY <2>3, Tails
    <3> QED
      BY <1>4, <2>3, <3>1 DEF ProgramOK, StopRest, Follows, At, Steps
  <2> QED
    BY <1>4, <2>1, <2>2, <2>3, Where
<1>5. CASE h = "signal"
  <2>1. op = "stop" /\ prog = <<"signal", "join", "remove", "status", "health", "destroy">>
    BY <1>5, Where
  <2>2. prog' = <<"join", "remove", "status", "health", "destroy">>
    BY <2>1, Tails
  <2> QED
    BY <1>5, <2>1, <2>2 DEF ProgramOK, StopRest, Follows, At, Steps
<1>6. CASE h = "join"
  <2>1. op = "stop" /\ prog = <<"join", "remove", "status", "health", "destroy">>
    BY <1>6, Where
  <2>2. prog' = <<"remove", "status", "health", "destroy">>
    BY <2>1, Tails
  <2> QED
    BY <1>6, <2>1, <2>2 DEF ProgramOK, StopRest, Follows, At, Steps
<1> QED
  BY <1>1, <1>2, <1>3, <1>4, <1>5, <1>6 DEF Steps
-----------------------------------------------------------------------------
(* The inductive invariant: at each step of an operation, what the three   *)
(* receivers have registered for its watcher.                              *)

\* The serials the coordinator's watcher is registered for with the
\* StateReceiver.
Mine ==
    IF At("add") THEN target \ left
    ELSE IF At("remove") THEN left \cup (target \cap serials[cw])
    ELSE IF op = "stop" THEN (IF At("signal") \/ At("join") THEN serials[cw] ELSE {})
    ELSE target

\* The operation has not yet come to its step with receiver k.
Ahead(k) ==
    \/ At("add") \/ At("remove") \/ At("signal") \/ At("join") \/ At(k)
    \/ k = "status" /\ op = "modify" /\ At("health")
    \/ k = "health" /\ op # "modify" /\ At("status")

SetMine(k) ==
    IF Ahead(k) THEN (IF op = "start" THEN NoReg ELSE serials[cw])
    ELSE IF op = "stop" THEN NoReg ELSE target

OperationOK ==
    /\ op # "none" => life[cw]
    /\ op = "start" => serials[cw] = target /\ aps[cw] = target
    /\ op = "modify" => aps[cw] = Mine
    /\ op = "stop" => target = {}
    /\ At("add") => left \subseteq target
    /\ At("remove") => left \subseteq serials[cw] /\ left \cap target = {}

Owned(w) == IF w = cw THEN Mine ELSE serials[w]

OwnedSet(k, w) ==
    IF w = cw THEN SetMine(k) ELSE IF life[w] THEN serials[w] ELSE NoReg

NeverTwice   == \A s \in Serials : NoTwice(stateReg[s])
ListsMatch   == \A s \in Serials, w \in Watchers : Contains(stateReg[s], w) <=> s \in Owned(w)
SetsMatch    == \A k \in SetKinds, w \in Watchers : setReg[k][w] = OwnedSet(k, w)
DeadHaveNone == \A w \in Watchers : ~life[w] => serials[w] = {}
DevicesMatch == \A w \in Watchers : life[w] /\ w # cw => aps[w] = serials[w]

\* Whoever a receiver is about to post to is registered with it: nobody can
\* deregister while it holds its Mutex_.
TargetsRegistered ==
    /\ \A w \in Watchers : Contains(rtodo["state"], w) => Contains(stateReg[rmsg["state"]], w)
    /\ \A k \in SetKinds, w \in Watchers : Contains(rtodo[k], w) => setReg[k][w] # NoReg

Inv ==
    /\ TypeOK /\ ProgramOK /\ OperationOK
    /\ NeverTwice /\ ListsMatch /\ SetsMatch /\ DeadHaveNone /\ DevicesMatch

\* The operations and their watcher.
LEMMA OpType ==
    ASSUME TypeOK
    PROVE  /\ op \in {"none", "start", "modify", "stop"}
           /\ op # "none" => cw \in Watchers
           /\ op = "none" => cw \notin Watchers
BY IngestAssumption DEF TypeOK

\* A request finds its watcher registered as it has been left, and nothing
\* changes by beginning.
LEMMA RequestInv ==
    ASSUME Inv, Request
    PROVE  Inv'
<1>0. TypeOK'
  BY RequestTypes DEF Inv
<1>1. ASSUME NEW w \in Watchers, NEW S \in SUBSET Serials, StartWatcher(w, S)
      PROVE  Inv'
  <2>1. /\ op = "none" /\ op' = "start" /\ cw' = w /\ target' = S /\ left' = S
        /\ prog' = <<"add", "status", "health", "launch">>
        /\ UNCHANGED <<stateReg, setReg>> /\ ~life[w] /\ serials[w] = {} /\ cw \notin Watchers
    BY <1>1, OpType DEF StartWatcher, Begin, regs, Inv, DeadHaveNone
  <2>2. /\ \A v \in Watchers \ {w} : /\ life'[v] = life[v] /\ serials'[v] = serials[v]
                                     /\ aps'[v] = aps[v]
        /\ life'[w] /\ serials'[w] = S /\ aps'[w] = S
    BY <1>1 DEF StartWatcher, Inv, TypeOK
  <2>3. /\ At("add")' /\ \A h \in Steps \ {"add"} : ~At(h)'
    BY <2>1 DEF At
  <2>4. ProgramOK'
    BY <2>1 DEF ProgramOK, StartRest
  <2>5. Mine' = {} /\ \A k \in SetKinds : SetMine(k)' = NoReg
    BY <2>1, <2>3 DEF Mine, SetMine, Ahead
  <2>6. OperationOK'
    BY <2>1, <2>2, <2>3 DEF OperationOK, Steps
  <2>7. NeverTwice' /\ ListsMatch'
    BY <2>1, <2>2, <2>5 DEF Inv, NeverTwice, ListsMatch, Owned
  <2>8. SetsMatch'
    BY <2>1, <2>2, <2>5 DEF Inv, SetsMatch, OwnedSet
  <2>9. DeadHaveNone' /\ DevicesMatch'
    BY <2>1, <2>2 DEF Inv, DeadHaveNone, DevicesMatch
  <2> QED
    BY <1>0, <2>4, <2>6, <2>7, <2>8, <2>9 DEF Inv
<1>2. ASSUME NEW w \in Watchers, NEW S \in SUBSET Serials, ModifyWatcher(w, S)
      PROVE  Inv'
  <2>1. /\ op = "none" /\ op' = "modify" /\ cw' = w /\ target' = S
        /\ left' = serials[w] \ S
        /\ prog' = <<"remove", "add", "health", "status", "commit">>
        /\ UNCHANGED <<stateReg, setReg, life, serials, aps>>
        /\ life[w] /\ cw \notin Watchers
    BY <1>2, OpType DEF ModifyWatcher, Begin, regs, Inv
  <2>3. /\ At("remove")' /\ \A h \in Steps \ {"remove"} : ~At(h)'
    BY <2>1 DEF At
  <2>4. ProgramOK'
    BY <2>1 DEF ProgramOK, ModifyRest
  <2>5. Mine' = serials[w] /\ \A k \in SetKinds : SetMine(k)' = serials[w]
    BY <2>1, <2>3 DEF Mine, SetMine, Ahead, Steps
  <2>6. OperationOK'
    BY <2>1, <2>3, <2>5 DEF OperationOK, Steps, Inv, DevicesMatch
  <2>7. NeverTwice' /\ ListsMatch'
    BY <2>1, <2>5 DEF Inv, NeverTwice, ListsMatch, Owned
  <2>8. SetsMatch'
    BY <2>1, <2>5 DEF Inv, SetsMatch, OwnedSet
  <2>9. DeadHaveNone' /\ DevicesMatch'
    BY <2>1 DEF Inv, DeadHaveNone, DevicesMatch
  <2> QED
    BY <1>0, <2>4, <2>6, <2>7, <2>8, <2>9 DEF Inv
<1>3. ASSUME NEW w \in Watchers, StopWatcher(w) PROVE Inv'
  <2>1. /\ op = "none" /\ op' = "stop" /\ cw' = w /\ target' = {}
        /\ prog' = <<"signal", "join", "remove", "status", "health", "destroy">>
        /\ UNCHANGED <<stateReg, setReg, life, serials, aps>>
        /\ life[w] /\ cw \notin Watchers
    BY <1>3, OpType DEF StopWatcher, Begin, regs, Inv
  <2>3. /\ At("signal")' /\ \A h \in Steps \ {"signal"} : ~At(h)'
    BY <2>1 DEF At
  <2>4. ProgramOK'
    BY <2>1 DEF ProgramOK, StopRest
  <2>5. Mine' = serials[w] /\ \A k \in SetKinds : SetMine(k)' = serials[w]
    BY <2>1, <2>3 DEF Mine, SetMine, Ahead, Steps
  <2>6. OperationOK'
    BY <2>1, <2>3 DEF OperationOK, Steps
  <2>7. NeverTwice' /\ ListsMatch'
    BY <2>1, <2>5 DEF Inv, NeverTwice, ListsMatch, Owned
  <2>8. SetsMatch'
    BY <2>1, <2>5 DEF Inv, SetsMatch, OwnedSet
  <2>9. DeadHaveNone' /\ DevicesMatch'
    BY <2>1 DEF Inv, DeadHaveNone, DevicesMatch
  <2> QED
    BY <1>0, <2>4, <2>6, <2>7, <2>8, <2>9 DEF Inv
<1> QED
  BY <1>1, <1>2, <1>3 DEF Request

\* A step of the coordinator begins where its operation is.
LEMMA StepFacts ==
    ASSUME Inv, prog # <<>>
    PROVE  /\ cw \in Watchers /\ life[cw] /\ op \in {"start", "modify", "stop"}
           /\ Head(prog) \in Steps /\ At(Head(prog))
           /\ \A h : At(h) => h = Head(prog)
<1>1. op # "none"
  BY DEF Inv, ProgramOK
<1> QED
  BY <1>1, OpType, HeadTail DEF Inv, OperationOK, TypeOK, At

\* Registering a device: one more serial has the watcher in its list.
LEMMA AddSerialInv ==
    ASSUME Inv, AddSerial
    PROVE  Inv'
<1>1. /\ At("add") /\ Head(prog) = "add" /\ prog # <<>> /\ cw \in Watchers /\ life[cw]
      /\ op \in {"start", "modify"} /\ left \subseteq target /\ left \in SUBSET Serials
      /\ Mine = target \ left
  <2>1. At("add") /\ prog # <<>>
    BY DEF AddSerial, At
  <2>2. op \in {"start", "modify"}
    BY <2>1, Where, OpType DEF Inv
  <2> QED
    BY <2>1, <2>2, StepFacts DEF Inv, OperationOK, Mine, At, TypeOK
<1>2. /\ UNCHANGED <<setReg, life, serials, op, cw, target>>
  BY DEF AddSerial
<1>0. TypeOK'
  <2>1. CoordinatorStep
    BY DEF CoordinatorStep
  <2> QED
    BY <2>1, CoordinatorTypes DEF Inv, NeverTwice, ProgramOK, ProgramHasWatcher
<1>3. CASE left = {} /\ Done({}) /\ UNCHANGED <<stateReg, aps>>
  <2>1. ProgramOK' /\ \E n \in Steps : Follows(op, "add", n) /\ At(n)'
    BY <1>1, <1>2, <1>3, Advance, OpType DEF Inv, Done, Steps
  <2>2. \/ op = "start" /\ At("status")'
        \/ op = "modify" /\ At("health")'
    BY <1>1, <2>1 DEF Follows
  <2>3. Mine' = target /\ \A k \in SetKinds : SetMine(k)' = SetMine(k)
    BY <1>1, <1>2, <2>2 DEF Mine, SetMine, Ahead, At, SetKinds
  <2>4. OperationOK'
    BY <1>1, <1>2, <1>3, <2>2, <2>3 DEF OperationOK, At, Inv
  <2>5. ListsMatch' /\ SetsMatch'
    BY <1>1, <1>2, <1>3, <2>3 DEF Inv, ListsMatch, Owned, SetsMatch, OwnedSet
  <2> QED
    BY <1>0, <1>2, <1>3, <2>1, <2>4, <2>5 DEF Inv, NeverTwice, DeadHaveNone, DevicesMatch
<1>4. ASSUME NEW s \in left,
             stateReg' = [stateReg EXCEPT ![s] = Append(@, cw)],
             aps' = [aps EXCEPT ![cw] = @ \cup {s}],
             left' = left \ {s}, UNCHANGED prog
      PROVE  Inv'
  <2>1. /\ stateReg[s] \in Seq(Watchers) /\ NoTwice(stateReg[s]) /\ ~Contains(stateReg[s], cw)
        /\ s \in Serials
    BY <1>1 DEF Inv, TypeOK, NeverTwice, ListsMatch, Owned
  <2>2. /\ stateReg'[s] = Append(stateReg[s], cw)
        /\ \A t \in Serials \ {s} : stateReg'[t] = stateReg[t]
    BY <1>4, <2>1 DEF Inv, TypeOK
  <2>3. /\ NoTwice(stateReg'[s])
        /\ \A v \in Watchers : Contains(stateReg'[s], v) <=> Contains(stateReg[s], v) \/ v = cw
    BY <1>1, <2>1, <2>2, AppendOnce
  <2>4. /\ At("add")' /\ Mine' = Mine \cup {s}
        /\ \A k \in SetKinds : SetMine(k)' = SetMine(k)
    BY <1>1, <1>2, <1>4 DEF Mine, SetMine, Ahead, At
  <2>5. NeverTwice'
    BY <2>2, <2>3 DEF Inv, NeverTwice
  <2>6. ListsMatch'
    <3> SUFFICES ASSUME NEW t \in Serials, NEW v \in Watchers
                 PROVE  Contains(stateReg'[t], v) <=> t \in Owned(v)'
      BY DEF ListsMatch
    <3>1. Contains(stateReg[t], v) <=> t \in Owned(v)
      BY DEF Inv, ListsMatch
    <3> QED
      BY <1>2, <2>2, <2>3, <2>4, <3>1 DEF Owned
  <2>7. SetsMatch'
    BY <1>2, <2>4 DEF Inv, SetsMatch, OwnedSet
  <2>8. OperationOK'
    <3>1. aps'[cw] = aps[cw] \cup {s}
      BY <1>1, <1>4 DEF Inv, TypeOK
    <3> QED
      BY <1>1, <1>2, <1>4, <2>4, <3>1 DEF Inv, OperationOK, At
  <2>9. DevicesMatch' /\ DeadHaveNone'
    BY <1>1, <1>2, <1>4 DEF Inv, DevicesMatch, DeadHaveNone, TypeOK
  <2>10. ProgramOK'
    BY <1>2, <1>4 DEF Inv, ProgramOK
  <2> QED
    BY <1>0, <2>5, <2>6, <2>7, <2>8, <2>9, <2>10 DEF Inv
<1> QED
  BY <1>3, <1>4 DEF AddSerial

\* Deregistering a device: one serial less has the watcher in its list.
LEMMA RemoveSerialInv ==
    ASSUME Inv, RemoveSerial
    PROVE  Inv'
<1>1. /\ At("remove") /\ Head(prog) = "remove" /\ prog # <<>> /\ cw \in Watchers /\ life[cw]
      /\ op \in {"modify", "stop"} /\ left \subseteq serials[cw] /\ left \in SUBSET Serials
      /\ left \cap target = {} /\ Mine = left \cup (target \cap serials[cw])
      /\ op = "stop" => target = {}
  <2>1. At("remove") /\ prog # <<>>
    BY DEF RemoveSerial, At
  <2>2. op \in {"modify", "stop"}
    BY <2>1, Where, OpType DEF Inv
  <2> QED
    BY <2>1, <2>2, StepFacts DEF Inv, OperationOK, Mine, At, TypeOK
<1>2. /\ UNCHANGED <<setReg, life, serials, op, cw, target>>
  BY DEF RemoveSerial
<1>0. TypeOK'
  <2>1. CoordinatorStep
    BY DEF CoordinatorStep
  <2> QED
    BY <2>1, CoordinatorTypes DEF Inv, NeverTwice, ProgramOK, ProgramHasWatcher
<1>3. CASE left = {} /\ Done(target \ serials[cw]) /\ UNCHANGED <<stateReg, aps>>
  <2>1. ProgramOK' /\ \E n \in Steps : Follows(op, "remove", n) /\ At(n)'
    BY <1>1, <1>2, <1>3, Advance, OpType DEF Inv, Done, Steps
  <2>2. \/ op = "modify" /\ At("add")'
        \/ op = "stop" /\ At("status")'
    BY <1>1, <2>1 DEF Follows
  <2>3. left' = target \ serials[cw]
    BY <1>3 DEF Done
  <2>4. Mine' = Mine /\ \A k \in SetKinds : SetMine(k)' = SetMine(k)
    BY <1>1, <1>2, <1>3, <2>2, <2>3 DEF Mine, SetMine, Ahead, At, SetKinds
  <2>5. OperationOK'
    BY <1>1, <1>2, <1>3, <2>2, <2>3, <2>4 DEF OperationOK, At, Inv
  <2>6. ListsMatch' /\ SetsMatch'
    BY <1>1, <1>2, <1>3, <2>4 DEF Inv, ListsMatch, Owned, SetsMatch, OwnedSet
  <2> QED
    BY <1>0, <1>2, <1>3, <2>1, <2>5, <2>6 DEF Inv, NeverTwice, DeadHaveNone, DevicesMatch
<1>4. ASSUME NEW s \in left,
             stateReg' = [stateReg EXCEPT ![s] = EraseFirst(@, cw)],
             aps' = IF op = "modify" THEN [aps EXCEPT ![cw] = @ \ {s}] ELSE aps,
             left' = left \ {s}, UNCHANGED prog
      PROVE  Inv'
  <2>1. stateReg[s] \in Seq(Watchers) /\ NoTwice(stateReg[s]) /\ s \in Serials
    BY <1>1 DEF Inv, TypeOK, NeverTwice
  <2>2. /\ stateReg'[s] = EraseFirst(stateReg[s], cw)
        /\ \A t \in Serials \ {s} : stateReg'[t] = stateReg[t]
    BY <1>4, <2>1 DEF Inv, TypeOK
  <2>3. /\ NoTwice(stateReg'[s])
        /\ \A v \in Watchers : Contains(stateReg'[s], v) <=> Contains(stateReg[s], v) /\ v # cw
    BY <1>1, <2>1, <2>2, EraseOnce
  <2>4. /\ At("remove")' /\ Mine' = Mine \ {s}
        /\ \A k \in SetKinds : SetMine(k)' = SetMine(k)
    BY <1>1, <1>2, <1>4 DEF Mine, SetMine, Ahead, At
  <2>5. NeverTwice'
    BY <2>2, <2>3 DEF Inv, NeverTwice
  <2>6. ListsMatch'
    <3> SUFFICES ASSUME NEW t \in Serials, NEW v \in Watchers
                 PROVE  Contains(stateReg'[t], v) <=> t \in Owned(v)'
      BY DEF ListsMatch
    <3>1. Contains(stateReg[t], v) <=> t \in Owned(v)
      BY DEF Inv, ListsMatch
    <3> QED
      BY <1>2, <2>2, <2>3, <2>4, <3>1 DEF Owned
  <2>7. SetsMatch'
    BY <1>2, <2>4 DEF Inv, SetsMatch, OwnedSet
  <2>8. OperationOK'
    <3>1. op = "modify" => aps'[cw] = aps[cw] \ {s}
      BY <1>1, <1>4 DEF Inv, TypeOK
    <3> QED
      BY <1>1, <1>2, <1>4, <2>4, <3>1 DEF Inv, OperationOK, At
  <2>9. DevicesMatch' /\ DeadHaveNone'
    BY <1>1, <1>2, <1>4 DEF Inv, DevicesMatch, DeadHaveNone, TypeOK
  <2>10. ProgramOK'
    BY <1>2, <1>4 DEF Inv, ProgramOK
  <2> QED
    BY <1>0, <2>5, <2>6, <2>7, <2>8, <2>9, <2>10 DEF Inv
<1> QED
  BY <1>3, <1>4 DEF RemoveSerial

\* Registering, or deregistering, the set of devices with receiver k.
LEMMA RegisterSetInv ==
    ASSUME Inv, NEW k \in SetKinds, RegisterSet(k)
    PROVE  Inv'
<1>1. /\ At(k) /\ Head(prog) = k /\ prog # <<>> /\ cw \in Watchers /\ life[cw]
      /\ op \in {"start", "modify", "stop"} /\ k \in Steps \ {"launch", "commit", "destroy"}
  BY StepFacts DEF RegisterSet, At, SetKinds, Steps
<1>2. UNCHANGED <<stateReg, life, serials, aps, op, cw, target>>
  BY DEF RegisterSet
<1>0. TypeOK'
  <2>1. CoordinatorStep
    BY DEF CoordinatorStep
  <2> QED
    BY <2>1, CoordinatorTypes DEF Inv, NeverTwice, ProgramOK, ProgramHasWatcher
<1>3. ProgramOK' /\ \E n \in Steps : Follows(op, k, n) /\ At(n)'
  BY <1>1, <1>2, Advance DEF RegisterSet, Done, Inv
<1>4. /\ k = "status" /\ op = "start" => At("health")'
      /\ k = "status" /\ op = "modify" => At("commit")'
      /\ k = "status" /\ op = "stop" => At("health")'
      /\ k = "health" /\ op = "start" => At("launch")'
      /\ k = "health" /\ op = "modify" => At("status")'
      /\ k = "health" /\ op = "stop" => At("destroy")'
  BY <1>3 DEF Follows
<1>5. Mine' = Mine
  BY <1>1, <1>2, <1>4 DEF Mine, At, SetKinds
<1>6. SetMine(k)' = IF op = "stop" THEN NoReg ELSE target
  BY <1>1, <1>2, <1>4 DEF SetMine, Ahead, At, SetKinds
<1>7. ASSUME NEW j \in SetKinds \ {k} PROVE SetMine(j)' = SetMine(j)
  BY <1>1, <1>2, <1>4, <1>7 DEF SetMine, Ahead, At, SetKinds
<1>8. OperationOK'
  BY <1>1, <1>2, <1>4, <1>5 DEF OperationOK, At, Inv, SetKinds
<1>9. ListsMatch'
  BY <1>2, <1>5 DEF Inv, ListsMatch, Owned
<1>10. SetsMatch'
  <2> SUFFICES ASSUME NEW j \in SetKinds, NEW w \in Watchers
               PROVE  setReg'[j][w] = OwnedSet(j, w)'
    BY DEF SetsMatch
  <2>1. setReg[j][w] = OwnedSet(j, w)
    BY DEF Inv, SetsMatch
  <2>2. setReg'[k][cw] = IF op = "stop" THEN NoReg ELSE target
    BY <1>1 DEF RegisterSet, Inv, TypeOK
  <2>3. j # k \/ w # cw => setReg'[j][w] = setReg[j][w]
    BY <1>1 DEF RegisterSet, Inv, TypeOK
  <2> QED
    BY <1>2, <1>6, <1>7, <2>1, <2>2, <2>3 DEF OwnedSet
<1> QED
  BY <1>0, <1>2, <1>3, <1>8, <1>9, <1>10 DEF Inv, NeverTwice, DeadHaveNone, DevicesMatch

\* Waiting for the worker leaves the registrations alone.
LEMMA WaitInv ==
    ASSUME Inv, Signal \/ Join
    PROVE  Inv'
<1>1. PICK h \in {"signal", "join"} :
        /\ At(h) /\ Head(prog) = h /\ prog # <<>> /\ cw \in Watchers /\ life[cw] /\ op = "stop"
        /\ Done(IF h = "join" THEN serials[cw] ELSE {})
  <2>1. PICK h \in {"signal", "join"} : At(h) /\ Done(IF h = "join" THEN serials[cw] ELSE {})
    BY DEF Signal, Join
  <2>2. op = "stop" /\ Head(prog) = h /\ prog # <<>>
    BY <2>1, Where, OpType DEF Inv, At
  <2> QED
    BY <2>1, <2>2, StepFacts
<1>2. UNCHANGED <<stateReg, setReg, life, serials, aps, op, cw, target>>
  BY DEF Signal, Join, regs
<1>0. TypeOK'
  <2>1. CoordinatorStep
    BY DEF CoordinatorStep
  <2> QED
    BY <2>1, CoordinatorTypes DEF Inv, NeverTwice, ProgramOK, ProgramHasWatcher
<1>3. ProgramOK' /\ \E n \in Steps : Follows(op, h, n) /\ At(n)'
  BY <1>1, <1>2, Advance DEF Done, Inv, Steps
<1>4. \/ h = "signal" /\ At("join")'
      \/ h = "join" /\ At("remove")' /\ left' = serials[cw]
  <2>1. h = "join" => left' = serials[cw]
    BY <1>1 DEF Done
  <2>2. PICK n \in Steps : Follows(op, h, n) /\ At(n)'
    BY <1>3
  <2>3. op = "stop" /\ h \in {"signal", "join"}
    BY <1>1
  <2>4. CASE h = "signal"
    <3>1. n = "join"
      BY <2>2, <2>3, <2>4 DEF Follows
    <3> QED
      BY <2>2, <2>4, <3>1
  <2>5. CASE h = "join"
    <3>1. n = "remove"
      BY <2>2, <2>3, <2>5 DEF Follows
    <3> QED
      BY <2>1, <2>2, <2>5, <3>1
  <2> QED
    BY <2>3, <2>4, <2>5
<1>5. target = {}
  BY <1>1 DEF Inv, OperationOK
<1>6. Mine' = Mine /\ \A k \in SetKinds : SetMine(k)' = SetMine(k)
  BY <1>1, <1>2, <1>4, <1>5 DEF Mine, SetMine, Ahead, At, SetKinds
<1>7. OperationOK'
  BY <1>1, <1>2, <1>4, <1>5 DEF OperationOK, At, Inv
<1>8. ListsMatch' /\ SetsMatch'
  BY <1>2, <1>6 DEF Inv, ListsMatch, Owned, SetsMatch, OwnedSet
<1> QED
  BY <1>0, <1>2, <1>3, <1>7, <1>8 DEF Inv, NeverTwice, DeadHaveNone, DevicesMatch

\* When an operation returns its watcher is as it promised: registered for
\* the new devices, or for none.
LEMMA ReturnInv ==
    ASSUME Inv, Launch \/ Commit \/ Destroy
    PROVE  Inv'
<1>0. TypeOK'
  <2>1. CoordinatorStep
    BY DEF CoordinatorStep
  <2> QED
    BY <2>1, CoordinatorTypes DEF Inv, NeverTwice, ProgramOK, ProgramHasWatcher
<1>1. PICK h \in {"launch", "commit", "destroy"} :
        /\ At(h) /\ prog = <<h>> /\ Finish
        /\ h = "launch" => op = "start" /\ Launch
        /\ h = "commit" => op = "modify" /\ Commit
        /\ h = "destroy" => op = "stop" /\ Destroy
  BY Where, OpType DEF Inv, Launch, Commit, Destroy
<1>2. cw \in Watchers /\ life[cw] /\ Head(prog) = h
  BY <1>1, StepFacts DEF At
<1>3. /\ op' = "none" /\ cw' \notin Watchers /\ prog' = <<>> /\ UNCHANGED <<stateReg, setReg>>
  <2>1. prog' = <<>>
    BY <1>1, Tails DEF Finish, Done
  <2> QED
    BY <1>1, <2>1, IngestAssumption DEF Finish, Launch, Commit, Destroy, regs
<1>4. /\ Mine = IF h = "destroy" THEN {} ELSE target
      /\ \A k \in SetKinds : SetMine(k) = IF h = "destroy" THEN NoReg ELSE target
  BY <1>1, <1>2 DEF Mine, SetMine, Ahead, At, SetKinds
<1>5. /\ serials'[cw] = IF h = "destroy" THEN {} ELSE target
      /\ life'[cw] = (h # "destroy")
      /\ h # "destroy" => aps'[cw] = target
      /\ \A w \in Watchers \ {cw} : /\ serials'[w] = serials[w] /\ life'[w] = life[w]
                                    /\ aps'[w] = aps[w]
  <2>1. CASE h = "launch"
    BY <1>1, <1>2, <2>1 DEF Launch, Inv, OperationOK
  <2>2. CASE h = "commit"
    BY <1>1, <1>2, <1>4, <2>2 DEF Commit, Inv, OperationOK, TypeOK
  <2>3. CASE h = "destroy"
    BY <1>1, <1>2, <2>3 DEF Destroy, Inv, TypeOK
  <2> QED
    BY <2>1, <2>2, <2>3
<1>6. ProgramOK' /\ OperationOK'
  BY <1>3 DEF ProgramOK, OperationOK, At
<1>7. ListsMatch'
  <2> SUFFICES ASSUME NEW s \in Serials, NEW w \in Watchers
               PROVE  Contains(stateReg[s], w) <=> s \in serials'[w]
    BY <1>3 DEF ListsMatch, Owned
  <2>1. Contains(stateReg[s], w) <=> s \in Owned(w)
    BY DEF Inv, ListsMatch
  <2> QED
    BY <1>4, <1>5, <2>1 DEF Owned
<1>8. SetsMatch'
  <2> SUFFICES ASSUME NEW k \in SetKinds, NEW w \in Watchers
               PROVE  setReg[k][w] = IF life'[w] THEN serials'[w] ELSE NoReg
    BY <1>3 DEF SetsMatch, OwnedSet
  <2>1. setReg[k][w] = OwnedSet(k, w)
    BY DEF Inv, SetsMatch
  <2> QED
    BY <1>4, <1>5, <2>1 DEF OwnedSet
<1>9. DeadHaveNone'
  BY <1>5 DEF Inv, DeadHaveNone
<1>10. DevicesMatch'
  BY <1>5 DEF Inv, DevicesMatch
<1> QED
  BY <1>0, <1>3, <1>6, <1>7, <1>8, <1>9, <1>10 DEF Inv, NeverTwice


\* No step of a receiver or a worker touches the registrations.
LEMMA OtherInv ==
    ASSUME Inv, TypeOK',
           UNCHANGED <<stateReg, setReg, life, serials, aps, op, cw, prog, left, target>>
    PROVE  Inv'
<1>1. Mine' = Mine /\ \A k \in SetKinds : SetMine(k)' = SetMine(k)
  BY DEF Mine, SetMine, Ahead, At
<1>2. ProgramOK' /\ OperationOK'
  BY <1>1 DEF Inv, ProgramOK, OperationOK, At
<1>3. ListsMatch' /\ SetsMatch'
  BY <1>1 DEF Inv, ListsMatch, Owned, SetsMatch, OwnedSet
<1> QED
  BY <1>2, <1>3 DEF Inv, NeverTwice, DeadHaveNone, DevicesMatch

\* Nothing is registered at first.
LEMMA InitInv == Init => Inv
<1> SUFFICES ASSUME Init PROVE Inv
  OBVIOUS
<1>1. <<>> \in Seq(Serials) /\ <<>> \in Seq(Watchers) /\ <<>> \in Seq(Steps) /\ Len(<<>>) = 0
  BY EmptySeq
<1>2. TypeOK
  <2>1. modifies \in 0..MaxModifies
    BY IngestAssumption DEF Init
  <2> QED
    BY <1>1, <2>1 DEF Init, TypeOK, WorkerPCs
<1>3. cw \notin Watchers
  BY IngestAssumption DEF Init
<1>4. ASSUME NEW s \in Serials PROVE NoTwice(stateReg[s]) /\ \A w \in Watchers : ~Contains(stateReg[s], w)
  BY <1>1 DEF Init, NoTwice, Contains
<1>5. ProgramOK /\ OperationOK
  BY DEF Init, ProgramOK, OperationOK, At
<1>6. NeverTwice /\ ListsMatch
  BY <1>3, <1>4 DEF Init, NeverTwice, ListsMatch, Owned
<1>7. SetsMatch /\ DeadHaveNone /\ DevicesMatch
  BY <1>3 DEF Init, SetsMatch, OwnedSet, DeadHaveNone, DevicesMatch
<1> QED
  BY <1>2, <1>5, <1>6, <1>7 DEF Inv

\* Every step keeps the invariant.
LEMMA InvStep == Inv /\ [Next]_vars => Inv'
<1> SUFFICES ASSUME Inv, [Next]_vars PROVE Inv'
  OBVIOUS
<1>1. CASE Request
  BY <1>1, RequestInv
<1>2. CASE CoordinatorStep
  BY <1>2, AddSerialInv, RemoveSerialInv, RegisterSetInv, WaitInv, ReturnInv
     DEF CoordinatorStep
<1>3. ASSUME NEW k \in Kinds, ReceiverStep(k) \/ \E s \in Serials : Receive(k, s)
      PROVE  Inv'
  <2>1. TypeOK'
    BY <1>3, ReceiverTypes DEF Inv
  <2>2. UNCHANGED <<stateReg, setReg, life, serials, aps, op, cw, prog, left, target>>
    BY <1>3 DEF ReceiverStep, Receive, Dispatch, DropMalformed, Post, regs, coord
  <2> QED
    BY <2>1, <2>2, OtherInv
<1>4. ASSUME NEW w \in Watchers, WorkerStep(w) PROVE Inv'
  <2>1. TypeOK'
    BY <1>4, WorkerTypes DEF Inv
  <2>2. UNCHANGED <<stateReg, setReg, life, serials, aps, op, cw, prog, left, target>>
    BY <1>4 DEF WorkerStep, WorkerBegin, WorkerDequeue, WorkerHandle, WorkerExit, regs, coord
  <2> QED
    BY <2>1, <2>2, OtherInv
<1>5. CASE UNCHANGED vars
  <2>1. TypeOK'
    BY <1>5 DEF Inv, TypeOK, vars, receivers, regs, workers, coord
  <2>2. UNCHANGED <<stateReg, setReg, life, serials, aps, op, cw, prog, left, target>>
    BY <1>5 DEF vars, regs, coord
  <2> QED
    BY <2>1, <2>2, OtherInv
<1> QED
  BY <1>1, <1>2, <1>3, <1>4, <1>5 DEF Next

\* In every reachable state the invariant holds.
LEMMA Invariant == Spec => []Inv
<1> QED
  BY InitInv, InvStep, PTL DEF Spec

\* The types of the variables: a receiver has a message in hand exactly as
\* long as it has targets to post it to.
THEOREM TypeCorrect == Spec => []TypeOK
<1>1. Inv => TypeOK
  BY DEF Inv
<1> QED
  BY <1>1, Invariant, PTL

\* Between two operations each live watcher is in the receivers' maps for
\* exactly its devices and only once, whatever start, modify and stop
\* operations came before.
THEOREM OnceRegistered == Spec => []RegisteredOnce
<1>1. Inv => RegisteredOnce
  <2> SUFFICES ASSUME Inv, op = "none", NEW w \in Watchers, life[w]
               PROVE  /\ aps[w] = serials[w]
                      /\ \A k \in SetKinds : setReg[k][w] = serials[w]
                      /\ \A s \in Serials :
                          /\ Contains(stateReg[s], w) <=> s \in serials[w]
                          /\ \A i, j \in DOMAIN stateReg[s] :
                                stateReg[s][i] = w /\ stateReg[s][j] = w => i = j
    BY DEF RegisteredOnce
  <2>1. w # cw
    BY OpType DEF Inv
  <2>2. aps[w] = serials[w]
    BY <2>1 DEF Inv, DevicesMatch
  <2>3. \A k \in SetKinds : setReg[k][w] = serials[w]
    BY <2>1 DEF Inv, SetsMatch, OwnedSet
  <2>4. \A s \in Serials : Contains(stateReg[s], w) <=> s \in serials[w]
    BY <2>1 DEF Inv, ListsMatch, Owned
  <2>5. ASSUME NEW s \in Serials, NEW i \in DOMAIN stateReg[s], NEW j \in DOMAIN stateReg[s],
               stateReg[s][i] = w, stateReg[s][j] = w
        PROVE  i = j
    BY <2>5 DEF Inv, NeverTwice, NoTwice
  <2> QED
    BY <2>2, <2>3, <2>4, <2>5
<1> QED
  BY <1>1, Invariant, PTL


\* Nobody deregisters from a receiver that is about to post, so its targets
\* stay registered.
LEMMA TargetsStep ==
    ASSUME Inv, Inv', TargetsRegistered, [Next]_vars
    PROVE  TargetsRegistered'
<1>1. CASE UNCHANGED <<rmsg, rtodo, stateReg, setReg>>
  BY <1>1 DEF TargetsRegistered
<1>2. CASE AddSerial \/ RemoveSerial
  <2>1. UNCHANGED <<rmsg, rtodo, setReg>>
    BY <1>2 DEF AddSerial, RemoveSerial, receivers
  <2>2. CASE ReceiverFree("state")
    <3>1. rtodo["state"] = <<>>
      BY <2>2 DEF ReceiverFree, Inv, TypeOK, Kinds
    <3>2. \A w \in Watchers : ~Contains(rtodo["state"], w)
      BY <3>1, EmptySeq DEF Contains
    <3> QED
      BY <2>1, <3>2 DEF TargetsRegistered
  <2>3. CASE ~ReceiverFree("state")
    <3>1. UNCHANGED stateReg
      BY <1>2, <2>3 DEF AddSerial, RemoveSerial
    <3> QED
      BY <1>1, <2>1, <3>1
  <2> QED
    BY <2>2, <2>3
<1>3. ASSUME NEW k \in SetKinds, RegisterSet(k) PROVE TargetsRegistered'
  <2>1. UNCHANGED <<rmsg, rtodo, stateReg>> /\ rtodo[k] = <<>>
    BY <1>3 DEF RegisterSet, receivers, ReceiverFree, Inv, TypeOK, Kinds
  <2>2. \A w \in Watchers : ~Contains(rtodo[k], w)
    BY <2>1, EmptySeq DEF Contains
  <2>3. \A j \in SetKinds \ {k} : setReg'[j] = setReg[j]
    BY <1>3 DEF RegisterSet, Inv, TypeOK
  <2> QED
    BY <2>1, <2>2, <2>3 DEF TargetsRegistered
<1>4. ASSUME NEW k \in Kinds, Dispatch(k) PROVE TargetsRegistered'
  <2>1. PICK targets \in TargetLists(k, Head(rq[k])) :
          /\ rtodo' = [rtodo EXCEPT ![k] = targets]
          /\ rmsg' = [rmsg EXCEPT ![k] = IF targets = <<>> THEN NoSerial ELSE Head(rq[k])]
    BY <1>4 DEF Dispatch
  <2>2. /\ rtodo'[k] = targets
        /\ rmsg'[k] = IF targets = <<>> THEN NoSerial ELSE Head(rq[k])
        /\ \A j \in Kinds \ {k} : rtodo'[j] = rtodo[j] /\ rmsg'[j] = rmsg[j]
    BY <2>1 DEF Inv, TypeOK
  <2>3. UNCHANGED <<stateReg, setReg>>
    BY <1>4 DEF Dispatch, regs
  <2>4. \A w \in Watchers : ~Contains(<<>>, w)
    BY EmptySeq DEF Contains
  <2>5. CASE k = "state"
    <3>1. targets = stateReg[Head(rq[k])]
      BY <2>1, <2>5 DEF TargetLists
    <3>2. ASSUME NEW w \in Watchers, Contains(rtodo'["state"], w)
          PROVE  Contains(stateReg[rmsg'["state"]], w)
      BY <2>2, <2>4, <2>5, <3>1, <3>2
    <3> QED
      BY <2>2, <2>3, <2>5, <3>2 DEF TargetsRegistered, Kinds, SetKinds
  <2>6. CASE k \in SetKinds
    <3>1. ASSUME NEW w \in Watchers, Contains(targets, w) PROVE setReg[k][w] # NoReg
      <4>1. PICK v \in Watchers : targets = <<v>> /\ setReg[k][v] # NoReg
        BY <2>1, <2>4, <2>6, <3>1 DEF TargetLists, SetKinds
      <4>2. w = v
        BY <3>1, <4>1 DEF Contains
      <4> QED
        BY <4>1, <4>2
    <3> QED
      BY <2>2, <2>3, <2>6, <3>1 DEF TargetsRegistered, Kinds, SetKinds
  <2> QED
    BY <2>5, <2>6 DEF Kinds
<1>5. ASSUME NEW k \in Kinds, Post(k) PROVE TargetsRegistered'
  <2>1. UNCHANGED <<stateReg, setReg>>
    BY <1>5 DEF Post, regs
  <2>2. /\ rtodo[k] \in Seq(Watchers) /\ rtodo[k] # <<>>
        /\ rtodo'[k] = Tail(rtodo[k])
        /\ rmsg'[k] = IF Len(rtodo[k]) = 1 THEN NoSerial ELSE rmsg[k]
        /\ \A j \in Kinds \ {k} : rtodo'[j] = rtodo[j] /\ rmsg'[j] = rmsg[j]
    BY <1>5 DEF Post, ReceiverFree, Inv, TypeOK
  <2>3. \A w \in Watchers : ~Contains(<<>>, w)
    BY EmptySeq DEF Contains
  <2>4. Tail(rtodo[k]) = <<>> <=> Len(rtodo[k]) = 1
    BY <2>2, HeadTail
  <2>5. ASSUME NEW w \in Watchers, Contains(rtodo'[k], w)
        PROVE  Contains(rtodo[k], w) /\ rmsg'[k] = rmsg[k]
    <3>1. Tail(rtodo[k]) # <<>>
      BY <2>2, <2>3, <2>5
    <3>2. rmsg'[k] = rmsg[k]
      BY <2>2, <2>4, <3>1
    <3> DEFINE list == rtodo[k]
               rest == Tail(list)
    <3>3. /\ Len(list) \in Nat /\ Len(rest) = Len(list) - 1 /\ rest \in Seq(Watchers)
          /\ \A i \in 1..Len(rest) : rest[i] = list[i + 1]
      BY <2>2
    <3>4. Contains(rest, w)
      BY <2>2, <2>5
    <3> HIDE DEF list, rest
    <3>5. Contains(list, w)
      BY <3>3, <3>4 DEF Contains
    <3> QED
      BY <3>2, <3>5 DEF list
  <2>6. CASE k = "state"
    BY <2>1, <2>2, <2>5, <2>6 DEF TargetsRegistered, Kinds, SetKinds
  <2>7. CASE k \in SetKinds
    BY <2>1, <2>2, <2>5, <2>7 DEF TargetsRegistered, Kinds, SetKinds
  <2> QED
    BY <2>6, <2>7 DEF Kinds
<1>6. CASE Request
  BY <1>1, <1>6 DEF Request, StartWatcher, ModifyWatcher, StopWatcher, receivers, regs
<1>7. CASE Launch \/ Commit \/ Signal \/ Join \/ Destroy
  BY <1>1, <1>7 DEF Launch, Commit, Signal, Join, Destroy, receivers, regs
<1>8. ASSUME NEW k \in Kinds, DropMalformed(k) \/ \E s \in Serials : Receive(k, s)
      PROVE  TargetsRegistered'
  BY <1>1, <1>8 DEF DropMalformed, Receive, regs
<1>9. ASSUME NEW w \in Watchers, WorkerStep(w) PROVE TargetsRegistered'
  BY <1>1, <1>9 DEF WorkerStep, WorkerBegin, WorkerDequeue, WorkerHandle, WorkerExit,
                    receivers, regs
<1>10. CASE UNCHANGED vars
  BY <1>1, <1>10 DEF vars, receivers, regs
<1> QED
  BY <1>2, <1>3, <1>4, <1>5, <1>6, <1>7, <1>8, <1>9, <1>10
     DEF Next, CoordinatorStep, ReceiverStep

\* A receiver never has, nor is about to use, a pointer to a watcher that
\* has been destroyed.
THEOREM NeverDangling == Spec => []NoDanglingWatcher
<1>1. Init => TargetsRegistered
  <2>1. \A w \in Watchers : ~Contains(<<>>, w)
    BY EmptySeq DEF Contains
  <2> QED
    BY <2>1 DEF Init, TargetsRegistered, Kinds
<1>2. Inv /\ Inv' /\ TargetsRegistered /\ [Next]_vars => TargetsRegistered'
  BY TargetsStep
<1>3. Inv /\ TargetsRegistered => NoDanglingWatcher
  <2> SUFFICES ASSUME Inv, TargetsRegistered, NEW w \in Watchers, ~life[w]
               PROVE  /\ \A s \in Serials : ~Contains(stateReg[s], w)
                      /\ \A k \in SetKinds : setReg[k][w] = NoReg
                      /\ \A k \in Kinds : ~Contains(rtodo[k], w)
    BY DEF NoDanglingWatcher
  <2>1. w # cw
    BY OpType DEF Inv, OperationOK
  <2>2. \A s \in Serials : ~Contains(stateReg[s], w)
    BY <2>1 DEF Inv, ListsMatch, Owned, DeadHaveNone
  <2>3. \A k \in SetKinds : setReg[k][w] = NoReg
    BY <2>1 DEF Inv, SetsMatch, OwnedSet
  <2>4. ~Contains(rtodo["state"], w)
    <3>1. CASE rmsg["state"] = NoSerial
      <4>1. rtodo["state"] = <<>>
        BY <3>1 DEF Inv, TypeOK, Kinds
      <4> QED
        BY <4>1, EmptySeq DEF Contains
    <3>2. CASE rmsg["state"] \in Serials
      BY <2>2, <3>2 DEF TargetsRegistered
    <3> QED
      BY <3>1, <3>2 DEF Inv, TypeOK, Kinds
  <2>5. \A k \in SetKinds : ~Contains(rtodo[k], w)
    BY <2>3 DEF TargetsRegistered
  <2> QED
    BY <2>2, <2>3, <2>4, <2>5 DEF Kinds
<1> QED
  BY <1>1, <1>2, <1>3, Invariant, InvStep, PTL DEF Spec

=============================================================================
