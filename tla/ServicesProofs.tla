--------------------------- MODULE ServicesProofs ---------------------------
(***************************************************************************)
(* For any number of services, any lag of the consumer and any zombie      *)
(* limit above it: the list of services never loses one that is up.        *)
(*                                                                         *)
(* SteadyListed is not inductive: nothing in it says how old an entry may  *)
(* be, and the sweep erases by age.  The argument is about messages that   *)
(* are still on their way: a service that is up has sent one in every      *)
(* period, so an entry that was not refreshed for n periods has a message  *)
(* of age n - 1 at least in the bus, and no message grows older than Lag.  *)
(***************************************************************************)
EXTENDS Services, TLAPS

Events == {"join", "keep-alive", "leave", "other", "unreadable"}

\* A service's own events come from it; the events of no use from nobody.
Message == [from : Endpoints \cup {Own, Stranger}, event : Events, age : Nat]

Honest(m) == m.event \in {"join", "keep-alive", "leave"} => m.from \in Endpoints \cup {Own}

\* What the variables hold.
Typed ==
    /\ up \subseteq Endpoints /\ steady \subseteq up
    /\ bus \in Seq(Message) /\ \A i \in DOMAIN bus : Honest(bus[i])
    /\ \A e \in Listed : services[e] \in Nat
    /\ Listed \subseteq Endpoints

\* A message of e, at least n periods old, is on its way.
Coming(e, n) ==
    \E i \in DOMAIN bus : /\ bus[i].from = e /\ bus[i].event \in {"join", "keep-alive"}
                          /\ bus[i].age >= n

\* A steady service is listed with an age the sweep spares, and what will
\* refresh its entry is in the bus.
Fresh ==
    \A e \in steady :
        /\ e \in Listed /\ services[e] <= Limit
        /\ services[e] >= 1 /\ e \in sent => Coming(e, 0)
        /\ services[e] >= 2 => Coming(e, services[e] - 1)

IInv == Typed /\ Fresh

\* A new message leaves those on their way in the bus.
LEMMA PostKeeps ==
    ASSUME NEW e, NEW event, Typed, Post(e, event),
           e \in Endpoints \cup {Own, Stranger}, event \in Events,
           event \in {"join", "keep-alive", "leave"} => e \in Endpoints \cup {Own}
    PROVE  /\ bus' \in Seq(Message) /\ \A i \in DOMAIN bus' : Honest(bus'[i])
           /\ \A d, n : Coming(d, n) => Coming(d, n)'
           /\ event \in {"join", "keep-alive"} => Coming(e, 0)'
<1> DEFINE m == [from |-> e, event |-> event, age |-> 0]
<1>1. m \in Message /\ Honest(m)
  BY DEF Message, Honest
<1>2. bus' = Append(bus, m)
  BY DEF Post
<1> HIDE DEF m
<1>3. /\ bus' \in Seq(Message) /\ DOMAIN bus' = 1..Len(bus) + 1
      /\ \A i \in DOMAIN bus : i \in DOMAIN bus' /\ bus'[i] = bus[i]
      /\ bus'[Len(bus) + 1] = m /\ DOMAIN bus = 1..Len(bus)
  BY <1>1, <1>2 DEF Typed
<1>4. \A i \in DOMAIN bus' : Honest(bus'[i])
  BY <1>1, <1>3 DEF Typed
<1>5. \A d, n : Coming(d, n) => Coming(d, n)'
  BY <1>3 DEF Coming
<1>6. event \in {"join", "keep-alive"} => Coming(e, 0)'
  <2>1. Len(bus) + 1 \in DOMAIN bus' /\ m.from = e /\ m.event = event /\ m.age >= 0
    BY <1>3 DEF m, Typed
  <2> QED BY <1>3, <2>1 DEF Coming
<1> QED BY <1>3, <1>4, <1>5, <1>6

\* The steps of the other services.
LEMMA ClusterIInv ==
    ASSUME IInv, NEW e \in Endpoints, Join(e) \/ KeepAlive(e) \/ Leave(e) \/ Crash(e)
    PROVE  IInv'
<1> USE DEF IInv, Typed, Fresh, Listed, Events
<1>1. CASE Join(e)
  <2>1. e \notin steady /\ Post(e, "join")
    BY <1>1 DEF Join
  <2>2. /\ \A d, n : Coming(d, n) => Coming(d, n)'
        /\ bus' \in Seq(Message) /\ \A i \in DOMAIN bus' : Honest(bus'[i])
    BY <2>1, PostKeeps
  <2> QED BY <1>1, <2>1, <2>2 DEF Join, table, client
<1>2. CASE KeepAlive(e)
  <2>1. Post(e, "keep-alive")
    BY <1>2 DEF KeepAlive
  <2>2. /\ \A d, n : Coming(d, n) => Coming(d, n)'
        /\ bus' \in Seq(Message) /\ \A i \in DOMAIN bus' : Honest(bus'[i])
        /\ Coming(e, 0)'
    BY <2>1, PostKeeps
  <2> QED BY <1>2, <2>2 DEF KeepAlive, table, client, cluster
<1>3. CASE Leave(e)
  <2>1. Post(e, "leave")
    BY <1>3 DEF Leave
  <2>2. /\ \A d, n : Coming(d, n) => Coming(d, n)'
        /\ bus' \in Seq(Message) /\ \A i \in DOMAIN bus' : Honest(bus'[i])
    BY <2>1, PostKeeps
  <2> QED BY <1>3, <2>2 DEF Leave
<1>4. CASE Crash(e)
  <2>1. \A d, n : Coming(d, n) => Coming(d, n)'
    BY <1>4 DEF Crash, Coming
  <2> QED BY <1>4, <2>1 DEF Crash
<1> QED BY <1>1, <1>2, <1>3, <1>4

\* Messages that change nothing in the list.
LEMMA ForeignIInv ==
    ASSUME IInv, OwnMessage \/ OwnMessageLost \/ (\E event \in {"other", "unreadable"} : Foreign(event))
    PROVE  IInv'
<1> USE DEF IInv, Typed, Fresh, Listed, Events
<1>1. Own \notin steady
  BY ServicesAssumption
<1>2. CASE OwnMessage
  <2>1. Post(Own, "keep-alive")
    BY <1>2 DEF OwnMessage
  <2>2. /\ \A d, n : Coming(d, n) => Coming(d, n)'
        /\ bus' \in Seq(Message) /\ \A i \in DOMAIN bus' : Honest(bus'[i])
    BY <2>1, PostKeeps
  <2> QED BY <1>1, <1>2, <2>2 DEF OwnMessage, table, client, cluster
<1>3. CASE OwnMessageLost
  <2>1. \A d, n : Coming(d, n) => Coming(d, n)'
    BY <1>3 DEF OwnMessageLost, Coming
  <2> QED BY <1>1, <1>3, <2>1 DEF OwnMessageLost, table, client, cluster
<1>4. ASSUME NEW event \in {"other", "unreadable"}, Foreign(event) PROVE IInv'
  <2>1. Post(Stranger, event)
    BY <1>4 DEF Foreign
  <2>2. /\ \A d, n : Coming(d, n) => Coming(d, n)'
        /\ bus' \in Seq(Message) /\ \A i \in DOMAIN bus' : Honest(bus'[i])
    BY <2>1, <1>4, PostKeeps
  <2> QED BY <1>4, <2>2 DEF Foreign, table, client
<1> QED BY <1>2, <1>3, <1>4

\* A period passes: every entry gets older, and so does every message.
LEMMA TickIInv == ASSUME IInv, Tick PROVE IInv'
<1> USE DEF IInv, Typed, Fresh, Listed
<1>1. /\ DOMAIN bus' = DOMAIN bus /\ bus \in Seq(Message) /\ Len(bus) \in Nat
      /\ \A i \in DOMAIN bus : bus[i] \in Message /\ bus'[i] = [bus[i] EXCEPT !.age = @ + 1]
  BY DEF Tick
<1>2. \A i \in DOMAIN bus :
        /\ bus'[i].from = bus[i].from /\ bus'[i].event = bus[i].event
        /\ bus'[i].age = bus[i].age + 1 /\ bus[i].age \in Nat /\ bus'[i] \in Message
  BY <1>1 DEF Message
<1>3. bus' \in Seq(Message) /\ \A i \in DOMAIN bus' : Honest(bus'[i])
  <2>1. bus' = [i \in 1..Len(bus) |-> [bus[i] EXCEPT !.age = @ + 1]]
    BY DEF Tick
  <2>2. \A i \in 1..Len(bus) : [bus[i] EXCEPT !.age = @ + 1] \in Message
    BY <1>1, <1>2, <2>1
  <2>3. bus' \in Seq(Message)
    BY <1>1, <2>1, <2>2
  <2> QED BY <1>1, <1>2, <2>3 DEF Honest
<1>4. ASSUME NEW e, NEW n \in Nat, Coming(e, n) PROVE Coming(e, n + 1)'
  BY <1>1, <1>2, <1>4 DEF Coming
<1>5. ASSUME NEW e, NEW n \in Nat, Coming(e, n) PROVE n < Lag
  <2>1. \A i \in DOMAIN bus : bus[i].age < Lag
    BY DEF Tick
  <2> QED BY <1>2, <1>5, <2>1, ServicesAssumption DEF Coming
<1>6. DOMAIN services' = DOMAIN services /\ steady' = steady /\ up' = up /\ sent' = {} /\ up \subseteq sent
  BY DEF Tick, cluster
<1>7. ASSUME NEW e \in DOMAIN services
      PROVE  /\ services'[e] \in Nat
             /\ services[e] + 1 <= Limit => services'[e] = services[e] + 1
  <2> DEFINE S == {services[e] + 1, Limit + 1}
  <2>1. services[e] \in Nat /\ Limit \in Nat /\ services'[e] = Min(S)
    BY <1>7, ServicesAssumption DEF Tick
  <2>2. PICK x \in S : \A y \in S : x <= y
    BY <2>1
  <2>3. Min(S) \in S /\ \A y \in S : Min(S) <= y
    BY <2>2 DEF Min
  <2> QED BY <2>1, <2>3
<1>8. ASSUME NEW e \in steady, NEW n \in Nat, services[e] = n
      PROVE  n + 1 <= Limit /\ (n >= 1 => Coming(e, n)')
  <2>1. e \in sent /\ Lag \in Nat /\ Limit \in Nat /\ Limit > Lag
    BY <1>6, ServicesAssumption
  <2>2. CASE n = 0
    BY <2>1, <2>2
  <2>3. CASE n = 1
    <3>1. Coming(e, 0)
      BY <1>8, <2>1, <2>3
    <3>2. Coming(e, 0 + 1)' /\ 0 < Lag
      BY <1>4, <1>5, <3>1
    <3> QED BY <2>1, <2>3, <3>2
  <2>4. CASE n >= 2
    <3> DEFINE k == n - 1
    <3>1. Coming(e, k) /\ k \in Nat /\ n = k + 1
      BY <1>8, <2>1, <2>4
    <3> HIDE DEF k
    <3>2. Coming(e, k + 1)' /\ k < Lag
      BY <1>4, <1>5, <3>1
    <3> QED BY <2>1, <3>1, <3>2
  <2> QED BY <2>2, <2>3, <2>4
<1>9. Fresh'
  <2> SUFFICES ASSUME NEW e \in steady
               PROVE  /\ e \in DOMAIN services' /\ services'[e] <= Limit
                      /\ services'[e] >= 2 => Coming(e, services[e] - 1)'
    BY <1>6
  <2>1. PICK n \in Nat : services[e] = n
    OBVIOUS
  <2>2. services'[e] = n + 1 /\ n + 1 <= Limit /\ (n >= 1 => Coming(e, n)')
    BY <1>7, <1>8, <2>1
  <2>3. services'[e] >= 2 => \E i \in DOMAIN bus' : /\ bus'[i].from = e /\ bus'[i].event \in {"join", "keep-alive"}
                                                    /\ bus'[i].age >= services'[e] - 1
    BY <2>2 DEF Coming
  <2> QED BY <1>6, <2>2, <2>3 DEF Coming
<1> QED BY <1>3, <1>6, <1>7, <1>9

\* A message is applied.  What it leaves of the list is what it was, but for
\* the sender's entry and for entries beyond the limit.
LEMMA ReceivedIInv == ASSUME IInv, BusMessageReceived PROVE IInv'
<1> USE DEF IInv, Typed, Fresh, Listed
<1> DEFINE m == Head(bus)
<1>1. /\ bus \in Seq(Message) /\ bus # <<>> /\ m \in Message /\ m = bus[1] /\ Honest(m)
      /\ bus' = Tail(bus) /\ bus' \in Seq(Message)
      /\ Len(bus) \in Nat /\ DOMAIN bus = 1..Len(bus) /\ DOMAIN bus' = 1..Len(bus) - 1
      /\ \A i \in DOMAIN bus' : bus'[i] = bus[i + 1]
  BY DEF BusMessageReceived
<1>2. \A i \in DOMAIN bus' : Honest(bus'[i])
  BY <1>1
<1>3. up' = up /\ sent' = sent
  BY DEF BusMessageReceived, cluster
<1>4. ASSUME NEW e \in Endpoints, NEW n, Coming(e, n), m.from # e PROVE Coming(e, n)'
  <2>1. PICK i \in DOMAIN bus : /\ bus[i].from = e /\ bus[i].event \in {"join", "keep-alive"}
                                /\ bus[i].age >= n
    BY <1>4 DEF Coming
  <2>2. i # 1 /\ i - 1 \in DOMAIN bus' /\ bus'[i - 1] = bus[i]
    BY <1>1, <1>4, <2>1
  <2> QED BY <2>1, <2>2 DEF Coming
<1>5. Own \notin Endpoints
  BY ServicesAssumption
<1>6. m.event \in Events /\ m.from \in Endpoints \cup {Own, Stranger}
  BY <1>1 DEF Message
<1> DEFINE list == Apply(m)
           new  == IF m.event = "unreadable" THEN services ELSE Sweep(m, Apply(m))
<1>7. /\ services' = new
      /\ steady' = IF m.event = "leave" THEN steady \ {m.from}
                   ELSE IF m.event \in {"join", "keep-alive"} THEN steady \cup ({m.from} \cap up)
                   ELSE steady
  BY DEF BusMessageReceived
<1> HIDE DEF m
<1>8. /\ DOMAIN list \subseteq Endpoints /\ \A e \in DOMAIN list : list[e] \in Nat
      /\ \A e \in Listed : e # m.from => e \in DOMAIN list /\ list[e] = services[e]
      /\ m.event \in {"join", "keep-alive"} /\ m.from # Own => m.from \in DOMAIN list /\ list[m.from] = 0
      /\ m.event \notin {"join", "keep-alive", "leave"} => list = services
  BY <1>1 DEF Apply, Put, Erase, Honest
<1> HIDE DEF list
<1>9. /\ DOMAIN new \subseteq Endpoints /\ \A e \in DOMAIN new : new[e] \in Nat
      /\ \A e \in DOMAIN list : list[e] <= Limit /\ m.event # "unreadable" => e \in DOMAIN new /\ new[e] = list[e]
      /\ m.event = "unreadable" => new = services
  BY <1>8, ServicesAssumption DEF Sweep, list
<1> HIDE DEF new
<1>10. ASSUME NEW e \in steady'
       PROVE  /\ e \in DOMAIN new /\ new[e] \in Nat /\ new[e] <= Limit
              /\ new[e] >= 1 /\ e \in sent => Coming(e, 0)'
              /\ \A n \in Nat : new[e] = n + 1 /\ n >= 1 => Coming(e, n)'
  <2>1. e \in Endpoints /\ e \in up
    BY <1>7
  <2>2. CASE e = m.from
    <3>1. m.event \in {"join", "keep-alive"} \/ m.event \in {"other", "unreadable"}
      BY <1>6, <1>7, <2>2 DEF Events
    <3>2. CASE m.event \in {"join", "keep-alive"}
      <4>1. new[e] = 0 /\ e \in DOMAIN new
        BY <1>5, <1>8, <1>9, <2>1, <2>2, <3>2, ServicesAssumption
      <4> QED BY <4>1, ServicesAssumption
    <3>3. CASE m.event \in {"other", "unreadable"}
      <4>1. e \in steady /\ list = services /\ e \in DOMAIN new /\ new[e] = services[e] /\ services[e] \in Nat
        BY <1>7, <1>8, <1>9, <3>3
      <4>2. \A n : Coming(e, n) => Coming(e, n)'
        <5> SUFFICES ASSUME NEW n, Coming(e, n) PROVE Coming(e, n)'
          OBVIOUS
        <5>1. PICK i \in DOMAIN bus : /\ bus[i].from = e /\ bus[i].event \in {"join", "keep-alive"}
                                      /\ bus[i].age >= n
          BY DEF Coming
        <5>2. i # 1 /\ i - 1 \in DOMAIN bus' /\ bus'[i - 1] = bus[i]
          BY <1>1, <3>3, <5>1 DEF m
        <5> QED BY <5>1, <5>2 DEF Coming
      <4> QED BY <4>1, <4>2
    <3> QED BY <3>1, <3>2, <3>3
  <2>3. CASE e # m.from
    <3>1. e \in steady /\ e \in DOMAIN new /\ new[e] = services[e] /\ services[e] \in Nat
      BY <1>7, <1>8, <1>9, <2>3
    <3>2. \A n : Coming(e, n) => Coming(e, n)'
      BY <1>4, <2>1, <2>3
    <3> QED BY <3>1, <3>2
  <2> QED BY <2>2, <2>3
<1>11. Fresh'
  <2> SUFFICES ASSUME NEW e \in steady'
               PROVE  /\ e \in DOMAIN services' /\ services'[e] <= Limit
                      /\ services'[e] >= 1 /\ e \in sent' => Coming(e, 0)'
                      /\ services'[e] >= 2 => Coming(e, services[e] - 1)'
    OBVIOUS
  <2>1. PICK k \in Nat : services'[e] = k
    BY <1>7, <1>10
  <2>2. services'[e] >= 2 => \E i \in DOMAIN bus' : /\ bus'[i].from = e /\ bus'[i].event \in {"join", "keep-alive"}
                                                    /\ bus'[i].age >= services'[e] - 1
    <3> SUFFICES ASSUME k >= 2 PROVE Coming(e, k - 1)'
      BY <2>1 DEF Coming
    <3> DEFINE n == k - 1
    <3>1. n \in Nat /\ n >= 1 /\ new[e] = n + 1
      BY <1>7, <2>1
    <3>2. Coming(e, n)'
      BY <1>10, <3>1
    <3> QED BY <3>2
  <2> QED BY <1>3, <1>7, <1>10, <2>2 DEF Coming
<1> QED BY <1>1, <1>2, <1>3, <1>7, <1>9, <1>11

\* IInv is inductive.
LEMMA NextIInv == IInv /\ [Next]_vars => IInv'
<1> SUFFICES ASSUME IInv, [Next]_vars PROVE IInv'
  OBVIOUS
<1>1. CASE UNCHANGED vars
  BY <1>1 DEF IInv, Typed, Fresh, Listed, Coming, vars, cluster, table
<1>2. CASE Restart
  BY <1>2 DEF Restart, IInv, Typed, Fresh, Listed
<1>3. CASE Ask \/ Answer
  BY <1>3 DEF Ask, Answer, IInv, Typed, Fresh, Listed, Coming, cluster, table
<1> QED BY <1>1, <1>2, <1>3, ClusterIInv, ForeignIInv, TickIInv, ReceivedIInv DEF Next

\* The invariant holds at the start.
LEMMA InitIInv == Init => IInv
BY DEF Init, IInv, Typed, Fresh, Listed

\* The list never loses a service that is up, for any number of services,
\* any lag and any limit above it (MicroService::BusMessageReceived erases
\* by age after every message).
THEOREM UpIsListed == Spec => []SteadyListed
<1>1. IInv => SteadyListed
  BY DEF IInv, Fresh, SteadyListed
<1> QED BY <1>1, InitIInv, NextIInv, PTL DEF Spec
=============================================================================
