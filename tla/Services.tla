------------------------------ MODULE Services ------------------------------
(***************************************************************************)
(* How the service finds its neighbours: each service of the cluster       *)
(* announces itself on the topic service_events, all in partition 0, and   *)
(* keeps the list of the others (MicroService::Services_) that its         *)
(* requests choose from.  A tick is one keep-alive period; instead of the  *)
(* time of the last message the list holds the ticks since then.           *)
(*                                                                         *)
(* The other services are the environment.  They run the same framework:   *)
(* a join at the start, a keep-alive each period, a leave at an orderly    *)
(* stop and nothing at a crash; a restart keeps id, endpoint and key.      *)
(***************************************************************************)
EXTENDS Naturals, Sequences, FiniteSetsExt

CONSTANTS
    Endpoints,   \* PrivateEndPoint of the others, numbered in the map's order
    Wanted,      \* those that have the type the requests ask for
    Limit,       \* ticks of silence after which a service is a zombie
    Lag,         \* bound: ticks a message waits for the consumer
    MaxChanges,  \* bound: starts, stops and crashes
    MaxForeign,  \* bound: messages of no use
    Own, Stranger, Idle  \* this service; a sender of no interest; no request

ASSUME ServicesAssumption ==
    /\ Endpoints \subseteq Nat /\ Wanted \subseteq Endpoints
    /\ Lag \in Nat /\ Limit \in Nat /\ Limit > Lag
    /\ MaxChanges \in Nat /\ MaxForeign \in Nat
    /\ {Own, Stranger, Idle} \cap Endpoints = {}

VARIABLES
    up,              \* the others that run
    sent,            \* who has sent its message of this period
    bus,             \* the topic, as far as it is not consumed
    services,        \* Services_: endpoint -> ticks since LastUpdate
    steady,          \* history: up without a break since its last message came
    request, reply,  \* the endpoint a request goes to; the last answer
    changes, foreign \* what the bounds count

cluster == <<up, changes, foreign>>
table   == <<services, steady>>
client  == <<request, reply>>
vars    == <<cluster, sent, bus, table, client>>

Listed == DOMAIN services

Init ==
    /\ up \in SUBSET Endpoints /\ sent = {} /\ bus = <<>>
    /\ services = <<>> /\ steady = {}
    /\ request = Idle /\ reply = "timeout"
    /\ changes = 0 /\ foreign = 0

Post(e, event) == bus' = Append(bus, [from |-> e, event |-> event, age |-> 0])
-----------------------------------------------------------------------------
(* The other services.                                                     *)

Change == changes < MaxChanges /\ changes' = changes + 1

Join(e) ==
    /\ Change /\ e \notin up
    /\ up' = up \cup {e} /\ sent' = sent \cup {e}
    /\ Post(e, "join")
    /\ UNCHANGED <<foreign, table, client>>

KeepAlive(e) ==
    /\ e \in up \ sent
    /\ sent' = sent \cup {e}
    /\ Post(e, "keep-alive")
    /\ UNCHANGED <<cluster, table, client>>

Leave(e) ==
    /\ Change /\ e \in up
    /\ up' = up \ {e} /\ steady' = steady \ {e}
    /\ Post(e, "leave")
    /\ UNCHANGED <<foreign, sent, services, client>>

Crash(e) ==
    /\ Change /\ e \in up
    /\ up' = up \ {e} /\ steady' = steady \ {e}
    /\ UNCHANGED <<foreign, sent, bus, services, client>>

\* An event of another kind (a revoked token) or one that lacks fields; a
\* payload that is no JSON.
Foreign(event) ==
    /\ foreign < MaxForeign /\ foreign' = foreign + 1
    /\ Post(Stranger, event)
    /\ UNCHANGED <<up, changes, sent, table, client>>

\* A period passes when everybody who runs has sent its message and no
\* message waits longer than the consumer's lag.
Tick ==
    /\ up \cup {Own} \subseteq sent
    /\ \A i \in DOMAIN bus : bus[i].age < Lag
    /\ sent' = {}
    /\ bus' = [i \in DOMAIN bus |-> [bus[i] EXCEPT !.age = @ + 1]]
    /\ services' = [e \in Listed |-> Min({services[e] + 1, Limit + 1})]
    /\ UNCHANGED <<cluster, steady, client>>
-----------------------------------------------------------------------------
(* This service on the bus.                                                *)

\* EventBusManager::run posts the join or the keep-alive of this period, and
\* KafkaProducer::run writes it, or drops it on an exception.
OwnMessage ==
    /\ Own \notin sent /\ sent' = sent \cup {Own}
    /\ Post(Own, "keep-alive")
    /\ UNCHANGED <<cluster, table, client>>

OwnMessageLost ==
    /\ Own \notin sent /\ sent' = sent \cup {Own}
    /\ UNCHANGED <<cluster, bus, table, client>>

\* Services_[PrivateEndPoint] = ServiceInfo, Services_.erase(PrivateEndPoint).
Put(e)   == [d \in Listed \cup {e} |-> IF d = e THEN 0 ELSE services[d]]
Erase(e) == [d \in Listed \ {e} |-> services[d]]

\* What an event of another service does to the list; the own ones, tokens
\* (AuthClient's caches) and incomplete events leave it alone.
Apply(m) ==
    IF m.from = Own THEN services
    ELSE IF m.event \in {"join", "keep-alive"} THEN Put(m.from)
    ELSE IF m.event = "leave" THEN Erase(m.from)
    ELSE services

\* Seeded faults: a service is a zombie one period early; the own messages
\* are ignored altogether.
SweepEarly(m, list) ==
    [e \in {d \in DOMAIN list : list[d] < Limit} |-> list[e]]

SweepForeignOnly(m, list) ==
    [e \in {d \in DOMAIN list : m.from = Own \/ list[d] <= Limit} |-> list[e]]

\* After every message, the own ones too, the silent services are erased.
Sweep(m, list) ==
    [e \in {d \in DOMAIN list : list[d] <= Limit} |-> list[e]]

\* MicroService::BusMessageReceived.  A payload that is no JSON throws before
\* anything is done.
BusMessageReceived ==
    /\ bus # <<>>
    /\ bus' = Tail(bus)
    /\ LET m == Head(bus)
       IN  /\ services' = IF m.event = "unreadable" THEN services ELSE Sweep(m, Apply(m))
           /\ steady' = IF m.event = "leave" THEN steady \ {m.from}
                        ELSE IF m.event \in {"join", "keep-alive"} THEN steady \cup ({m.from} \cap up)
                        ELSE steady
    /\ UNCHANGED <<cluster, sent, client>>

\* The process is started again, and the consumer goes on where it was.
Restart ==
    /\ Change
    /\ services' = <<>> /\ steady' = {}
    /\ request' = Idle
    /\ UNCHANGED <<up, foreign, sent, bus, reply>>
-----------------------------------------------------------------------------
(* OpenAPIRequest*::Do.                                                    *)

GetServices == Listed \cap Wanted

\* The list is copied under InfraMutex_; without a service of the type there
\* is nobody to ask.
Ask ==
    /\ request = Idle
    /\ IF GetServices = {}
       THEN reply' = "timeout" /\ UNCHANGED request
       ELSE request' = Min(GetServices) /\ UNCHANGED reply
    /\ UNCHANGED <<cluster, sent, bus, table>>

\* The first of the copied list answers, or the exception of the connection
\* ends the loop: the others are not tried.
Answer ==
    /\ request # Idle /\ request' = Idle
    /\ reply' = IF request \in up THEN "ok" ELSE "timeout"
    /\ UNCHANGED <<cluster, sent, bus, table>>
-----------------------------------------------------------------------------
Next ==
    \/ \E e \in Endpoints : Join(e) \/ KeepAlive(e) \/ Leave(e) \/ Crash(e)
    \/ \E event \in {"other", "unreadable"} : Foreign(event)
    \/ Tick \/ OwnMessage \/ OwnMessageLost
    \/ BusMessageReceived \/ Restart \/ Ask \/ Answer

Spec == Init /\ [][Next]_vars

\* Time passes, threads run, services that run send their keep-alives, the
\* broker does not refuse every message, and requests are made.
FairSpec ==
    /\ Spec
    /\ WF_vars(Tick) /\ \A e \in Endpoints : WF_vars(KeepAlive(e))
    /\ WF_vars(OwnMessage \/ OwnMessageLost) /\ SF_vars(OwnMessage)
    /\ WF_vars(BusMessageReceived)
    /\ WF_vars(Ask \/ Answer)
-----------------------------------------------------------------------------
\* A service that has not been down since its last message came is in the
\* list, whatever the consumer's lag and whoever else is swept: the zombie
\* limit leaves room for a whole period and the lag.
SteadyListed == steady \subseteq Listed

\* A service that stays down leaves the list, even when it crashed and this
\* service is alone on the bus (its own keep-alives, otherwise ignored, drive
\* the sweep); and while one service of the type stays up, requests succeed
\* again and again, although Do never tries a second one and a zombie may
\* come first.
RegistryConverges ==
    \A e \in Endpoints :
        /\ <>[](e \notin up) => <>[](e \notin Listed)
        /\ e \in Wanted /\ <>[](e \in up) => []<>(reply = "ok")
=============================================================================
