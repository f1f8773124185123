----------------------------- MODULE ClientCache -----------------------------
(***************************************************************************)
(* WifiClientCache, the stations of every venue kept in memory for the     *)
(* search of GET /wifiClientHistory?macsOnly, beside the table it is       *)
(* rebuilt from.  A state report adds to the cache before its row is       *)
(* stored; an hourly timer replaces the cache by what a query returned     *)
(* before the mutex was taken; DELETE and the cleanup (Retention) remove   *)
(* rows and leave the cache alone.                                         *)
(*                                                                         *)
(* A station id is the sequence of its digits.                             *)
(***************************************************************************)
EXTENDS Retention

CONSTANTS
    Digits,       \* digits of a serial number (12)
    Base,         \* values of a digit (16)
    NoClient

ASSUME ClientCacheAssumption ==
    /\ \A c \in Clients : c \in Seq(0..Base - 1) /\ Len(c) = Digits
    /\ NoClient \notin Clients

VARIABLES
    cache,        \* Cache_: per venue, SNs_ and Reverse_SNs_
    pending,      \* per venue: the client whose row its watcher is about to store
    snap,         \* onTimer: what GetClientMacs returned, {} between two refreshes
    refreshing    \* onTimer: has it queried and not yet taken the mutex?

cacheVars == <<cache, pending, snap, refreshing>>

\* The order of the integers the digits stand for.
Less(s, t) == \E i \in DOMAIN s : s[i] < t[i] /\ \A j \in 1..i - 1 : s[j] = t[j]

LowerBound(arr, x) == 1 + Cardinality({k \in DOMAIN arr : Less(arr[k], x)})

EmptyCache == [SNs |-> <<>>, Reverse_SNs |-> <<>>]

\* Mutant: the reversed number is appended.
AddSerialNumberAppends(S, C) ==
    IF Contains(C.SNs, S) THEN C
    ELSE [SNs         |-> InsertAt(C.SNs, LowerBound(C.SNs, S), S),
          Reverse_SNs |-> Append(C.Reverse_SNs, Reverse(S))]

AddSerialNumber(S, C) ==
    IF Contains(C.SNs, S) THEN C
    ELSE LET R == Reverse(S)
         IN  [SNs         |-> InsertAt(C.SNs, LowerBound(C.SNs, S), S),
              Reverse_SNs |-> InsertAt(C.Reverse_SNs, LowerBound(C.Reverse_SNs, R), R)]

\* The run of entries that begin with S, from its lower bound on.
ReturnNumbers(S, HowMany, arr) ==
    LET LB   == LowerBound(arr, S \o [i \in 1..Digits - Len(S) |-> 0])
        stop == SelectInSubSeq(arr, LB, Len(arr), LAMBDA x : ~IsPrefix(S, x))
        last == IF stop = 0 THEN Len(arr) ELSE stop - 1
    IN  CASE Len(S) = Digits -> SelectSeq(arr, LAMBDA x : x = S)
          [] Len(S) < Digits -> SubSeq(arr, LB, Min({last, LB + HowMany - 1}))
          [] OTHER           -> <<>>

\* A filter is digits, with a leading '*' when it is the end of the id.
FindNumbers(C, filter, Offset, HowMany) ==
    IF filter.star
    THEN IF filter.digits = <<>> THEN <<>>
         ELSE LET found == ReturnNumbers(Reverse(filter.digits), HowMany, C.Reverse_SNs)
              IN  [i \in DOMAIN found |-> Reverse(found[i])]
    ELSE IF filter.digits = <<>> THEN ComputeRange(C.SNs, Offset, HowMany)
         ELSE ReturnNumbers(filter.digits, HowMany, C.SNs)

CacheInit ==
    /\ Init
    /\ cache = [v \in Venues |-> EmptyCache]
    /\ pending = [v \in Venues |-> NoClient]
    /\ snap = {} /\ refreshing = FALSE
-----------------------------------------------------------------------------
\* AP::UpdateStats: the client is cached first, its row stored afterwards.
ClientReported(v, c) ==
    /\ pending[v] = NoClient
    /\ Spend("reports")
    /\ cache' = [cache EXCEPT ![v] = AddSerialNumber(c, @)]
    /\ pending' = [pending EXCEPT ![v] = c]
    /\ UNCHANGED <<clock, order, rets, fresh, rows, clients, round, held, quiet,
                   snap, refreshing>>

ClientStored(v) ==
    /\ pending[v] # NoClient
    /\ pending' = [pending EXCEPT ![v] = NoClient]
    /\ \/ clients' = clients \cup {<<v, pending[v], clock>>} /\ UNCHANGED budget
       \/ Spend("faults") /\ UNCHANGED clients
    /\ UNCHANGED <<clock, order, rets, fresh, rows, round, held, quiet,
                   cache, snap, refreshing>>

\* WifiClientCache::onTimer: the query, and later the replacement under the
\* mutex.  A failed query leaves the cache as it is.
RefreshQueries ==
    /\ ~refreshing
    /\ \/ /\ snap' = {<<r[1], r[2]>> : r \in clients}
          /\ refreshing' = TRUE
          /\ UNCHANGED budget
       \/ Spend("faults") /\ UNCHANGED <<snap, refreshing>>
    /\ UNCHANGED <<clock, order, rets, fresh, rows, clients, round, held, quiet,
                   cache, pending>>

\* Mutant: the cache is not cleared first.
RefreshMerges ==
    /\ refreshing
    /\ cache' = [v \in Venues |->
                   FoldSet(AddSerialNumber, cache[v], {c \in Clients : <<v, c>> \in snap})]
    /\ snap' = {} /\ refreshing' = FALSE
    /\ UNCHANGED <<vars, pending>>

RefreshReplaces ==
    /\ refreshing
    /\ cache' = [v \in Venues |->
                   FoldSet(AddSerialNumber, EmptyCache, {c \in Clients : <<v, c>> \in snap})]
    /\ snap' = {} /\ refreshing' = FALSE
    /\ UNCHANGED <<vars, pending>>

\* DELETE /wifiClientHistory/{client} of an administrator.  A date of zero
\* is a date not given; without any, building the statement fails and the
\* request changes nothing.
HistoryDeleted(v, c, fromDate, endDate) ==
    /\ fromDate # 0 \/ endDate # 0
    /\ Spend("purges")
    /\ clients' = {r \in clients : ~( /\ r[1] = v /\ r[2] = c
                                      /\ fromDate # 0 => r[3] >= fromDate
                                      /\ endDate # 0 => r[3] <= endDate)}
    /\ UNCHANGED <<clock, order, rets, fresh, rows, round, held, quiet, cacheVars>>

\* The cache is memory only.
CacheRestart ==
    /\ Restart
    /\ cache' = [v \in Venues |-> EmptyCache]
    /\ pending' = [v \in Venues |-> NoClient]
    /\ snap' = {} /\ refreshing' = FALSE

CacheNext ==
    \/ Work /\ UNCHANGED cacheVars
    \/ CacheRestart
    \/ \E v \in Venues, c \in Clients : ClientReported(v, c)
    \/ \E v \in Venues : ClientStored(v)
    \/ RefreshQueries \/ RefreshReplaces
    \/ \E v \in Venues, c \in Clients, f, e \in 0..MaxClock : HistoryDeleted(v, c, f, e)

allVars == <<vars, cacheVars>>

\* Both timers keep firing, and a thread that is inside a call goes on.
Fairness ==
    /\ WF_allVars(Cleanup /\ UNCHANGED cacheVars)
    /\ WF_allVars(RefreshQueries) /\ WF_allVars(RefreshReplaces)
    /\ \A v \in Venues : WF_allVars(ClientStored(v))

CacheSpec == CacheInit /\ [][CacheNext]_allVars /\ Fairness
-----------------------------------------------------------------------------
(* Properties.                                                             *)

Filters == [star : BOOLEAN, digits : BoundedSeq(0..Base - 1, Digits)]

\* What a search should return: of the cached clients that begin (or end)
\* with the digits, the first HowMany, in the order of the ids (read from
\* their end).
Wanted(C, filter, Offset, HowMany) ==
    LET Fits(x)  == IF filter.star THEN filter.digits # <<>> /\ IsSuffix(filter.digits, x)
                    ELSE IsPrefix(filter.digits, x)
        Before(x, y) == IF filter.star THEN Less(Reverse(x), Reverse(y)) ELSE Less(x, y)
        found == SetToSortSeq({x \in ToSet(C.SNs) : Fits(x)}, Before)
        skip  == IF filter.digits = <<>> THEN Offset ELSE 0
    IN  ComputeRange(found, skip, HowMany)

\* Whatever the order in which clients were reported, dropped by a refresh
\* and reported again, a search answers with exactly the matching clients:
\* the two sorted vectors stay images of each other.
FindExact ==
    [][cache' # cache =>
         \A v \in Venues, f \in Filters, Offset \in 0..1, HowMany \in 1..2 :
            FindNumbers(cache'[v], f, Offset, HowMany)
                = Wanted(cache'[v], f, Offset, HowMany)]_cache

Stored(v, c) == \E t \in Times : <<v, c, t>> \in clients
Cached(v, c) == Contains(cache[v].SNs, c)

\* A client the refresh has thrown out because it was added after the query,
\* or whose row was deleted or never stored, is right in the end: the cache
\* comes to hold exactly the clients that have history.
CacheConverges ==
    \A v \in Venues, c \in Clients :
        /\ <>[]Stored(v, c) => <>[]Cached(v, c)
        /\ <>[]~Stored(v, c) => <>[]~Cached(v, c)
=============================================================================
