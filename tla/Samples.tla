------------------------------ MODULE Samples -------------------------------
(***************************************************************************)
(* AP::UpdateStats as arithmetic: the device reports cumulative counters,  *)
(* the service stores differences to the previous report (tp_base_).  The  *)
(* environment moves bytes, lets stations come and go and restarts the     *)
(* device; histories keep what was really transferred and what the stored  *)
(* time points add up to.                                                  *)
(*                                                                         *)
(* `bytes' stands for the five station counters new_connection compares    *)
(* (tx and rx packets and bytes, tx_failed), `retries' for the two it does *)
(* not (tx_retries, tx_duration), `ap' for the eight counters of ap_data.  *)
(***************************************************************************)
EXTENDS Naturals

CONSTANTS
    Stations,       \* wireless clients
    Modulus,        \* 2^64 in the code: counters are unsigned
    MaxBytes,       \* bound: bytes of a station and of the device
    MaxRetries,     \* bound: retries of a station
    MaxFailures     \* bound: reports whose parse fails

ASSUME SamplesAssumption ==
    /\ Modulus \in Nat /\ MaxBytes \in Nat /\ MaxRetries \in Nat
    /\ MaxBytes < Modulus /\ MaxRetries < Modulus
    /\ MaxFailures \in Nat

VARIABLES
    assoc, fresh,       \* associated stations; those new since the last report
    bytes, retries, ap, \* the device's counters
    got_base, base,     \* AP::got_base and what is used of AP::tp_base_
    carried,            \* history: bytes really moved, per station and by the AP
    retried,            \* history: retries, per station
    summed,             \* history: the sum of the stored deltas
    failures,           \* what MaxFailures counts
    missed,             \* history: stations a failed parse has left out
    unsure              \* history: has ap restarted unnoticed, or not been read?

device == <<assoc, bytes, retries, ap, carried, retried>>
faults == <<failures, missed, unsure>>
vars   == <<device, fresh, got_base, base, summed, faults>>

Bytes   == 0..MaxBytes
Retries == 0..MaxRetries
UEs     == UNION {[S -> [bytes : Bytes, retries : Retries]] : S \in SUBSET Stations}

TypeOK ==
    /\ assoc \in SUBSET Stations /\ fresh \in SUBSET Stations
    /\ bytes \in [Stations -> Bytes] /\ retries \in [Stations -> Retries]
    /\ ap \in Bytes
    /\ got_base \in BOOLEAN
    /\ base \in [ap : Bytes, ues : UEs]
    /\ carried \in [ues : [Stations -> Bytes], ap : Bytes]
    /\ retried \in [Stations -> Retries]
    /\ summed \in [bytes : [Stations -> Nat], retries : [Stations -> Nat], ap : Nat]
    /\ failures \in 0..MaxFailures /\ missed \in SUBSET Stations /\ unsure \in BOOLEAN

NoUEs == [s \in {} |-> 0]
Zero  == [s \in Stations |-> 0]

Init ==
    /\ assoc = {} /\ fresh = {}
    /\ bytes = Zero /\ retries = Zero /\ ap = 0
    /\ got_base = FALSE /\ base = [ap |-> 0, ues |-> NoUEs]
    /\ carried = [ues |-> Zero, ap |-> 0] /\ retried = Zero
    /\ summed = [bytes |-> Zero, retries |-> Zero, ap |-> 0]
    /\ failures = 0 /\ missed = {} /\ unsure = FALSE
-----------------------------------------------------------------------------
(* The device and its stations (external).                                 *)

\* A station moves a byte; the device moves at least as many.
Transfer(s) ==
    /\ s \in assoc /\ carried.ap < MaxBytes /\ carried.ues[s] < MaxBytes
    /\ bytes[s] < MaxBytes /\ ap < MaxBytes
    /\ bytes' = [bytes EXCEPT ![s] = @ + 1]
    /\ ap' = ap + 1
    /\ carried' = [ues |-> [carried.ues EXCEPT ![s] = @ + 1], ap |-> carried.ap + 1]
    /\ UNCHANGED <<assoc, retries, retried, fresh, got_base, base, summed, faults>>

Retry(s) ==
    /\ s \in assoc /\ retried[s] < MaxRetries /\ retries[s] < MaxRetries
    /\ retries' = [retries EXCEPT ![s] = @ + 1]
    /\ retried' = [retried EXCEPT ![s] = @ + 1]
    /\ UNCHANGED <<assoc, bytes, ap, carried, fresh, got_base, base, summed, faults>>

\* A new association counts from zero.
Associate(s) ==
    /\ s \notin assoc
    /\ assoc' = assoc \cup {s} /\ fresh' = fresh \cup {s}
    /\ bytes' = [bytes EXCEPT ![s] = 0] /\ retries' = [retries EXCEPT ![s] = 0]
    /\ UNCHANGED <<ap, carried, retried, got_base, base, summed, faults>>

Leave(s) ==
    /\ s \in assoc /\ assoc' = assoc \ {s}
    /\ UNCHANGED <<bytes, retries, ap, carried, retried, fresh, got_base, base, summed,
                   faults>>

\* The device restarts, and its gateway's disconnection is handled before the
\* next report.
Restart ==
    /\ assoc' = {} /\ ap' = 0
    /\ got_base' = FALSE
    /\ UNCHANGED <<bytes, retries, carried, retried, fresh, base, summed, faults>>

\* The device restarts, and no disconnection is handled in between.
SilentRestart ==
    /\ assoc' = {} /\ ap' = 0
    /\ unsure' = TRUE
    /\ UNCHANGED <<bytes, retries, carried, retried, fresh, got_base, base, summed,
                   failures, missed>>

\* UpdateConnection, disconnection: got_base is cleared.
Disconnection ==
    /\ got_base' = FALSE
    /\ UNCHANGED <<device, fresh, base, summed, faults>>
-----------------------------------------------------------------------------
(* UpdateStats.                                                            *)

\* Seeded fault: signed subtraction.
MinusSigned(a, b) == a - b

\* Unsigned subtraction.
Minus(a, b) == IF b <= a THEN a - b ELSE Modulus + a - b

\* The parsed report, read as far as counters `a' and stations S.
Report(a, S) ==
    [ap |-> a, ues |-> [s \in S |-> [bytes |-> bytes[s], retries |-> retries[s]]]]

Full == Report(ap, assoc)

\* Parsing: everything, or what was read before an exception ended the parse
\* (nothing, if it came from the device's memory), with zero for the rest.
Parse ==
    {Full} \cup
    (IF failures < MaxFailures THEN {Report(a, S) : a \in {0, ap}, S \in SUBSET assoc}
     ELSE {})

\* Seeded fault: a station is an old one whenever it was there before.
new_connectionNever(old, new) == FALSE

\* A lower counter betrays a new association.
new_connection(old, new) == new.bytes < old.bytes

\* find_ue, and the deltas of one association.
UEDelta(dtp, s) ==
    LET new == dtp.ues[s]
        old == base.ues[s]
    IN  IF s \in DOMAIN base.ues /\ ~new_connection(old, new)
        THEN [bytes |-> Minus(new.bytes, old.bytes),
              retries |-> Minus(new.retries, old.retries)]
        ELSE new

APDelta(dtp) == Minus(dtp.ap, base.ap)

\* CreateRecord, seen as its contribution to the sums.
StorePoint(dtp) ==
    LET D(s) == IF s \in DOMAIN dtp.ues THEN UEDelta(dtp, s)
                ELSE [bytes |-> 0, retries |-> 0]
    IN  summed' = [bytes |-> [s \in Stations |-> summed.bytes[s] + D(s).bytes],
                   retries |-> [s \in Stations |-> summed.retries[s] + D(s).retries],
                   ap |-> summed.ap + APDelta(dtp)]

\* Seeded fault: the difference is stored without looking at got_base.
UpdateStatsNoBase(ready, dtp) ==
    /\ IF ready THEN StorePoint(dtp) ELSE UNCHANGED summed
    /\ base' = dtp /\ got_base' = TRUE /\ fresh' = {}
    /\ failures' = IF dtp = Full THEN failures ELSE failures + 1
    /\ missed' = missed \cup (assoc \ DOMAIN dtp.ues)
    /\ unsure' = (unsure \/ dtp.ap # ap)
    /\ UNCHANGED device

\* One report.  `ready' is got_connection && got_health (see Availability).
UpdateStats(ready, dtp) ==
    /\ IF got_base /\ ready THEN StorePoint(dtp) ELSE UNCHANGED summed
    /\ base' = dtp /\ got_base' = TRUE /\ fresh' = {}
    /\ failures' = IF dtp = Full THEN failures ELSE failures + 1
    /\ missed' = missed \cup (assoc \ DOMAIN dtp.ues)
    /\ unsure' = (unsure \/ dtp.ap # ap)
    /\ UNCHANGED device
-----------------------------------------------------------------------------
Next ==
    \/ \E s \in Stations : Transfer(s) \/ Retry(s) \/ Associate(s) \/ Leave(s)
    \/ Restart \/ SilentRestart \/ Disconnection
    \/ \E ready \in BOOLEAN, dtp \in Parse : UpdateStats(ready, dtp)

Spec == Init /\ [][Next]_vars
-----------------------------------------------------------------------------
\* Whatever stations come, go and come back between two reports, and however
\* often the base is lost, a parse fails or the device restarts unnoticed, the
\* stored byte deltas of a station never add up to more than it transferred,
\* unless a failed parse has left out this very station: it is then missing
\* in the base and counts as new.  (The sum may be less: a base is not stored,
\* and a new association that has overtaken the old one is taken for it.)
StationsNeverOvercount ==
    \A s \in Stations \ missed : summed.bytes[s] <= carried.ues[s]

\* The device's own deltas, which nothing guards against counters that start
\* again, do not either, as long as a disconnection is handled between every
\* restart and the next report and no failed parse reads them as zero.
DeviceNeverOvercounts == ~unsure => summed.ap <= carried.ap
=============================================================================
