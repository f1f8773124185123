--------------------------- MODULE SamplesProofs ----------------------------
(***************************************************************************)
(* Proofs about Samples: the stored deltas never add up to more than was   *)
(* transferred, for any number of stations and any width of the counters.  *)
(***************************************************************************)
EXTENDS Samples, TLAPS

\* A station that stayed since the base: what the next delta will add is
\* covered by what it transferred since.
StayedInv(s) ==
    s \in assoc /\ s \in DOMAIN base.ues /\ s \notin fresh =>
        /\ base.ues[s].bytes <= bytes[s]
        /\ summed.bytes[s] + (bytes[s] - base.ues[s].bytes) <= carried.ues[s]

\* A station that is new since the base: all it has counted is new.
ArrivedInv(s) ==
    s \in assoc /\ (s \notin DOMAIN base.ues \/ s \in fresh) =>
        summed.bytes[s] + bytes[s] <= carried.ues[s]

\* Without a base nothing is stored, and nothing is known of the counters.
SumInv(s) ==
    s \notin missed => /\ summed.bytes[s] <= carried.ues[s]
                       /\ got_base => StayedInv(s) /\ ArrivedInv(s)

StationInv == \A s \in Stations : SumInv(s)

\* With a base the device's counter has only grown since.
DeviceInv ==
    ~unsure => /\ summed.ap <= carried.ap
               /\ got_base => base.ap <= ap /\ summed.ap + (ap - base.ap) <= carried.ap

\* Unsigned subtraction stays unsigned.
LEMMA MinusType ==
    ASSUME NEW a \in Nat, NEW b \in Nat, b < Modulus
    PROVE  Minus(a, b) \in Nat
BY SamplesAssumption DEF Minus

\* What a table of associations holds.
LEMMA UEValues ==
    ASSUME NEW ues \in UEs, NEW s \in DOMAIN ues
    PROVE  s \in Stations /\ ues[s] \in [bytes : Bytes, retries : Retries]
BY DEF UEs

\* A parsed report has the type of a base.
LEMMA ParseType ==
    ASSUME TypeOK, NEW dtp \in Parse
    PROVE  dtp \in [ap : Bytes, ues : UEs]
<1>1. PICK a \in {0, ap}, S \in SUBSET assoc : dtp = Report(a, S)
  BY DEF Parse, Full
<1>2. a \in Bytes
  BY SamplesAssumption DEF TypeOK, Bytes
<1> DEFINE f == [s \in S |-> [bytes |-> bytes[s], retries |-> retries[s]]]
<1>3. S \in SUBSET Stations
  BY DEF TypeOK
<1>4. f \in [S -> [bytes : Bytes, retries : Retries]]
  BY <1>3 DEF TypeOK
<1>5. f \in UEs
  BY <1>3, <1>4 DEF UEs
<1>6. dtp = [ap |-> a, ues |-> f]
  BY <1>1 DEF Report
<1> QED
  BY <1>2, <1>5, <1>6

\* The deltas are unsigned numbers.
LEMMA DeltaType ==
    ASSUME TypeOK, NEW dtp \in [ap : Bytes, ues : UEs], NEW s \in DOMAIN dtp.ues
    PROVE  UEDelta(dtp, s).bytes \in Nat /\ UEDelta(dtp, s).retries \in Nat
<1> DEFINE new == dtp.ues[s]
           old == base.ues[s]
<1>1. new \in [bytes : Bytes, retries : Retries]
  BY UEValues
<1>2. new.bytes \in Nat /\ new.retries \in Nat
  BY <1>1, SamplesAssumption DEF Bytes, Retries
<1>3. CASE s \in DOMAIN base.ues /\ ~new_connection(old, new)
  <2>1. base.ues \in UEs
    BY DEF TypeOK
  <2>2. old \in [bytes : Bytes, retries : Retries]
    BY <1>3, <2>1, UEValues
  <2>3. /\ old.bytes \in Nat /\ old.bytes < Modulus
        /\ old.retries \in Nat /\ old.retries < Modulus
    BY <2>2, SamplesAssumption DEF Bytes, Retries
  <2>4. UEDelta(dtp, s) = [bytes |-> Minus(new.bytes, old.bytes),
                           retries |-> Minus(new.retries, old.retries)]
    BY <1>3 DEF UEDelta
  <2>5. Minus(new.bytes, old.bytes) \in Nat /\ Minus(new.retries, old.retries) \in Nat
    BY <1>2, <2>3, MinusType
  <2> QED
    BY <2>4, <2>5
<1>4. CASE ~(s \in DOMAIN base.ues /\ ~new_connection(old, new))
  <2>1. UEDelta(dtp, s) = new
    BY <1>4 DEF UEDelta
  <2> QED
    BY <1>2, <2>1
<1> QED
  BY <1>3, <1>4

\* A stored point keeps the sums natural numbers.
LEMMA StoreType ==
    ASSUME TypeOK, NEW dtp \in [ap : Bytes, ues : UEs], StorePoint(dtp)
    PROVE  summed' \in [bytes : [Stations -> Nat], retries : [Stations -> Nat], ap : Nat]
<1> DEFINE D(s) == IF s \in DOMAIN dtp.ues THEN UEDelta(dtp, s)
                   ELSE [bytes |-> 0, retries |-> 0]
<1>1. \A s \in Stations : D(s).bytes \in Nat /\ D(s).retries \in Nat
  BY DeltaType
<1>2. APDelta(dtp) \in Nat
  <2>1. dtp.ap \in Nat /\ base.ap \in Nat /\ base.ap < Modulus
    BY SamplesAssumption DEF TypeOK, Bytes
  <2> QED
    BY <2>1, MinusType DEF APDelta
<1>3. summed' = [bytes |-> [s \in Stations |-> summed.bytes[s] + D(s).bytes],
                 retries |-> [s \in Stations |-> summed.retries[s] + D(s).retries],
                 ap |-> summed.ap + APDelta(dtp)]
  BY DEF StorePoint
<1>4. /\ summed.bytes \in [Stations -> Nat] /\ summed.retries \in [Stations -> Nat]
      /\ summed.ap \in Nat
  BY DEF TypeOK
<1> HIDE DEF D
<1>5. /\ [s \in Stations |-> summed.bytes[s] + D(s).bytes] \in [Stations -> Nat]
      /\ [s \in Stations |-> summed.retries[s] + D(s).retries] \in [Stations -> Nat]
      /\ summed.ap + APDelta(dtp) \in Nat
  BY <1>1, <1>2, <1>4
<1> QED
  BY <1>3, <1>5 DEF TypeOK

\* Every action keeps the types.
LEMMA TypeStep == TypeOK /\ [Next]_vars => TypeOK'
<1> SUFFICES ASSUME TypeOK, [Next]_vars PROVE TypeOK'
  OBVIOUS
<1> USE SamplesAssumption
<1>1. ASSUME NEW s \in Stations, Transfer(s) PROVE TypeOK'
  <2>1. bytes' \in [Stations -> Bytes] /\ ap' \in Bytes
    BY <1>1 DEF TypeOK, Transfer, Bytes
  <2>2. carried.ues \in [Stations -> Bytes] /\ carried.ap \in Bytes
    BY DEF TypeOK
  <2>3. [carried.ues EXCEPT ![s] = @ + 1] \in [Stations -> Bytes] /\ carried.ap + 1 \in Bytes
    BY <1>1, <2>2 DEF Transfer, Bytes
  <2>4. carried' \in [ues : [Stations -> Bytes], ap : Bytes]
    BY <1>1, <2>3 DEF Transfer
  <2> QED
    BY <1>1, <2>1, <2>4 DEF TypeOK, Transfer, faults
<1>2. ASSUME NEW s \in Stations, Retry(s) PROVE TypeOK'
  BY <1>2 DEF TypeOK, Retry, Retries, faults
<1>3. ASSUME NEW s \in Stations, Associate(s) PROVE TypeOK'
  <2>1. 0 \in Bytes /\ 0 \in Retries
    BY DEF Bytes, Retries
  <2> QED
    BY <1>3, <2>1 DEF TypeOK, Associate, faults
<1>4. ASSUME NEW s \in Stations, Leave(s) PROVE TypeOK'
  BY <1>4 DEF TypeOK, Leave, faults
<1>5. CASE Restart \/ SilentRestart
  <2>1. ap' \in Bytes
    BY <1>5 DEF Restart, SilentRestart, Bytes
  <2>2. got_base' \in BOOLEAN /\ unsure' \in BOOLEAN
    BY <1>5 DEF TypeOK, Restart, SilentRestart, faults
  <2> QED
    BY <1>5, <2>1, <2>2 DEF TypeOK, Restart, SilentRestart, faults
<1>6. CASE Disconnection
  BY <1>6 DEF TypeOK, Disconnection, device, faults
<1>7. ASSUME NEW r \in BOOLEAN, NEW dtp \in Parse, UpdateStats(r, dtp) PROVE TypeOK'
  <2>1. dtp \in [ap : Bytes, ues : UEs]
    BY ParseType
  <2>2. base' \in [ap : Bytes, ues : UEs] /\ got_base' \in BOOLEAN /\ fresh' \in SUBSET Stations
    BY <1>7, <2>1 DEF UpdateStats
  <2>3. summed' \in [bytes : [Stations -> Nat], retries : [Stations -> Nat], ap : Nat]
    <3>1. CASE StorePoint(dtp)
      BY <2>1, <3>1, StoreType
    <3>2. CASE UNCHANGED summed
      BY <3>2 DEF TypeOK
    <3> QED
      BY <1>7, <3>1, <3>2 DEF UpdateStats
  <2>4. failures' \in 0..MaxFailures
    <3>1. dtp = Full \/ failures < MaxFailures
      BY DEF Parse
    <3>2. failures' = IF dtp = Full THEN failures ELSE failures + 1
      BY <1>7 DEF UpdateStats
    <3> QED
      BY <3>1, <3>2 DEF TypeOK
  <2>5. missed' \in SUBSET Stations /\ unsure' \in BOOLEAN
    BY <1>7 DEF TypeOK, UpdateStats
  <2> QED
    BY <1>7, <2>2, <2>3, <2>4, <2>5 DEF TypeOK, UpdateStats, device
<1>8. CASE UNCHANGED vars
  BY <1>8 DEF TypeOK, vars, device, faults
<1> QED
  BY <1>1, <1>2, <1>3, <1>4, <1>5, <1>6, <1>7, <1>8 DEF Next

\* Counters, sums and the base keep their types: unsigned numbers.
THEOREM TypeCorrect == Spec => []TypeOK
<1>1. Init => TypeOK
  <2> SUFFICES ASSUME Init PROVE TypeOK
    OBVIOUS
  <2>1. 0 \in Bytes /\ 0 \in Retries
    BY SamplesAssumption DEF Bytes, Retries
  <2>2. NoUEs \in UEs
    <3>1. NoUEs \in [{} -> [bytes : Bytes, retries : Retries]]
      BY DEF NoUEs
    <3> QED
      BY <3>1 DEF UEs
  <2>3. Zero \in [Stations -> Bytes] /\ Zero \in [Stations -> Retries] /\ Zero \in [Stations -> Nat]
    BY <2>1 DEF Zero
  <2>4. 0 \in 0..MaxFailures
    BY SamplesAssumption
  <2> QED
    BY <2>1, <2>2, <2>3, <2>4 DEF Init, TypeOK
<1> QED
  BY <1>1, TypeStep, PTL DEF Spec

\* What a report has read of an associated station is as it is.
LEMMA Parsed ==
    ASSUME NEW dtp \in Parse
    PROVE  /\ DOMAIN dtp.ues \subseteq assoc
           /\ \A s \in DOMAIN dtp.ues : dtp.ues[s].bytes = bytes[s]
<1>1. PICK a \in {0, ap}, S \in SUBSET assoc : dtp = Report(a, S)
  BY DEF Parse, Full
<1> QED
  BY <1>1 DEF Report

\* The numbers of one station.
LEMMA Numbers ==
    ASSUME TypeOK, NEW s \in Stations
    PROVE  /\ bytes[s] \in Nat /\ summed.bytes[s] \in Nat /\ carried.ues[s] \in Nat
           /\ s \in DOMAIN base.ues => base.ues[s].bytes \in Nat
<1>1. base.ues \in UEs
  BY DEF TypeOK
<1> QED
  BY <1>1, UEValues, SamplesAssumption DEF TypeOK, Bytes

\* The delta of a station that a report has read.
LEMMA DeltaOf ==
    ASSUME TypeOK, NEW dtp \in Parse, NEW s \in Stations, s \in DOMAIN dtp.ues
    PROVE  UEDelta(dtp, s).bytes =
               IF s \in DOMAIN base.ues /\ base.ues[s].bytes <= bytes[s]
               THEN bytes[s] - base.ues[s].bytes
               ELSE bytes[s]
<1> DEFINE new == dtp.ues[s]
           D   == UEDelta(dtp, s)
<1>2. new.bytes = bytes[s]
  BY Parsed
<1>3. D =
        IF s \in DOMAIN base.ues /\ ~new_connection(base.ues[s], new)
        THEN [bytes |-> Minus(new.bytes, base.ues[s].bytes),
              retries |-> Minus(new.retries, base.ues[s].retries)]
        ELSE new
  BY DEF UEDelta
<1> HIDE DEF new, D
<1>4. new_connection(base.ues[s], new) <=> bytes[s] < base.ues[s].bytes
  BY <1>2 DEF new_connection
<1>5. CASE s \in DOMAIN base.ues /\ base.ues[s].bytes <= bytes[s]
  <2>1. ~new_connection(base.ues[s], new)
    BY <1>4, <1>5, Numbers
  <2>2. D = [bytes |-> Minus(new.bytes, base.ues[s].bytes),
             retries |-> Minus(new.retries, base.ues[s].retries)]
    BY <1>3, <1>5, <2>1
  <2>3. D.bytes = Minus(bytes[s], base.ues[s].bytes)
    BY <1>2, <2>2
  <2>4. D.bytes = bytes[s] - base.ues[s].bytes
    BY <1>5, <2>3 DEF Minus
  <2> QED
    BY <1>5, <2>4 DEF D
<1>6. CASE ~(s \in DOMAIN base.ues /\ base.ues[s].bytes <= bytes[s])
  <2>1. s \notin DOMAIN base.ues \/ new_connection(base.ues[s], new)
    BY <1>4, <1>6, Numbers
  <2>2. D.bytes = bytes[s]
    BY <1>2, <1>3, <2>1
  <2> QED
    BY <1>6, <2>2 DEF D
<1> QED
  BY <1>5, <1>6

\* What one stored report adds to a station's sum is at most what the station
\* transferred since the base, or since it came.
LEMMA DeltaCovered ==
    ASSUME TypeOK, NEW dtp \in Parse, NEW s \in Stations, s \in DOMAIN dtp.ues,
           StayedInv(s), ArrivedInv(s)
    PROVE  /\ UEDelta(dtp, s).bytes \in Nat
           /\ summed.bytes[s] + UEDelta(dtp, s).bytes <= carried.ues[s]
<1> DEFINE d == UEDelta(dtp, s).bytes
<1>1. d = IF s \in DOMAIN base.ues /\ base.ues[s].bytes <= bytes[s]
          THEN bytes[s] - base.ues[s].bytes
          ELSE bytes[s]
  BY DeltaOf
<1>2. s \in assoc
  BY Parsed
<1> HIDE DEF d
<1>3. d \in Nat
  BY <1>1, Numbers
<1>4. summed.bytes[s] + d <= carried.ues[s]
  BY <1>1, <1>2, Numbers DEF StayedInv, ArrivedInv
<1> QED
  BY <1>3, <1>4 DEF d

\* Every action keeps StationInv.
LEMMA StationStep == TypeOK /\ StationInv /\ [Next]_vars => StationInv'
<1> SUFFICES ASSUME TypeOK, StationInv, [Next]_vars, NEW s \in Stations PROVE SumInv(s)'
  BY DEF StationInv
<1>n. /\ bytes[s] \in Nat /\ summed.bytes[s] \in Nat /\ carried.ues[s] \in Nat
      /\ s \in DOMAIN base.ues => base.ues[s].bytes \in Nat
  BY Numbers
<1>h. SumInv(s)
  BY DEF StationInv
<1>1. ASSUME NEW u \in Stations, Transfer(u) PROVE SumInv(s)'
  <2>0. missed' = missed
    BY <1>1 DEF Transfer, faults
  <2>1. CASE u = s
    <3>1. bytes'[s] = bytes[s] + 1 /\ carried'.ues[s] = carried.ues[s] + 1
      BY <1>1, <2>1 DEF Transfer, TypeOK
    <3> QED
      BY <1>1, <1>n, <1>h, <2>0, <3>1 DEF Transfer, SumInv, StayedInv, ArrivedInv
  <2>2. CASE u # s
    <3>1. bytes'[s] = bytes[s] /\ carried'.ues[s] = carried.ues[s]
      BY <1>1, <2>2 DEF Transfer, TypeOK
    <3> QED
      BY <1>1, <1>h, <2>0, <3>1 DEF Transfer, SumInv, StayedInv, ArrivedInv
  <2> QED
    BY <2>1, <2>2
<1>2. ASSUME NEW u \in Stations, Retry(u) PROVE SumInv(s)'
  BY <1>2, <1>h DEF Retry, SumInv, StayedInv, ArrivedInv, faults
<1>3. ASSUME NEW u \in Stations, Associate(u) PROVE SumInv(s)'
  <2>0. missed' = missed
    BY <1>3 DEF Associate, faults
  <2>1. CASE u = s
    <3>1. bytes'[s] = 0 /\ s \in fresh'
      BY <1>3, <2>1 DEF Associate, TypeOK
    <3> QED
      BY <1>3, <1>n, <1>h, <2>0, <3>1 DEF Associate, SumInv, StayedInv, ArrivedInv
  <2>2. CASE u # s
    <3>1. bytes'[s] = bytes[s] /\ (s \in fresh' <=> s \in fresh) /\ (s \in assoc' <=> s \in assoc)
      BY <1>3, <2>2 DEF Associate, TypeOK
    <3> QED
      BY <1>3, <1>h, <2>0, <3>1 DEF Associate, SumInv, StayedInv, ArrivedInv
  <2> QED
    BY <2>1, <2>2
<1>4. ASSUME NEW u \in Stations, Leave(u) PROVE SumInv(s)'
  <2>1. (s \in assoc' => s \in assoc) /\ missed' = missed
    BY <1>4 DEF Leave, faults
  <2> QED
    BY <1>4, <1>h, <2>1 DEF Leave, SumInv, StayedInv, ArrivedInv
<1>5. CASE Restart \/ SilentRestart
  BY <1>5, <1>h DEF Restart, SilentRestart, SumInv, StayedInv, ArrivedInv, faults
<1>6. CASE Disconnection
  BY <1>6, <1>h DEF Disconnection, device, faults, SumInv
<1>7. ASSUME NEW r \in BOOLEAN, NEW dtp \in Parse, UpdateStats(r, dtp) PROVE SumInv(s)'
  <2> SUFFICES ASSUME s \notin missed'
               PROVE  /\ summed'.bytes[s] <= carried'.ues[s]
                      /\ StayedInv(s)' /\ ArrivedInv(s)'
    BY DEF SumInv
  <2>0. s \notin missed /\ (s \in assoc => s \in DOMAIN dtp.ues)
    BY <1>7 DEF UpdateStats
  <2>1. base' = dtp /\ fresh' = {} /\ assoc' = assoc /\ bytes' = bytes /\ carried' = carried
    BY <1>7 DEF UpdateStats, device
  <2>2. summed'.bytes[s] <= carried'.ues[s] /\ summed'.bytes[s] \in Nat
    <3>1. CASE got_base /\ StorePoint(dtp)
      <4>1. summed'.bytes[s] =
              summed.bytes[s] + (IF s \in DOMAIN dtp.ues THEN UEDelta(dtp, s).bytes ELSE 0)
        BY <3>1 DEF StorePoint
      <4>2. CASE s \in DOMAIN dtp.ues
        <5> DEFINE d == UEDelta(dtp, s).bytes
        <5>0. StayedInv(s) /\ ArrivedInv(s)
          BY <1>h, <2>0, <3>1 DEF SumInv
        <5>1. d \in Nat /\ summed.bytes[s] + d <= carried.ues[s]
          BY <4>2, <5>0, DeltaCovered
        <5>2. summed'.bytes[s] = summed.bytes[s] + d
          BY <4>1, <4>2
        <5> HIDE DEF d
        <5> QED
          BY <1>n, <2>1, <5>1, <5>2
      <4>3. CASE s \notin DOMAIN dtp.ues
        BY <1>n, <1>h, <2>0, <2>1, <4>1, <4>3 DEF SumInv
      <4> QED
        BY <4>2, <4>3
    <3>2. CASE UNCHANGED summed
      BY <1>n, <1>h, <2>0, <2>1, <3>2 DEF SumInv
    <3> QED
      BY <1>7, <3>1, <3>2 DEF UpdateStats
  <2>3. s \in assoc => dtp.ues[s].bytes = bytes[s]
    BY <2>0, Parsed
  <2>4. s \in assoc' => s \in DOMAIN base'.ues /\ s \notin fresh'
                          /\ base'.ues[s].bytes = bytes'[s]
    BY <2>0, <2>1, <2>3
  <2>5. bytes'[s] \in Nat /\ carried'.ues[s] \in Nat
    BY <1>n, <2>1
  <2> QED
    BY <2>2, <2>4, <2>5 DEF StayedInv, ArrivedInv
<1>8. CASE UNCHANGED vars
  BY <1>8, <1>h DEF vars, device, faults, SumInv, StayedInv, ArrivedInv
<1> QED
  BY <1>1, <1>2, <1>3, <1>4, <1>5, <1>6, <1>7, <1>8 DEF Next

\* The stored byte deltas of a station (UpdateStats) never add up to more than
\* it transferred, unless a failed parse has left this station out: whatever
\* new_connection mistakes, and even if devices restart silently.
THEOREM StationSumsAreSafe == Spec => []StationsNeverOvercount
<1>1. Init => StationInv
  <2> SUFFICES ASSUME Init, NEW s \in Stations
               PROVE  summed.bytes[s] <= carried.ues[s] /\ ~got_base
    BY DEF StationInv, SumInv
  <2>1. summed.bytes = Zero /\ carried.ues = Zero /\ got_base = FALSE
    BY DEF Init
  <2> QED
    BY <2>1 DEF Zero
<1>2. TypeOK /\ StationInv /\ [Next]_vars => StationInv'
  BY StationStep
<1>3. StationInv => StationsNeverOvercount
  BY DEF StationInv, SumInv, StationsNeverOvercount
<1> QED
  BY <1>1, <1>2, <1>3, TypeCorrect, PTL DEF Spec

\* Every action keeps DeviceInv.
LEMMA DeviceStep == TypeOK /\ DeviceInv /\ [Next]_vars => DeviceInv'
<1> SUFFICES ASSUME TypeOK, DeviceInv, [Next]_vars PROVE DeviceInv'
  OBVIOUS
<1>n. ap \in Nat /\ base.ap \in Nat /\ summed.ap \in Nat /\ carried.ap \in Nat
  BY SamplesAssumption DEF TypeOK, Bytes
<1>1. ASSUME NEW u \in Stations, Transfer(u) PROVE DeviceInv'
  <2>1. ap' = ap + 1 /\ carried'.ap = carried.ap + 1 /\ unsure' = unsure
    BY <1>1 DEF Transfer, faults
  <2> QED
    BY <1>1, <1>n, <2>1 DEF Transfer, DeviceInv
<1>2. CASE UNCHANGED <<ap, base, got_base, summed, carried, unsure>>
  BY <1>2 DEF DeviceInv
<1>3. CASE Restart
  <2>1. got_base' = FALSE /\ unsure' = unsure
    BY <1>3 DEF Restart, faults
  <2> QED
    BY <1>3, <2>1 DEF Restart, DeviceInv
<1>4. CASE SilentRestart
  BY <1>4 DEF SilentRestart, DeviceInv
<1>5. CASE Disconnection
  BY <1>5 DEF Disconnection, device, faults, DeviceInv
<1>6. ASSUME NEW r \in BOOLEAN, NEW dtp \in Parse, UpdateStats(r, dtp) PROVE DeviceInv'
  <2> SUFFICES ASSUME ~unsure' PROVE DeviceInv'
    BY DEF DeviceInv
  <2>0. ~unsure /\ dtp.ap = ap
    BY <1>6 DEF UpdateStats
  <2>1. base'.ap = ap /\ ap' = ap /\ carried' = carried
    BY <1>6, <2>0 DEF UpdateStats, device
  <2>2. CASE got_base /\ StorePoint(dtp)
    <3>1. APDelta(dtp) = ap - base.ap
      BY <1>n, <2>0, <2>2 DEF APDelta, Minus, DeviceInv
    <3>2. summed'.ap = summed.ap + (ap - base.ap)
      BY <2>2, <3>1 DEF StorePoint
    <3> QED
      BY <1>n, <2>0, <2>1, <2>2, <3>2 DEF DeviceInv
  <2>3. CASE UNCHANGED summed
    BY <1>n, <2>0, <2>1, <2>3 DEF DeviceInv
  <2> QED
    BY <1>6, <2>2, <2>3 DEF UpdateStats
<1> QED
  BY <1>1, <1>2, <1>3, <1>4, <1>5, <1>6
  DEF Next, Retry, Associate, Leave, vars, device, faults

\* If every restart is followed by a handled disconnection and no failed parse
\* reads the device's counters as zero, the unguarded subtractions of ap_data
\* never wrap and never overcount.
THEOREM DeviceSumsAreSafe == Spec => []DeviceNeverOvercounts
<1>1. Init => DeviceInv
  BY DEF Init, DeviceInv
<1>2. TypeOK /\ DeviceInv /\ [Next]_vars => DeviceInv'
  BY DeviceStep
<1>3. DeviceInv => DeviceNeverOvercounts
  BY DEF DeviceInv, DeviceNeverOvercounts
<1> QED
  BY <1>1, <1>2, <1>3, TypeCorrect, PTL DEF Spec
=============================================================================
