-------------------------- MODULE RetentionProofs --------------------------
(* Theorems about Retention, for every number of boards, page size and     *)
(* choice of retentions, first alone and then composed with ClientCache.   *)
EXTENDS ClientCache, TLAPS

\* A page at hand holds boards that exist or existed, each with a retention
\* it had during this round, and was read no later than now.
PageInv ==
    /\ now <= clock
    /\ ToSet(order) \cap fresh = {}
    /\ pc # "idle" => \A b \in Boards : EffectiveBoardRetention(rets[b]) \in held[b]
    /\ \A i \in DOMAIN page :
         /\ page[i].id \notin fresh
         /\ EffectiveBoardRetention(page[i].rets) \in held[page[i].id]
    /\ pc = "idle" => page = <<>>
    /\ pc \in {"points", "events"} => page # <<>>
    /\ pc = "events" => EffectiveBoardRetention(Head(page).rets) # 0

IndInv == TypeOK /\ PageInv

LEMMA RetentionIsNat ==
    ASSUME NEW R \in VenueLists
    PROVE  EffectiveBoardRetention(R) \in Nat
BY RetentionAssumption DEF EffectiveBoardRetention

\* What a query returns are rows of the table.
LEMMA RangeOfQuery ==
    ASSUME NEW s \in Seq(Boards), NEW off \in Nat, NEW n \in Nat
    PROVE  /\ ComputeRange(s, off, n) \in Seq(Boards)
           /\ \A i \in DOMAIN ComputeRange(s, off, n) :
                  \E j \in DOMAIN s : ComputeRange(s, off, n)[i] = s[j]
<1> DEFINE top == IF Len(s) < off + n THEN Len(s) ELSE off + n
<1>1. top \in Nat /\ top <= Len(s)  OBVIOUS
<1>2. ComputeRange(s, off, n) = SubSeq(s, off + 1, top)  BY DEF ComputeRange
<1> HIDE DEF top
<1> QED BY <1>1, <1>2

LEMMA EmptyLen == \A s : s = <<>> => Len(s) = 0
OBVIOUS

LEMMA TailOfPage ==
    ASSUME NEW p \in Seq(Entry), p # <<>>
    PROVE  /\ Head(p) \in Entry /\ Head(p) = p[1] /\ 1 \in DOMAIN p
           /\ Tail(p) \in Seq(Entry)
           /\ \A i \in DOMAIN Tail(p) : i + 1 \in DOMAIN p /\ Tail(p)[i] = p[i + 1]
OBVIOUS

LEMMA InsertedRow ==
    ASSUME NEW s \in Seq(Boards), NEW b \in Boards, NEW i \in 1..Len(s) + 1
    PROVE  /\ InsertAt(s, i, b) \in Seq(Boards)
           /\ ToSet(InsertAt(s, i, b)) \subseteq ToSet(s) \cup {b}
<1>1. SubSeq(s, 1, i - 1) \in Seq(Boards) /\ SubSeq(s, i, Len(s)) \in Seq(Boards)  OBVIOUS
<1>2. InsertAt(s, i, b) \in Seq(Boards)  BY <1>1 DEF InsertAt
<1>3. ASSUME NEW k \in DOMAIN InsertAt(s, i, b)
      PROVE  InsertAt(s, i, b)[k] \in ToSet(s) \cup {b}
  <2>1. CASE k < i
    <3>1. InsertAt(s, i, b)[k] = s[k] /\ k \in DOMAIN s  BY <2>1, <1>1 DEF InsertAt
    <3> QED BY <3>1 DEF ToSet
  <2>2. CASE k = i  BY <2>2, <1>1 DEF InsertAt, ToSet
  <2>3. CASE k > i
    <3> DEFINE t == SubSeq(s, 1, i - 1) \o <<b>>
               u == SubSeq(s, i, Len(s))
    <3>1. t \in Seq(Boards) /\ Len(t) = i  BY <1>1
    <3>2. u \in Seq(Boards) /\ Len(u) = Len(s) - i + 1
          /\ \A j \in 1..Len(u) : u[j] = s[j + i - 1]  BY <1>1
    <3>3. InsertAt(s, i, b) = t \o u  BY DEF InsertAt
    <3> HIDE DEF t, u
    <3>4. PICK j \in 1..Len(u) : k = i + j /\ InsertAt(s, i, b)[k] = u[j]
      <4>1. k \in Nat /\ i \in Nat /\ k - i \in 1..Len(u)  BY <1>2, <2>3, <3>1, <3>2, <3>3
      <4>2. InsertAt(s, i, b)[k] = u[k - i]  BY <4>1, <3>1, <3>2, <3>3, <2>3
      <4> QED BY <4>1, <4>2
    <3>5. u[j] = s[j + i - 1]  BY <3>2
    <3>6. j + i - 1 \in 1..Len(s)  BY <3>2
    <3>7. InsertAt(s, i, b)[k] = s[j + i - 1] /\ j + i - 1 \in DOMAIN s  BY <3>4, <3>5, <3>6
    <3> QED BY <3>7 DEF ToSet
  <2> QED BY <2>1, <2>2, <2>3, <1>2
<1> QED BY <1>2, <1>3 DEF ToSet

LEMMA RemovedRow ==
    ASSUME NEW s \in Seq(Boards), NEW i \in DOMAIN s
    PROVE  /\ RemoveAt(s, i) \in Seq(Boards)
           /\ ToSet(RemoveAt(s, i)) \subseteq ToSet(s)
<1>1. SubSeq(s, 1, i - 1) \in Seq(Boards) /\ SubSeq(s, i + 1, Len(s)) \in Seq(Boards)  OBVIOUS
<1>2. RemoveAt(s, i) \in Seq(Boards)  BY <1>1 DEF RemoveAt
<1>3. ASSUME NEW k \in DOMAIN RemoveAt(s, i)
      PROVE  RemoveAt(s, i)[k] \in ToSet(s)
  <2>1. CASE k < i  BY <2>1, <1>1 DEF RemoveAt, ToSet
  <2>2. CASE k >= i
    <3> DEFINE t == SubSeq(s, 1, i - 1)
               u == SubSeq(s, i + 1, Len(s))
    <3>9. k \in 1..Len(RemoveAt(s, i)) /\ i \in 1..Len(s) /\ Len(s) \in Nat  BY <1>2
    <3>2. Len(t) = i - 1 /\ Len(u) = Len(s) - i /\ \A j \in 1..Len(u) : u[j] = s[j + i]  BY <1>1
    <3>3. RemoveAt(s, i) = t \o u  BY DEF RemoveAt
    <3>10. t \in Seq(Boards) /\ u \in Seq(Boards)  BY <1>1
    <3> HIDE DEF t, u
    <3>8. Len(t \o u) = Len(t) + Len(u)  BY <3>10
    <3>4. k \in 1..Len(t) + Len(u) /\ Len(t) < k  BY <2>2, <3>2, <3>3, <3>8, <3>9
    <3>5. RemoveAt(s, i)[k] = u[k - Len(t)]  BY <3>10, <3>3, <3>4
    <3>13. Len(t) = i - 1 /\ Len(u) = Len(s) - i  BY <3>2
    <3>17. i \in Nat /\ k \in Nat  BY <3>9
    <3>14. i \in Nat /\ k \in Nat /\ i <= k  BY <2>2, <3>17
    <3>15. Len(t) + Len(u) = Len(s) - 1  BY <3>9, <3>13, <3>14
    <3>16. k <= Len(s) - 1  BY <3>4, <3>9, <3>15
    <3>12. k \in Nat /\ i \in Nat /\ i <= k /\ k + 1 <= Len(s)  BY <3>9, <3>14, <3>16
    <3>6. k - Len(t) \in 1..Len(u)  BY <3>12, <3>13, <3>9
    <3>11. k - Len(t) + i = k + 1 /\ k + 1 \in 1..Len(s)  BY <3>12, <3>13, <3>9
    <3>7. u[k - Len(t)] = s[k + 1]  BY <3>2, <3>6, <3>11
    <3>1. RemoveAt(s, i)[k] = s[k + 1] /\ k + 1 \in DOMAIN s  BY <3>5, <3>11, <3>7
    <3> QED BY <3>1 DEF ToSet
  <2> QED BY <2>1, <2>2, <1>2
<1> QED BY <1>2, <1>3 DEF ToSet

-----------------------------------------------------------------------------
LEMMA Empties == <<>> \in Seq(Entry) /\ [b \in Boards |-> {}] \in [Boards -> SUBSET Nat]
<1>1. <<>> \in Seq(Entry)  OBVIOUS
<1>2. [b \in Boards |-> {}] \in [Boards -> SUBSET Nat]  OBVIOUS
<1> QED BY <1>1, <1>2

LEMMA InitInv == Init => IndInv
<1> SUFFICES ASSUME Init PROVE IndInv  OBVIOUS
<1> PICK s \in Scenarios : /\ clock = s.clock /\ order = s.order /\ rets = s.rets
                           /\ rows = s.rows /\ budget = s.budget
    BY DEF Init
<1>0. /\ s.order \in Seq(Boards) /\ s.rets \in [Boards -> VenueLists]
      /\ s.rows \in [Tables -> [Boards -> SUBSET Times]]
      /\ s.clock \in Times /\ s.budget \in [Budgeted -> Nat]
      /\ 1 \in Times
    BY RetentionAssumption DEF Times
<1>1. TypeOK  BY <1>0, Empties DEF Init, TypeOK, PCs
<1>2. PageInv  BY <1>1 DEF Init, PageInv, TypeOK, Times
<1> QED BY <1>1, <1>2 DEF IndInv

LEMMA SpendType ==
    ASSUME budget \in [Budgeted -> Nat], NEW w \in Budgeted, Spend(w)
    PROVE  budget' \in [Budgeted -> Nat]
<1>1. budget[w] - 1 \in Nat  BY DEF Spend
<1> QED BY <1>1 DEF Spend

LEMMA PageEntry ==
    ASSUME TypeOK, NEW i \in DOMAIN page
    PROVE  page[i] \in Entry /\ page[i].id \in Boards
<1>1. page \in Seq(Entry)  BY DEF TypeOK
<1>2. page[i] \in Entry  BY <1>1
<1> QED BY <1>2 DEF Entry

\* What the others do leaves the page at hand valid.
LEMMA OthersKeepInv ==
    ASSUME IndInv,
           \/ Tick
           \/ \E b \in Boards, R \in VenueLists : BoardAdded(b, R) \/ BoardChanged(b, R)
           \/ \E b \in Boards : BoardRemoved(b)
           \/ \E tab \in Tables, b \in Boards : RowInserted(tab, b)
    PROVE  IndInv'
<1> USE DEF IndInv
<1>1. CASE Tick
  <2>1. clock' \in Times /\ clock' > clock  BY <1>1, RetentionAssumption DEF Tick, TypeOK, Times
  <2>2. budget' \in [Budgeted -> Nat]  BY <1>1, SpendType DEF Tick, TypeOK, Budgeted
  <2>3. TypeOK'  BY <1>1, <2>1, <2>2 DEF Tick, TypeOK, round
  <2>4. PageInv'  BY <1>1, <2>1 DEF Tick, TypeOK, PageInv, Times, round
  <2> QED BY <2>3, <2>4
<1>2. ASSUME NEW b \in Boards, NEW R \in VenueLists, BoardAdded(b, R)
      PROVE  IndInv'
  <2> DEFINE e == EffectiveBoardRetention(R)
  <2>0. e \in Nat  BY RetentionIsNat
  <2>1. budget' \in [Budgeted -> Nat]  BY <1>2, SpendType DEF BoardAdded, TypeOK, Budgeted
  <2>2. order' \in Seq(Boards) /\ ToSet(order') \subseteq ToSet(order) \cup {b}
      BY <1>2, InsertedRow DEF BoardAdded, TypeOK
  <2>3. InRound({e}) \in SUBSET Nat /\ (pc # "idle" => InRound({e}) = {e})
      BY <2>0 DEF InRound
  <2> HIDE DEF e
  <2>4. rets' = [rets EXCEPT ![b] = R] /\ held' = [held EXCEPT ![b] = InRound({e})]
      BY <1>2 DEF BoardAdded, e
  <2>5. /\ fresh' = fresh \ {b} /\ b \in fresh /\ quiet' = FALSE
        /\ UNCHANGED <<clock, rows, clients, pc, start, page, now, size, began>>
      BY <1>2 DEF BoardAdded, round
  <2>6. TypeOK'  BY <2>1, <2>2, <2>3, <2>4, <2>5 DEF TypeOK
  <2>7. \A c \in Boards : c # b => held'[c] = held[c] /\ rets'[c] = rets[c]
      BY <2>4 DEF TypeOK
  <2>8. held'[b] = InRound({e}) /\ rets'[b] = R  BY <2>4 DEF TypeOK
  <2>9. pc' # "idle" => \A c \in Boards : EffectiveBoardRetention(rets'[c]) \in held'[c]
    <3> SUFFICES ASSUME pc' # "idle", NEW c \in Boards
                 PROVE  EffectiveBoardRetention(rets'[c]) \in held'[c]
      OBVIOUS
    <3>1. pc # "idle" /\ EffectiveBoardRetention(rets[c]) \in held[c]
      BY <2>5 DEF PageInv
    <3>2. CASE c # b
      <4>1. held'[c] = held[c] /\ rets'[c] = rets[c]  BY <2>7, <3>2
      <4> QED BY <3>1, <4>1
    <3>3. CASE c = b
      <4>1. e \in held'[b]  BY <2>3, <2>8, <3>1
      <4>2. EffectiveBoardRetention(rets'[b]) = e  BY <2>8 DEF e
      <4> QED BY <3>3, <4>1, <4>2
    <3> QED BY <3>2, <3>3
  <2>10. ASSUME NEW i \in DOMAIN page'
         PROVE  /\ page'[i].id \notin fresh'
                /\ EffectiveBoardRetention(page'[i].rets) \in held'[page'[i].id]
    <3>1. i \in DOMAIN page /\ page' = page /\ page[i].id \in Boards
        BY <2>5, PageEntry
    <3>2. page[i].id # b /\ page[i].id \notin fresh  BY <3>1, <2>5 DEF PageInv
    <3> QED BY <3>1, <3>2, <2>5, <2>7 DEF PageInv
  <2>11. ToSet(order') \cap fresh' = {}  BY <2>2, <2>5 DEF PageInv
  <2> QED BY <2>5, <2>6, <2>9, <2>10, <2>11 DEF PageInv
<1>3. ASSUME NEW b \in Boards, NEW R \in VenueLists, BoardChanged(b, R)
      PROVE  IndInv'
  <2> DEFINE e == EffectiveBoardRetention(R)
  <2>0. e \in Nat  BY RetentionIsNat
  <2>1. budget' \in [Budgeted -> Nat]  BY <1>3, SpendType DEF BoardChanged, TypeOK, Budgeted
  <2>2. order' \in Seq(Boards) /\ ToSet(order') \subseteq ToSet(order)
    <3>1. PICK i \in DOMAIN order :
              order[i] = b /\ order' \in {order, Append(RemoveAt(order, i), b)}
        BY <1>3 DEF BoardChanged
    <3>2. RemoveAt(order, i) \in Seq(Boards) /\ ToSet(RemoveAt(order, i)) \subseteq ToSet(order)
        BY RemovedRow DEF TypeOK
    <3>3. b \in ToSet(order)  BY <3>1 DEF ToSet
    <3>4. ASSUME NEW k \in DOMAIN Append(RemoveAt(order, i), b)
          PROVE  Append(RemoveAt(order, i), b)[k] \in ToSet(RemoveAt(order, i)) \cup {b}
        BY <3>2 DEF ToSet
    <3>5. ToSet(Append(RemoveAt(order, i), b)) \subseteq ToSet(order)
        BY <3>2, <3>3, <3>4 DEF ToSet
    <3>6. Append(RemoveAt(order, i), b) \in Seq(Boards)  BY <3>2
    <3>7. order \in Seq(Boards)  BY DEF TypeOK
    <3> QED BY <3>1, <3>5, <3>6, <3>7
  <2>3. InRound({e}) \in SUBSET Nat /\ (pc # "idle" => InRound({e}) = {e})
      BY <2>0 DEF InRound
  <2> HIDE DEF e
  <2>4. rets' = [rets EXCEPT ![b] = R] /\ held' = [held EXCEPT ![b] = @ \cup InRound({e})]
      BY <1>3 DEF BoardChanged, e
  <2>5. quiet' = FALSE /\ UNCHANGED <<clock, fresh, rows, clients, pc, start, page, now, size, began>>
      BY <1>3 DEF BoardChanged, round
  <2>6. TypeOK'  BY <2>1, <2>2, <2>3, <2>4, <2>5 DEF TypeOK
  <2>7. \A c \in Boards : c # b => held'[c] = held[c] /\ rets'[c] = rets[c]
      BY <2>4 DEF TypeOK
  <2>8. held'[b] = held[b] \cup InRound({e}) /\ rets'[b] = R  BY <2>4 DEF TypeOK
  <2>9. pc' # "idle" => \A c \in Boards : EffectiveBoardRetention(rets'[c]) \in held'[c]
    <3> SUFFICES ASSUME pc' # "idle", NEW c \in Boards
                 PROVE  EffectiveBoardRetention(rets'[c]) \in held'[c]
      OBVIOUS
    <3>1. pc # "idle" /\ EffectiveBoardRetention(rets[c]) \in held[c]
      BY <2>5 DEF PageInv
    <3>2. CASE c # b
      <4>1. held'[c] = held[c] /\ rets'[c] = rets[c]  BY <2>7, <3>2
      <4> QED BY <3>1, <4>1
    <3>3. CASE c = b
      <4>1. e \in held'[b]  BY <2>3, <2>8, <3>1
      <4>2. EffectiveBoardRetention(rets'[b]) = e  BY <2>8 DEF e
      <4> QED BY <3>3, <4>1, <4>2
    <3> QED BY <3>2, <3>3
  <2>10. ASSUME NEW i \in DOMAIN page'
         PROVE  /\ page'[i].id \notin fresh'
                /\ EffectiveBoardRetention(page'[i].rets) \in held'[page'[i].id]
    <3>1. i \in DOMAIN page /\ page' = page /\ page[i].id \in Boards
        BY <2>5, PageEntry
    <3> QED BY <3>1, <2>5, <2>7, <2>8 DEF PageInv
  <2> QED BY <2>2, <2>5, <2>6, <2>9, <2>10 DEF PageInv
<1>4. ASSUME NEW b \in Boards, BoardRemoved(b)
      PROVE  IndInv'
  <2>1. budget' \in [Budgeted -> Nat]  BY <1>4, SpendType DEF BoardRemoved, TypeOK, Budgeted
  <2>2. order' \in Seq(Boards) /\ ToSet(order') \subseteq ToSet(order)
      BY <1>4, RemovedRow DEF BoardRemoved, TypeOK
  <2>3. rows' \in [Tables -> [Boards -> SUBSET Times]]  BY <1>4 DEF BoardRemoved, TypeOK
  <2>4. TypeOK'  BY <1>4, <2>1, <2>2, <2>3 DEF BoardRemoved, TypeOK, round
  <2>5. PageInv'  BY <1>4, <2>2 DEF BoardRemoved, PageInv, round
  <2> QED BY <2>4, <2>5
<1>5. ASSUME NEW tab \in Tables, NEW b \in Boards, RowInserted(tab, b)
      PROVE  IndInv'
  <2>1. budget' \in [Budgeted -> Nat]  BY <1>5, SpendType DEF RowInserted, TypeOK, Budgeted
  <2>2. rows' \in [Tables -> [Boards -> SUBSET Times]]  BY <1>5 DEF RowInserted, TypeOK
  <2>3. TypeOK'  BY <1>5, <2>1, <2>2 DEF RowInserted, TypeOK, round
  <2>4. PageInv'  BY <1>5 DEF RowInserted, PageInv, round
  <2> QED BY <2>3, <2>4
<1> QED BY <1>1, <1>2, <1>3, <1>4, <1>5

\* The steps that go on to another board, or to another page.
LEMMA NextBoardKeeps ==
    ASSUME IndInv, NEW p \in Seq(Entry), NextBoard(p), size' \in Nat,
           \A i \in DOMAIN p : /\ p[i].id \notin fresh
                               /\ EffectiveBoardRetention(p[i].rets) \in held[p[i].id],
           pc # "idle", now' \in Times, now' <= clock,
           budget' \in [Budgeted -> Nat], quiet' \in BOOLEAN,
           rows' \in [Tables -> [Boards -> SUBSET Times]],
           UNCHANGED <<clock, order, rets, fresh, clients, held, began>>
    PROVE  IndInv'
<1>1. page' = p /\ pc' \in {"points", "clients", "page"} /\ (pc' = "points" => p # <<>>)
    BY DEF NextBoard
<1>2. start' \in Nat  BY DEF NextBoard, IndInv, TypeOK
<1>3. TypeOK'  BY <1>1, <1>2 DEF IndInv, TypeOK, PCs
<1>4. PageInv'  BY <1>1 DEF IndInv, PageInv
<1> QED BY <1>3, <1>4 DEF IndInv

LEMMA ExpireType ==
    ASSUME IndInv, NEW tab \in Tables, Expire(tab), page # <<>>
    PROVE  /\ rows' \in [Tables -> [Boards -> SUBSET Times]]
           /\ budget' \in [Budgeted -> Nat] /\ quiet' \in BOOLEAN
<1>1. Head(page).id \in Boards  BY TailOfPage, PageEntry DEF IndInv, TypeOK, Entry
<1>2. CASE UNCHANGED <<quiet, budget>>
           /\ rows' = [rows EXCEPT ![tab][Head(page).id] =
                {t \in @ : t >= RetentionCutoff(now, EffectiveBoardRetention(Head(page).rets))}]
    BY <1>1, <1>2 DEF IndInv, TypeOK
<1>3. CASE Spend("faults") /\ quiet' = FALSE /\ UNCHANGED rows
    BY <1>3, SpendType DEF IndInv, TypeOK, Budgeted
<1> QED BY <1>2, <1>3 DEF Expire

LEMMA CleanupKeepsInv ==
    ASSUME IndInv, Cleanup \/ Restart
    PROVE  IndInv'
<1> USE DEF IndInv
<1>0. 1 \in Times /\ \A t \in Times : 1 <= t  BY RetentionAssumption DEF Times
<1>1. CASE TimerFires
  <2>1. held' \in [Boards -> SUBSET Nat]
        /\ \A b \in Boards : held'[b] = {EffectiveBoardRetention(rets[b])}
      BY <1>1, RetentionIsNat DEF TimerFires, TypeOK
  <2>2. TypeOK'  BY <1>1, <2>1 DEF TimerFires, TypeOK, PCs
  <2>3. page = <<>>  BY <1>1 DEF TimerFires, PageInv
  <2>4. PageInv'  BY <1>1, <2>1, <2>3 DEF TimerFires, PageInv
  <2> QED BY <2>2, <2>4
<1>2. CASE ReadPage
  <2> DEFINE Batched == ComputeRange(order, start, Batch)
             Entries == [i \in 1..Len(Batched) |-> [id |-> Batched[i], rets |-> rets[Batched[i]]]]
  <2>1. /\ Batched \in Seq(Boards)
        /\ \A i \in DOMAIN Batched : Batched[i] \in Boards /\ Batched[i] \in ToSet(order)
    <3>1. /\ Batched \in Seq(Boards)
          /\ \A i \in DOMAIN Batched : \E j \in DOMAIN order : Batched[i] = order[j]
        BY RangeOfQuery, RetentionAssumption DEF TypeOK
    <3> HIDE DEF Batched
    <3>2. \A i \in DOMAIN Batched : Batched[i] \in Boards  BY <3>1
    <3> QED BY <3>1, <3>2 DEF ToSet
  <2>2. CASE Batched # <<>> /\ now' = clock /\ size' = Len(Batched) /\ NextBoard(Entries)
             /\ UNCHANGED <<quiet, budget>>
    <3>0. /\ pc = "page" /\ UNCHANGED <<clock, order, rets, fresh, rows, clients, held, began>>
        BY <1>2 DEF ReadPage
    <3> HIDE DEF Batched
    <3>1. Entries \in Seq(Entry) /\ DOMAIN Entries = DOMAIN Batched
          /\ \A i \in DOMAIN Entries : /\ Entries[i].id = Batched[i]
                                       /\ Entries[i].rets = rets[Batched[i]]
        BY <2>1 DEF TypeOK, Entry
    <3> HIDE DEF Entries
    <3>2. \A i \in DOMAIN Entries :
              /\ Entries[i].id \notin fresh
              /\ EffectiveBoardRetention(Entries[i].rets) \in held[Entries[i].id]
        BY <2>1, <3>0, <3>1 DEF PageInv
    <3>3. size' \in Nat  BY <2>1, <2>2
    <3>4. /\ now' \in Times /\ now' <= clock /\ pc # "idle"
          /\ budget' \in [Budgeted -> Nat] /\ quiet' \in BOOLEAN
          /\ rows' \in [Tables -> [Boards -> SUBSET Times]]
        BY <2>2, <3>0 DEF TypeOK, Times
    <3> QED BY <2>2, <3>0, <3>1, <3>2, <3>3, <3>4, NextBoardKeeps
  <2>3. CASE pc' = "clients" /\ UNCHANGED <<start, page, now, size>>
    <3>1. budget' \in [Budgeted -> Nat] /\ quiet' \in BOOLEAN
        BY <1>2, SpendType DEF ReadPage, TypeOK, Budgeted
    <3> QED BY <1>2, <2>3, <3>1 DEF ReadPage, TypeOK, PageInv, PCs
  <2> QED BY <1>2, <2>2, <2>3 DEF ReadPage
<1>3. ASSUME pc \in {"points", "events"}
      PROVE  /\ page # <<>> /\ Tail(page) \in Seq(Entry)
             /\ \A i \in DOMAIN Tail(page) :
                    /\ Tail(page)[i].id \notin fresh
                    /\ EffectiveBoardRetention(Tail(page)[i].rets) \in held[Tail(page)[i].id]
    BY <1>3, TailOfPage DEF TypeOK, PageInv
<1>4. CASE SkipBoard
    BY <1>3, <1>4, NextBoardKeeps DEF SkipBoard, TypeOK, PageInv
<1>5. CASE ExpirePoints
  <2>1. /\ rows' \in [Tables -> [Boards -> SUBSET Times]]
        /\ budget' \in [Budgeted -> Nat] /\ quiet' \in BOOLEAN
      BY <1>3, <1>5, ExpireType DEF ExpirePoints, Tables
  <2>2. TypeOK'  BY <1>5, <2>1 DEF ExpirePoints, TypeOK, PCs
  <2>3. PageInv'  BY <1>5 DEF ExpirePoints, PageInv
  <2> QED BY <2>2, <2>3
<1>6. CASE ExpireEvents
  <2>1. /\ rows' \in [Tables -> [Boards -> SUBSET Times]]
        /\ budget' \in [Budgeted -> Nat] /\ quiet' \in BOOLEAN
      BY <1>3, <1>6, ExpireType DEF ExpireEvents, Tables
  <2> QED BY <1>3, <1>6, <2>1, NextBoardKeeps DEF ExpireEvents, TypeOK, PageInv
<1>7. CASE ExpireClients \/ Restart
  <2>1. budget' \in [Budgeted -> Nat] /\ quiet' = FALSE
      BY <1>7, SpendType DEF ExpireClients, Restart, TypeOK, Budgeted
  <2>2. clients' \in SUBSET (Venues \X Clients \X Times)
      BY <1>7 DEF ExpireClients, Restart, TypeOK
  <2>3. /\ pc' = "idle" /\ start' = 0 /\ page' = <<>> /\ now' = 1 /\ size' = 0 /\ began' = 1
        /\ held' = [b \in Boards |-> {}]
        /\ UNCHANGED <<clock, order, rets, fresh, rows>>
      BY <1>7 DEF ExpireClients, Restart, EndRound
  <2>4. TypeOK'  BY <1>0, <2>1, <2>2, <2>3, Empties DEF TypeOK, PCs
  <2>5. PageInv'  BY <1>0, <2>3 DEF TypeOK, PageInv
  <2> QED BY <2>4, <2>5
<1> QED BY <1>1, <1>2, <1>4, <1>5, <1>6, <1>7 DEF Cleanup

THEOREM StepKeepsInv ==
    ASSUME IndInv, [Next]_vars
    PROVE  IndInv'
<1>1. CASE UNCHANGED vars  BY <1>1 DEF vars, round, IndInv, TypeOK, PageInv
<1> QED BY <1>1, OthersKeepInv, CleanupKeepsInv DEF Next, Work

\* Every value keeps its type: the paging offset never goes below zero.
THEOREM TypeCorrect == Spec => []TypeOK
<1>1. IndInv => TypeOK  BY DEF IndInv
<1> QED BY <1>1, InitInv, StepKeepsInv, PTL DEF Spec

\* A row the cleanup deletes is older than a retention its board had in the
\* round.
LEMMA ExpireDeletesOld ==
    ASSUME IndInv, pc \in {"points", "events"},
           EffectiveBoardRetention(Head(page).rets) # 0,
           NEW tab \in Tables, Expire(tab),
           NEW tb \in Tables, NEW b \in Boards, NEW t \in rows[tb][b] \ rows'[tb][b]
    PROVE  \E r \in held[b] : r # 0 /\ t + r < clock
<1> DEFINE e == Head(page)
           r == EffectiveBoardRetention(e.rets)
<1>1. page # <<>> /\ e \in Entry /\ e = page[1] /\ 1 \in DOMAIN page
    BY TailOfPage DEF IndInv, TypeOK, PageInv
<1>2. e.id \in Boards /\ r \in Nat /\ r # 0  BY <1>1, RetentionIsNat DEF Entry
<1>3. r \in held[e.id]  BY <1>1 DEF IndInv, PageInv
<1> HIDE DEF e, r
<1>4. rows' = [rows EXCEPT ![tab][e.id] = {x \in @ : x >= RetentionCutoff(now, r)}]
    BY DEF Expire, e, r
<1>5. tb = tab /\ b = e.id /\ ~(t >= RetentionCutoff(now, r))
    BY <1>2, <1>4 DEF IndInv, TypeOK
<1>6. t \in Times /\ now \in Times /\ clock \in Times /\ now <= clock
    BY DEF IndInv, TypeOK, PageInv
<1>7. t + r < now  BY <1>2, <1>5, <1>6 DEF RetentionCutoff, Times
<1>8. t + r < clock  BY <1>2, <1>6, <1>7 DEF Times
<1> QED BY <1>2, <1>3, <1>5, <1>8

\* What ExpiredOnly and RoundComplete say of a step.
LosesExpiredOnly ==
    order' = order =>
      \A tab \in Tables, b \in Boards : \A t \in rows[tab][b] \ rows'[tab][b] :
         \E r \in held[b] : r # 0 /\ t + r < clock

EndsComplete ==
    pc = "clients" /\ pc' = "idle" /\ quiet =>
      \A tab \in Tables, b \in Boards : \A t \in rows[tab][b] : ~Expired(b, t, began)

LEMMA StepIsSafe ==
    ASSUME IndInv, Next
    PROVE  LosesExpiredOnly
<1> SUFFICES ASSUME order' = order,
                    NEW tab \in Tables, NEW b \in Boards, NEW t \in rows[tab][b] \ rows'[tab][b]
             PROVE  \E r \in held[b] : r # 0 /\ t + r < clock
    BY DEF LosesExpiredOnly
<1>1. CASE ExpirePoints
    BY <1>1, ExpireDeletesOld DEF ExpirePoints, Tables
<1>2. CASE ExpireEvents
    BY <1>2, ExpireDeletesOld DEF ExpireEvents, Tables, IndInv, PageInv
<1>3. ASSUME NEW c \in Boards, BoardRemoved(c) PROVE FALSE
  <2>1. PICK i \in DOMAIN order : order' = RemoveAt(order, i)  BY <1>3 DEF BoardRemoved
  <2>5. order \in Seq(Boards) /\ i \in 1..Len(order) /\ Len(order) \in Nat  BY DEF IndInv, TypeOK
  <2>6. /\ SubSeq(order, 1, i - 1) \in Seq(Boards) /\ Len(SubSeq(order, 1, i - 1)) = i - 1
        /\ SubSeq(order, i + 1, Len(order)) \in Seq(Boards)
        /\ Len(SubSeq(order, i + 1, Len(order))) = Len(order) - i
    BY <2>5
  <2>7. \A p, q \in Seq(Boards) : Len(p \o q) = Len(p) + Len(q)  OBVIOUS
  <2>8. Len(RemoveAt(order, i)) = (i - 1) + (Len(order) - i)  BY <2>6, <2>7 DEF RemoveAt
  <2>2. Len(RemoveAt(order, i)) = Len(order) - 1  BY <2>5, <2>8
  <2>3. Len(order) \in Nat  BY DEF IndInv, TypeOK
  <2>4. Len(order) = Len(RemoveAt(order, i))  BY <2>1
  <2> QED BY <2>2, <2>3, <2>4
<1>4. ASSUME NEW tb \in Tables, NEW c \in Boards, RowInserted(tb, c) PROVE FALSE
    BY <1>4 DEF RowInserted, IndInv, TypeOK
<1>5. CASE UNCHANGED rows  BY <1>5
<1> QED
    BY <1>1, <1>2, <1>3, <1>4, <1>5
    DEF Next, Work, Tick, BoardAdded, BoardChanged, Cleanup, TimerFires, ReadPage, SkipBoard,
        ExpireClients, Restart

\* The cleanup loses no row that is to be kept, whatever happens to the
\* boards between the page it read and the rows it deletes.
THEOREM CleanupIsSafe == Spec => ExpiredOnly
<1>1. IndInv /\ [Next]_vars => [LosesExpiredOnly]_vars  BY StepIsSafe
<1> QED BY <1>1, InitInv, StepKeepsInv, PTL DEF Spec, ExpiredOnly, LosesExpiredOnly

-----------------------------------------------------------------------------
(* A round that is left alone is complete.  Progress says how far it has   *)
(* come: the boards of the scan before the one at hand have nothing left   *)
(* that was expired when the round began, the page at hand is the next     *)
(* piece of the scan, and a page is short only at the end of it.           *)

Cleaned(tab, b) == \A t \in rows[tab][b] : ~Expired(b, t, began)

CleanedTo(n) == \A tab \in Tables, i \in 1..n : Cleaned(tab, order[i])

\* The boards of the scan the round is through with.
Passed == start + size - Len(page)

PageIsNext ==
    /\ began <= now /\ Len(page) <= size /\ start + size <= Len(order)
    /\ size < Batch => start + size = Len(order)
    /\ \A i \in 1..Len(page) : /\ page[i].id = order[Passed + i]
                               /\ page[i].rets = rets[order[Passed + i]]
    /\ CleanedTo(Passed)
    /\ pc = "events" => Cleaned("points", order[Passed + 1])

Progress ==
    quiet =>
      /\ pc # "idle" /\ began <= clock
      /\ pc = "page" => start <= Len(order) /\ CleanedTo(start)
      /\ pc \in {"points", "events"} => PageIsNext
      /\ pc = "clients" => CleanedTo(Len(order))

\* Fewer rows, the same boards: what was clean is clean.
LEMMA CleanedStays ==
    ASSUME TypeOK, UNCHANGED <<order, rets, began>>,
           \A tab \in Tables, b \in Boards : rows'[tab][b] \subseteq rows[tab][b]
    PROVE  /\ \A tab \in Tables, b \in Boards : Cleaned(tab, b) => Cleaned(tab, b)'
           /\ \A n \in Nat : n <= Len(order) /\ CleanedTo(n) => CleanedTo(n)'
<1>1. \A tab \in Tables, b \in Boards : Cleaned(tab, b) => Cleaned(tab, b)'
  BY DEF Cleaned, Expired, Listed
<1>2. \A n \in Nat : n <= Len(order) => \A i \in 1..n : order[i] \in Boards
  BY DEF TypeOK
<1>3. ASSUME NEW n \in Nat, n <= Len(order), CleanedTo(n) PROVE CleanedTo(n)'
  <2> SUFFICES ASSUME NEW tab \in Tables, NEW i \in 1..n PROVE Cleaned(tab, order[i])'
    BY DEF CleanedTo
  <2>1. Cleaned(tab, order[i]) /\ order[i] \in Boards
    BY <1>2, <1>3 DEF CleanedTo
  <2>2. \A b \in Boards : b = order[i] => Cleaned(tab, b)'
    BY <1>1, <2>1
  <2> QED BY <2>1, <2>2 DEF Cleaned
<1> QED BY <1>1, <1>3

\* A board that is at hand and its retention are those of the scan.
LEMMA BoardAtHand ==
    ASSUME IndInv, PageIsNext, pc \in {"points", "events"}
    PROVE  /\ Passed \in Nat /\ Passed + 1 <= Len(order) /\ page # <<>> /\ Len(page) \in Nat
           /\ Head(page).id = order[Passed + 1] /\ order[Passed + 1] \in Boards
           /\ Head(page).rets = rets[order[Passed + 1]]
<1>1. page # <<>> /\ page \in Seq(Entry) /\ Len(page) \in Nat /\ Len(page) >= 1 /\ Head(page) = page[1]
  BY DEF IndInv, PageInv, TypeOK
<1>2. size \in Nat /\ start \in Nat /\ order \in Seq(Boards) /\ Len(order) \in Nat
  BY DEF IndInv, TypeOK
<1>3. Passed \in Nat /\ Passed + 1 <= Len(order)
  BY <1>1, <1>2 DEF Passed, PageIsNext
<1>4. page[1].id = order[Passed + 1] /\ page[1].rets = rets[order[Passed + 1]]
  BY <1>1 DEF PageIsNext
<1>5. order[Passed + 1] \in Boards
  BY <1>2, <1>3
<1> QED BY <1>1, <1>3, <1>4, <1>5

\* Going on when the board at hand is done.
LEMMA NextBoardProgress ==
    ASSUME IndInv, PageIsNext, pc \in {"points", "events"}, NextBoard(Tail(page)), size' = size,
           UNCHANGED <<clock, order, rets, began, now>>, began <= clock,
           \A tab \in Tables, b \in Boards : rows'[tab][b] \subseteq rows[tab][b],
           NEW n \in Nat, n = Passed, \A tab \in Tables : Cleaned(tab, order[n + 1])'
    PROVE  Progress'
<1>0. n + 1 <= Len(order) /\ page # <<>> /\ page \in Seq(Entry) /\ Batch \in Nat
      /\ size \in Nat /\ start \in Nat /\ order \in Seq(Boards) /\ Len(order) \in Nat
  BY BoardAtHand, RetentionAssumption DEF IndInv, TypeOK
<1>7. /\ Len(page) \in Nat /\ Len(page) >= 1
      /\ Tail(page) \in Seq(Entry) /\ Len(Tail(page)) = Len(page) - 1
      /\ \A i \in 1..Len(page) - 1 : Tail(page)[i] = page[i + 1]
  BY <1>0
<1>8. Tail(page) = <<>> => Len(page) = 1
  BY <1>7, EmptyLen
<1>1. /\ n + 1 <= Len(order) /\ page # <<>>
      /\ page \in Seq(Entry) /\ Len(page) \in Nat /\ Len(page) >= 1
      /\ Tail(page) \in Seq(Entry) /\ Len(Tail(page)) = Len(page) - 1
      /\ Tail(page) = <<>> => Len(page) = 1
      /\ \A i \in 1..Len(page) - 1 : Tail(page)[i] = page[i + 1]
      /\ size \in Nat /\ start \in Nat /\ order \in Seq(Boards) /\ Len(order) \in Nat /\ Batch \in Nat
  BY <1>0, <1>7, <1>8
<1>2. CleanedTo(n + 1)'
  <2>1. CleanedTo(n) /\ n <= Len(order)
    BY <1>1 DEF PageIsNext
  <2>2. CleanedTo(n)'
    BY <2>1, CleanedStays DEF IndInv
  <2> QED BY <2>2 DEF CleanedTo
<1>3. page' = Tail(page) /\ n = start + size - Len(page)
  BY DEF NextBoard, Passed
<1>4. CASE Tail(page) # <<>> /\ pc' = "points" /\ UNCHANGED start
  <2>1. Passed' = n + 1
    BY <1>1, <1>3, <1>4 DEF Passed
  <2>2. \A i \in 1..Len(page') : /\ page'[i].id = order'[n + 1 + i]
                                 /\ page'[i].rets = rets'[order'[n + 1 + i]]
    <3> SUFFICES ASSUME NEW i \in 1..Len(page) - 1
                 PROVE  page[i + 1].id = order[n + 1 + i] /\ page[i + 1].rets = rets[order[n + 1 + i]]
      <4>1. \A i \in 1..Len(page) - 1 : page'[i] = page[i + 1]
        BY <1>1, <1>3
      <4>2. Len(page') = Len(page) - 1 /\ UNCHANGED <<order, rets>>
        BY <1>1, <1>3
      <4> QED BY <4>1, <4>2
    <3>1. i + 1 \in 1..Len(page) /\ n + 1 + i = n + (i + 1)
      BY <1>1
    <3> QED BY <3>1 DEF PageIsNext
  <2>3. CleanedTo(Passed)'
    BY <1>2, <2>1 DEF CleanedTo
  <2>5. /\ began' <= now' /\ Len(page') <= size' /\ start' + size' <= Len(order')
        /\ size' < Batch => start' + size' = Len(order')
    BY <1>1, <1>3, <1>4 DEF PageIsNext
  <2>4. PageIsNext'
    BY <1>4, <2>1, <2>2, <2>3, <2>5 DEF PageIsNext
  <2> QED BY <1>4, <2>4 DEF Progress
<1>5. CASE Tail(page) = <<>> /\ size < Batch /\ pc' = "clients" /\ UNCHANGED start
  <2>3. start + size = Len(order)
    BY <1>5 DEF PageIsNext
  <2>1. n + 1 = Len(order)
    BY <1>1, <1>3, <1>5, <2>3
  <2>2. CleanedTo(Len(order))'
    BY <1>2, <2>1 DEF CleanedTo
  <2> QED BY <1>5, <2>2 DEF Progress
<1>6. CASE Tail(page) = <<>> /\ size >= Batch /\ pc' = "page" /\ start' = start + size
  <2>1. start' = n + 1
    BY <1>1, <1>3, <1>6
  <2>2. CleanedTo(start)' /\ start' <= Len(order')
    BY <1>1, <1>2, <2>1 DEF CleanedTo
  <2> QED BY <1>6, <2>2 DEF Progress
<1> QED BY <1>4, <1>5, <1>6 DEF NextBoard

\* The statement for the board at hand leaves it clean.
LEMMA ExpireCleans ==
    ASSUME IndInv, PageIsNext, pc \in {"points", "events"},
           EffectiveBoardRetention(Head(page).rets) # 0,
           NEW tab \in Tables, Expire(tab), quiet', UNCHANGED <<order, rets, began>>
    PROVE  /\ \A tb \in Tables, b \in Boards : rows'[tb][b] \subseteq rows[tb][b]
           /\ \A n \in Nat : n = Passed => Cleaned(tab, order[n + 1])'
<1> DEFINE e == Head(page)
           r == EffectiveBoardRetention(e.rets)
           cut == RetentionCutoff(now, r)
<1>1. rows' = [rows EXCEPT ![tab][e.id] = {t \in @ : t >= cut}]
  BY DEF Expire
<1>2. /\ e.id \in Boards /\ e.rets \in VenueLists /\ e.rets = rets[e.id]
      /\ \A n \in Nat : n = Passed => order[n + 1] = e.id
  BY BoardAtHand DEF IndInv, TypeOK
<1>3. r \in Nat /\ r # 0
  BY <1>2, RetentionIsNat
<1>4. rows \in [Tables -> [Boards -> SUBSET Times]] /\ now \in Nat /\ began \in Nat /\ began <= now
  BY DEF IndInv, TypeOK, Times, PageIsNext
<1> HIDE DEF e
<1>5. \A tb \in Tables, b \in Boards : rows'[tb][b] \subseteq rows[tb][b]
  BY <1>1, <1>2, <1>4
<1>6. ASSUME NEW b \in Boards, b = e.id PROVE Cleaned(tab, b)'
  <2> SUFFICES ASSUME NEW t \in rows'[tab][b] PROVE ~Expired(b, t, began)'
    BY DEF Cleaned
  <2>1. t \in rows[tab][b] /\ t \in Nat /\ t >= cut
    BY <1>1, <1>2, <1>4, <1>6 DEF Times
  <2>2. t + r >= now
    BY <1>3, <1>4, <2>1 DEF RetentionCutoff
  <2>3. r = EffectiveBoardRetention(rets[b])
    BY <1>2, <1>6
  <2> HIDE DEF r
  <2>4. ~(t + r < began)
    BY <1>3, <1>4, <2>1, <2>2
  <2> QED BY <2>3, <2>4 DEF Expired
<1>7. ASSUME NEW n \in Nat, n = Passed PROVE Cleaned(tab, order[n + 1])'
  <2>1. PICK b \in Boards : b = e.id
    BY <1>2
  <2>2. order'[n + 1] = b
    BY <1>2, <1>7, <2>1
  <2> QED BY <1>6, <2>1, <2>2 DEF Cleaned
<1> QED BY <1>5, <1>7

\* What the others do.
LEMMA OthersProgress ==
    ASSUME IndInv, Progress,
           \/ Tick
           \/ \E b \in Boards, R \in VenueLists : BoardAdded(b, R) \/ BoardChanged(b, R)
           \/ \E b \in Boards : BoardRemoved(b)
           \/ \E tab \in Tables, b \in Boards : RowInserted(tab, b)
           \/ UNCHANGED vars
    PROVE  Progress'
<1>1. CASE quiet' = FALSE
  BY <1>1 DEF Progress
<1>2. CASE Tick \/ UNCHANGED vars
  <2>1. clock' \in Nat /\ clock \in Nat /\ began \in Nat /\ clock' >= clock
    BY <1>2 DEF IndInv, TypeOK, Times, Tick, vars
  <2>2. UNCHANGED <<order, rets, rows, round, quiet>>
    BY <1>2 DEF Tick, vars
  <2>3. UNCHANGED <<order, rets, rows, pc, start, page, now, size, began, quiet>>
    BY <2>2 DEF round
  <2>4. /\ CleanedTo(start)' <=> CleanedTo(start)
        /\ CleanedTo(Len(order))' <=> CleanedTo(Len(order))
    BY <2>3 DEF CleanedTo, Cleaned, Expired, Listed
  <2>5. PageIsNext' <=> PageIsNext
    BY <2>3 DEF PageIsNext, Passed, CleanedTo, Cleaned, Expired, Listed
  <2>6. began <= clock => began' <= clock'
    BY <2>1, <2>3
  <2> QED BY <2>3, <2>4, <2>5, <2>6 DEF Progress
<1>3. ASSUME NEW tb \in Tables, NEW c \in Boards, RowInserted(tb, c), quiet PROVE Progress'
  <2>1. /\ rows' = [rows EXCEPT ![tb][c] = @ \cup {clock}]
        /\ UNCHANGED <<clock, order, rets, pc, start, page, now, size, began, quiet>>
    BY <1>3 DEF RowInserted, round
  <2>2. /\ clock \in Nat /\ began \in Nat /\ began <= clock
        /\ \A b \in Boards : EffectiveBoardRetention(rets[b]) \in Nat
    BY <1>3, RetentionIsNat DEF IndInv, TypeOK, Times, Progress
  <2>3. \A b \in Boards : ~Expired(b, clock, began)
    BY <2>2 DEF Expired
  <2>4. ASSUME NEW tab \in Tables, NEW b \in Boards, Cleaned(tab, b) PROVE Cleaned(tab, b)'
    <3> SUFFICES ASSUME NEW t \in rows'[tab][b] PROVE ~Expired(b, t, began)'
      BY DEF Cleaned
    <3>1. t \in rows[tab][b] \/ t = clock
      BY <2>1 DEF IndInv, TypeOK
    <3>2. Expired(b, t, began)' <=> Expired(b, t, began)
      BY <2>1 DEF Expired, Listed
    <3> QED BY <2>3, <2>4, <3>1, <3>2 DEF Cleaned
  <2>5. ASSUME NEW n \in Nat, n <= Len(order), CleanedTo(n) PROVE CleanedTo(n)'
    <3> SUFFICES ASSUME NEW tab \in Tables, NEW i \in 1..n PROVE Cleaned(tab, order[i])'
      BY DEF CleanedTo
    <3>1. PICK b \in Boards : b = order[i]
      BY <2>5 DEF IndInv, TypeOK
    <3>2. Cleaned(tab, b)
      BY <2>5, <3>1 DEF CleanedTo
    <3>3. Cleaned(tab, b)' /\ order'[i] = b
      BY <2>1, <2>4, <3>1, <3>2
    <3> QED BY <3>3 DEF Cleaned
  <2>6. CASE pc = "page"
    <3>1. start \in Nat /\ start <= Len(order) /\ CleanedTo(start)
      BY <1>3, <2>6 DEF Progress, IndInv, TypeOK
    <3>2. \A n : n = start => CleanedTo(n)'
      BY <2>5, <3>1
    <3> QED BY <1>3, <2>1, <2>6, <3>1, <3>2 DEF Progress, CleanedTo
  <2>7. CASE pc = "clients"
    <3>1. Len(order) \in Nat /\ CleanedTo(Len(order))
      BY <1>3, <2>7 DEF Progress, IndInv, TypeOK
    <3>2. \A n : n = Len(order) => CleanedTo(n)'
      BY <2>5, <3>1
    <3> QED BY <1>3, <2>1, <2>2, <2>7, <3>2 DEF Progress, CleanedTo
  <2>8. CASE pc \in {"points", "events"}
    <3>0. PageIsNext
      BY <1>3, <2>8 DEF Progress
    <3>1. PICK n \in Nat : n = Passed /\ n + 1 <= Len(order) /\ Len(order) \in Nat /\ order[n + 1] \in Boards
      BY <2>8, <3>0, BoardAtHand DEF IndInv, TypeOK
    <3>2. CleanedTo(n)'
      BY <2>5, <3>0, <3>1 DEF PageIsNext
    <3>3. pc = "events" => Cleaned("points", order[n + 1])'
      <4> SUFFICES ASSUME pc = "events" PROVE Cleaned("points", order[n + 1])'
        OBVIOUS
      <4>1. PICK b \in Boards : b = order[n + 1]
        BY <3>1
      <4>2. Cleaned("points", b)
        BY <3>0, <3>1, <4>1 DEF PageIsNext
      <4>3. Cleaned("points", b)' /\ order'[n + 1] = b
        BY <2>1, <2>4, <4>1, <4>2 DEF Tables
      <4> QED BY <4>3 DEF Cleaned
    <3>4. Passed' = n
      BY <2>1, <3>1 DEF Passed
    <3>5. PageIsNext'
      BY <2>1, <3>0, <3>1, <3>2, <3>3, <3>4 DEF PageIsNext, CleanedTo, Cleaned
    <3> QED BY <1>3, <2>1, <2>2, <2>8, <3>5 DEF Progress
  <2> QED BY <1>3, <2>6, <2>7, <2>8 DEF Progress, IndInv, TypeOK, PCs
<1>4. CASE \E tab \in Tables, b \in Boards : RowInserted(tab, b) /\ ~quiet
  BY <1>4 DEF RowInserted, Progress
<1> QED BY <1>1, <1>2, <1>3, <1>4 DEF BoardAdded, BoardChanged, BoardRemoved
\* A query returns the rows that follow its offset, and fewer than it asks
\* for only at the end of the scan.
LEMMA RangeIsNext ==
    ASSUME NEW s \in Seq(Boards), NEW off \in Nat, NEW n \in Nat \ {0}, off <= Len(s),
           NEW c, c = ComputeRange(s, off, n)
    PROVE  /\ c \in Seq(Boards) /\ Len(c) \in Nat /\ off + Len(c) <= Len(s)
           /\ Len(c) < n => off + Len(c) = Len(s)
           /\ \A i \in 1..Len(c) : c[i] = s[off + i]
           /\ c = <<>> => off = Len(s)
<1> DEFINE top == IF Len(s) < off + n THEN Len(s) ELSE off + n
<1>1. top \in Nat /\ top <= Len(s) /\ off <= top /\ (top = Len(s) \/ top = off + n) /\ Len(s) \in Nat
      /\ (top = off => off = Len(s))
  OBVIOUS
<1>2. c = SubSeq(s, off + 1, top)
  BY DEF ComputeRange
<1> HIDE DEF top
<1>3. c \in Seq(Boards) /\ Len(c) = top - off
  BY <1>1, <1>2
<1>4. \A i \in 1..Len(c) : c[i] = s[off + i]
  BY <1>1, <1>2, <1>3
<1>5. Len(c) \in Nat /\ off + Len(c) <= Len(s) /\ (Len(c) < n => off + Len(c) = Len(s))
  BY <1>1, <1>3
<1>6. ASSUME c = <<>> PROVE off = Len(s)
  <2>1. Len(c) = 0
    BY <1>6, EmptyLen
  <2> QED BY <1>1, <1>3, <2>1
<1> QED BY <1>3, <1>4, <1>5, <1>6

\* Reading a page: it is the next piece of the scan, or the scan is over.
LEMMA ReadPageProgress ==
    ASSUME IndInv, Progress, ReadPage
    PROVE  Progress'
<1> SUFFICES ASSUME quiet' PROVE Progress'
  BY DEF Progress
<1>1. quiet /\ pc = "page" /\ UNCHANGED <<clock, order, rets, rows, began>>
  BY DEF ReadPage
<1>2. /\ start \in Nat /\ start <= Len(order) /\ CleanedTo(start) /\ began <= clock
      /\ order \in Seq(Boards) /\ Len(order) \in Nat /\ Batch \in Nat \ {0}
      /\ clock \in Nat /\ began \in Nat
  BY <1>1, RetentionAssumption DEF Progress, IndInv, TypeOK, Times
<1> DEFINE c == ComputeRange(order, start, Batch)
           es == [i \in 1..Len(c) |-> [id |-> c[i], rets |-> rets[c[i]]]]
<1>3. /\ c \in Seq(Boards) /\ Len(c) \in Nat /\ start + Len(c) <= Len(order)
      /\ Len(c) < Batch => start + Len(c) = Len(order)
      /\ \A i \in 1..Len(c) : c[i] = order[start + i]
      /\ c = <<>> => start = Len(order)
  BY <1>2, RangeIsNext
<1>4. \/ c # <<>> /\ now' = clock /\ size' = Len(c) /\ NextBoard(es)
      \/ c = <<>> /\ pc' = "clients"
  BY DEF ReadPage
<1> HIDE DEF c
<1>5. \A n \in Nat : n <= Len(order) /\ CleanedTo(n) => CleanedTo(n)'
  BY <1>1, CleanedStays DEF IndInv
<1>6. CASE c = <<>> /\ pc' = "clients"
  <2>1. \A n : n = Len(order) => CleanedTo(n)'
    BY <1>2, <1>3, <1>5, <1>6
  <2> QED BY <1>1, <1>2, <1>6, <2>1 DEF Progress, CleanedTo
<1>7. CASE c # <<>> /\ now' = clock /\ size' = Len(c) /\ NextBoard(es)
  <2>1. Len(c) # 0
    BY <1>3, <1>7
  <2>2. /\ es # <<>> /\ Len(es) = Len(c)
        /\ \A i \in 1..Len(c) : es[i].id = c[i] /\ es[i].rets = rets[c[i]]
    BY <1>3, <2>1
  <2> HIDE DEF es
  <2>3. page' = es /\ pc' = "points" /\ UNCHANGED start
    BY <1>7, <2>2 DEF NextBoard
  <2>4. PICK n \in Nat : n = start
    BY <1>2
  <2>5. Passed' = n
    BY <1>2, <1>3, <1>7, <2>2, <2>3, <2>4 DEF Passed
  <2>6. CleanedTo(n)'
    BY <1>2, <1>5, <2>4
  <2>7. \A i \in 1..Len(page') : /\ page'[i].id = order'[n + i]
                                 /\ page'[i].rets = rets'[order'[n + i]]
    BY <1>1, <1>3, <2>2, <2>3, <2>4
  <2>8. /\ began' <= now' /\ Len(page') <= size' /\ start' + size' <= Len(order')
        /\ size' < Batch => start' + size' = Len(order')
    BY <1>1, <1>2, <1>3, <1>7, <2>2, <2>3
  <2>9. PageIsNext'
    BY <2>3, <2>5, <2>6, <2>7, <2>8 DEF PageIsNext, CleanedTo
  <2> QED BY <1>1, <1>2, <2>3, <2>9 DEF Progress
<1> QED BY <1>4, <1>6, <1>7

\* The board at hand is skipped, or a statement is carried out for it.
LEMMA BoardProgress ==
    ASSUME IndInv, Progress, SkipBoard \/ ExpirePoints \/ ExpireEvents
    PROVE  Progress'
<1> SUFFICES ASSUME quiet' PROVE Progress'
  BY DEF Progress
<1>1. quiet /\ pc \in {"points", "events"} /\ UNCHANGED <<clock, order, rets, began, now>>
  BY DEF SkipBoard, ExpirePoints, ExpireEvents, Expire
<1>2. PageIsNext /\ began <= clock
  BY <1>1 DEF Progress
<1>3. PICK n \in Nat : n = Passed
  BY <1>1, <1>2, BoardAtHand
<1>4. PICK b \in Boards : b = order[n + 1] /\ Head(page).rets = rets[b] /\ n + 1 <= Len(order)
  BY <1>1, <1>2, <1>3, BoardAtHand
<1>5. order'[n + 1] = b
  BY <1>1, <1>4
<1>6. CASE SkipBoard
  <2>1. EffectiveBoardRetention(rets[b]) = 0 /\ UNCHANGED rows /\ size' = size /\ NextBoard(Tail(page))
    BY <1>4, <1>6 DEF SkipBoard
  <2>2. \A tab \in Tables : Cleaned(tab, b)'
    BY <1>1, <2>1 DEF Cleaned, Expired
  <2>3. \A tab \in Tables : Cleaned(tab, order[n + 1])'
    BY <1>5, <2>2 DEF Cleaned
  <2> QED BY <1>1, <1>2, <1>3, <2>1, <2>3, NextBoardProgress
<1>7. CASE ExpirePoints
  <2>1. /\ pc' = "events" /\ Expire("points") /\ UNCHANGED <<start, page, size>>
        /\ EffectiveBoardRetention(Head(page).rets) # 0 /\ "points" \in Tables
    BY <1>7 DEF ExpirePoints, Tables
  <2>2. /\ \A tb \in Tables, c \in Boards : rows'[tb][c] \subseteq rows[tb][c]
        /\ Cleaned("points", order[n + 1])'
    BY <1>1, <1>2, <1>3, <2>1, ExpireCleans
  <2>3. CleanedTo(n) /\ n <= Len(order)
    BY <1>2, <1>3, <1>4 DEF PageIsNext, IndInv, TypeOK
  <2>4. CleanedTo(n)'
    BY <1>1, <2>2, <2>3, CleanedStays DEF IndInv
  <2>5. Passed' = n
    BY <1>3, <2>1 DEF Passed
  <2>6. PageIsNext'
    BY <1>1, <1>2, <1>3, <2>1, <2>2, <2>4, <2>5 DEF PageIsNext, CleanedTo, Cleaned
  <2> QED BY <1>1, <1>2, <2>1, <2>6 DEF Progress
<1>8. CASE ExpireEvents
  <2>1. /\ pc = "events" /\ Expire("events") /\ size' = size /\ NextBoard(Tail(page))
        /\ EffectiveBoardRetention(Head(page).rets) # 0 /\ "events" \in Tables
    BY <1>8 DEF ExpireEvents, Tables, IndInv, PageInv
  <2>2. /\ \A tb \in Tables, c \in Boards : rows'[tb][c] \subseteq rows[tb][c]
        /\ Cleaned("events", order[n + 1])'
    BY <1>1, <1>2, <1>3, <2>1, ExpireCleans
  <2>3. Cleaned("points", b)
    BY <1>2, <1>3, <1>4, <2>1 DEF PageIsNext
  <2>4. Cleaned("points", b)'
    BY <1>1, <2>2, <2>3, CleanedStays DEF IndInv, Tables
  <2>5. \A tab \in Tables : Cleaned(tab, order[n + 1])'
    BY <1>5, <2>2, <2>4 DEF Cleaned, Tables
  <2> QED BY <1>1, <1>2, <1>3, <2>1, <2>2, <2>5, NextBoardProgress
<1> QED BY <1>6, <1>7, <1>8

\* Every step keeps the account of the round.
LEMMA StepKeepsProgress ==
    ASSUME IndInv, Progress, [Next]_vars
    PROVE  Progress'
<1>1. CASE TimerFires
  <2>1. /\ pc' = "page" /\ start' = 0 /\ began' = clock /\ UNCHANGED <<clock, order>>
        /\ clock \in Nat /\ Len(order) \in Nat
    BY <1>1 DEF TimerFires, IndInv, TypeOK, Times
  <2> QED BY <2>1 DEF Progress, CleanedTo
<1>2. CASE ExpireClients \/ Restart
  BY <1>2 DEF Progress, ExpireClients, Restart
<1> QED BY <1>1, <1>2, ReadPageProgress, BoardProgress, OthersProgress DEF Next, Work, Cleanup

LEMMA EndIsClean ==
    ASSUME IndInv, Progress
    PROVE  EndsComplete
<1> SUFFICES ASSUME CleanedTo(Len(order)), NEW tab \in Tables, NEW b \in Boards,
                    NEW t \in rows[tab][b], Expired(b, t, began)
             PROVE  FALSE
  BY DEF Progress, EndsComplete
<1>1. PICK i \in 1..Len(order) : order[i] = b
  BY DEF Expired, Listed, ToSet, IndInv, TypeOK
<1> QED BY <1>1 DEF CleanedTo, Cleaned

\* A round that is left alone reaches every board, however many pages the
\* boards fill: nothing that was expired when it began is left at its end.
THEOREM RoundReachesAll == Spec => RoundComplete
<1>1. Init => Progress
  BY DEF Init, Progress
<1>2. IndInv /\ Progress /\ [Next]_vars => IndInv' /\ Progress' /\ [EndsComplete]_vars
  BY EndIsClean, StepKeepsInv, StepKeepsProgress
<1> QED BY <1>1, <1>2, InitInv, PTL DEF Spec, RoundComplete, EndsComplete

-----------------------------------------------------------------------------
(* The cleanup beside the WiFi client cache: what it promises of its       *)
(* rounds holds as well while reports fill the cache and the history, the  *)
(* hourly refresh replaces the cache and an administrator deletes history, *)
(* for every set of venues and stations.                                   *)

\* A report under way names a station: what ClientStored will insert.
PendingInv == pending \in [Venues -> Clients \cup {NoClient}]

CacheInv == IndInv /\ Progress /\ PendingInv

LEMMA CacheInitInv == CacheInit => CacheInv
<1> SUFFICES ASSUME CacheInit PROVE CacheInv  OBVIOUS
<1>1. IndInv  BY InitInv DEF CacheInit
<1>2. Progress  BY DEF CacheInit, Init, Progress
<1>3. PendingInv  BY DEF CacheInit, PendingInv
<1> QED BY <1>1, <1>2, <1>3 DEF CacheInv

\* What a cache step and a request leave alone is all that the round reads:
\* only the history and the bounds on the others change.
LEMMA HistoryStepKeeps ==
    ASSUME CacheInv,
           UNCHANGED <<clock, order, rets, fresh, rows, round, held, quiet>>,
           clients' \in SUBSET (Venues \X Clients \X Times),
           budget' \in [Budgeted -> Nat]
    PROVE  IndInv' /\ Progress'
<1>0. /\ TypeOK /\ PageInv /\ Progress
      /\ UNCHANGED <<clock, order, rets, fresh, rows, held, quiet>>
      /\ UNCHANGED <<pc, start, page, now, size, began>>
  BY DEF CacheInv, IndInv, round
<1>1. TypeOK'  BY <1>0 DEF TypeOK
<1>2. PageInv'  BY <1>0 DEF PageInv
<1>3. Progress'
  BY <1>0 DEF Progress, PageIsNext, Passed, CleanedTo, Cleaned, Expired, Listed
<1> QED BY <1>1, <1>2, <1>3 DEF IndInv

\* The cache steps and the deletion of history, one by one.
LEMMA CacheStepKeeps ==
    ASSUME CacheInv,
           \/ \E v \in Venues, c \in Clients : ClientReported(v, c)
           \/ \E v \in Venues : ClientStored(v)
           \/ RefreshQueries
           \/ \E v \in Venues, c \in Clients, f, e \in 0..MaxClock : HistoryDeleted(v, c, f, e)
    PROVE  CacheInv' /\ UNCHANGED <<order, rows, pc, quiet, began>>
<1>0. TypeOK /\ PendingInv /\ budget \in [Budgeted -> Nat]
      /\ clients \in SUBSET (Venues \X Clients \X Times)
  BY DEF CacheInv, IndInv, TypeOK
<1>1. UNCHANGED <<clock, order, rets, fresh, rows, round, held, quiet>>
  BY DEF ClientReported, ClientStored, RefreshQueries, HistoryDeleted
<1>2. budget' \in [Budgeted -> Nat]
  <2>1. "reports" \in Budgeted /\ "faults" \in Budgeted /\ "purges" \in Budgeted
    BY DEF Budgeted
  <2>2. \A w \in Budgeted : Spend(w) => budget' \in [Budgeted -> Nat]
    BY <1>0, SpendType
  <2>3. \/ budget' = budget \/ Spend("reports") \/ Spend("faults") \/ Spend("purges")
    BY DEF ClientReported, ClientStored, RefreshQueries, HistoryDeleted
  <2> QED BY <1>0, <2>1, <2>2, <2>3
<1>3. clients' \in SUBSET (Venues \X Clients \X Times) /\ PendingInv'
  <2>1. CASE \E v \in Venues, c \in Clients : ClientReported(v, c)
    BY <1>0, <2>1 DEF ClientReported, PendingInv
  <2>2. ASSUME NEW v \in Venues, ClientStored(v)
        PROVE  clients' \in SUBSET (Venues \X Clients \X Times) /\ PendingInv'
    <3>1. pending[v] \in Clients /\ clock \in Times
      BY <1>0, <2>2 DEF ClientStored, PendingInv, TypeOK
    <3>2. PendingInv'  BY <1>0, <2>2 DEF ClientStored, PendingInv
    <3>3. <<v, pending[v], clock>> \in Venues \X Clients \X Times  BY <3>1
    <3>4. clients' = clients \cup {<<v, pending[v], clock>>} \/ clients' = clients
      BY <2>2 DEF ClientStored
    <3> QED BY <1>0, <3>2, <3>3, <3>4
  <2>3. CASE RefreshQueries  BY <1>0, <2>3 DEF RefreshQueries, PendingInv
  <2>4. CASE \E v \in Venues, c \in Clients, f, e \in 0..MaxClock : HistoryDeleted(v, c, f, e)
    BY <1>0, <2>4 DEF HistoryDeleted, PendingInv, cacheVars
  <2> QED BY <2>1, <2>2, <2>3, <2>4
<1>4. IndInv' /\ Progress'  BY <1>1, <1>2, <1>3, HistoryStepKeeps
<1> QED BY <1>1, <1>3, <1>4 DEF CacheInv, round

\* Every step of the whole is a step of Retention, or leaves the rounds,
\* their boards and their rows as they are.
LEMMA CacheNextKeeps ==
    ASSUME CacheInv, [CacheNext]_allVars
    PROVE  CacheInv' /\ ([Next]_vars \/ UNCHANGED <<order, rows, pc, quiet, began>>)
<1>1. CASE Work /\ UNCHANGED cacheVars
  <2>1. [Next]_vars  BY <1>1 DEF Next
  <2>2. PendingInv'  BY <1>1 DEF CacheInv, PendingInv, cacheVars
  <2> QED BY <2>1, <2>2, StepKeepsInv, StepKeepsProgress DEF CacheInv
<1>2. CASE CacheRestart
  <2>1. [Next]_vars  BY <1>2 DEF Next, CacheRestart
  <2>2. PendingInv'  BY <1>2 DEF PendingInv, CacheRestart
  <2> QED BY <2>1, <2>2, StepKeepsInv, StepKeepsProgress DEF CacheInv
<1>3. CASE RefreshReplaces \/ UNCHANGED allVars
  <2>1. UNCHANGED <<vars, pending>>  BY <1>3 DEF RefreshReplaces, allVars, cacheVars
  <2>2. [Next]_vars /\ PendingInv'  BY <2>1 DEF CacheInv, PendingInv
  <2> QED BY <2>2, StepKeepsInv, StepKeepsProgress DEF CacheInv
<1> QED BY <1>1, <1>2, <1>3, CacheStepKeeps DEF CacheNext
-----------------------------------------------------------------------------
\* TypeOK holds of the composed system: every row of the client history is
\* of a station that was reported, at a time the clock has shown.
THEOREM CacheTypeCorrect == CacheSpec => []TypeOK
<1>1. CacheInv => TypeOK  BY DEF CacheInv, IndInv
<1>2. CacheInv /\ [CacheNext]_allVars => CacheInv'  BY CacheNextKeeps
<1> QED BY <1>1, <1>2, CacheInitInv, PTL DEF CacheSpec

\* ExpiredOnly and RoundComplete hold of the composed system: neither the
\* reports, nor the refresh, nor the deletion of history makes the cleanup
\* lose a row that is to be kept, or a round pass over a board.
THEOREM CacheKeepsRounds == CacheSpec => ExpiredOnly /\ RoundComplete
<1>1. ASSUME CacheInv, [CacheNext]_allVars PROVE [LosesExpiredOnly]_vars /\ [EndsComplete]_vars
  <2>1. [Next]_vars \/ UNCHANGED <<order, rows, pc, quiet, began>>  BY <1>1, CacheNextKeeps
  <2>2. CASE [Next]_vars  BY <1>1, <2>2, StepIsSafe, EndIsClean DEF CacheInv
  <2>3. CASE UNCHANGED <<order, rows, pc, quiet, began>>  BY <2>3 DEF LosesExpiredOnly, EndsComplete
  <2> QED BY <2>1, <2>2, <2>3
<1>2. CacheInv /\ [CacheNext]_allVars =>
          CacheInv' /\ [LosesExpiredOnly]_vars /\ [EndsComplete]_vars
  BY <1>1, CacheNextKeeps
<1> QED BY <1>2, CacheInitInv, PTL 
       DEF CacheSpec, ExpiredOnly, RoundComplete, LosesExpiredOnly, EndsComplete
=============================================================================
