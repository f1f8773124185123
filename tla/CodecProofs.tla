----------------------------- MODULE CodecProofs -----------------------------
(* The trip of an object through its document, for objects with values in  *)
(* any number of members.  TLC tries two members at a time and evaluates   *)
(* TablesAssumption, which compares the members of a class two at a time;  *)
(* here that is shown to be enough.                                        *)
EXTENDS Codec, TLAPS

\* The members that have a value have one of their kind.
GivenInv ==
    /\ class \in Classes
    /\ DOMAIN given \subseteq Members(Codec(class))
    /\ \A x \in DOMAIN given : given[x] \in Values(Codec(class), x)

IInv ==
    /\ pc \in {"idle", "made", "written", "read"}
    /\ pc # "idle" => GivenInv
    /\ pc \in {"written", "read"} => document = Document(Codec(class))
    /\ pc = "read" => back = Object(Codec(class))

\* IInv holds at the start and every step keeps it.
LEMMA InitIInv == Init => IInv
BY DEF Init, IInv

LEMMA NextIInv == IInv /\ [Next]_vars => IInv'
<1> SUFFICES ASSUME IInv, [Next]_vars PROVE IInv'
  OBVIOUS
<1>1. CASE Made
  <2>1. PICK c \in Classes, n \in 0..MaxGiven : \E xs \in [1..n -> Members(Codec(c))] :
          LET S == {xs[i] : i \in 1..n}
              V == UNION {Values(Codec(c), x) : x \in S}
          IN  /\ class' = c
              /\ given' \in {g \in [S -> V] : \A x \in S : g[x] \in Values(Codec(c), x)}
    BY <1>1 DEF Made
  <2>2. PICK xs \in [1..n -> Members(Codec(c))] :
          LET S == {xs[i] : i \in 1..n}
              V == UNION {Values(Codec(c), x) : x \in S}
          IN  /\ class' = c
              /\ given' \in {g \in [S -> V] : \A x \in S : g[x] \in Values(Codec(c), x)}
    BY <2>1
  <2> DEFINE S == {xs[i] : i \in 1..n}
  <2>3. S \subseteq Members(Codec(c))
    OBVIOUS
  <2>4. class' = c /\ DOMAIN given' = S /\ \A x \in S : given'[x] \in Values(Codec(c), x)
    BY <2>2
  <2> HIDE DEF S
  <2>5. GivenInv'
    BY <2>3, <2>4 DEF GivenInv
  <2> QED BY <1>1, <2>5 DEF Made, IInv
<1>2. CASE to_json
  <2>1. GivenInv' /\ Document(Codec(class))' = Document(Codec(class))
    BY <1>2 DEF to_json, IInv, GivenInv, Document, Keys, Written, Value
  <2> QED BY <1>2, <2>1 DEF to_json, IInv
<1>3. CASE from_json
  <2>1. GivenInv' /\ Document(Codec(class))' = Document(Codec(class))
        /\ Object(Codec(class))' = Object(Codec(class))
    BY <1>3 DEF from_json, IInv, GivenInv, Document, Keys, Written, Value, Object, Skipped, Read
  <2> QED BY <1>3, <2>1 DEF from_json, IInv
<1>4. CASE Dropped
  BY <1>4 DEF Dropped, IInv
<1>5. CASE UNCHANGED vars
  <2>1. UNCHANGED <<class, given, document, back, pc>>
    BY <1>5 DEF vars
  <2>2. /\ GivenInv' <=> GivenInv
        /\ Document(Codec(class))' = Document(Codec(class))
    BY <2>1 DEF GivenInv, Document, Keys, Written, Value
  <2>3. Object(Codec(class))' = Object(Codec(class))
    BY <2>1 DEF Object, Skipped, Read
  <2> QED BY <2>1, <2>2, <2>3 DEF IInv
<1> QED BY <1>1, <1>2, <1>3, <1>4, <1>5 DEF Next

\* The value of a member is of its kind, the initial one included.
LEMMA ValueOfKind ==
    ASSUME GivenInv, NEW x \in Members(Codec(class))
    PROVE  Value(x) \in DOMAIN Kind(Codec(class), x).text
<1>1. Sound(class)
  BY TablesAssumption DEF GivenInv
<1>2. Kind(Codec(class), x).initial \in DOMAIN Kind(Codec(class), x).text
  BY <1>1 DEF Sound
<1> QED BY <1>2 DEF GivenInv, Value, Values

\* Under a key of its own, a member is the only one written: it is in the
\* document unless its value is left out.
LEMMA AloneInDocument ==
    ASSUME NEW k, NEW x \in Members(k), OwnKey(k, x)
    PROVE  LET D == Document(k)
               q == KeyTo(k, x)
           IN  IF Value(x) \in Kind(k, x).omitted
               THEN q \notin DOMAIN D
               ELSE q \in DOMAIN D /\ D[q] = [from |-> x, text |-> Kind(k, x).text[Value(x)]]
<1> DEFINE q == KeyTo(k, x)
           W == Written(k, q)
<1>1. DOMAIN Document(k) = Keys(k)
  BY DEF Document
<1>2. W \subseteq {x} /\ (x \in W <=> Value(x) \notin Kind(k, x).omitted)
  BY DEF OwnKey, Written
<1>3. q \in Keys(k) <=> W # {}
  <2>1. ASSUME W # {} PROVE q \in Keys(k)
    BY <2>1 DEF Keys, OwnKey
  <2>2. ASSUME q \in Keys(k) PROVE W # {}
    BY <2>2 DEF Keys
  <2> QED BY <2>1, <2>2
<1>4. CASE Value(x) \in Kind(k, x).omitted
  BY <1>1, <1>2, <1>3, <1>4
<1>5. CASE Value(x) \notin Kind(k, x).omitted
  <2>1. W = {x} /\ q \in Keys(k)
    BY <1>2, <1>3, <1>5
  <2>2. x[1] \in Parts
    BY DEF Members
  <2>3. Last({x}) = x
    BY <2>2 DEF Last, Parts
  <2>4. Document(k)[q] = [from |-> Last(W), text |-> Kind(k, Last(W)).text[Value(Last(W))]]
    BY <2>1 DEF Document
  <2> QED BY <1>1, <1>5, <2>1, <2>3, <2>4
<1> QED BY <1>4, <1>5

\* AllVisible, of an object with any number of values: nothing it holds is
\* overwritten by another member on its way into the document.
THEOREM NothingOverwritten == Spec => []AllVisible
<1>1. IInv => AllVisible
  <2> SUFFICES ASSUME IInv, pc = "written", NEW x \in DOMAIN given, x[2] \notin Hidden(class)
               PROVE  \E key \in DOMAIN document : document[key].from = x
    BY DEF AllVisible
  <2> DEFINE k == Codec(class)
  <2>1. GivenInv /\ document = Document(k)
    BY DEF IInv
  <2>2. x \in Members(k) /\ given[x] \in Values(k, x) /\ Sound(class)
    BY <2>1, TablesAssumption DEF GivenInv
  <2>3. OwnKey(k, x) /\ Values(k, x) \cap Kind(k, x).omitted = {}
    BY <2>2 DEF Sound
  <2>4. Value(x) \notin Kind(k, x).omitted
    BY <2>2, <2>3 DEF Value
  <2> HIDE DEF k
  <2>5. /\ KeyTo(k, x) \in DOMAIN Document(k)
        /\ Document(k)[KeyTo(k, x)] = [from |-> x, text |-> Kind(k, x).text[Value(x)]]
    BY <2>2, <2>3, <2>4, AloneInDocument
  <2> QED BY <2>1, <2>5
<1> QED BY <1>1, InitIInv, NextIInv, PTL DEF Spec

\* A member that is read back under its own key comes back as it was.
LEMMA ComesBack ==
    ASSUME GivenInv, document = Document(Codec(class)),
           NEW x \in Members(Codec(class)), OwnKey(Codec(class), x), ReadBack(class, x)
    PROVE  Read(Codec(class), x) = [from |-> x, value |-> Normal(class, Value(x))]
<1> DEFINE k == Codec(class)
           q == KeyTo(k, x)
<1>1. KeyFrom(k, x) = q
  BY DEF ReadBack
<1>2. Normal(class, Value(x)) =
        IF Value(x) \in Kind(k, x).omitted THEN Kind(k, x).initial
        ELSE Kind(k, x).parse[Kind(k, x).text[Value(x)]]
  BY ValueOfKind DEF ReadBack
<1>3. IF Value(x) \in Kind(k, x).omitted
      THEN q \notin DOMAIN document
      ELSE q \in DOMAIN document /\ document[q] = [from |-> x, text |-> Kind(k, x).text[Value(x)]]
  BY AloneInDocument
<1> HIDE DEF k, q
<1>4. Read(k, x) = [from |-> x, value |-> Normal(class, Value(x))]
  BY <1>1, <1>2, <1>3 DEF Read
<1> QED BY <1>4 DEF k

\* RoundTrip, of an object with any number of values: every member the class
\* does not forget is, in the object read back, what it was in the one written.
THEOREM TripsAreFaithful == Spec => []RoundTrip
<1>1. IInv => RoundTrip
  <2> DEFINE k == Codec(class)
             id == <<"own", "id">>
  <2> SUFFICES ASSUME IInv, pc = "read", DOMAIN back # {},
                      NEW x \in Members(k), x[2] \notin Forgotten(class),
                      ~(class = BoardRow /\ x[1] = "own" /\ id \notin DOMAIN given)
               PROVE  back[x] = [from |-> x, value |-> Normal(class, Value(x))]
    BY DEF RoundTrip
  <2>1. GivenInv /\ document = Document(k) /\ back = Object(k)
    BY DEF IInv
  <2>2. Sound(class)
    BY <2>1, TablesAssumption DEF GivenInv
  <2>3. \E y \in Members(k) : IsRead(k, y)
    BY <2>1 DEF Object
  <2>4. \A y \in Members(k) : y[2] \notin Forgotten(class) =>
           OwnKey(k, y) /\ ReadBack(class, y)
    BY <2>2, <2>3 DEF Sound
  <2>5. \A y \in Members(k) : y[2] \notin Forgotten(class) =>
           Read(k, y) = [from |-> y, value |-> Normal(class, Value(y))]
    BY <2>1, <2>4, ComesBack
  <2>6. ~Skipped(k, x)
    <3> SUFFICES ASSUME x[1] = "own", k.unless # "never" PROVE Read(k, <<"own", k.unless>>).value # "default"
      BY DEF Skipped
    <3>1. /\ class = BoardRow /\ k.unless = "id" /\ "id" \notin Forgotten(class)
          /\ id \in Members(k) /\ \A v \in Values(k, id) : Normal(class, v) # "default"
      BY <2>2 DEF Sound
    <3>2. id \in DOMAIN given
      BY <3>1
    <3>3. Value(id) \in Values(k, id)
      BY <2>1, <3>2 DEF GivenInv, Value
    <3>4. Read(k, id) = [from |-> id, value |-> Normal(class, Value(id))]
      BY <2>5, <3>1
    <3> QED BY <3>1, <3>3, <3>4
  <2>7. IsRead(k, x)
    BY <2>4 DEF ReadBack
  <2>8. Object(k)[x] = Read(k, x)
    BY <2>6, <2>7 DEF Object
  <2> QED BY <2>1, <2>5, <2>8
<1> QED BY <1>1, InitIInv, NextIInv, PTL DEF Spec
=============================================================================
