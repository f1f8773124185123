------------------------------- MODULE Codec --------------------------------
(***************************************************************************)
(* An object of any class of src/RESTObjects, or of any table, is written  *)
(* and read back into a fresh object: what to_json and from_json, or the   *)
(* two Convert functions of a table, make of it together.  The service     *)
(* does this with every row it stores, every answer of another service it  *)
(* reads and every request body.                                           *)
(*                                                                         *)
(* An object is of any class and has values in at most MaxGiven members:   *)
(* two are enough for one key to be shared by two members.                 *)
(***************************************************************************)
EXTENDS Naturals, TLC

CONSTANT MaxGiven   \* bound: members of an object that have a value

ASSUME MaxGivenAssumption == MaxGiven \in Nat

LOCAL Analytics == INSTANCE AnalyticsObjects
LOCAL Cert == INSTANCE CertObjects
LOCAL FMS == INSTANCE FMSObjects
LOCAL GW == INSTANCE GWObjects
LOCAL OWLS == INSTANCE OWLSObjects
LOCAL Prov == INSTANCE ProvObjects
LOCAL Security == INSTANCE SecurityObjects
LOCAL Sub == INSTANCE SubObjects

VARIABLES
    class,      \* the namespace and the name of the class, once chosen
    given,      \* the members that have a value, with their values
    document,   \* under each key, the member it was written from and its text
    back,       \* for each member read, where its value comes from, and the value
    pc
vars == <<class, given, document, back, pc>>

Table == [Analytics |-> Analytics!Classes, Cert |-> Cert!Classes, FMS |-> FMS!Classes,
          GW |-> GW!Classes, OWLS |-> OWLS!Classes, Prov |-> Prov!Classes,
          Security |-> Security!Classes, Sub |-> Sub!Classes]

Classes == UNION {{<<n, c>> : c \in DOMAIN Table[n]} : n \in DOMAIN Table}

Codec(c) == Table[c[1]][c[2]]

Parts == {"own", "info"}

(* The members of a class, its own and the inlined ones.                   *)
Members(k) ==
    {x \in Parts \X (DOMAIN k.own.kinds \cup DOMAIN k.info.kinds) : x[2] \in DOMAIN k[x[1]].kinds}

Kind(k, x) == k[x[1]].kinds[x[2]]

Values(k, x) == DOMAIN Kind(k, x).text \ {Kind(k, x).initial}

Value(x) == IF x \in DOMAIN given THEN given[x] ELSE Kind(Codec(class), x).initial

Init ==
    /\ class = <<>> /\ given = <<>> /\ document = <<>> /\ back = <<>>
    /\ pc = "idle"

(* An object of the class, with values other than the initial ones in some *)
(* of its members.                                                         *)
Made ==
    /\ pc = "idle"
    /\ \E c \in Classes, n \in 0..MaxGiven : \E xs \in [1..n -> Members(Codec(c))] :
          LET S == {xs[i] : i \in 1..n}
              V == UNION {Values(Codec(c), x) : x \in S}
          IN  /\ class' = c
              /\ given' \in {g \in [S -> V] : \A x \in S : g[x] \in Values(Codec(c), x)}
    /\ pc' = "made"
    /\ UNCHANGED <<document, back>>

IsWritten(k, x) == x[2] \in DOMAIN k[x[1]].to
IsRead(k, x)    == x[2] \in DOMAIN k[x[1]].from
KeyTo(k, x)     == k[x[1]].to[x[2]]
KeyFrom(k, x)   == k[x[1]].from[x[2]]

(* Mutant: a value that is zero is left out like one that is absent.       *)
WrittenNonZero(k, key) ==
    {x \in Members(k) : /\ IsWritten(k, x) /\ KeyTo(k, x) = key
                        /\ Value(x) \notin Kind(k, x).omitted \cup {"zero"}}

Written(k, key) ==
    {x \in Members(k) : /\ IsWritten(k, x) /\ KeyTo(k, x) = key
                        /\ Value(x) \notin Kind(k, x).omitted}

(* info.to_json comes first: a class's own member overwrites the key of an *)
(* inlined one.                                                            *)
Last(W) == CHOOSE x \in W : x[1] = "own" \/ \A y \in W : y[1] = "info"

Keys(k) == {KeyTo(k, x) : x \in {y \in Members(k) : IsWritten(k, y) /\ Written(k, KeyTo(k, y)) # {}}}

Document(k) ==
    [key \in Keys(k) |->
        LET x == Last(Written(k, key))
        IN  [from |-> x, text |-> Kind(k, x).text[Value(x)]]]

to_json ==
    /\ pc = "made"
    /\ document' = Document(Codec(class))
    /\ pc' = "written"
    /\ UNCHANGED <<class, given, back>>

(* Mutant: a key that is not there is read as zero.                        *)
ReadZero(k, x) ==
    IF KeyFrom(k, x) \in DOMAIN document
    THEN [from  |-> document[KeyFrom(k, x)].from,
          value |-> Kind(k, x).parse[document[KeyFrom(k, x)].text]]
    ELSE [from |-> x, value |-> "zero"]

Read(k, x) ==
    IF KeyFrom(k, x) \in DOMAIN document
    THEN [from  |-> document[KeyFrom(k, x)].from,
          value |-> Kind(k, x).parse[document[KeyFrom(k, x)].text]]
    ELSE [from |-> x, value |-> Kind(k, x).initial]

(* A board's row without a venue id gives a board without a venue.         *)
Skipped(k, x) ==
    /\ x[1] = "own" /\ k.unless # "never"
    /\ Read(k, <<"own", k.unless>>).value = "default"

Object(k) ==
    [x \in {y \in Members(k) : IsRead(k, y)} |->
        IF Skipped(k, x) THEN [from |-> x, value |-> Kind(k, x).initial] ELSE Read(k, x)]

from_json ==
    /\ pc = "written"
    /\ back' = Object(Codec(class))
    /\ pc' = "read"
    /\ UNCHANGED <<class, given, document>>

Dropped ==
    /\ pc = "read"
    /\ class' = <<>> /\ given' = <<>> /\ document' = <<>> /\ back' = <<>>
    /\ pc' = "idle"

Next == Made \/ to_json \/ from_json \/ Dropped

Spec == Init /\ [][Next]_vars
-----------------------------------------------------------------------------
(* The members a class does not bring back, and the classes of answers that *)
(* are only written.                                                        *)
Forgotten(c) ==
    CASE c = <<"Analytics", "UETimePoint">> -> {"tidstats"}
      [] c = <<"Analytics", "DeviceTimePoint">> -> {"venueId", "resource_data"}
      [] c = <<"Analytics", "DeviceTimePointAnalysis">> -> {"timestamp"}
      [] c = <<"Analytics", "BoardInfoRow">> -> {"tags"}
      [] c = <<"Prov", "ManagementPolicy">> -> {"venue"}
      [] c = <<"Prov", "ManagementRole">> -> {"inUse"}
      [] c = <<"GW", "Device">> -> {"DeviceType"}
      [] c = <<"GW", "DefaultConfiguration">> -> {"Created", "LastModified"}
      [] c = <<"Security", "WebToken">> -> {"errorCode", "id_token_"}
      [] c = <<"Security", "ApiKeyEntry">> -> {"created"}
      [] c = <<"Sub", "HomeDeviceMode">> -> {"leaseTime"}
      [] c = <<"OWLS", "Dashboard">> -> {"O"}
      [] OTHER -> {}

Hidden(c) ==
    CASE c = <<"Analytics", "Report">> -> {"snapShot"}
      [] c[1] = "GW" /\ c[2] \in {"Statistics", "DeviceLog", "HealthCheck"} -> {"SerialNumber"}
      [] c = <<"GW", "CommandDetails">> -> {"AttachSize", "AttachType"}
      [] c = <<"GW", "ConnectionState">> -> {"PendingUUID", "Compatible"}
      [] OTHER -> Forgotten(c)

(* What a value is after one trip: an empty embedded text is the empty      *)
(* object, and a contact that is a manager is of unknown type.              *)
Normal(c, v) ==
    IF c = <<"Prov", "Contact">> /\ v = "MANAGER" THEN "UNKNOWN"
    ELSE IF v = "empty" THEN "{}" ELSE v

BoardRow == <<"Analytics", "BoardInfoRow">>

(* The keys and kinds of a class are sound: a member that is to be found in *)
(* the document is written under a key of its own, one that is to come back *)
(* is read under that key, and each of its values is read as it was.        *)
OwnKey(k, x) ==
    /\ IsWritten(k, x)
    /\ \A y \in Members(k) : IsWritten(k, y) /\ KeyTo(k, y) = KeyTo(k, x) => y = x

ReadBack(c, x) ==
    LET k == Codec(c)
        d == Kind(k, x)
    IN  /\ IsRead(k, x) /\ KeyFrom(k, x) = KeyTo(k, x)
        /\ \A v \in DOMAIN d.text :
              Normal(c, v) = IF v \in d.omitted THEN d.initial ELSE d.parse[d.text[v]]

Sound(c) ==
    LET k == Codec(c)
    IN  /\ \A x \in Members(k) :
              /\ Kind(k, x).initial \in DOMAIN Kind(k, x).text
              /\ x[2] \notin Hidden(c) =>
                    OwnKey(k, x) /\ Values(k, x) \cap Kind(k, x).omitted = {}
              /\ x[2] \notin Forgotten(c) /\ (\E y \in Members(k) : IsRead(k, y)) =>
                    OwnKey(k, x) /\ ReadBack(c, x)
        /\ k.unless # "never" =>
              /\ c = BoardRow /\ k.unless = "id" /\ "id" \notin Forgotten(c)
              /\ <<"own", "id">> \in Members(k) /\ IsRead(k, <<"own", "id">>)
              /\ \A v \in Values(k, <<"own", "id">>) : Normal(c, v) # "default"

ASSUME TablesAssumption == \A c \in Classes : Sound(c)

(* An object that is written and read into a fresh object is the same in    *)
(* every member the class does not forget: no member is written under one   *)
(* key and read under another, no key is shared by two members or by a      *)
(* member and an inlined one, an absent counter does not come back as zero  *)
(* nor a zero as absent, and no column is set from one member and got into  *)
(* another.                                                                 *)
RoundTrip ==
    pc = "read" /\ DOMAIN back # {} =>
        \A x \in Members(Codec(class)) :
            x[2] \notin Forgotten(class) =>
                \/ back[x] = [from |-> x, value |-> Normal(class, Value(x))]
                \/ /\ class = BoardRow
                   /\ x[1] = "own" /\ <<"own", "id">> \notin DOMAIN given

(* Everything an object holds can be read in the document made of it, in    *)
(* the classes that are only answers too: no value is overwritten by        *)
(* another one.                                                             *)
AllVisible ==
    pc = "written" =>
        \A x \in DOMAIN given :
            x[2] \notin Hidden(class) => \E key \in DOMAIN document : document[key].from = x
=============================================================================
