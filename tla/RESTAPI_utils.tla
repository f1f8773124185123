--------------------------- MODULE RESTAPI_utils ---------------------------
(***************************************************************************)
(* How the classes of src/RESTObjects are written to JSON documents and    *)
(* read back, from framework/RESTAPI_utils.h.                              *)
(*                                                                         *)
(* A struct is a function from its members to their kinds.  A kind says    *)
(* which values of the member are told apart, which of them to_json leaves *)
(* out of the document, the text a value is written as and the value a     *)
(* text is read as.  A codec gives the keys the members are written and    *)
(* read under.                                                             *)
(***************************************************************************)
LOCAL INSTANCE Naturals
LOCAL INSTANCE Functions
LOCAL INSTANCE TLC

Same(S) == [v \in S |-> v]

(* Strings, numbers, lists and objects (by the codec of their own class):  *)
(* the key is always written; a missing key leaves the member as it was.   *)
Plain(S) ==
    [m \in S |-> [initial |-> "default", omitted |-> {},
                  text |-> Same({"default", "given"}), parse |-> Same({"default", "given"})]]

(* std::optional members: a missing or null key is read as absent, which   *)
(* is not the value zero.                                                  *)
Optional(S) ==
    [m \in S |-> [initial |-> "absent", omitted |-> {"absent"},
                  text |-> Same({"absent", "zero", "given"}), parse |-> Same({"zero", "given"})]]

(* A JSON text kept in a string: embedded as an object, an empty text as   *)
(* the empty object, and read back as the text of that object.             *)
EmbedDocument(S) ==
    [m \in S |-> [initial |-> "empty", omitted |-> {},
                  text |-> ("empty" :> "{}" @@ "given" :> "given"),
                  parse |-> Same({"{}", "given"})]]

(* An enumeration written by name; from is the function that reads names.  *)
Enum(S, default, from) ==
    [m \in S |-> [initial |-> default, omitted |-> {}, text |-> Same(DOMAIN from), parse |-> from]]

(* The members of the inlined ObjectInfo, none in most classes.            *)
NoMembers == [kinds |-> <<>>, to |-> <<>>, from |-> <<>>]

(* A class: its own members, the inlined ones, and the member without      *)
(* which none of its own is read ("never" but for a board's row).          *)
(* Every member is written and read under its own name, but for the ones   *)
(* whose key is given.                                                     *)
Keyed(s, keys) ==
    LET key == [m \in DOMAIN s |-> IF m \in DOMAIN keys THEN keys[m] ELSE m]
    IN  [own |-> [kinds |-> s, to |-> key, from |-> key], info |-> NoMembers, unless |-> "never"]

ByName(s) == Keyed(s, <<>>)

(* The columns of a table from the first on, each with the member set from *)
(* it or got from it.                                                      *)
Columns(first, members) ==
    [m \in Range(members) |-> ToString(first - 1 + CHOOSE i \in DOMAIN members : members[i] = m)]

ByPosition(s, first, sets, gets) ==
    [own |-> [kinds |-> s, to |-> Columns(first, sets), from |-> Columns(first, gets)],
     info |-> NoMembers, unless |-> "never"]

Unwritten(c, S) == [c EXCEPT !.own.to = Restrict(@, DOMAIN @ \ S)]

Unread(c, S) == [c EXCEPT !.own.from = Restrict(@, DOMAIN @ \ S)]

Ignored(c, S) == Unread(Unwritten(c, S), S)

WriteOnly(c) == [c EXCEPT !.own.from = <<>>]

(* info.to_json(Obj) and info.from_json(Obj): the members of another class *)
(* share the document.                                                     *)
Inlining(c, other) == [c EXCEPT !.info = other.own]
=============================================================================
