----------------------------- MODULE CppMessage -----------------------------
(***************************************************************************)
(* The messages of wschat-cpp and their JSON (message.hpp).                *)
(*                                                                         *)
(* A JSON value is a tuple that begins with its type: <<"string", s>>, an  *)
(* <<"object", f>> whose f has the keys that are present as its domain,    *)
(* <<"unsigned", n>> and <<"integer", n>> (a literal without and with a    *)
(* minus sign), <<"float", h>> standing for h / 2, and <<"null">> for all  *)
(* that no field may be.  A text is the value it denotes, or <<"garbage">> *)
(* when it denotes none.  External: nlohmann::json.                        *)
(***************************************************************************)
EXTENDS Integers

CONSTANT Width  \* the bits of int64_t and uint64_t

\* What there is to know of the powers of two.
ASSUME WidthAssumption ==
    Width \in Nat \ {0} /\ 2^(Width - 1) \in Nat \ {0} /\ 2^Width = 2 * 2^(Width - 1)

Int64 == -(2^(Width - 1)) .. 2^(Width - 1) - 1

\* Seeded fault: a name of another server's.
action_str_misspelt == [Connect |-> "connect", Chat |-> "chat",
                        Disconnect |-> "discconnect", Error |-> "error"]

action_str == [Connect |-> "connect", Chat |-> "chat",
               Disconnect |-> "disconnect", Error |-> "error"]

\* Throws InvalidActionError outside its domain.
action_from_string == [connect |-> "Connect", chat |-> "Chat",
                       disconnect |-> "Disconnect", error |-> "Error"]

Action == DOMAIN action_str

\* The clock; one reading is as good as another.
get_timestamp == 0

\* Message(Action, contents)
SystemMessage(action, contents) ==
    [sender |-> "system", action |-> action, contents |-> contents, timestamp |-> get_timestamp]

-----------------------------------------------------------------------------
(* get_to: the conversions of JSON values, which throw unless IsType *)

IsString(v) == v[1] = "string"
IsNumber(v) == v[1] \in {"unsigned", "integer", "float"}

\* A static_cast to int64_t: modulo 2^Width, or towards zero.
ToInt64(v) ==
    CASE v[1] = "unsigned" -> ((v[2] + 2^(Width - 1)) % 2^Width) - 2^(Width - 1)
      [] v[1] = "integer"  -> v[2]
      [] v[1] = "float"    -> IF v[2] >= 0 THEN v[2] \div 2 ELSE -((-v[2]) \div 2)

\* What parse makes of a number that dump wrote.
Literal(n) == <<IF n >= 0 THEN "unsigned" ELSE "integer", n>>

-----------------------------------------------------------------------------
(* deserialize and serialize *)

Has(v, key) == key \in DOMAIN v[2]

\* from_json comes to its end: only the sender must be there, and what is there must
\* have its type.  Anything else is a JSONError, text that does not parse included.
Accepts(v) ==
    /\ v[1] = "object"
    /\ Has(v, "sender") /\ IsString(v[2].sender)
    /\ Has(v, "action") =>
          IsString(v[2].action) /\ v[2].action[2] \in DOMAIN action_from_string
    /\ Has(v, "contents") => IsString(v[2].contents)
    /\ Has(v, "timestamp") => IsNumber(v[2].timestamp)

\* The fields are default-initialised before: strings are empty, timestamp is raw.
from_json(v, raw) ==
    [sender    |-> v[2].sender[2],
     action    |-> IF Has(v, "action") THEN action_from_string[v[2].action[2]] ELSE "Chat",
     contents  |-> IF Has(v, "contents") THEN v[2].contents[2] ELSE "",
     timestamp |-> IF Has(v, "timestamp") THEN ToInt64(v[2].timestamp) ELSE raw]

\* Message(string_view), for every value the memory of timestamp may hold.
Message(text) == {from_json(text, raw) : raw \in Int64}

to_json(msg) ==
    <<"object", [sender    |-> <<"string", msg.sender>>,
                 action    |-> <<"string", action_str[msg.action]>>,
                 contents  |-> <<"string", msg.contents>>,
                 timestamp |-> <<"integer", msg.timestamp>>]>>

\* What is dumped, as the text it is: a number is signed only if it is negative.
serialize(msg) ==
    LET j == to_json(msg) IN <<"object", [j[2] EXCEPT !.timestamp = Literal(@[2])]>>
=============================================================================
