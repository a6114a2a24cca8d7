-------------------------- MODULE ValueOperations --------------------------
(***************************************************************************)
(* default_value_operations: the operations of redis_template on a single  *)
(* value.  Numbers are added and texts are appended by the server, on the  *)
(* text that is there, whoever wrote it.                                   *)
(***************************************************************************)
EXTENDS TypedClient

CONSTANTS
    Deltas,         \* inputs: the increments of incr and decr
    NumberOf,       \* a partial function: the texts the server takes for numbers
    Appended,       \* a partial function from pairs of texts: the one and then
                    \* the other, as far as the server has memory for it
    LengthOf        \* the lengths of texts

\* What the server answers are integers of its own width.
ASSUME NumbersAssumption ==
    /\ \A t \in DOMAIN NumberOf : NumberOf[t] \in Int64
    /\ \A v \in DOMAIN serialize_value : LengthOf[serialize_value[v]] \in Int64
    /\ \A p \in DOMAIN Appended : LengthOf[Appended[p]] \in Int64

Store(cmd, v) ==
    Bind(Serialized(v), LAMBDA t : Val([cmd |-> cmd, text |-> t]))

set(c, v) == Call(c, [name |-> "set", values |-> <<v>>], Store("SET", v))
append(c, v) == Call(c, [name |-> "append", values |-> <<v>>], Store("APPEND", v))
get_and_set(c, v) ==
    Call(c, [name |-> "get_and_set", values |-> <<v>>], Store("GETSET", v))

get(c) == Call(c, [name |-> "get"], Val([cmd |-> "GET"]))

incr(c, d) == Call(c, [name |-> "incr", delta |-> d],
                   Val([cmd |-> "INCRBY", delta |-> d]))
decr(c, d) == Call(c, [name |-> "decr", delta |-> d],
                   Val([cmd |-> "DECRBY", delta |-> d]))

\* redis_client has three more ways to SET, which no view uses; they take a
\* text.  A time to live is for the server to keep.
SetText(c, name, cmd, t) ==
    Call(c, [name |-> name, text |-> t], Val([cmd |-> cmd, text |-> t]))

set_not_exists(c, t) == SetText(c, "set_not_exists", "SET NX", t)
set_ex(c, t) == SetText(c, "set_text", "SET", t)
set_px(c, t) == SetText(c, "set_text", "SET", t)

ValueCall(c) ==
    \/ \E t \in DOMAIN NumberOf : set_not_exists(c, t) \/ set_ex(c, t) \/ set_px(c, t)
    \/ \E v \in Value : set(c, v) \/ append(c, v) \/ get_and_set(c, v)
    \/ get(c)
    \/ \E d \in Deltas : incr(c, d) \/ decr(c, d)

stored_result(r) == Bind(set_result(r), LAMBDA b : Val(Flag(b)))

ValueResults(o, r) ==
    CASE o.name \in {"set", "set_text", "set_not_exists"} -> {stored_result(r)}
      [] o.name \in {"get", "get_and_set"} -> {element_result(r)}
      [] o.name \in {"incr", "decr", "append"} -> {count_result(r)}
      [] OTHER -> {}
-----------------------------------------------------------------------------
(* The server (outside the repository).                                     *)

AsString(t) == [string |-> t]
StringOf(x) == IF x = NoObject THEN None ELSE Some(x.string)

\* The texts of the number that d makes of the one at the key; none, if that
\* is no number or the sum overflows.
Sums(x, d) ==
    LET n == IF x = NoObject THEN 0 ELSE NumberOf[x.string]
    IN  IF x = NoObject \/ x.string \in DOMAIN NumberOf
        THEN {t \in DOMAIN NumberOf : NumberOf[t] = n + d} ELSE {}

Joined(x, t) == IF x = NoObject THEN {t}
                ELSE {Appended[p] : p \in {<<x.string, t>>} \cap DOMAIN Appended}

ValueEffects(m, x) ==
    IF m.cmd = "SET" \/ (m.cmd = "SET NX" /\ x = NoObject)
    THEN {Change(AsString(m.text), <<>>, make_status("OK"))}
    ELSE IF m.cmd = "SET NX" THEN {Change(x, <<>>, make_nil)}
    ELSE IF ~OfKind(x, "string") THEN {} ELSE
    CASE m.cmd = "GET" -> {Change(x, <<>>, StringOrNil(StringOf(x)))}
      [] m.cmd = "GETSET" ->
             {Change(AsString(m.text), StringOf(x), StringOrNil(StringOf(x)))}
      [] m.cmd \in {"INCRBY", "DECRBY"} ->
             {Change(AsString(t), <<>>, make_integer(NumberOf[t])) :
                 t \in Sums(x, IF m.cmd = "INCRBY" THEN m.delta ELSE -m.delta)}
      [] m.cmd = "APPEND" ->
             {Change(AsString(t), <<>>, make_integer(LengthOf[t])) :
                 t \in Joined(x, m.text)}
      [] OTHER -> {}
-----------------------------------------------------------------------------
(* What value_operations promises.                                          *)

ValueGives(x, answer) == [object |-> x, answers |-> {answer}]

Current(x) ==
    IF x = NoObject THEN Val(Element(None))
    ELSE IF x.string \in DOMAIN deserialize_value
         THEN Val(Element(Some(deserialize_value[x.string])))
         ELSE Throw("deserialize")

ValuePromised(o, x) ==
    IF o.name = "set"
    THEN {ValueGives(AsString(serialize_value[o.values[1]]), Val(Flag(TRUE)))}
    ELSE IF o.name \in {"set_text", "set_not_exists"}
    THEN LET stored == x = NoObject \/ o.name = "set_text"
         IN  {ValueGives(IF stored THEN AsString(o.text) ELSE x, Val(Flag(stored)))}
    ELSE IF ~OfKind(x, "string") THEN {} ELSE
    CASE o.name = "get" -> {ValueGives(x, Current(x))}
      [] o.name = "get_and_set" ->
             {ValueGives(AsString(serialize_value[o.values[1]]), Current(x))}
      [] o.name = "incr" ->
             {ValueGives(AsString(t), Val(Count(NumberOf[t]))) : t \in Sums(x, o.delta)}
      [] o.name = "decr" ->
             {ValueGives(AsString(t), Val(Count(NumberOf[t]))) : t \in Sums(x, -o.delta)}
      [] o.name = "append" ->
             {ValueGives(AsString(t), Val(Count(LengthOf[t]))) :
                 t \in Joined(x, serialize_value[o.values[1]])}
      [] OTHER -> {}

ValueOps ==
         [name : {"set", "append", "get_and_set"}, values : {<<v>> : v \in Value}]
    \cup [name : {"get"}]
    \cup [name : {"set_text", "set_not_exists"}, text : DOMAIN NumberOf]
    \cup [name : {"incr", "decr"}, delta : Deltas]
=============================================================================
