----------------------------- MODULE KeyCommands -----------------------------
(***************************************************************************)
(* The operations of redis_template on a key, whatever it holds.           *)
(*                                                                         *)
(* The clock of the server is not modelled: any key that exists may have a *)
(* timeout, and one that runs out is a change by others.                   *)
(***************************************************************************)
EXTENDS TypedClient

CONSTANTS
    KeyVectors,     \* inputs: how often the key is in the vector of del
    Times,          \* inputs: times to live; the server may also answer them
    Messages        \* inputs: what a ping may carry

ASSUME KeyVectorsAssumption == KeyVectors \subseteq Nat /\ Times \subseteq Int64

exists(c) == Call(c, [name |-> "exists"], Val([cmd |-> "EXISTS"]))
type(c) == Call(c, [name |-> "type"], Val([cmd |-> "TYPE"]))
del(c) == Call(c, [name |-> "del", keys |-> 1], Val([cmd |-> "DEL", keys |-> 1]))

\* Without keys nothing is sent and the result is 0.
Del(n) == IF n = 0 THEN Done(Count(0)) ELSE Val([cmd |-> "DEL", keys |-> n])

del_list(c, n) == Call(c, [name |-> "del", keys |-> n], Del(n))

Plainly(c, name, cmd) == Call(c, [name |-> name], Val([cmd |-> cmd]))

expire(c, n) == Call(c, [name |-> "expire", time |-> n],
                     Val([cmd |-> "EXPIRE", time |-> n]))
pexpire(c, n) == Call(c, [name |-> "expire", time |-> n],
                      Val([cmd |-> "PEXPIRE", time |-> n]))
ttl(c) == Plainly(c, "ttl", "TTL")
pttl(c) == Plainly(c, "ttl", "PTTL")
persist(c) == Plainly(c, "persist", "PERSIST")
ping(c) == Plainly(c, "ping", "PING")
ping_message(c, t) == Call(c, [name |-> "ping", message |-> t],
                           Val([cmd |-> "PING", message |-> t]))

KeyCall(c) ==
    \/ exists(c) \/ type(c) \/ del(c)
    \/ \E n \in KeyVectors : del_list(c, n)
    \/ \E n \in Times : expire(c, n) \/ pexpire(c, n)
    \/ ttl(c) \/ pttl(c) \/ persist(c) \/ ping(c)
    \/ \E t \in Messages : ping_message(c, t)

Kind(x) == IF x = NoObject THEN "none" ELSE CHOOSE kind \in DOMAIN x : TRUE

pong_result(r) == Bind(as_text(r), LAMBDA t : Val([pong |-> t]))

type_result(r) == Bind(as_status(r), LAMBDA t : Val([kind |-> t]))

KeyResults(o, r) ==
    CASE o.name \in {"exists", "expire", "persist"} -> {flag_result(r)}
      [] o.name = "type" -> {type_result(r)}
      [] o.name \in {"del", "ttl"} -> {count_result(r)}
      [] o.name = "ping" -> {pong_result(r)}
      [] OTHER -> {}

\* What may be left of a key whose time is n from now.
Expired(x, n) == IF n > 0 THEN x ELSE NoObject

TimesLeft(x) == IF x = NoObject THEN {-2} ELSE {-1} \cup {n \in Times : n > 0}

\* The server (outside the repository) removes a key once, however often the
\* command names it.
KeyEffects(m, x) ==
    CASE m.cmd \in {"EXPIRE", "PEXPIRE"} ->
             {Change(Expired(x, m.time), <<>>, make_integer(IF x = NoObject THEN 0 ELSE 1))}
      [] m.cmd \in {"TTL", "PTTL"} ->
             {Change(x, <<>>, make_integer(n)) : n \in TimesLeft(x)}
      [] m.cmd = "PERSIST" ->
             {Change(x, <<>>, make_integer(n)) : n \in IF x = NoObject THEN {0} ELSE 0 .. 1}
      [] m.cmd = "PING" -> {Change(x, <<>>, IF "message" \in DOMAIN m
                                             THEN make_string(m.message)
                                             ELSE make_status("PONG"))}
      [] m.cmd = "EXISTS" ->
             {Change(x, <<>>, make_integer(IF x = NoObject THEN 0 ELSE 1))}
      [] m.cmd = "TYPE" -> {Change(x, <<>>, make_status(Kind(x)))}
      [] m.cmd = "DEL" ->
             {Change(NoObject, <<>>, make_integer(IF x = NoObject THEN 0 ELSE 1))}
      [] OTHER -> {}

\* What redis_template promises of a key.
KeyPromised(o, x) ==
    LET Gives(y, v) == {[object |-> y, answers |-> {Val(v)}]}
    IN  CASE o.name = "ping" ->
                 Gives(x, [pong |-> IF "message" \in DOMAIN o THEN o.message ELSE "PONG"])
          [] o.name = "ttl" -> UNION {Gives(x, Count(n)) : n \in TimesLeft(x)}
          [] o.name = "persist" ->
                 Gives(x, Flag(FALSE)) \cup IF x = NoObject THEN {} ELSE Gives(x, Flag(TRUE))
          [] o.name = "expire" -> Gives(Expired(x, o.time), Flag(x # NoObject))
          [] o.name = "exists" -> Gives(x, Flag(x # NoObject))
          [] o.name = "type" -> Gives(x, [kind |-> Kind(x)])
          [] o.name = "del" -> Gives(IF o.keys = 0 THEN x ELSE NoObject,
                                     Count(IF o.keys = 0 \/ x = NoObject THEN 0 ELSE 1))
          [] OTHER -> {}

KeyOps ==
         [name : {"exists", "type", "ttl", "persist", "ping"}]
    \cup [name : {"ping"}, message : Messages]
    \cup [name : {"expire"}, time : Times]
    \cup [name : {"del"}, keys : KeyVectors \cup {1}]
=============================================================================
