---------------------------- MODULE SetOperations ----------------------------
(***************************************************************************)
(* default_set_operations: the set operations of redis_template.  A member *)
(* is the text of a value; other programs may add texts that are none.     *)
(***************************************************************************)
EXTENDS TypedClient, SequencesExt

CONSTANT KeyCounts      \* inputs: how many keys sinter is called with

ASSUME KeyCountsAssumption == KeyCounts \subseteq Nat

\* Without members nothing is sent and the result is 0.
Members(cmd, values) ==
    Bind(SerializedAll(values), LAMBDA texts :
        IF texts = <<>> THEN Done(Count(0)) ELSE Val([cmd |-> cmd, texts |-> texts]))

sadd(c, values) ==
    Call(c, [name |-> "sadd", values |-> values], Members("SADD", values))
srem(c, values) ==
    Call(c, [name |-> "srem", values |-> values], Members("SREM", values))

spop(c) == Call(c, [name |-> "spop"], Val([cmd |-> "SPOP"]))
smembers(c) == Call(c, [name |-> "smembers"], Val([cmd |-> "SMEMBERS"]))
scard(c) == Call(c, [name |-> "scard"], Val([cmd |-> "SCARD"]))

sismember(c, v) ==
    Call(c, [name |-> "sismember", values |-> <<v>>],
         Bind(Serialized(v), LAMBDA t : Val([cmd |-> "SISMEMBER", text |-> t])))

\* The first key is the one whose object is modelled.
sinter(c, n) ==
    Call(c, [name |-> "sinter", keys |-> n],
         IF n = 0 THEN Done(Elements(<<>>)) ELSE Val([cmd |-> "SINTER", keys |-> n]))

SetCall(c) ==
    \/ \E values \in Batches : sadd(c, values) \/ srem(c, values)
    \/ spop(c) \/ smembers(c) \/ scard(c)
    \/ \E v \in Value : sismember(c, v)
    \/ \E n \in KeyCounts : sinter(c, n)

SetResults(o, r) ==
    CASE o.name \in {"sadd", "srem", "scard"} -> {count_result(r)}
      [] o.name = "spop" -> {element_result(r)}
      [] o.name \in {"smembers", "sinter"} -> {elements_result(r)}
      [] o.name = "sismember" -> {flag_result(r)}
      [] OTHER -> {}
-----------------------------------------------------------------------------
(* The server (outside the repository).                                     *)

AsSet(S) == IF S = {} THEN NoObject ELSE [set |-> S]
SetOf(x) == IF x = NoObject THEN {} ELSE x.set

\* What sinter with n keys may find; the sets at the other keys are any.
Intersections(S, n) == IF n = 1 THEN {S} ELSE SUBSET S

SetEffects(m, x) ==
    LET S == SetOf(x)
        T == {m.texts[i] : i \in DOMAIN m.texts}
        Reply(r) == Change(x, <<>>, r)
    IN  IF ~OfKind(x, "set") THEN {} ELSE
        CASE m.cmd = "SADD" ->
                 {Change(AsSet(S \cup T), <<>>, make_integer(Cardinality(T \ S)))}
          [] m.cmd = "SREM" ->
                 {Change(AsSet(S \ T), <<>>, make_integer(Cardinality(T \cap S)))}
          [] m.cmd = "SPOP" ->
                 IF S = {} THEN {Reply(make_nil)}
                 ELSE {Change(AsSet(S \ {t}), <<t>>, make_string(t)) : t \in S}
          [] m.cmd = "SMEMBERS" -> {Reply(Array(s)) : s \in SetToSeqs(S)}
          [] m.cmd = "SCARD" -> {Reply(make_integer(Cardinality(S)))}
          [] m.cmd = "SISMEMBER" ->
                 {Reply(make_integer(IF m.text \in S THEN 1 ELSE 0))}
          [] m.cmd = "SINTER" ->
                 {Reply(Array(SetToSeq(I))) : I \in Intersections(S, m.keys)}
          [] OTHER -> {}
-----------------------------------------------------------------------------
(* What set_operations promises.                                            *)

\* The values of the texts of S in any order, unless one is none.
ListedValues(S) ==
    IF S \subseteq DOMAIN deserialize_value
    THEN {Val(Elements([i \in DOMAIN s |-> deserialize_value[s[i]]])) : s \in SetToSeqs(S)}
    ELSE {Throw("deserialize")}

SetPromised(o, x) ==
    LET S == SetOf(x)
        T == {serialize_value[o.values[i]] : i \in DOMAIN o.values}
        Gives(Q, answers) == {[object |-> AsSet(Q), answers |-> answers]}
    IN  IF ~OfKind(x, "set") THEN {} ELSE
        CASE o.name = "sadd" -> Gives(S \cup T, {Val(Count(Cardinality(T \ S)))})
          [] o.name = "srem" -> Gives(S \ T, {Val(Count(Cardinality(S) - Cardinality(S \ T)))})
          [] o.name = "spop" ->
                 IF S = {} THEN Gives({}, {Val(Element(None))})
                 ELSE UNION {Gives(S \ {t}, {Bind(Deserialized(t), LAMBDA v :
                                                 Val(Element(Some(v))))}) : t \in S}
          [] o.name = "smembers" -> Gives(S, ListedValues(S))
          [] o.name = "scard" -> Gives(S, {Val(Count(Cardinality(S)))})
          [] o.name = "sismember" -> Gives(S, {Val(Flag(T \subseteq S))})
          [] o.name = "sinter" ->
                 Gives(S, UNION {ListedValues(I) : I \in Intersections(S, o.keys)})
          [] OTHER -> {}

SetOps ==
         [name : {"sadd", "srem"}, values : Batches]
    \cup [name : {"spop", "smembers", "scard"}]
    \cup [name : {"sismember"}, values : {<<v>> : v \in Value}]
    \cup [name : {"sinter"}, keys : KeyCounts]
=============================================================================
