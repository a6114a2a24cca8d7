--------------------------- MODULE ListOperations ---------------------------
(***************************************************************************)
(* default_list_operations: the list operations of redis_template, with    *)
(* what redis_client and redis_cmd_ops make of them, and the commands of   *)
(* the server.                                                             *)
(***************************************************************************)
EXTENDS TypedClient

CONSTANT Counts         \* inputs: the counts of lpop and rpop

ASSUME CountsAssumption == Counts \subseteq Int

LLEN == Val([cmd |-> "LLEN"])

\* Mutant: the values that cannot be serialised are left out.
PushSkipping(cmd, values) ==
    LET good == SelectSeq(values, LAMBDA v : v \in DOMAIN serialize_value)
    IN  IF good = <<>> THEN LLEN
        ELSE Val([cmd |-> cmd,
                  texts |-> [i \in DOMAIN good |-> serialize_value[good[i]]]])

\* Mutant: a push of nothing is sent.
PushAlways(cmd, values) ==
    Bind(SerializedAll(values),
         LAMBDA texts : Val([cmd |-> cmd, texts |-> texts]))

\* redis_client asks for the length instead of pushing nothing.
Push(cmd, values) ==
    Bind(SerializedAll(values), LAMBDA texts :
        IF texts = <<>> THEN LLEN ELSE Val([cmd |-> cmd, texts |-> texts]))

lpush(c, values) ==
    Call(c, [name |-> "lpush", values |-> values], Push("LPUSH", values))
rpush(c, values) ==
    Call(c, [name |-> "rpush", values |-> values], Push("RPUSH", values))

lpush_value(c, v) ==
    Call(c, [name |-> "lpush", values |-> <<v>>],
         Bind(Serialized(v), LAMBDA t : Val([cmd |-> "LPUSH", texts |-> <<t>>])))
rpush_value(c, v) ==
    Call(c, [name |-> "rpush", values |-> <<v>>],
         Bind(Serialized(v), LAMBDA t : Val([cmd |-> "RPUSH", texts |-> <<t>>])))

lpop(c) == Call(c, [name |-> "lpop"], Val([cmd |-> "LPOP"]))
rpop(c) == Call(c, [name |-> "rpop"], Val([cmd |-> "RPOP"]))

lpop_count(c, n) == Call(c, [name |-> "lpop_count", count |-> n],
                         Val([cmd |-> "LPOP", count |-> n]))
rpop_count(c, n) == Call(c, [name |-> "rpop_count", count |-> n],
                         Val([cmd |-> "RPOP", count |-> n]))

lrange(c, from, to) == Call(c, [name |-> "lrange", start |-> from, stop |-> to],
                            Val([cmd |-> "LRANGE", start |-> from, stop |-> to]))
lindex(c, i) == Call(c, [name |-> "lindex", index |-> i],
                     Val([cmd |-> "LINDEX", index |-> i]))
llen(c) == Call(c, [name |-> "llen"], LLEN)

ListCall(c) ==
    \/ \E values \in Batches : lpush(c, values) \/ rpush(c, values)
    \/ \E v \in Value : lpush_value(c, v) \/ rpush_value(c, v)
    \/ lpop(c) \/ rpop(c) \/ llen(c)
    \/ \E n \in Counts : lpop_count(c, n) \/ rpop_count(c, n)
    \/ \E i \in Indexes : lindex(c, i)
    \/ \E i, j \in Indexes : lrange(c, i, j)

\* What the view may make of a reply that is no error.
ListResults(o, r) ==
    CASE o.name \in {"lpush", "rpush", "llen"} -> {count_result(r)}
      [] o.name \in {"lpop", "rpop", "lindex"} -> {element_result(r)}
      [] o.name \in {"lpop_count", "rpop_count", "lrange"} -> {elements_result(r)}
      [] OTHER -> {}
-----------------------------------------------------------------------------
(* The server (outside the repository).  A command that pushes or pops      *)
(* several elements does it one by one.                                     *)

AsList(l) == IF l = <<>> THEN NoObject ELSE [list |-> l]

ListPushed(l) == {Change(AsList(l), <<>>, make_integer(Len(l)))}

ListPopped(m, l) ==
    LET several == "count" \in DOMAIN m
        n == Least(IF several THEN m.count ELSE 1, Len(l))
        left == m.cmd = "LPOP"
        gone == IF left THEN SubSeq(l, 1, n)
                        ELSE Reversed(SubSeq(l, Len(l) - n + 1, Len(l)))
        rest == IF left THEN SubSeq(l, n + 1, Len(l)) ELSE SubSeq(l, 1, Len(l) - n)
    IN  IF several /\ m.count < 0 THEN {}
        ELSE {Change(AsList(rest), gone, IF l = <<>> THEN make_nil
                                         ELSE IF several THEN Array(gone)
                                         ELSE make_string(gone[1]))}

\* What a command may do; nothing, if it is no list command or the key does
\* not hold a list.
ListEffects(m, x) ==
    LET l == Content(x, "list")
    IN  IF ~OfKind(x, "list") THEN {} ELSE
        CASE m.cmd = "LPUSH" -> ListPushed(Reversed(m.texts) \o l)
          [] m.cmd = "RPUSH" -> ListPushed(l \o m.texts)
          [] m.cmd = "LLEN" -> {Change(x, <<>>, make_integer(Len(l)))}
          [] m.cmd = "LRANGE" -> {Change(x, <<>>, Array(Slice(l, m.start, m.stop)))}
          [] m.cmd = "LINDEX" ->
                 {Change(x, <<>>, StringOrNil(
                     IF m.index \in -Len(l) .. Len(l) - 1
                     THEN Slice(l, m.index, m.index) ELSE None))}
          [] m.cmd \in {"LPOP", "RPOP"} -> ListPopped(m, l)
          [] OTHER -> {}
-----------------------------------------------------------------------------
(* What list_operations promises about a list of values, with Bad in the    *)
(* place of an element that is none.                                        *)

Bad == "bad"

ASSUME BadAssumption == Bad \notin Value

TypedList(texts) ==
    [i \in DOMAIN texts |-> IF texts[i] \in DOMAIN deserialize_value
                            THEN deserialize_value[texts[i]] ELSE Bad]

\* The list l remains; the answer holds the values vs, unless one is bad.
ListGives(l, vs, answer) ==
    {[object |-> AsList(l),
      answers |-> {IF \A i \in DOMAIN vs : vs[i] # Bad THEN Val(answer)
                                                       ELSE Throw("deserialize")}]}

ListPromised(o, x) ==
    LET l == Content(x, "list")
        first(n) == SubSeq(l, 1, Least(n, Len(l)))
        last(n) == SubSeq(l, Len(l) + 1 - Least(n, Len(l)), Len(l))
        afterFirst(n) == SubSeq(l, Least(n, Len(l)) + 1, Len(l))
        beforeLast(n) == SubSeq(l, 1, Len(l) - Least(n, Len(l)))
    IN  IF ~OfKind(x, "list") THEN {} ELSE
        CASE o.name = "lpush" ->
                 ListGives(Reversed(o.values) \o l, <<>>, Count(Len(l) + Len(o.values)))
          [] o.name = "rpush" ->
                 ListGives(l \o o.values, <<>>, Count(Len(l) + Len(o.values)))
          [] o.name = "llen" -> ListGives(l, <<>>, Count(Len(l)))
          [] o.name = "lpop" -> ListGives(afterFirst(1), first(1), Element(first(1)))
          [] o.name = "rpop" -> ListGives(beforeLast(1), last(1), Element(last(1)))
          [] o.name = "lpop_count" /\ o.count >= 0 ->
                 ListGives(afterFirst(o.count), first(o.count), Elements(first(o.count)))
          [] o.name = "rpop_count" /\ o.count >= 0 ->
                 ListGives(beforeLast(o.count), last(o.count),
                           Elements(Reversed(last(o.count))))
          [] o.name = "lrange" ->
                 LET s == Slice(l, o.start, o.stop) IN ListGives(l, s, Elements(s))
          [] o.name = "lindex" ->
                 LET at == IF o.index < 0 THEN Len(l) + o.index + 1 ELSE o.index + 1
                     s == IF at \in DOMAIN l THEN <<l[at]>> ELSE <<>>
                 IN  ListGives(l, s, Element(s))
          [] OTHER -> {}

ListOps ==
         [name : {"lpush", "rpush"}, values : Batches \cup {<<v>> : v \in Value}]
    \cup [name : {"lpop", "rpop", "llen"}]
    \cup [name : {"lpop_count", "rpop_count"}, count : Counts]
    \cup [name : {"lrange"}, start : Indexes, stop : Indexes]
    \cup [name : {"lindex"}, index : Indexes]
=============================================================================
