--------------------------- MODULE ZSetOperations ---------------------------
(***************************************************************************)
(* default_zset_operations: the sorted set operations of redis_template.   *)
(* A score is a number that redis_cmd_ops writes as a text and the         *)
(* decoders read back (ScoreOf).                                           *)
(***************************************************************************)
EXTENDS TypedClient, SequencesExt

CONSTANTS
    ScoreMaps,      \* inputs: maps from values to scores
    Increments      \* inputs: what zincrby adds

\* A score is written with as many digits as it takes to read it back.
ASSUME ScoreMapsAssumption ==
    /\ \A m \in ScoreMaps :
          /\ IsFiniteSet(DOMAIN m) /\ DOMAIN m \subseteq Value
          /\ \A v \in DOMAIN m : \E t \in DOMAIN ScoreOf : ScoreOf[t] = m[v]
    /\ \A d \in Increments : \E t \in DOMAIN ScoreOf : ScoreOf[t] = d

ScoreText(n) == CHOOSE t \in DOMAIN ScoreOf : ScoreOf[t] = n

Score(s) == [score |-> s]
Scored(pairs) == [scored |-> pairs]

ZMembers(values) ==
    Bind(SerializedAll(values), LAMBDA texts :
        IF texts = <<>> THEN Done(Count(0)) ELSE Val([cmd |-> "ZREM", texts |-> texts]))

\* Members and scores, in the order of the map.
zadd(c, m) ==
    LET members == SetToSeq(DOMAIN m)
    IN  Call(c, [name |-> "zadd", values |-> members, added |-> m],
             Bind(SerializedAll(members), LAMBDA texts :
                 IF texts = <<>> THEN Done(Count(0))
                 ELSE Val([cmd |-> "ZADD", texts |-> texts,
                           scores |-> [i \in DOMAIN texts |-> ScoreText(m[members[i]])]])))

zrem(c, values) == Call(c, [name |-> "zrem", values |-> values], ZMembers(values))

zincrby(c, d, v) ==
    Call(c, [name |-> "zincrby", values |-> <<v>>, by |-> d],
         Bind(Serialized(v), LAMBDA t :
             Val([cmd |-> "ZINCRBY", text |-> t, by |-> ScoreText(d)])))
zscore(c, v) ==
    Call(c, [name |-> "zscore", values |-> <<v>>],
         Bind(Serialized(v), LAMBDA t : Val([cmd |-> "ZSCORE", text |-> t])))

Ranged(c, name, cmd, from, to) ==
    Call(c, [name |-> name, start |-> from, stop |-> to],
         Val([cmd |-> cmd, start |-> from, stop |-> to]))

zrange(c, from, to) == Ranged(c, "zrange", "ZRANGE", from, to)
zrevrange(c, from, to) == Ranged(c, "zrevrange", "ZREVRANGE", from, to)
zrange_withscores(c, from, to) ==
    Ranged(c, "zrange_withscores", "ZRANGE WITHSCORES", from, to)
zrevrange_withscores(c, from, to) ==
    Ranged(c, "zrevrange_withscores", "ZREVRANGE WITHSCORES", from, to)

ZSetCall(c) ==
    \/ \E m \in ScoreMaps : zadd(c, m)
    \/ \E values \in Batches : zrem(c, values)
    \/ \E v \in Value : zscore(c, v) \/ \E d \in Increments : zincrby(c, d, v)
    \/ \E i, j \in Indexes :
          \/ zrange(c, i, j) \/ zrevrange(c, i, j)
          \/ zrange_withscores(c, i, j) \/ zrevrange_withscores(c, i, j)

optional_score_result(r) == Bind(optional_score(r), LAMBDA s : Val(Score(s)))
new_score_result(r) == Bind(zincrby_result(r), LAMBDA s : Val(Score(Some(s))))

\* Mutant: every pair keeps the score of the first.
FirstScore(r) ==
    Bind(scores(r), LAMBDA pairs :
        Bind(DecodeAll(pairs, LAMBDA p : Deserialized(p[1])), LAMBDA vs :
            Val(Scored([i \in DOMAIN vs |-> <<vs[i], pairs[1][2]>>]))))

scored_result(r) ==
    Bind(scores(r), LAMBDA pairs :
        Bind(DecodeAll(pairs, LAMBDA p : Deserialized(p[1])), LAMBDA vs :
            Val(Scored([i \in DOMAIN vs |-> <<vs[i], pairs[i][2]>>]))))

ZSetResults(o, r) ==
    CASE o.name \in {"zadd", "zrem"} -> {count_result(r)}
      [] o.name = "zincrby" -> {new_score_result(r)}
      [] o.name = "zscore" -> {optional_score_result(r)}
      [] o.name \in {"zrange", "zrevrange"} -> {elements_result(r)}
      [] o.name \in {"zrange_withscores", "zrevrange_withscores"} -> {scored_result(r)}
      [] OTHER -> {}
-----------------------------------------------------------------------------
(* The server (outside the repository).                                     *)

AsZSet(z) == IF DOMAIN z = {} THEN NoObject ELSE [zset |-> z]

\* The members by their scores; equal scores in any order.
Ascending(z) ==
    {s \in SetToSeqs(DOMAIN z) :
        \A i, j \in DOMAIN s : i < j => z[s[i]] <= z[s[j]]}

WithScores(z, s) ==
    Array([i \in 1 .. 2 * Len(s) |-> IF i % 2 = 1 THEN s[(i + 1) \div 2]
                                     ELSE ScoreText(z[s[i \div 2]])])

ScoreAt(z, t) == IF t \in DOMAIN z THEN z[t] ELSE 0
Rescored(z, added) ==
    [t \in DOMAIN z \cup DOMAIN added |-> IF t \in DOMAIN added THEN added[t] ELSE z[t]]
Minus(z, T) == [t \in DOMAIN z \ T |-> z[t]]

ZSetEffects(m, x) ==
    LET z == Content(x, "zset")
        T == {m.texts[i] : i \in DOMAIN m.texts}
        sum == ScoreAt(z, m.text) + ScoreOf[m.by]
        Reply(r) == Change(x, <<>>, r)
        Slices(s) == Slice(s, m.start, m.stop)
    IN  IF ~OfKind(x, "zset") THEN {} ELSE
        CASE m.cmd = "ZADD" ->
                 LET added == [t \in T |-> ScoreOf[m.scores[CHOOSE i \in DOMAIN m.texts :
                                                                m.texts[i] = t]]]
                 IN  {Change(AsZSet(Rescored(z, added)), <<>>,
                             make_integer(Cardinality(T \ DOMAIN z)))}
          [] m.cmd = "ZREM" ->
                 {Change(AsZSet(Minus(z, T)), <<>>,
                         make_integer(Cardinality(T \cap DOMAIN z)))}
          [] m.cmd = "ZINCRBY" ->
                 IF \E t \in DOMAIN ScoreOf : ScoreOf[t] = sum
                 THEN {Change(AsZSet(Rescored(z, [t \in {m.text} |-> sum])), <<>>,
                              make_string(ScoreText(sum)))}
                 ELSE {}
          [] m.cmd = "ZSCORE" ->
                 {Reply(IF m.text \in DOMAIN z THEN make_string(ScoreText(z[m.text]))
                                               ELSE make_nil)}
          [] m.cmd = "ZRANGE" -> {Reply(Array(Slices(s))) : s \in Ascending(z)}
          [] m.cmd = "ZREVRANGE" ->
                 {Reply(Array(Slices(Reversed(s)))) : s \in Ascending(z)}
          [] m.cmd = "ZRANGE WITHSCORES" ->
                 {Reply(WithScores(z, Slices(s))) : s \in Ascending(z)}
          [] m.cmd = "ZREVRANGE WITHSCORES" ->
                 {Reply(WithScores(z, Slices(Reversed(s)))) : s \in Ascending(z)}
          [] OTHER -> {}
-----------------------------------------------------------------------------
(* What zset_operations promises.                                           *)

\* The members from one rank to another, in an order that fits their scores.
RankSlices(o, z) ==
    {Slice(IF o.name \in {"zrange", "zrange_withscores"} THEN s ELSE Reversed(s),
           o.start, o.stop) : s \in Ascending(z)}

ReadRanks(s, Answer(_)) ==
    IF \A i \in DOMAIN s : s[i] \in DOMAIN deserialize_value
    THEN Val(Answer([i \in DOMAIN s |-> deserialize_value[s[i]]]))
    ELSE Throw("deserialize")

ZSetPromised(o, x) ==
    LET z == Content(x, "zset")
        T == {serialize_value[o.values[i]] : i \in DOMAIN o.values}
        member == serialize_value[o.values[1]]
        new(n) == [object |-> AsZSet(Rescored(z, [t \in {member} |-> n])),
                   answers |-> {Val(Score(Some(n)))}]
        Gives(y, answers) == {[object |-> AsZSet(y), answers |-> answers]}
    IN  IF ~OfKind(x, "zset") THEN {} ELSE
        CASE o.name = "zadd" ->
                 Gives(Rescored(z, [t \in T |-> o.added[CHOOSE v \in DOMAIN o.added :
                                                            serialize_value[v] = t]]),
                       {Val(Count(Cardinality(T \ DOMAIN z)))})
          [] o.name = "zrem" ->
                 Gives(Minus(z, T), {Val(Count(Cardinality(T \cap DOMAIN z)))})
          [] o.name = "zincrby" ->
                 {new(n) : n \in {ScoreOf[t] : t \in DOMAIN ScoreOf}
                                 \cap {ScoreAt(z, member) + o.by}}
          [] o.name = "zscore" ->
                 Gives(z, {Val(Score(IF member \in DOMAIN z THEN Some(z[member]) ELSE None))})
          [] o.name \in {"zrange", "zrevrange"} ->
                 Gives(z, {ReadRanks(s, Elements) : s \in RankSlices(o, z)})
          [] o.name \in {"zrange_withscores", "zrevrange_withscores"} ->
                 Gives(z, {ReadRanks(s, LAMBDA vs :
                               Scored([i \in DOMAIN vs |-> <<vs[i], z[s[i]]>>])) :
                              s \in RankSlices(o, z)})
          [] OTHER -> {}

ZSetOps ==
         {[name |-> "zadd", values |-> SetToSeq(DOMAIN m), added |-> m] : m \in ScoreMaps}
    \cup [name : {"zrem"}, values : Batches]
    \cup [name : {"zincrby"}, values : {<<v>> : v \in Value}, by : Increments]
    \cup [name : {"zscore"}, values : {<<v>> : v \in Value}]
    \cup [name : {"zrange", "zrevrange", "zrange_withscores", "zrevrange_withscores"},
          start : Indexes, stop : Indexes]
=============================================================================
