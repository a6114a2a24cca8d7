------------------------ MODULE OperationViewsProofs ------------------------
(***************************************************************************)
(* Proofs about OperationViews, for any number of clients, any values,     *)
(* texts and objects: TypeOK, PopGivesWhatItRemoves, and that every call   *)
(* of every view is one step of LinearObject.                              *)
(*                                                                         *)
(* The first invariant follows a call that removes something: its command  *)
(* has taken nothing while it is on its way, only the commands of such     *)
(* calls take anything, and the reply that is on its way back tells what   *)
(* was taken, whatever the view makes of it.  The second one, for the      *)
(* linear object, is that a command on its way Means its operation: what   *)
(* the server may do with it, and what the view may make of the reply, is  *)
(* promised of the operation.  There is a lemma for each command.          *)
(***************************************************************************)
EXTENDS OperationViews, ReadingLemmas, FiniteSetTheorems, SequenceTheorems

-----------------------------------------------------------------------------
(* What is made of texts and of replies.                                    *)

\* A vector of values is serialised as a whole, or not at all.
LEMMA SerializedAllResult ==
    ASSUME NEW values \in Seq(Value)
    PROVE  \/ /\ \A i \in DOMAIN values : values[i] \in DOMAIN serialize_value
              /\ \E texts \in Seq(Text) :
                    /\ Len(texts) = Len(values)
                    /\ \A i \in DOMAIN values : texts[i] = serialize_value[values[i]]
                    /\ SerializedAll(values) = Val(texts)
           \/ /\ \E i \in DOMAIN values : values[i] \notin DOMAIN serialize_value
              /\ SerializedAll(values) = Throw("serialize")
<1>. DEFINE results == [i \in DOMAIN values |-> Serialized(values[i])]
<1>1. DOMAIN results = 1 .. Len(values) /\ Len(values) \in Nat
  OBVIOUS
<1>2. SerializedAll(values) = Collected(results)
  BY DEF SerializedAll, DecodeAll, Once
<1>3. \A i \in 1 .. Len(values) :
        \/ results[i] = Throw("serialize") /\ values[i] \notin DOMAIN serialize_value
        \/ /\ values[i] \in DOMAIN serialize_value
           /\ serialize_value[values[i]] \in Text
           /\ results[i] = Val(serialize_value[values[i]])
  BY TypedAssumption DEF Serialized
<1>4. CASE \A i \in 1 .. Len(values) : results[i].ok
  <2>. DEFINE texts == [i \in 1 .. Len(values) |-> results[i].value]
  <2>1. \A i \in 1 .. Len(values) : /\ results[i].value \in Text
                                    /\ results[i].value = serialize_value[values[i]]
                                    /\ values[i] \in DOMAIN serialize_value
    <3>. TAKE i \in 1 .. Len(values)
    <3>1. results[i].ok
      BY <1>4
    <3>2. /\ values[i] \in DOMAIN serialize_value
          /\ serialize_value[values[i]] \in Text
          /\ results[i] = Val(serialize_value[values[i]])
      <4>. HIDE DEF results
      <4>. QED
        BY <1>3, <3>1, Outcomes
    <3>. HIDE DEF results
    <3>. QED
      BY <3>2, Outcomes
  <2>2. texts \in Seq(Text) /\ Len(texts) = Len(values)
    BY <2>1, <1>1
  <2>3. Collected(results) = Val(texts)
    BY <1>1, <1>4, CollectedResult
  <2>4. \A i \in 1 .. Len(values) : texts[i] = results[i].value
    OBVIOUS
  <2>. HIDE DEF results, texts
  <2>. QED
    BY <2>1, <2>2, <2>3, <2>4, <1>1, <1>2
<1>5. CASE ~ \A i \in 1 .. Len(values) : results[i].ok
  <2>1. PICK i \in 1 .. Len(values) : ~results[i].ok /\ Collected(results) = results[i]
    BY <1>1, <1>5, CollectedResult
  <2>2. values[i] \notin DOMAIN serialize_value /\ Collected(results) = Throw("serialize")
    BY <2>1, <1>3, Outcomes
  <2>. QED
    BY <2>2, <1>1, <1>2
<1>. QED
  BY <1>4, <1>5

\* The texts of a loop that deserialises them.
LEMMA DeserializedEach ==
    ASSUME NEW texts \in Seq(Text), NEW results, DOMAIN results = 1 .. Len(texts),
           \A i \in 1 .. Len(texts) : results[i] = Deserialized(texts[i])
    PROVE  \/ /\ \A i \in DOMAIN texts : texts[i] \in DOMAIN deserialize_value
              /\ Collected(results) = Val([i \in DOMAIN texts |-> deserialize_value[texts[i]]])
           \/ /\ \E i \in DOMAIN texts : texts[i] \notin DOMAIN deserialize_value
              /\ Collected(results) = Throw("deserialize")
<1>1. DOMAIN texts = 1 .. Len(texts) /\ Len(texts) \in Nat
  OBVIOUS
<1>2. \A i \in 1 .. Len(texts) :
        IF texts[i] \in DOMAIN deserialize_value
        THEN results[i] = Val(deserialize_value[texts[i]])
        ELSE results[i] = Throw("deserialize")
  BY DEF Deserialized
<1>3. CASE \A i \in 1 .. Len(texts) : results[i].ok
  <2>1. \A i \in 1 .. Len(texts) : texts[i] \in DOMAIN deserialize_value
    BY <1>2, <1>3, Outcomes
  <2>2. Collected(results) = Val([i \in 1 .. Len(texts) |-> results[i].value])
    BY <1>1, <1>3, CollectedResult
  <2>. DEFINE vs == [i \in DOMAIN texts |-> deserialize_value[texts[i]]]
  <2>3. \A i \in 1 .. Len(texts) : results[i].value = deserialize_value[texts[i]]
    BY <1>2, <2>1, Outcomes
  <2>4. [i \in 1 .. Len(texts) |-> results[i].value] = vs
    BY <1>1, <2>3
  <2>. QED
    BY <1>1, <2>1, <2>2, <2>4
<1>4. CASE ~ \A i \in 1 .. Len(texts) : results[i].ok
  <2>1. PICK i \in 1 .. Len(texts) : ~results[i].ok /\ Collected(results) = results[i]
    BY <1>1, <1>4, CollectedResult
  <2>2. texts[i] \notin DOMAIN deserialize_value
    BY <1>2, <2>1, Outcomes
  <2>3. Collected(results) = Throw("deserialize")
    BY <1>2, <2>1, <2>2
  <2>. QED
    BY <1>1, <2>2, <2>3
<1>. QED
  BY <1>3, <1>4

\* Texts are all read as values, or the call throws.
LEMMA DeserializedAllResult ==
    ASSUME NEW texts \in Seq(Text)
    PROVE  \/ /\ \A i \in DOMAIN texts : texts[i] \in DOMAIN deserialize_value
              /\ DeserializedAll(texts) =
                    Val(Elements([i \in DOMAIN texts |-> deserialize_value[texts[i]]]))
           \/ /\ \E i \in DOMAIN texts : texts[i] \notin DOMAIN deserialize_value
              /\ DeserializedAll(texts) = Throw("deserialize")
<1>. DEFINE results == [i \in DOMAIN texts |-> Deserialized(texts[i])]
            vs == [i \in DOMAIN texts |-> deserialize_value[texts[i]]]
<1>1. DecodeAll(texts, Deserialized) = Collected(results)
  BY DEF DecodeAll, Once
<1>2. /\ DOMAIN results = 1 .. Len(texts)
      /\ \A i \in 1 .. Len(texts) : results[i] = Deserialized(texts[i])
  OBVIOUS
<1>. HIDE DEF results
<1>3. \/ /\ \A i \in DOMAIN texts : texts[i] \in DOMAIN deserialize_value
         /\ Collected(results) = Val(vs)
      \/ /\ \E i \in DOMAIN texts : texts[i] \notin DOMAIN deserialize_value
         /\ Collected(results) = Throw("deserialize")
  BY <1>2, DeserializedEach
<1>. HIDE DEF vs
<1>4. Collected(results) = Val(vs) => DeserializedAll(texts) = Val(Elements(vs))
  BY <1>1, Outcomes DEF DeserializedAll, Bind, Once
<1>5. Collected(results) = Throw("deserialize") => DeserializedAll(texts) = Throw("deserialize")
  BY <1>1, Outcomes DEF DeserializedAll, Bind, Once
<1>. QED
  BY <1>3, <1>4, <1>5 DEF vs

\* An array of strings holds just these texts.
LEMMA StringsOfArray ==
    ASSUME NEW texts \in Seq(Text)
    PROVE  strings(Array(texts)) = Val(texts)
<1>. DEFINE items == [i \in DOMAIN texts |-> make_string(texts[i])]
            results == [i \in DOMAIN items |-> as_string(items[i])]
<1>0. \A t : as_string(make_string(t)) = Val(t)
  BY DEF as_string, as_text, make_string
<1>1. \A i \in 1 .. Len(texts) : results[i] = Val(texts[i])
  BY <1>0
<1>2. DOMAIN results = 1 .. Len(texts) /\ Len(texts) \in Nat
  OBVIOUS
<1>3. Collected(results) = Val([i \in 1 .. Len(texts) |-> results[i].value])
  <2>. HIDE DEF results
  <2>1. \A i \in 1 .. Len(texts) : results[i].ok
    BY <1>1, Outcomes
  <2>. QED
    BY <1>2, <2>1, CollectedResult
<1>4. [i \in 1 .. Len(texts) |-> results[i].value] = texts
  <2>1. texts = [i \in 1 .. Len(texts) |-> texts[i]]
    OBVIOUS
  <2>2. \A i \in 1 .. Len(texts) : results[i].value = texts[i]
    BY <1>1, Outcomes
  <2>. HIDE DEF results
  <2>. QED
    BY <2>1, <2>2
<1>5. DecodeAll(items, as_string) = Val(texts)
  BY <1>3, <1>4 DEF DecodeAll, Once
<1>6. strings(Array(texts)) = DecodeAll(items, as_string)
  <2>1. Array(texts) = make_array(items)
    BY DEF Array
  <2>. HIDE DEF items
  <2>2. as_array(make_array(items)) = Val(items)
    BY DEF as_array, make_array
  <2>3. ~is_nil(make_array(items))
    BY DEF is_nil, make_array
  <2>. QED
    BY <2>1, <2>2, <2>3 DEF strings, Bind, Once, Val
<1>. QED
  BY <1>5, <1>6

\* Such an array gives the elements, or says that one of them is no value.
LEMMA ElementsOfArray ==
    ASSUME NEW texts \in Seq(Text)
    PROVE  \/ /\ \A i \in DOMAIN texts : texts[i] \in DOMAIN deserialize_value
              /\ elements_result(Array(texts)) =
                    Val(Elements([i \in DOMAIN texts |-> deserialize_value[texts[i]]]))
           \/ /\ \E i \in DOMAIN texts : texts[i] \notin DOMAIN deserialize_value
              /\ elements_result(Array(texts)) = Throw("deserialize")
<1>1. elements_result(Array(texts)) = DeserializedAll(texts)
  BY StringsOfArray DEF elements_result, Bind, Once, Val
<1>. QED
  BY <1>1, DeserializedAllResult

\* A string is one element, nil is none.
LEMMA ElementOfString ==
    ASSUME NEW t
    PROVE  element_result(make_string(t)) =
             IF t \in DOMAIN deserialize_value THEN Val(Element(Some(deserialize_value[t])))
             ELSE Throw("deserialize")
<1>1. optional_string(make_string(t)) = Val(Some(t))
  BY DEF optional_string, is_nil, make_string, as_string, as_text, Bind, Once, Val
<1>2. Some(t) # None /\ Some(t)[1] = t
  BY DEF Some, None
<1>. HIDE DEF Some, None
<1>. QED
  BY <1>1, <1>2 DEF element_result, Deserialized, Bind, Once, Val, Throw

LEMMA ElementOfNil == element_result(make_nil) = Val(Element(None))
BY DEF element_result, optional_string, is_nil, make_nil, Bind, Once, Val
-----------------------------------------------------------------------------
(* A call and its command.                                                  *)

\* The variables are functions on the clients.
Shape ==
    /\ DOMAIN link = Client /\ DOMAIN req = Client /\ DOMAIN rep = Client
    /\ DOMAIN stray = Client /\ DOMAIN busy = Client /\ DOMAIN op = Client
    /\ DOMAIN outcome = Client /\ DOMAIN taken = Client

LEMMA Changed ==
    \A x, gone, reply : /\ Change(x, gone, reply).object = x
                        /\ Change(x, gone, reply).taken = gone
                        /\ Change(x, gone, reply).reply = reply
BY DEF Change

\* A reply is a message.
LEMMA RepliesAreMessages ==
    /\ make_nil # NoMsg
    /\ \A t : /\ make_string(t) # NoMsg /\ make_status(t) # NoMsg
             /\ make_error(t) # NoMsg /\ make_integer(t) # NoMsg
             /\ make_array(t) # NoMsg /\ Array(t) # NoMsg /\ StringOrNil(t) # NoMsg
<1>1. /\ make_nil # NoMsg
      /\ \A t : /\ make_string(t) # NoMsg /\ make_status(t) # NoMsg
               /\ make_error(t) # NoMsg /\ make_integer(t) # NoMsg /\ make_array(t) # NoMsg
  BY DEF NoMsg, make_nil, make_string, make_status, make_error, make_integer, make_array
<1>2. \A t : Array(t) # NoMsg /\ StringOrNil(t) # NoMsg
  BY <1>1 DEF Array, StringOrNil
<1>. QED
  BY <1>1, <1>2
-----------------------------------------------------------------------------
Popping == {"LPOP", "RPOP"}
RemovingCommands == Popping \cup {"SPOP", "GETSET"}

\* A command of o: one that removes something if and only if o does.
Fits(o, m) ==
    /\ o.name \in {"lpop", "rpop"} => m.cmd \in Popping /\ "count" \notin DOMAIN m
    /\ o.name \in {"lpop_count", "rpop_count"} =>
          m.cmd \in Popping /\ "count" \in DOMAIN m /\ m.count \in Int
    /\ o.name = "spop" => m.cmd = "SPOP"
    /\ o.name = "get_and_set" => m.cmd = "GETSET"
    /\ o.name \notin Removing => m.cmd \notin RemovingCommands

\* The result of o tells what is gone.
Faithful(o, gone, result) ==
    /\ result.ok /\ o.name \in Removing =>
          /\ \A i \in DOMAIN gone : gone[i] \in DOMAIN deserialize_value
          /\ Given(result.value) = [i \in DOMAIN gone |-> deserialize_value[gone[i]]]
    /\ ~result.ok /\ gone # <<>> => result.error \in {"transport", "deserialize"}

Pops(c) ==
    /\ ~busy[c] => Faithful(op[c], taken[c], outcome[c])
    /\ req[c] # NoMsg => taken[c] = <<>> /\ Fits(op[c], req[c])
    /\ rep[c] # NoMsg =>
          \A result \in Results(op[c], rep[c]) : Faithful(op[c], taken[c], result)

-----------------------------------------------------------------------------
(* What the commands take: one lemma per view.                              *)

LEMMA PairsAreMessages == \A h, s : FlatPairs(h, s) # NoMsg /\ WithScores(h, s) # NoMsg
BY RepliesAreMessages DEF FlatPairs, WithScores

\* An effect that takes nothing.
Harmless(e) == e.taken = <<>> /\ e.reply # NoMsg

LEMMA ValueEffectsTake ==
    ASSUME NEW m, NEW x
    PROVE  /\ m.cmd # "GETSET" => \A e \in ValueEffects(m, x) : Harmless(e)
           /\ m.cmd \in Popping \cup {"SPOP"} => ValueEffects(m, x) = {}
<1>1. m.cmd \in Popping \cup {"SPOP"} => ValueEffects(m, x) = {}
  BY DEF ValueEffects, Popping
<1>2. ASSUME m.cmd # "GETSET", NEW e \in ValueEffects(m, x)
      PROVE  Harmless(e)
  <2>. SUFFICES \E y, reply : e = Change(y, <<>>, reply) /\ reply # NoMsg
    BY Changed DEF Harmless
  <2>1. CASE m.cmd \in {"SET", "SET NX"}
    BY <1>2, <2>1, RepliesAreMessages DEF ValueEffects
  <2>2. CASE m.cmd = "GET"
    BY <1>2, <2>2, RepliesAreMessages DEF ValueEffects
  <2>3. CASE m.cmd \in {"INCRBY", "DECRBY"}
    BY <1>2, <2>3, RepliesAreMessages DEF ValueEffects
  <2>4. CASE m.cmd = "APPEND"
    BY <1>2, <2>4, RepliesAreMessages DEF ValueEffects
  <2>5. CASE m.cmd \notin {"SET", "SET NX", "GET", "INCRBY", "DECRBY", "APPEND"}
    BY <1>2, <2>5, RepliesAreMessages DEF ValueEffects
  <2>. QED
    BY <2>1, <2>2, <2>3, <2>4, <2>5
<1>. QED
  BY <1>1, <1>2

LEMMA HashEffectsTake ==
    ASSUME NEW m, NEW x
    PROVE  /\ \A e \in HashEffects(m, x) : Harmless(e)
           /\ m.cmd \in RemovingCommands => HashEffects(m, x) = {}
<1>1. m.cmd \in RemovingCommands => HashEffects(m, x) = {}
  BY DEF HashEffects, RemovingCommands, Popping
<1>2. ASSUME NEW e \in HashEffects(m, x)
      PROVE  Harmless(e)
  <2>. SUFFICES \E y, reply : e = Change(y, <<>>, reply) /\ reply # NoMsg
    BY Changed DEF Harmless
  <2>1. CASE m.cmd \in {"HGET", "HMGET", "HGETALL"}
    BY <1>2, <2>1, RepliesAreMessages, PairsAreMessages DEF HashEffects
  <2>. DEFINE h == Content(x, "hash")
  <2>2. CASE m.cmd \in {"HKEYS", "HVALS"}
    <3>1. \/ \E fs \in SetToSeqs(DOMAIN h) : e = Change(x, <<>>, Array(fs))
          \/ \E fs \in SetToSeqs(DOMAIN h) :
                e = Change(x, <<>>, Array([i \in DOMAIN fs |-> h[fs[i]]]))
      <4>1. CASE m.cmd = "HKEYS"
        <5>1. e \in {Change(x, <<>>, Array(fs)) : fs \in SetToSeqs(DOMAIN h)}
          BY <1>2, <4>1 DEF HashEffects
        <5>. QED
          BY <5>1
      <4>2. CASE m.cmd = "HVALS"
        <5>1. e \in {Change(x, <<>>, Array([i \in DOMAIN fs |-> h[fs[i]]])) :
                        fs \in SetToSeqs(DOMAIN h)}
          BY <1>2, <4>2 DEF HashEffects
        <5>. QED
          BY <5>1
      <4>. QED
        BY <2>2, <4>1, <4>2
    <3>. QED
      BY <3>1, RepliesAreMessages, PairsAreMessages
  <2>3. CASE m.cmd = "HSCAN"
    <3>1. \E t \in CursorTexts, F \in SUBSET DOMAIN h :
             e = Change(x, <<>>, make_array(<<make_string(t), FlatPairs(h, InOrder(F))>>))
      BY <1>2, <2>3 DEF HashEffects
    <3>. QED
      BY <3>1, RepliesAreMessages, PairsAreMessages
  <2>4. CASE m.cmd \in {"HSET", "HDEL"}
    BY <1>2, <2>4, RepliesAreMessages DEF HashEffects
  <2>5. CASE m.cmd \notin {"HGET", "HMGET", "HGETALL", "HKEYS", "HVALS", "HSCAN",
                          "HSET", "HDEL"}
    BY <1>2, <2>5, RepliesAreMessages DEF HashEffects
  <2>. QED
    BY <2>1, <2>2, <2>3, <2>4, <2>5
<1>. QED
  BY <1>1, <1>2

LEMMA ListEffectsTake ==
    ASSUME NEW m, NEW x
    PROVE  /\ m.cmd \notin Popping => \A e \in ListEffects(m, x) : Harmless(e)
           /\ m.cmd \in {"SPOP", "GETSET"} => ListEffects(m, x) = {}
BY Changed, RepliesAreMessages DEF Harmless, ListEffects, ListPushed, Popping

LEMMA SetEffectsTake ==
    ASSUME NEW m, NEW x
    PROVE  /\ m.cmd # "SPOP" => \A e \in SetEffects(m, x) : Harmless(e)
           /\ m.cmd \in Popping \cup {"GETSET"} => SetEffects(m, x) = {}
<1>1. m.cmd \in Popping \cup {"GETSET"} => SetEffects(m, x) = {}
  BY DEF SetEffects, Popping
<1>2. ASSUME m.cmd # "SPOP", NEW e \in SetEffects(m, x)
      PROVE  Harmless(e)
  <2>. SUFFICES \E y, reply : e = Change(y, <<>>, reply) /\ reply # NoMsg
    BY Changed DEF Harmless
  <2>1. CASE m.cmd \in {"SADD", "SREM", "SCARD", "SISMEMBER"}
    BY <1>2, <2>1, RepliesAreMessages DEF SetEffects
  <2>2. CASE m.cmd \in {"SMEMBERS", "SINTER"}
    BY <1>2, <2>2, RepliesAreMessages DEF SetEffects
  <2>3. CASE m.cmd \notin {"SADD", "SREM", "SCARD", "SISMEMBER", "SMEMBERS", "SINTER"}
    BY <1>2, <2>3, RepliesAreMessages DEF SetEffects
  <2>. QED
    BY <2>1, <2>2, <2>3
<1>. QED
  BY <1>1, <1>2

LEMMA ZSetEffectsTake ==
    ASSUME NEW m, NEW x
    PROVE  /\ \A e \in ZSetEffects(m, x) : Harmless(e)
           /\ m.cmd \in RemovingCommands => ZSetEffects(m, x) = {}
<1>1. m.cmd \in RemovingCommands => ZSetEffects(m, x) = {}
  BY DEF ZSetEffects, RemovingCommands, Popping
<1>2. ASSUME NEW e \in ZSetEffects(m, x)
      PROVE  Harmless(e)
  <2>. SUFFICES \E y, reply : e = Change(y, <<>>, reply) /\ reply # NoMsg
    BY Changed DEF Harmless
  <2>1. CASE m.cmd \in {"ZADD", "ZREM"}
    BY <1>2, <2>1, RepliesAreMessages DEF ZSetEffects
  <2>2. CASE m.cmd \in {"ZINCRBY", "ZSCORE"}
    BY <1>2, <2>2, RepliesAreMessages DEF ZSetEffects
  <2>3. CASE m.cmd \in {"ZRANGE", "ZREVRANGE"}
    BY <1>2, <2>3, RepliesAreMessages DEF ZSetEffects
  <2>4. CASE m.cmd \in {"ZRANGE WITHSCORES", "ZREVRANGE WITHSCORES"}
    <3>1. \E s : e = Change(x, <<>>, WithScores(Content(x, "zset"), s))
      BY <1>2, <2>4 DEF ZSetEffects
    <3>. QED
      BY <3>1, RepliesAreMessages, PairsAreMessages
  <2>5. CASE m.cmd \notin {"ZADD", "ZREM", "ZINCRBY", "ZSCORE", "ZRANGE", "ZREVRANGE",
                          "ZRANGE WITHSCORES", "ZREVRANGE WITHSCORES"}
    BY <1>2, <2>5, RepliesAreMessages DEF ZSetEffects
  <2>. QED
    BY <2>1, <2>2, <2>3, <2>4, <2>5
<1>. QED
  BY <1>1, <1>2

LEMMA KeyEffectsTake ==
    ASSUME NEW m, NEW x
    PROVE  /\ \A e \in KeyEffects(m, x) : Harmless(e)
           /\ m.cmd \in RemovingCommands => KeyEffects(m, x) = {}
BY Changed, RepliesAreMessages DEF Harmless, KeyEffects, RemovingCommands, Popping
-----------------------------------------------------------------------------
(* What the calls that remove something make of a reply.                    *)

LEMMA ErrorResults ==
    ASSUME NEW o, NEW t
    PROVE  Results(o, make_error(t)) = {Throw("redis_error")}
<1>1. or_throw(make_error(t)) = Throw("redis_error")
  BY DEF or_throw, is_error, make_error, as_text, Bind, Once, Val
<1>. QED
  BY <1>1, Outcomes DEF Results

LEMMA RemovingResults ==
    ASSUME NEW o, NEW r, ~is_error(r)
    PROVE  /\ o.name \in {"lpop", "rpop", "spop", "get_and_set"} =>
                 Results(o, r) = {element_result(r)}
           /\ o.name \in {"lpop_count", "rpop_count"} =>
                 Results(o, r) = {elements_result(r)}
<1>1. or_throw(r) = Val(r)
  BY DEF or_throw
<1>2. Results(o, r) = ValueResults(o, r) \cup HashResults(o, r) \cup ListResults(o, r)
                      \cup SetResults(o, r) \cup ZSetResults(o, r) \cup KeyResults(o, r)
  BY <1>1, Outcomes DEF Results
<1>3. ASSUME o.name \in {"lpop", "rpop"}
      PROVE  Results(o, r) = {element_result(r)}
  BY <1>2, <1>3 DEF ValueResults, HashResults, ListResults, SetResults, ZSetResults, KeyResults
<1>4. ASSUME o.name = "spop"
      PROVE  Results(o, r) = {element_result(r)}
  BY <1>2, <1>4 DEF ValueResults, HashResults, ListResults, SetResults, ZSetResults, KeyResults
<1>5. ASSUME o.name = "get_and_set"
      PROVE  Results(o, r) = {element_result(r)}
  BY <1>2, <1>5 DEF ValueResults, HashResults, ListResults, SetResults, ZSetResults, KeyResults
<1>6. ASSUME o.name \in {"lpop_count", "rpop_count"}
      PROVE  Results(o, r) = {elements_result(r)}
  BY <1>2, <1>6 DEF ValueResults, HashResults, ListResults, SetResults, ZSetResults, KeyResults
<1>. QED
  BY <1>3, <1>4, <1>5, <1>6

\* One element is gone, and the reply is that element; or none.
OneOrNone(gone, reply) ==
    \/ gone = <<>> /\ reply = make_nil
    \/ \E t : gone = <<t>> /\ reply = make_string(t)

LEMMA OneGone ==
    ASSUME NEW o, o.name \in {"lpop", "rpop", "spop", "get_and_set"},
           NEW gone, NEW reply, OneOrNone(gone, reply)
    PROVE  \A result \in Results(o, reply) : Faithful(o, gone, result)
<1>1. CASE gone = <<>> /\ reply = make_nil
  <2>1. Results(o, reply) = {Val(Element(None))}
    BY <1>1, RemovingResults, ElementOfNil DEF is_error, make_nil
  <2>2. Given(Element(None)) = <<>>
    BY DEF Given, Element, None
  <2>3. [i \in DOMAIN gone |-> deserialize_value[gone[i]]] = <<>>
    BY <1>1
  <2>. QED
    BY <1>1, <2>1, <2>2, <2>3, Outcomes DEF Faithful
<1>2. ASSUME NEW t, gone = <<t>>, reply = make_string(t)
      PROVE  \A result \in Results(o, reply) : Faithful(o, gone, result)
  <2>1. Results(o, reply) = {element_result(make_string(t))}
    BY <1>2, RemovingResults DEF is_error, make_string
  <2>2. CASE t \in DOMAIN deserialize_value
    <3>. DEFINE w == deserialize_value[t]
    <3>1. Results(o, reply) = {Val(Element(Some(w)))}
      BY <2>1, <2>2, ElementOfString
    <3>2. Given(Element(Some(w))) = <<w>>
      BY DEF Given, Element, Some
    <3>3. [i \in DOMAIN gone |-> deserialize_value[gone[i]]] = <<w>>
      BY <1>2
    <3>4. \A i \in DOMAIN gone : gone[i] \in DOMAIN deserialize_value
      BY <1>2, <2>2
    <3>. HIDE DEF w
    <3>. QED
      BY <3>1, <3>2, <3>3, <3>4, Outcomes DEF Faithful
  <2>3. CASE t \notin DOMAIN deserialize_value
    <3>1. Results(o, reply) = {Throw("deserialize")}
      BY <2>1, <2>3, ElementOfString
    <3>. QED
      BY <3>1, Outcomes DEF Faithful
  <2>. QED
    BY <2>2, <2>3
<1>. QED
  BY <1>1, <1>2 DEF OneOrNone

\* Several elements are gone, and the reply has these; or none.
LEMMA SeveralGone ==
    ASSUME NEW o, o.name \in {"lpop_count", "rpop_count"},
           NEW gone \in Seq(Text), NEW reply,
           \/ gone = <<>> /\ reply = make_nil
           \/ reply = Array(gone)
    PROVE  \A result \in Results(o, reply) : Faithful(o, gone, result)
<1>. DEFINE vs == [i \in DOMAIN gone |-> deserialize_value[gone[i]]]
<1>1. ASSUME gone = <<>>, reply = make_nil
      PROVE  ~is_error(reply) /\ strings(reply) = Val(gone)
  BY <1>1 DEF is_error, make_nil, strings, is_nil
<1>2. ASSUME reply = Array(gone)
      PROVE  ~is_error(reply) /\ strings(reply) = Val(gone)
  <2>1. ~is_error(reply)
    BY <1>2 DEF is_error, Array, make_array
  <2>. QED
    BY <1>2, <2>1, StringsOfArray
<1>3. ~is_error(reply) /\ strings(reply) = Val(gone)
  BY <1>1, <1>2
<1>4. Results(o, reply) = {elements_result(reply)}
  BY <1>3, RemovingResults
<1>5. elements_result(reply) = DeserializedAll(gone)
  BY <1>3, Outcomes DEF elements_result, Bind, Once
<1>6. CASE /\ \A i \in DOMAIN gone : gone[i] \in DOMAIN deserialize_value
           /\ elements_result(reply) = Val(Elements(vs))
  <2>1. Given(Elements(vs)) = vs
    BY DEF Given, Elements
  <2>. HIDE DEF vs
  <2>2. \A result \in Results(o, reply) : result.ok /\ Given(result.value) = vs
    BY <1>4, <1>6, <2>1, Outcomes
  <2>. QED
    BY <2>2, <1>6 DEF Faithful, vs
<1>7. CASE elements_result(reply) = Throw("deserialize")
  BY <1>4, <1>7, Outcomes DEF Faithful
<1>. QED
  BY <1>5, <1>6, <1>7, DeserializedAllResult

LEMMA ReversedSeq ==
    ASSUME NEW S, NEW s \in Seq(S)
    PROVE  /\ Reversed(s) \in Seq(S)
           /\ Len(Reversed(s)) = Len(s)
           /\ \A i \in 1 .. Len(s) : Reversed(s)[i] = s[Len(s) + 1 - i]
<1>1. \A i \in 1 .. Len(s) : Len(s) + 1 - i \in 1 .. Len(s)
  OBVIOUS
<1>. QED
  BY <1>1 DEF Reversed

\* A pop takes what its reply holds.
LEMMA ListPoppedGone ==
    ASSUME NEW m, m.cmd \in Popping, "count" \in DOMAIN m => m.count \in Int,
           NEW l \in Seq(Text), NEW e \in ListPopped(m, l)
    PROVE  /\ e.reply # NoMsg
           /\ e.taken \in Seq(Text)
           /\ \/ e.taken = <<>> /\ e.reply = make_nil
              \/ "count" \in DOMAIN m /\ e.reply = Array(e.taken)
              \/ "count" \notin DOMAIN m /\ OneOrNone(e.taken, e.reply)
<1>. DEFINE several == "count" \in DOMAIN m
            n == Least(IF several THEN m.count ELSE 1, Len(l))
            gone == IF m.cmd = "LPOP" THEN SubSeq(l, 1, n)
                    ELSE Reversed(SubSeq(l, Len(l) - n + 1, Len(l)))
<1>1. several => m.count \in Nat
  BY DEF ListPopped
<1>2. n \in 0 .. Len(l)
  BY <1>1 DEF Least
<1>3. \E y : e = Change(y, gone, IF l = <<>> THEN make_nil
                                ELSE IF several THEN Array(gone)
                                ELSE make_string(gone[1]))
  BY <1>1 DEF ListPopped
<1>4. /\ SubSeq(l, 1, n) \in Seq(Text) /\ Len(SubSeq(l, 1, n)) = n
      /\ SubSeq(l, Len(l) - n + 1, Len(l)) \in Seq(Text)
      /\ Len(SubSeq(l, Len(l) - n + 1, Len(l))) = n
  <2>. HIDE DEF n
  <2>. QED
    BY <1>2
<1>5. gone \in Seq(Text) /\ Len(gone) = n
  <2>. HIDE DEF n
  <2>. QED
    BY <1>4, ReversedSeq
<1>6. l = <<>> => gone = <<>>
  BY <1>2, <1>5
<1>7. l # <<>> /\ ~several => gone = <<gone[1]>>
  <2>1. l # <<>> /\ ~several => n = 1
    <3>1. l # <<>> => Len(l) \in Nat /\ Len(l) >= 1
      OBVIOUS
    <3>2. Len(l) \in Nat /\ Len(l) >= 1 => Least(1, Len(l)) = 1
      BY DEF Least
    <3>3. ~several => n = Least(1, Len(l))
      OBVIOUS
    <3>. QED
      BY <3>1, <3>2, <3>3
  <2>. HIDE DEF n, gone
  <2>. QED
    BY <1>5, <2>1
<1>. DEFINE reply == IF l = <<>> THEN make_nil
                     ELSE IF several THEN Array(gone) ELSE make_string(gone[1])
<1>8. e.taken = gone /\ e.reply = reply
  <2>1. PICK y : e = Change(y, gone, reply)
    BY <1>3
  <2>. HIDE DEF gone, reply
  <2>. QED
    BY <2>1, Changed
<1>. HIDE DEF gone
<1>9. reply # NoMsg
  BY RepliesAreMessages
<1>10. CASE l = <<>>
  BY <1>5, <1>6, <1>8, <1>9, <1>10
<1>11. CASE l # <<>> /\ several
  BY <1>5, <1>8, <1>9, <1>11
<1>12. CASE l # <<>> /\ ~several
  <2>1. e.taken = <<gone[1]>> /\ e.reply = make_string(gone[1])
    BY <1>7, <1>8, <1>12
  <2>. QED
    BY <1>5, <1>8, <1>9, <1>12, <2>1 DEF OneOrNone
<1>. QED
  BY <1>10, <1>11, <1>12

\* What the server does for a call, and its reply, whatever the object is.
LEMMA ServedFaithful ==
    ASSUME object \in Objects, NEW o, NEW m, Fits(o, m), NEW e \in Effects(m)
    PROVE  /\ e.object \in Objects
           /\ e.reply # NoMsg
           /\ \A result \in Results(o, e.reply) : Faithful(o, e.taken, result)
<1>1. CASE e = Refused(object)
  <2>1. /\ e.object = object /\ e.taken = <<>> /\ e.reply = make_error("error")
    BY <1>1, Changed DEF Refused
  <2>2. Results(o, e.reply) = {Throw("redis_error")}
    BY <2>1, ErrorResults
  <2>. QED
    BY <2>1, <2>2, RepliesAreMessages, Outcomes DEF Faithful
<1>. SUFFICES ASSUME e # Refused(object)
              PROVE  /\ e.object \in Objects
                     /\ e.reply # NoMsg
                     /\ \A result \in Results(o, e.reply) : Faithful(o, e.taken, result)
  BY <1>1
<1>2. /\ e \in ValueEffects(m, object) \cup HashEffects(m, object)
              \cup ListEffects(m, object) \cup SetEffects(m, object)
              \cup ZSetEffects(m, object) \cup KeyEffects(m, object)
      /\ e.object \in Objects
  BY DEF Effects
<1>3. CASE o.name \in {"lpop", "rpop", "lpop_count", "rpop_count"}
  <2>. DEFINE l == Content(object, "list")
  <2>1. m.cmd \in Popping /\ m.cmd # "SPOP" /\ m.cmd # "GETSET"
    BY <1>3 DEF Fits, Popping
  <2>2. e \in ListEffects(m, object)
    BY <1>2, <2>1, ValueEffectsTake, HashEffectsTake, SetEffectsTake, ZSetEffectsTake,
       KeyEffectsTake DEF RemovingCommands
  <2>3. OfKind(object, "list") /\ e \in ListPopped(m, l)
    BY <2>1, <2>2 DEF ListEffects, Popping
  <2>4. l \in Seq(Text)
    BY <2>3, ObjectsAssumption DEF OfKind, Content
  <2>5. "count" \in DOMAIN m => m.count \in Int
    BY <1>3 DEF Fits
  <2>. HIDE DEF l
  <2>6. /\ e.reply # NoMsg
        /\ e.taken \in Seq(Text)
        /\ \/ e.taken = <<>> /\ e.reply = make_nil
           \/ "count" \in DOMAIN m /\ e.reply = Array(e.taken)
           \/ "count" \notin DOMAIN m /\ OneOrNone(e.taken, e.reply)
    BY <2>1, <2>3, <2>4, <2>5, ListPoppedGone
  <2>7. CASE o.name \in {"lpop", "rpop"}
    <3>1. "count" \notin DOMAIN m
      BY <2>7 DEF Fits
    <3>2. OneOrNone(e.taken, e.reply)
      BY <3>1, <2>6 DEF OneOrNone
    <3>. QED
      BY <3>2, <2>6, <2>7, <1>2, OneGone
  <2>8. CASE o.name \in {"lpop_count", "rpop_count"}
    <3>1. "count" \in DOMAIN m
      BY <2>8 DEF Fits
    <3>. QED
      BY <3>1, <2>6, <2>8, <1>2, SeveralGone
  <2>. QED
    BY <1>3, <2>7, <2>8
<1>4. CASE o.name = "spop"
  <2>1. m.cmd = "SPOP" /\ m.cmd \notin Popping
    BY <1>4 DEF Fits, Popping
  <2>2. e \in SetEffects(m, object)
    BY <1>2, <2>1, ValueEffectsTake, HashEffectsTake, ListEffectsTake, ZSetEffectsTake,
       KeyEffectsTake DEF RemovingCommands
  <2>3. \/ \E y : e = Change(y, <<>>, make_nil)
        \/ \E y, t : e = Change(y, <<t>>, make_string(t))
    BY <2>1, <2>2 DEF SetEffects
  <2>4. OneOrNone(e.taken, e.reply) /\ e.reply # NoMsg
    <3>1. ASSUME NEW y, e = Change(y, <<>>, make_nil)
          PROVE  OneOrNone(e.taken, e.reply) /\ e.reply # NoMsg
      BY <3>1, Changed, RepliesAreMessages DEF OneOrNone
    <3>2. ASSUME NEW y, NEW t, e = Change(y, <<t>>, make_string(t))
          PROVE  OneOrNone(e.taken, e.reply) /\ e.reply # NoMsg
      BY <3>2, Changed, RepliesAreMessages DEF OneOrNone
    <3>. QED
      BY <2>3, <3>1, <3>2
  <2>. QED
    BY <1>2, <1>4, <2>4, OneGone
<1>5. CASE o.name = "get_and_set"
  <2>1. m.cmd = "GETSET" /\ m.cmd \notin Popping
    BY <1>5 DEF Fits, Popping
  <2>2. e \in ValueEffects(m, object)
    BY <1>2, <2>1, HashEffectsTake, ListEffectsTake, SetEffectsTake, ZSetEffectsTake,
       KeyEffectsTake DEF RemovingCommands
  <2>3. \E y : e = Change(y, StringOf(object), StringOrNil(StringOf(object)))
    BY <2>1, <2>2 DEF ValueEffects
  <2>4. OneOrNone(StringOf(object), StringOrNil(StringOf(object)))
    BY DEF OneOrNone, StringOf, StringOrNil, Some, None
  <2>5. OneOrNone(e.taken, e.reply) /\ e.reply # NoMsg
    BY <2>3, <2>4, Changed, RepliesAreMessages
  <2>. QED
    BY <1>2, <1>5, <2>5, OneGone
<1>6. CASE o.name \notin Removing
  <2>1. m.cmd \notin RemovingCommands
    BY <1>6 DEF Fits
  <2>2. Harmless(e)
    BY <1>2, <2>1, ValueEffectsTake, HashEffectsTake, ListEffectsTake, SetEffectsTake,
       ZSetEffectsTake, KeyEffectsTake DEF RemovingCommands
  <2>. QED
    BY <1>2, <1>6, <2>2 DEF Harmless, Faithful
<1>. QED
  BY <1>3, <1>4, <1>5, <1>6 DEF Removing
-----------------------------------------------------------------------------
(* What the calls send: one lemma per view.                                 *)

\* A command that has the arguments the server insists on.
Complete(m) ==
    /\ m # NoMsg
    /\ "texts" \in DOMAIN m => m.texts # <<>>
    /\ "fields" \in DOMAIN m => m.fields # <<>>
    /\ "map" \in DOMAIN m => DOMAIN m.map # {}
    /\ "keys" \in DOMAIN m => m.keys > 0

\* What a call of o comes to before a reply.
Sound(o, command) ==
    /\ command.ok \in BOOLEAN
    /\ command.ok => Complete(command.value) /\ Fits(o, command.value)
    /\ ~command.ok => Faithful(o, <<>>, OutcomeOf(command))

\* A call of c that is sound.
SoundCall(c) == \E o, command : Sound(o, command) /\ Call(c, o, command)

LEMMA Sent ==
    ASSUME NEW o, NEW m, Complete(m), Fits(o, m)
    PROVE  Sound(o, Val(m))
BY DEF Sound, Val

LEMMA Rejected ==
    ASSUME NEW o, NEW e
    PROVE  Sound(o, Throw(e))
<1>1. OutcomeOf(Throw(e)) = Throw(e)
  BY DEF OutcomeOf, Throw
<1>. QED
  BY <1>1 DEF Sound, Faithful, Throw

LEMMA NotSent ==
    ASSUME NEW o, o.name \notin Removing, NEW v
    PROVE  Sound(o, Done(v))
<1>1. OutcomeOf(Done(v)) = Val(v)
  BY DEF OutcomeOf, Done
<1>. QED
  BY <1>1 DEF Sound, Faithful, Done, Val

\* A value is serialised, or the call throws.
LEMMA SerializedResult ==
    ASSUME NEW v \in Value
    PROVE  \/ /\ v \in DOMAIN serialize_value
              /\ \E t \in Text : t = serialize_value[v] /\ Serialized(v) = Val(t)
           \/ v \notin DOMAIN serialize_value /\ Serialized(v) = Throw("serialize")
BY TypedAssumption DEF Serialized

LEMMA ValueCallSound ==
    ASSUME NEW c, ValueCall(c)
    PROVE  SoundCall(c)
<1>1. ASSUME NEW t, set_not_exists(c, t) \/ set_ex(c, t) \/ set_px(c, t)
      PROVE  SoundCall(c)
  <2>. SUFFICES ASSUME NEW name \in {"set_not_exists", "set_text"},
                       NEW cmd \in {"SET NX", "SET"},
                       Call(c, [name |-> name, text |-> t], Val([cmd |-> cmd, text |-> t]))
                PROVE  SoundCall(c)
    BY <1>1 DEF set_not_exists, set_ex, set_px, SetText
  <2>1. Complete([cmd |-> cmd, text |-> t])
    BY DEF Complete, NoMsg
  <2>2. Fits([name |-> name, text |-> t], [cmd |-> cmd, text |-> t])
    BY DEF Fits, RemovingCommands, Popping
  <2>. QED
    BY <2>1, <2>2, Sent DEF SoundCall
<1>2. ASSUME NEW v \in Value, set(c, v) \/ append(c, v) \/ get_and_set(c, v)
      PROVE  SoundCall(c)
  <2>. SUFFICES ASSUME NEW name, NEW cmd,
                       \/ name = "set" /\ cmd = "SET"
                       \/ name = "append" /\ cmd = "APPEND"
                       \/ name = "get_and_set" /\ cmd = "GETSET",
                       Call(c, [name |-> name, values |-> <<v>>], Store(cmd, v))
                PROVE  SoundCall(c)
    BY <1>2 DEF set, append, get_and_set
  <2>1. \A t : Complete([cmd |-> cmd, text |-> t])
    BY DEF Complete, NoMsg
  <2>2. \A t : Fits([name |-> name, values |-> <<v>>], [cmd |-> cmd, text |-> t])
    BY DEF Fits, RemovingCommands, Removing, Popping
  <2>3. CASE Serialized(v) = Throw("serialize")
    <3>1. Store(cmd, v) = Throw("serialize")
      BY <2>3, Outcomes DEF Store, Bind, Once
    <3>. QED
      BY <3>1, Rejected DEF SoundCall
  <2>4. ASSUME NEW t, Serialized(v) = Val(t)
        PROVE  SoundCall(c)
    <3>1. Store(cmd, v) = Val([cmd |-> cmd, text |-> t])
      BY <2>4, Outcomes DEF Store, Bind, Once
    <3>. QED
      BY <3>1, <2>1, <2>2, Sent DEF SoundCall
  <2>. QED
    BY <2>3, <2>4, SerializedResult
<1>3. ASSUME get(c)
      PROVE  SoundCall(c)
  <2>1. Complete([cmd |-> "GET"])
    BY DEF Complete, NoMsg
  <2>2. Fits([name |-> "get"], [cmd |-> "GET"])
    BY DEF Fits, RemovingCommands, Popping
  <2>. QED
    BY <1>3, <2>1, <2>2, Sent DEF SoundCall, get
<1>4. ASSUME NEW d, incr(c, d) \/ decr(c, d)
      PROVE  SoundCall(c)
  <2>. SUFFICES ASSUME NEW name \in {"incr", "decr"}, NEW cmd \in {"INCRBY", "DECRBY"},
                       Call(c, [name |-> name, delta |-> d], Val([cmd |-> cmd, delta |-> d]))
                PROVE  SoundCall(c)
    BY <1>4 DEF incr, decr
  <2>1. Complete([cmd |-> cmd, delta |-> d])
    BY DEF Complete, NoMsg
  <2>2. Fits([name |-> name, delta |-> d], [cmd |-> cmd, delta |-> d])
    BY DEF Fits, RemovingCommands, Popping
  <2>. QED
    BY <2>1, <2>2, Sent DEF SoundCall
<1>. QED
  BY <1>1, <1>2, <1>3, <1>4 DEF ValueCall

LEMMA ListCallSound ==
    ASSUME NEW c, ListCall(c)
    PROVE  SoundCall(c)
<1>0. Complete([cmd |-> "LLEN"])
  BY DEF Complete, NoMsg
<1>1. ASSUME NEW values \in Batches, lpush(c, values) \/ rpush(c, values)
      PROVE  SoundCall(c)
  <2>. SUFFICES ASSUME NEW name \in {"lpush", "rpush"}, NEW cmd \in {"LPUSH", "RPUSH"},
                       Call(c, [name |-> name, values |-> values], Push(cmd, values))
                PROVE  SoundCall(c)
    BY <1>1 DEF lpush, rpush
  <2>. DEFINE o == [name |-> name, values |-> values]
  <2>1. Fits(o, [cmd |-> "LLEN"])
    BY DEF Fits, RemovingCommands, Popping
  <2>2. CASE SerializedAll(values) = Throw("serialize")
    <3>1. Push(cmd, values) = Throw("serialize")
      BY <2>2, Outcomes DEF Push, Bind, Once
    <3>. QED
      BY <3>1, Rejected DEF SoundCall
  <2>3. ASSUME NEW texts, SerializedAll(values) = Val(texts)
        PROVE  SoundCall(c)
    <3>1. Push(cmd, values) = IF texts = <<>> THEN LLEN ELSE Val([cmd |-> cmd, texts |-> texts])
      BY <2>3, Outcomes DEF Push, Bind, Once
    <3>2. texts # <<>> => Complete([cmd |-> cmd, texts |-> texts])
      BY DEF Complete, NoMsg
    <3>3. Fits(o, [cmd |-> cmd, texts |-> texts])
      BY DEF Fits, RemovingCommands, Popping
    <3>4. Sound(o, Push(cmd, values))
      BY <1>0, <2>1, <3>1, <3>2, <3>3, Sent DEF LLEN
    <3>. QED
      BY <3>4 DEF SoundCall
  <2>. QED
    BY <2>2, <2>3, SerializedAllResult, TypedAssumption
<1>2. ASSUME NEW v \in Value, lpush_value(c, v) \/ rpush_value(c, v)
      PROVE  SoundCall(c)
  <2>. SUFFICES ASSUME NEW name \in {"lpush", "rpush"}, NEW cmd \in {"LPUSH", "RPUSH"},
                       Call(c, [name |-> name, values |-> <<v>>],
                            Bind(Serialized(v), LAMBDA t : Val([cmd |-> cmd, texts |-> <<t>>])))
                PROVE  SoundCall(c)
    BY <1>2 DEF lpush_value, rpush_value
  <2>1. \A t : Complete([cmd |-> cmd, texts |-> <<t>>])
    BY DEF Complete, NoMsg
  <2>2. \A t : Fits([name |-> name, values |-> <<v>>], [cmd |-> cmd, texts |-> <<t>>])
    BY DEF Fits, RemovingCommands, Popping
  <2>. DEFINE command == Bind(Serialized(v), LAMBDA t : Val([cmd |-> cmd, texts |-> <<t>>]))
  <2>0. Serialized(v) = Throw("serialize") \/ \E t : Serialized(v) = Val(t)
    BY SerializedResult
  <2>3. \/ command = Throw("serialize")
        \/ \E t : command = Val([cmd |-> cmd, texts |-> <<t>>])
    BY <2>0, Outcomes DEF Bind, Once
  <2>. HIDE DEF command
  <2>4. Sound([name |-> name, values |-> <<v>>], command)
    BY <2>1, <2>2, <2>3, Sent, Rejected
  <2>. QED
    BY <2>4 DEF SoundCall, command
<1>3. ASSUME lpop(c) \/ rpop(c)
      PROVE  SoundCall(c)
  <2>. SUFFICES ASSUME NEW name \in {"lpop", "rpop"}, NEW cmd \in {"LPOP", "RPOP"},
                       Call(c, [name |-> name], Val([cmd |-> cmd]))
                PROVE  SoundCall(c)
    BY <1>3 DEF lpop, rpop
  <2>1. Complete([cmd |-> cmd])
    BY DEF Complete, NoMsg
  <2>2. Fits([name |-> name], [cmd |-> cmd])
    BY DEF Fits, Removing, Popping
  <2>. QED
    BY <2>1, <2>2, Sent DEF SoundCall
<1>4. ASSUME NEW n \in Counts, lpop_count(c, n) \/ rpop_count(c, n)
      PROVE  SoundCall(c)
  <2>. SUFFICES ASSUME NEW name \in {"lpop_count", "rpop_count"}, NEW cmd \in {"LPOP", "RPOP"},
                       Call(c, [name |-> name, count |-> n], Val([cmd |-> cmd, count |-> n]))
                PROVE  SoundCall(c)
    BY <1>4 DEF lpop_count, rpop_count
  <2>1. Complete([cmd |-> cmd, count |-> n])
    BY DEF Complete, NoMsg
  <2>2. n \in Int
    BY CountsAssumption
  <2>3. Fits([name |-> name, count |-> n], [cmd |-> cmd, count |-> n])
    BY <2>2 DEF Fits, Removing, Popping
  <2>. QED
    BY <2>1, <2>3, Sent DEF SoundCall
<1>5. ASSUME llen(c)
      PROVE  SoundCall(c)
  <2>1. Fits([name |-> "llen"], [cmd |-> "LLEN"])
    BY DEF Fits, RemovingCommands, Popping
  <2>. QED
    BY <1>0, <1>5, <2>1, Sent DEF SoundCall, llen, LLEN
<1>6. ASSUME NEW i, lindex(c, i)
      PROVE  SoundCall(c)
  <2>1. Complete([cmd |-> "LINDEX", index |-> i])
    BY DEF Complete, NoMsg
  <2>2. Fits([name |-> "lindex", index |-> i], [cmd |-> "LINDEX", index |-> i])
    BY DEF Fits, RemovingCommands, Popping
  <2>. QED
    BY <1>6, <2>1, <2>2, Sent DEF SoundCall, lindex
<1>7. ASSUME NEW i, NEW j, lrange(c, i, j)
      PROVE  SoundCall(c)
  <2>1. Complete([cmd |-> "LRANGE", start |-> i, stop |-> j])
    BY DEF Complete, NoMsg
  <2>2. Fits([name |-> "lrange", start |-> i, stop |-> j],
             [cmd |-> "LRANGE", start |-> i, stop |-> j])
    BY DEF Fits, RemovingCommands, Popping
  <2>. QED
    BY <1>7, <2>1, <2>2, Sent DEF SoundCall, lrange
<1>. QED
  BY <1>1, <1>2, <1>3, <1>4, <1>5, <1>6, <1>7 DEF ListCall

LEMMA SetCallSound ==
    ASSUME NEW c, SetCall(c)
    PROVE  SoundCall(c)
<1>1. ASSUME NEW values \in Batches, sadd(c, values) \/ srem(c, values)
      PROVE  SoundCall(c)
  <2>. SUFFICES ASSUME NEW name \in {"sadd", "srem"}, NEW cmd \in {"SADD", "SREM"},
                       Call(c, [name |-> name, values |-> values], Members(cmd, values))
                PROVE  SoundCall(c)
    BY <1>1 DEF sadd, srem
  <2>. DEFINE o == [name |-> name, values |-> values]
  <2>1. CASE SerializedAll(values) = Throw("serialize")
    <3>1. Members(cmd, values) = Throw("serialize")
      BY <2>1, Outcomes DEF Members, Bind, Once
    <3>. QED
      BY <3>1, Rejected DEF SoundCall
  <2>2. ASSUME NEW texts, SerializedAll(values) = Val(texts)
        PROVE  SoundCall(c)
    <3>1. Members(cmd, values) =
             IF texts = <<>> THEN Done(Count(0)) ELSE Val([cmd |-> cmd, texts |-> texts])
      BY <2>2, Outcomes DEF Members, Bind, Once
    <3>2. texts # <<>> => Complete([cmd |-> cmd, texts |-> texts])
      BY DEF Complete, NoMsg
    <3>3. Fits(o, [cmd |-> cmd, texts |-> texts]) /\ o.name \notin Removing
      BY DEF Fits, Removing, RemovingCommands, Popping
    <3>4. Sound(o, Members(cmd, values))
      BY <3>1, <3>2, <3>3, Sent, NotSent
    <3>. QED
      BY <3>4 DEF SoundCall
  <2>. QED
    BY <2>1, <2>2, SerializedAllResult, TypedAssumption
<1>2. ASSUME spop(c) \/ smembers(c) \/ scard(c)
      PROVE  SoundCall(c)
  <2>. SUFFICES ASSUME NEW name, NEW cmd,
                       \/ name = "spop" /\ cmd = "SPOP"
                       \/ name = "smembers" /\ cmd = "SMEMBERS"
                       \/ name = "scard" /\ cmd = "SCARD",
                       Call(c, [name |-> name], Val([cmd |-> cmd]))
                PROVE  SoundCall(c)
    BY <1>2 DEF spop, smembers, scard
  <2>1. Complete([cmd |-> cmd])
    BY DEF Complete, NoMsg
  <2>2. Fits([name |-> name], [cmd |-> cmd])
    BY DEF Fits, Removing, RemovingCommands, Popping
  <2>. QED
    BY <2>1, <2>2, Sent DEF SoundCall
<1>3. ASSUME NEW v \in Value, sismember(c, v)
      PROVE  SoundCall(c)
  <2>. DEFINE o == [name |-> "sismember", values |-> <<v>>]
              command == Bind(Serialized(v), LAMBDA t : Val([cmd |-> "SISMEMBER", text |-> t]))
  <2>1. \A t : Complete([cmd |-> "SISMEMBER", text |-> t])
    BY DEF Complete, NoMsg
  <2>2. \A t : Fits(o, [cmd |-> "SISMEMBER", text |-> t])
    BY DEF Fits, Removing, RemovingCommands, Popping
  <2>3. \/ command = Throw("serialize")
        \/ \E t : command = Val([cmd |-> "SISMEMBER", text |-> t])
    <3>1. Serialized(v) = Throw("serialize") => command = Throw("serialize")
      BY Outcomes DEF Bind, Once
    <3>2. \A t : Serialized(v) = Val(t) => command = Val([cmd |-> "SISMEMBER", text |-> t])
      BY Outcomes DEF Bind, Once
    <3>. HIDE DEF command
    <3>. QED
      BY <1>3, <3>1, <3>2, SerializedResult
  <2>. HIDE DEF command, o
  <2>4. Sound(o, command)
    BY <2>1, <2>2, <2>3, Sent, Rejected
  <2>. QED
    BY <1>3, <2>4 DEF SoundCall, sismember, command, o
<1>4. ASSUME NEW n \in KeyCounts, sinter(c, n)
      PROVE  SoundCall(c)
  <2>. DEFINE o == [name |-> "sinter", keys |-> n]
              command == IF n = 0 THEN Done(Elements(<<>>))
                                  ELSE Val([cmd |-> "SINTER", keys |-> n])
  <2>1. n # 0 => Complete([cmd |-> "SINTER", keys |-> n])
    BY KeyCountsAssumption DEF Complete, NoMsg
  <2>2. Fits(o, [cmd |-> "SINTER", keys |-> n]) /\ o.name \notin Removing
    BY DEF Fits, Removing, RemovingCommands, Popping
  <2>. HIDE DEF o
  <2>3. Sound(o, command)
    BY <2>1, <2>2, Sent, NotSent
  <2>. QED
    BY <1>4, <2>3 DEF SoundCall, sinter, o
<1>. QED
  BY <1>1, <1>2, <1>3, <1>4 DEF SetCall

LEMMA KeyCallSound ==
    ASSUME NEW c, KeyCall(c)
    PROVE  SoundCall(c)
<1>1. ASSUME exists(c) \/ type(c) \/ ttl(c) \/ pttl(c) \/ persist(c) \/ ping(c)
      PROVE  SoundCall(c)
  <2>. SUFFICES ASSUME NEW name \in {"exists", "type", "ttl", "persist", "ping"},
                       NEW cmd \in {"EXISTS", "TYPE", "TTL", "PTTL", "PERSIST", "PING"},
                       Call(c, [name |-> name], Val([cmd |-> cmd]))
                PROVE  SoundCall(c)
    BY <1>1 DEF exists, type, ttl, pttl, persist, ping, Plainly
  <2>1. Complete([cmd |-> cmd])
    BY DEF Complete, NoMsg
  <2>2. Fits([name |-> name], [cmd |-> cmd])
    BY DEF Fits, RemovingCommands, Popping
  <2>. QED
    BY <2>1, <2>2, Sent DEF SoundCall
<1>2. ASSUME NEW n \in Times, expire(c, n) \/ pexpire(c, n)
      PROVE  SoundCall(c)
  <2>. SUFFICES ASSUME NEW cmd \in {"EXPIRE", "PEXPIRE"},
                       Call(c, [name |-> "expire", time |-> n], Val([cmd |-> cmd, time |-> n]))
                PROVE  SoundCall(c)
    BY <1>2 DEF expire, pexpire
  <2>1. Complete([cmd |-> cmd, time |-> n])
    BY DEF Complete, NoMsg
  <2>2. Fits([name |-> "expire", time |-> n], [cmd |-> cmd, time |-> n])
    BY DEF Fits, RemovingCommands, Popping
  <2>. QED
    BY <2>1, <2>2, Sent DEF SoundCall
<1>3. ASSUME NEW n \in Nat, Call(c, [name |-> "del", keys |-> n], Del(n))
      PROVE  SoundCall(c)
  <2>. DEFINE o == [name |-> "del", keys |-> n]
  <2>1. n # 0 => Complete([cmd |-> "DEL", keys |-> n])
    BY DEF Complete, NoMsg
  <2>2. Fits(o, [cmd |-> "DEL", keys |-> n]) /\ o.name \notin Removing
    BY DEF Fits, Removing, RemovingCommands, Popping
  <2>. HIDE DEF o
  <2>3. Sound(o, Del(n))
    BY <2>1, <2>2, Sent, NotSent DEF Del
  <2>. QED
    BY <1>3, <2>3 DEF SoundCall, o
<1>5. ASSUME NEW t, ping_message(c, t)
      PROVE  SoundCall(c)
  <2>. DEFINE o == [name |-> "ping", message |-> t]
              m == [cmd |-> "PING", message |-> t]
  <2>1. Complete(m)
    BY DEF Complete, NoMsg
  <2>2. Fits(o, m)
    BY DEF Fits, RemovingCommands, Popping
  <2>. HIDE DEF o, m
  <2>. QED
    BY <1>5, <2>1, <2>2, Sent DEF SoundCall, ping_message, o, m
<1>4. ASSUME del(c) \/ \E n \in KeyVectors : del_list(c, n)
      PROVE  SoundCall(c)
  <2>1. Del(1) = Val([cmd |-> "DEL", keys |-> 1])
    BY DEF Del
  <2>. QED
    BY <1>3, <1>4, <2>1, KeyVectorsAssumption DEF del, del_list
<1>. QED
  BY <1>1, <1>2, <1>4, <1>5 DEF KeyCall

\* The elements of a finite set in some order.
LEMMA SetToSeqResult ==
    ASSUME NEW S, IsFiniteSet(S)
    PROVE  SetToSeq(S) \in Seq(S) /\ (S # {} => SetToSeq(S) # <<>>)
<1>. DEFINE n == Cardinality(S)
<1>1. n \in Nat /\ \E f \in [1 .. n -> S] : IsInjective(f)
  <2>1. n \in Nat /\ ExistsBijection(1 .. n, S)
    BY FS_CardinalityType
  <2>2. PICK f : f \in Bijection(1 .. n, S)
    BY <2>1 DEF ExistsBijection
  <2>3. f \in [1 .. n -> S] /\ IsInjective(f)
    BY <2>2 DEF Bijection, Injection, IsInjective
  <2>. QED
    BY <2>1, <2>3
<1>2. SetToSeq(S) \in [1 .. n -> S]
  BY <1>1 DEF SetToSeq
<1>3. S # {} => n # 0
  BY FS_EmptySet
<1>. HIDE DEF n
<1>. QED
  BY <1>1, <1>2, <1>3

LEMMA ZSetCallSound ==
    ASSUME NEW c, ZSetCall(c)
    PROVE  SoundCall(c)
<1>1. ASSUME NEW m \in ScoreMaps, zadd(c, m)
      PROVE  SoundCall(c)
  <2>. DEFINE members == SetToSeq(DOMAIN m)
              o == [name |-> "zadd", values |-> members, added |-> m]
              command == Bind(SerializedAll(members), LAMBDA texts :
                             IF texts = <<>> THEN Done(Count(0))
                             ELSE Val([cmd |-> "ZADD", texts |-> texts,
                                       scores |-> [i \in DOMAIN texts |->
                                                      ScoreText(m[members[i]])]]))
  <2>1. members \in Seq(Value)
    BY ScoreMapsAssumption, SetToSeqResult
  <2>2. Call(c, o, command)
    BY <1>1 DEF zadd
  <2>3. o.name \notin Removing
    BY DEF Removing
  <2>. HIDE DEF members, o
  <2>4. ASSUME SerializedAll(members) = Throw("serialize")
        PROVE  Sound(o, command)
    <3>1. command = Throw("serialize")
      BY <2>4, Outcomes DEF Bind, Once
    <3>. HIDE DEF command
    <3>. QED
      BY <3>1, Rejected
  <2>5. ASSUME NEW texts, SerializedAll(members) = Val(texts)
        PROVE  Sound(o, command)
    <3>. DEFINE written == [i \in DOMAIN texts |-> ScoreText(m[members[i]])]
    <3>1. command = IF texts = <<>> THEN Done(Count(0))
                    ELSE Val([cmd |-> "ZADD", texts |-> texts, scores |-> written])
      BY <2>5, Outcomes DEF Bind, Once
    <3>. HIDE DEF written, command
    <3>2. texts # <<>> => Complete([cmd |-> "ZADD", texts |-> texts, scores |-> written])
      BY DEF Complete, NoMsg
    <3>3. Fits(o, [cmd |-> "ZADD", texts |-> texts, scores |-> written])
      BY DEF Fits, Removing, RemovingCommands, Popping, o
    <3>. QED
      BY <3>1, <3>2, <3>3, <2>3, Sent, NotSent
  <2>. HIDE DEF command
  <2>6. Sound(o, command)
    BY <2>1, <2>4, <2>5, SerializedAllResult
  <2>. QED
    BY <2>2, <2>6 DEF SoundCall
<1>2. ASSUME NEW values \in Batches, zrem(c, values)
      PROVE  SoundCall(c)
  <2>. DEFINE o == [name |-> "zrem", values |-> values]
  <2>1. CASE SerializedAll(values) = Throw("serialize")
    <3>1. ZMembers(values) = Throw("serialize")
      BY <2>1, Outcomes DEF ZMembers, Bind, Once
    <3>. QED
      BY <3>1, <1>2, Rejected DEF SoundCall, zrem
  <2>2. ASSUME NEW texts, SerializedAll(values) = Val(texts)
        PROVE  SoundCall(c)
    <3>1. ZMembers(values) =
             IF texts = <<>> THEN Done(Count(0)) ELSE Val([cmd |-> "ZREM", texts |-> texts])
      BY <2>2, Outcomes DEF ZMembers, Bind, Once
    <3>2. texts # <<>> => Complete([cmd |-> "ZREM", texts |-> texts])
      BY DEF Complete, NoMsg
    <3>3. Fits(o, [cmd |-> "ZREM", texts |-> texts]) /\ o.name \notin Removing
      BY DEF Fits, Removing, RemovingCommands, Popping
    <3>4. Sound(o, ZMembers(values))
      BY <3>1, <3>2, <3>3, Sent, NotSent
    <3>. QED
      BY <3>4, <1>2 DEF SoundCall, zrem
  <2>. QED
    BY <2>1, <2>2, SerializedAllResult, TypedAssumption
<1>3. ASSUME NEW v \in Value, zscore(c, v)
      PROVE  SoundCall(c)
  <2>. DEFINE o == [name |-> "zscore", values |-> <<v>>]
              command == Bind(Serialized(v), LAMBDA t : Val([cmd |-> "ZSCORE", text |-> t]))
  <2>1. \A t : Complete([cmd |-> "ZSCORE", text |-> t])
    BY DEF Complete, NoMsg
  <2>2. \A t : Fits(o, [cmd |-> "ZSCORE", text |-> t])
    BY DEF Fits, Removing, RemovingCommands, Popping
  <2>3. \/ command = Throw("serialize")
        \/ \E t : command = Val([cmd |-> "ZSCORE", text |-> t])
    <3>1. Serialized(v) = Throw("serialize") => command = Throw("serialize")
      BY Outcomes DEF Bind, Once
    <3>2. \A t : Serialized(v) = Val(t) => command = Val([cmd |-> "ZSCORE", text |-> t])
      BY Outcomes DEF Bind, Once
    <3>. HIDE DEF command
    <3>. QED
      BY <3>1, <3>2, SerializedResult
  <2>. HIDE DEF command, o
  <2>4. Sound(o, command)
    BY <2>1, <2>2, <2>3, Sent, Rejected
  <2>. QED
    BY <1>3, <2>4 DEF SoundCall, zscore, command, o
<1>4. ASSUME NEW d, NEW v \in Value, zincrby(c, d, v)
      PROVE  SoundCall(c)
  <2>. DEFINE o == [name |-> "zincrby", values |-> <<v>>, by |-> d]
              by == ScoreText(d)
              command == Bind(Serialized(v), LAMBDA t :
                             Val([cmd |-> "ZINCRBY", text |-> t, by |-> by]))
  <2>0. Call(c, o, command)
    BY <1>4 DEF zincrby
  <2>. HIDE DEF by
  <2>1. \A t : Complete([cmd |-> "ZINCRBY", text |-> t, by |-> by])
    BY DEF Complete, NoMsg
  <2>2. \A t : Fits(o, [cmd |-> "ZINCRBY", text |-> t, by |-> by])
    BY DEF Fits, Removing, RemovingCommands, Popping
  <2>3. \/ command = Throw("serialize")
        \/ \E t : command = Val([cmd |-> "ZINCRBY", text |-> t, by |-> by])
    <3>1. Serialized(v) = Throw("serialize") => command = Throw("serialize")
      BY Outcomes DEF Bind, Once
    <3>2. \A t : Serialized(v) = Val(t) => command = Val([cmd |-> "ZINCRBY", text |-> t, by |-> by])
      BY Outcomes DEF Bind, Once
    <3>. HIDE DEF command
    <3>. QED
      BY <3>1, <3>2, SerializedResult
  <2>. HIDE DEF command, o
  <2>4. Sound(o, command)
    BY <2>1, <2>2, <2>3, Sent, Rejected
  <2>. QED
    BY <2>0, <2>4 DEF SoundCall
<1>5. ASSUME NEW i, NEW j,
             \/ zrange(c, i, j) \/ zrevrange(c, i, j)
             \/ zrange_withscores(c, i, j) \/ zrevrange_withscores(c, i, j)
      PROVE  SoundCall(c)
  <2>. SUFFICES ASSUME NEW name \in {"zrange", "zrevrange", "zrange_withscores",
                                     "zrevrange_withscores"},
                       NEW cmd \in {"ZRANGE", "ZREVRANGE", "ZRANGE WITHSCORES",
                                    "ZREVRANGE WITHSCORES"},
                       Call(c, [name |-> name, start |-> i, stop |-> j],
                            Val([cmd |-> cmd, start |-> i, stop |-> j]))
                PROVE  SoundCall(c)
    BY <1>5 DEF zrange, zrevrange, zrange_withscores, zrevrange_withscores, Ranged
  <2>1. Complete([cmd |-> cmd, start |-> i, stop |-> j])
    BY DEF Complete, NoMsg
  <2>2. Fits([name |-> name, start |-> i, stop |-> j], [cmd |-> cmd, start |-> i, stop |-> j])
    BY DEF Fits, RemovingCommands, Popping
  <2>. QED
    BY <2>1, <2>2, Sent DEF SoundCall
<1>. QED
  BY <1>1, <1>2, <1>3, <1>4, <1>5 DEF ZSetCall

LEMMA PicksExist ==
    ASSUME NEW S, NEW to
    PROVE  Picks(S, to) # {}
<1>. DEFINE pick == [y \in {to[x] : x \in S} |-> CHOOSE x \in S : to[x] = y]
<1>1. \A y \in {to[x] : x \in S} : pick[y] \in S /\ to[pick[y]] = y
  OBVIOUS
<1>2. pick \in [{to[x] : x \in S} -> S] /\ DOMAIN pick = {to[x] : x \in S}
  BY <1>1
<1>. HIDE DEF pick
<1>3. pick \in Picks(S, to)
  BY <1>1, <1>2 DEF Picks
<1>. QED
  BY <1>3

LEMMA PickedAre ==
    ASSUME NEW S, NEW to, NEW pick \in Picks(S, to)
    PROVE  /\ DOMAIN pick = {to[x] : x \in S}
           /\ \A y \in DOMAIN pick : pick[y] \in S /\ to[pick[y]] = y
BY DEF Picks

\* Texts of fields, in the order of the fields.
TextsFor(fs) == [i \in DOMAIN fs |-> serialize_key[fs[i]]]

\* A vector of fields is serialised as a whole, or not at all.
LEMMA NamesSerialized ==
    ASSUME NEW fs \in Seq(Name)
    PROVE  \/ /\ \A i \in DOMAIN fs : fs[i] \in DOMAIN serialize_key
              /\ DecodeAll(fs, SerializedName) = Val(TextsFor(fs))
           \/ /\ \E i \in DOMAIN fs : fs[i] \notin DOMAIN serialize_key
              /\ DecodeAll(fs, SerializedName) = Throw("serialize")
<1>. DEFINE n == Len(fs)
            results == [i \in DOMAIN fs |-> SerializedName(fs[i])]
            texts == TextsFor(fs)
            bad == {i \in 1 .. n : fs[i] \notin DOMAIN serialize_key}
<1>1. n \in Nat /\ DOMAIN fs = 1 .. n
  OBVIOUS
<1>2. DecodeAll(fs, SerializedName) = Collected(results)
  BY DEF DecodeAll, Once
<1>3. EachGives(results, n, texts, bad, "serialize")
  BY <1>1 DEF EachGives, SerializedName, TextsFor
<1>4. [i \in 1 .. n |-> texts[i]] = texts
  BY <1>1 DEF TextsFor
<1>. HIDE DEF results, texts
<1>5. Collected(results) = IF bad \cap (1 .. n) = {} THEN Val([i \in 1 .. n |-> texts[i]])
                           ELSE Throw("serialize")
  BY <1>1, <1>3, CollectedAll
<1>6. bad \cap (1 .. n) = {} <=> \A i \in DOMAIN fs : fs[i] \in DOMAIN serialize_key
  BY <1>1
<1>. HIDE DEF bad, n
<1>7. CASE bad \cap (1 .. n) = {}
  BY <1>2, <1>4, <1>5, <1>6, <1>7 DEF texts
<1>8. CASE bad \cap (1 .. n) # {}
  BY <1>2, <1>5, <1>6, <1>8
<1>. QED
  BY <1>7, <1>8

LEMMA FieldTextsFinite ==
    ASSUME NEW F \in SUBSET Field
    PROVE  IsFiniteSet(FieldTexts(F)) /\ (F # {} => FieldTexts(F) # {})
<1>. DEFINE to == [f \in F |-> serialize_key[f]]
<1>1. IsFiniteSet(F)
  BY HashAssumption, FS_Subset
<1>2. to \in [F -> FieldTexts(F)] /\ \A t \in FieldTexts(F) : \E f \in F : to[f] = t
  BY DEF FieldTexts
<1>3. to \in Surjection(F, FieldTexts(F))
  BY <1>2 DEF Surjection
<1>4. IsFiniteSet(FieldTexts(F))
  BY <1>1, <1>3, FS_Surjection
<1>5. F # {} => FieldTexts(F) # {}
  BY DEF FieldTexts
<1>. QED
  BY <1>4, <1>5

LEMMA HashCallSound ==
    ASSUME NEW c, HashCall(c)
    PROVE  SoundCall(c)
<1>1. ASSUME NEW f, hget(c, f)
      PROVE  SoundCall(c)
  <2>. DEFINE o == [name |-> "hget", field |-> f]
              command == Bind(SerializedName(f), LAMBDA t : Val([cmd |-> "HGET", field |-> t]))
  <2>1. \A t : Complete([cmd |-> "HGET", field |-> t])
    BY DEF Complete, NoMsg
  <2>2. \A t : Fits(o, [cmd |-> "HGET", field |-> t])
    BY DEF Fits, Removing, RemovingCommands, Popping
  <2>3. \/ command = Throw("serialize")
        \/ \E t : command = Val([cmd |-> "HGET", field |-> t])
    <3>1. ASSUME SerializedName(f) = Throw("serialize")
          PROVE  command = Throw("serialize")
      BY <3>1, Outcomes DEF Bind, Once
    <3>2. ASSUME NEW t, SerializedName(f) = Val(t)
          PROVE  command = Val([cmd |-> "HGET", field |-> t])
      BY <3>2, Outcomes DEF Bind, Once
    <3>. HIDE DEF command
    <3>. QED
      BY <3>1, <3>2 DEF SerializedName
  <2>. HIDE DEF command, o
  <2>4. Sound(o, command)
    BY <2>1, <2>2, <2>3, Sent, Rejected
  <2>. QED
    BY <1>1, <2>4 DEF SoundCall, hget, command, o
<1>2. ASSUME NEW F \in SUBSET Field, hget_batch(c, F)
      PROVE  SoundCall(c)
  <2>. DEFINE o == [name |-> "hget_batch", asked |-> F]
              ts == InOrder(FieldTexts(F))
              command == IF F = {} THEN Done(Entries(<<>>))
                         ELSE IF F \subseteq DOMAIN serialize_key
                         THEN Val([cmd |-> "HMGET", fields |-> ts])
                         ELSE Throw("serialize")
  <2>1. F # {} => ts # <<>>
    BY FieldTextsFinite, SetToSeqResult DEF InOrder
  <2>2. Call(c, o, command)
    BY <1>2 DEF hget_batch
  <2>. HIDE DEF ts
  <2>3. F # {} => Complete([cmd |-> "HMGET", fields |-> ts])
    BY <2>1 DEF Complete, NoMsg
  <2>4. Fits(o, [cmd |-> "HMGET", fields |-> ts]) /\ o.name \notin Removing
    BY DEF Fits, Removing, RemovingCommands, Popping
  <2>. HIDE DEF o
  <2>5. Sound(o, command)
    BY <2>3, <2>4, Sent, NotSent, Rejected
  <2>. QED
    BY <2>2, <2>5 DEF SoundCall
<1>3. ASSUME hgetall(c) \/ hkeys(c) \/ hvals(c) \/ hscan(c)
      PROVE  SoundCall(c)
  <2>. SUFFICES ASSUME NEW name \in {"hgetall", "hkeys", "hvals", "hscan"},
                       NEW cmd \in {"HGETALL", "HKEYS", "HVALS", "HSCAN"},
                       Call(c, [name |-> name], Val([cmd |-> cmd]))
                PROVE  SoundCall(c)
    BY <1>3 DEF hgetall, hkeys, hvals, hscan
  <2>1. Complete([cmd |-> cmd])
    BY DEF Complete, NoMsg
  <2>2. Fits([name |-> name], [cmd |-> cmd])
    BY DEF Fits, RemovingCommands, Popping
  <2>. QED
    BY <2>1, <2>2, Sent DEF SoundCall
<1>4. ASSUME NEW m, hset_map(c, m)
      PROVE  SoundCall(c)
  <2>. DEFINE o == [name |-> "hset", values |-> m]
  <2>1. PICK command \in Hset(m) : Call(c, o, command)
    BY <1>4 DEF hset_map
  <2>2. o.name \notin Removing /\ \A t : Fits(o, [cmd |-> "HSET", map |-> t])
    BY DEF Fits, Removing, RemovingCommands, Popping
  <2>. HIDE DEF o
  <2>3. CASE DOMAIN m = {}
    <3>1. command = Done(Flag(FALSE))
      BY <2>1, <2>3 DEF Hset
    <3>. QED
      BY <2>1, <2>2, <3>1, NotSent DEF SoundCall
  <2>4. CASE DOMAIN m # {} /\ ~Serializable(m)
    <3>1. command = Throw("serialize")
      BY <2>1, <2>4 DEF Hset
    <3>. QED
      BY <2>1, <3>1, Rejected DEF SoundCall
  <2>5. CASE DOMAIN m # {} /\ Serializable(m)
    <3>1. PICK pick \in Picks(DOMAIN m, serialize_key) :
              command = Val([cmd |-> "HSET", map |-> WrittenMap(m, pick)])
      BY <2>1, <2>5 DEF Hset
    <3>2. DOMAIN WrittenMap(m, pick) # {}
      <4>1. DOMAIN WrittenMap(m, pick) = {serialize_key[f] : f \in DOMAIN m}
        BY PickedAre DEF WrittenMap
      <4>. QED
        BY <2>5, <4>1
    <3>3. \A t : DOMAIN t # {} => Complete([cmd |-> "HSET", map |-> t])
      BY DEF Complete, NoMsg
    <3>. QED
      BY <2>1, <2>2, <3>1, <3>2, <3>3, Sent DEF SoundCall
  <2>. QED
    BY <2>3, <2>4, <2>5
<1>5. ASSUME NEW fs \in Seq(Name), hdel_list(c, fs)
      PROVE  SoundCall(c)
  <2>. DEFINE o == [name |-> "hdel", fields |-> fs]
              Deleted(ts) == IF ts = <<>> THEN Done(Count(0))
                             ELSE Val([cmd |-> "HDEL", fields |-> ts])
              command == Bind(DecodeAll(fs, SerializedName), Deleted)
  <2>1. \A ts : ts # <<>> => Complete([cmd |-> "HDEL", fields |-> ts])
    BY DEF Complete, NoMsg
  <2>2. o.name \notin Removing /\ \A ts : Fits(o, [cmd |-> "HDEL", fields |-> ts])
    BY DEF Fits, Removing, RemovingCommands, Popping
  <2>3. Call(c, o, command)
    BY <1>5 DEF hdel_list
  <2>. HIDE DEF o
  <2>4. \A ts : Sound(o, Deleted(ts))
    BY <2>1, <2>2, Sent, NotSent
  <2>. HIDE DEF Deleted
  <2>5. command = Throw("serialize") \/ \E ts : command = Deleted(ts)
    BY NamesSerialized, Outcomes DEF Bind, Once
  <2>. HIDE DEF command
  <2>6. Sound(o, command)
    BY <2>4, <2>5, Rejected
  <2>. QED
    BY <2>3, <2>6 DEF SoundCall
<1>6. ASSUME NEW f \in Field, hdel(c, f)
      PROVE  SoundCall(c)
  <2>1. <<f>> \in Seq(Name)
    BY HashAssumption
  <2>. QED
    BY <1>5, <1>6, <2>1 DEF hdel
<1>7. ASSUME NEW fs \in FieldVectors, hdel_list(c, fs)
      PROVE  SoundCall(c)
  <2>1. fs \in Seq(Name)
    BY HashAssumption
  <2>. QED
    BY <1>5, <1>7, <2>1
<1>8. ASSUME NEW f, NEW v, hset(c, f, v)
      PROVE  SoundCall(c)
  BY <1>4, <1>8 DEF hset
<1>. QED
  BY <1>1, <1>2, <1>3, <1>4, <1>6, <1>7, <1>8 DEF HashCall
-----------------------------------------------------------------------------
(* The invariant.                                                           *)

LEMMA Concatenated ==
    ASSUME NEW S, NEW a \in Seq(S), NEW b \in Seq(S)
    PROVE  a \o b \in Seq(S) /\ Len(a \o b) = Len(a) + Len(b)
OBVIOUS

\* The strays of a client come in a sequence.
Sequential(s) == s \in Seq({s[i] : i \in DOMAIN s})

LEMMA OwnElements ==
    ASSUME NEW S, NEW s \in Seq(S)
    PROVE  Sequential(s)
<1>. DEFINE T == {s[i] : i \in DOMAIN s}
<1>1. \A i \in 1 .. Len(s) : s[i] \in T
  OBVIOUS
<1>2. s = [i \in 1 .. Len(s) |-> s[i]] /\ Len(s) \in Nat
  OBVIOUS
<1>. HIDE DEF T
<1>3. [i \in 1 .. Len(s) |-> s[i]] \in Seq(T)
  BY <1>1, <1>2
<1>. QED
  BY <1>2, <1>3 DEF T, Sequential

LEMMA OneMore ==
    ASSUME NEW s, Sequential(s), NEW e
    PROVE  /\ Sequential(Append(s, e))
           /\ Len(Append(s, e)) = Len(s) + 1 /\ Len(s) \in Nat
           /\ \A i \in DOMAIN Append(s, e) :
                 Append(s, e)[i] = e \/ \E j \in DOMAIN s : Append(s, e)[i] = s[j]
<1>. DEFINE S == {s[i] : i \in DOMAIN s} \cup {e}
            t == Append(s, e)
<1>1. s \in Seq(S)
  <2>. DEFINE T == {s[i] : i \in DOMAIN s}
  <2>1. s \in Seq(T) /\ T \subseteq S
    BY DEF Sequential
  <2>. HIDE DEF T, S
  <2>. QED
    BY <2>1
<1>2. e \in S
  OBVIOUS
<1>3. /\ t \in Seq(S) /\ Len(t) = Len(s) + 1 /\ Len(s) \in Nat
      /\ \A i \in 1 .. Len(s) : t[i] = s[i]
      /\ t[Len(s) + 1] = e
  <2>. HIDE DEF S
  <2>. QED
    BY <1>1, <1>2
<1>. HIDE DEF S, t
<1>4. Sequential(t)
  BY <1>3, OwnElements
<1>5. \A i \in DOMAIN t : t[i] = e \/ \E j \in DOMAIN s : t[i] = s[j]
  BY <1>1, <1>3
<1>. QED
  BY <1>3, <1>4, <1>5 DEF t

Within(t, s) == \A j \in DOMAIN t : \E k \in DOMAIN s : t[j] = s[k]

LEMMA RemovedOne ==
    ASSUME NEW s, Sequential(s), NEW i \in DOMAIN s
    PROVE  \A t : t = SubSeq(s, 1, i - 1) \o SubSeq(s, i + 1, Len(s)) =>
              /\ Sequential(t)
              /\ Len(t) = Len(s) - 1 /\ Len(s) \in Nat
              /\ Within(t, s)
<1>. DEFINE S == {s[j] : j \in DOMAIN s}
            a == SubSeq(s, 1, i - 1)
            b == SubSeq(s, i + 1, Len(s))
<1>1. s \in Seq(S)
  BY DEF Sequential
<1>2. \A x \in S : \E k \in DOMAIN s : x = s[k]
  OBVIOUS
<1>. HIDE DEF S
<1>3. Len(s) \in Nat /\ i \in 1 .. Len(s)
  BY <1>1
<1>4. a \in Seq(S) /\ Len(a) = i - 1
  BY <1>1, <1>3
<1>5. b \in Seq(S) /\ Len(b) = Len(s) - i
  BY <1>1, <1>3
<1>6. SUFFICES ASSUME NEW t, t = a \o b
               PROVE  /\ Sequential(t)
                      /\ Len(t) = Len(s) - 1
                      /\ Within(t, s)
  BY <1>3
<1>. HIDE DEF a, b
<1>7. t \in Seq(S) /\ Len(t) = Len(a) + Len(b)
  BY <1>4, <1>5, <1>6, Concatenated
<1>8. Len(t) = Len(s) - 1
  BY <1>3, <1>4, <1>5, <1>7
<1>9. \A j \in DOMAIN t : t[j] \in S
  BY <1>7
<1>. QED
  BY <1>2, <1>7, <1>8, <1>9, OwnElements DEF Within

ClientOK(c) ==
    /\ link[c] \in {"up", "down"}
    /\ busy[c] \in BOOLEAN
    /\ req[c] # NoMsg => busy[c] /\ rep[c] = NoMsg /\ Complete(req[c])
    /\ rep[c] # NoMsg => busy[c]
    /\ busy[c] /\ link[c] = "up" => req[c] # NoMsg \/ rep[c] # NoMsg
    /\ Sequential(stray[c])
    /\ Len(stray[c]) <= MaxStray
    /\ \A i \in DOMAIN stray[c] : Complete(stray[c][i].command)
    /\ Pops(c)

IInv == object \in Objects /\ Shape /\ \A c \in Client : ClientOK(c)

LEMMA IInvTypeOK == IInv => TypeOK
BY DEF IInv, ClientOK, Complete, Commands, TypeOK

LEMMA IInvPops == IInv => PopGivesWhatItRemoves
BY DEF IInv, ClientOK, Pops, Faithful, PopGivesWhatItRemoves

LEMMA InitIInv == Init => IInv
<1>. SUFFICES ASSUME Init PROVE IInv
  OBVIOUS
<1>1. object \in Objects /\ Shape
  BY ObjectsAssumption DEF Init, Shape
<1>2. ASSUME NEW c \in Client
      PROVE  ClientOK(c)
  <2>1. /\ link[c] = "up" /\ req[c] = NoMsg /\ rep[c] = NoMsg /\ stray[c] = <<>>
        /\ busy[c] = FALSE /\ outcome[c] = Waiting /\ taken[c] = <<>>
    BY DEF Init
  <2>2. Faithful(op[c], taken[c], outcome[c])
    BY <2>1, Outcomes DEF Faithful, Waiting
  <2>3. Sequential(stray[c]) /\ Len(stray[c]) <= MaxStray
    <3>1. <<>> \in Seq({}) /\ Len(<<>>) = 0
      OBVIOUS
    <3>2. Sequential(<<>>)
      BY <3>1, OwnElements
    <3>. QED
      BY <2>1, <3>1, <3>2, TypedAssumption
  <2>4. \A i \in DOMAIN stray[c] : Complete(stray[c][i].command)
    BY <2>1
  <2>. QED
    BY <2>1, <2>2, <2>3, <2>4 DEF ClientOK, Pops
<1>. QED
  BY <1>1, <1>2 DEF IInv

\* A client whose own state stays as it is.
LEMMA Untouched ==
    ASSUME NEW d, ClientOK(d), busy'[d] = busy[d], link'[d] = link[d], req'[d] = req[d],
           rep'[d] = rep[d], stray'[d] = stray[d], op'[d] = op[d],
           outcome'[d] = outcome[d], taken'[d] = taken[d]
    PROVE  ClientOK(d)'
BY DEF ClientOK, Pops

LEMMA CallIInv ==
    ASSUME IInv, NEW c \in Client, ~busy[c], NEW o, NEW command, Sound(o, command),
           Call(c, o, command)
    PROVE  IInv'
<1>1. object' \in Objects /\ Shape'
  BY DEF IInv, Shape, Call
<1>2. ASSUME NEW d \in Client, d # c
      PROVE  ClientOK(d)'
  BY <1>2, Untouched DEF IInv, Shape, Call
<1>3. ClientOK(c)'
  <2>1. ClientOK(c) /\ req[c] = NoMsg /\ rep[c] = NoMsg
    BY DEF IInv, ClientOK
  <2>2. /\ op'[c] = o /\ busy'[c] = command.ok /\ outcome'[c] = OutcomeOf(command)
        /\ req'[c] = IF command.ok /\ link[c] = "up" THEN command.value ELSE NoMsg
        /\ taken'[c] = <<>>
        /\ link'[c] = link[c] /\ rep'[c] = NoMsg /\ stray'[c] = stray[c]
    BY <2>1 DEF IInv, Shape, Call
  <2>. QED
    BY <2>1, <2>2 DEF ClientOK, Pops, Sound, Complete
<1>. QED
  BY <1>1, <1>2, <1>3 DEF IInv

LEMMA ReturnIInv ==
    ASSUME IInv, NEW c \in Client, Return(c)
    PROVE  IInv'
<1>. PICK result \in Results(op[c], rep[c]) : Finish(c, result)
  BY DEF Return
<1>1. object' \in Objects /\ Shape'
  BY DEF IInv, Shape, Finish
<1>2. ASSUME NEW d \in Client, d # c
      PROVE  ClientOK(d)'
  BY <1>2, Untouched DEF IInv, Shape, Finish
<1>3. ClientOK(c)'
  <2>1. ClientOK(c) /\ rep[c] # NoMsg /\ req[c] = NoMsg
    BY DEF IInv, ClientOK, Finish
  <2>2. /\ rep'[c] = NoMsg /\ busy'[c] = FALSE /\ outcome'[c] = result
        /\ link'[c] = link[c] /\ req'[c] = NoMsg /\ stray'[c] = stray[c]
        /\ op'[c] = op[c] /\ taken'[c] = taken[c]
    BY <2>1 DEF IInv, Shape, Finish
  <2>3. Faithful(op[c], taken[c], result)
    BY <2>1 DEF ClientOK, Pops
  <2>. QED
    BY <2>1, <2>2, <2>3 DEF ClientOK, Pops
<1>. QED
  BY <1>1, <1>2, <1>3 DEF IInv

LEMMA TransportErrorIInv ==
    ASSUME IInv, NEW c \in Client, TransportError(c)
    PROVE  IInv'
<1>1. object' \in Objects /\ Shape'
  BY DEF IInv, Shape, TransportError
<1>2. ASSUME NEW d \in Client, d # c
      PROVE  ClientOK(d)'
  BY <1>2, Untouched DEF IInv, Shape, TransportError
<1>3. ClientOK(c)'
  <2>1. ClientOK(c) /\ rep[c] = NoMsg /\ MaxStray \in Nat
    BY TypedAssumption DEF IInv, TransportError
  <2>2. /\ rep'[c] = NoMsg /\ busy'[c] = FALSE /\ outcome'[c] = Throw("transport")
        /\ link'[c] = link[c] /\ req'[c] = NoMsg
        /\ op'[c] = op[c] /\ taken'[c] = taken[c]
    BY <2>1 DEF IInv, Shape, TransportError
  <2>3. Faithful(op[c], taken[c], Throw("transport"))
    BY Outcomes DEF Faithful
  <2>4. /\ Sequential(stray'[c])
        /\ Len(stray'[c]) <= MaxStray
        /\ \A i \in DOMAIN stray'[c] : Complete(stray'[c][i].command)
    <3>1. CASE UNCHANGED stray
      BY <2>1, <3>1 DEF ClientOK
    <3>2. CASE ~ UNCHANGED stray
      <4>. DEFINE e == [op |-> op[c], command |-> req[c]]
      <4>1. /\ req[c] # NoMsg /\ Len(stray[c]) < MaxStray
            /\ stray'[c] = Append(stray[c], e)
        BY <3>2 DEF IInv, Shape, TransportError
      <4>2. Complete(e.command)
        BY <2>1, <4>1 DEF ClientOK
      <4>. HIDE DEF e
      <4>3. Sequential(stray[c]) /\ \A i \in DOMAIN stray[c] : Complete(stray[c][i].command)
        BY <2>1 DEF ClientOK
      <4>. QED
        BY <2>1, <4>1, <4>2, <4>3, OneMore
    <3>. QED
      BY <3>1, <3>2
  <2>. QED
    BY <2>1, <2>2, <2>3, <2>4 DEF ClientOK, Pops
<1>. QED
  BY <1>1, <1>2, <1>3 DEF IInv

LEMMA ReconnectIInv ==
    ASSUME IInv, NEW c \in Client, Reconnect(c)
    PROVE  IInv'
<1>1. object' \in Objects /\ Shape'
  BY DEF IInv, Shape, Reconnect, callVars
<1>2. ASSUME NEW d \in Client, d # c
      PROVE  ClientOK(d)'
  BY <1>2, Untouched DEF IInv, Shape, Reconnect, callVars
<1>3. ClientOK(c)'
  BY DEF IInv, Shape, Reconnect, callVars, ClientOK, Pops
<1>. QED
  BY <1>1, <1>2, <1>3 DEF IInv

LEMMA ServeCommandIInv ==
    ASSUME IInv, NEW c \in Client, ServeCommand(c)
    PROVE  IInv'
<1>1. PICK e \in Effects(req[c]) :
          /\ object' = e.object
          /\ taken' = [taken EXCEPT ![c] = e.taken]
          /\ rep' = IF link[c] = "up" THEN [rep EXCEPT ![c] = e.reply] ELSE rep
  BY DEF ServeCommand, Serve
<1>2. req[c] # NoMsg /\ req' = [req EXCEPT ![c] = NoMsg] /\ UNCHANGED <<link, stray, callVars>>
  BY DEF ServeCommand, Serve
<1>3. ClientOK(c) /\ object \in Objects /\ Shape
  BY DEF IInv
<1>4. Fits(op[c], req[c]) /\ busy[c] /\ rep[c] = NoMsg
  BY <1>2, <1>3 DEF ClientOK, Pops
<1>5. /\ e.object \in Objects
      /\ e.reply # NoMsg
      /\ \A result \in Results(op[c], e.reply) : Faithful(op[c], e.taken, result)
  BY <1>3, <1>4, ServedFaithful
<1>6. object' \in Objects /\ Shape'
  BY <1>1, <1>2, <1>3, <1>5 DEF Shape, callVars
<1>7. ASSUME NEW d \in Client, d # c
      PROVE  ClientOK(d)'
  BY <1>1, <1>2, <1>3, <1>7, Untouched DEF IInv, Shape, callVars
<1>8. ClientOK(c)'
  <2>1. /\ req'[c] = NoMsg /\ taken'[c] = e.taken /\ link'[c] = link[c]
        /\ rep'[c] = IF link[c] = "up" THEN e.reply ELSE NoMsg
        /\ stray'[c] = stray[c] /\ busy'[c] = busy[c] /\ op'[c] = op[c]
    BY <1>1, <1>2, <1>3, <1>4 DEF Shape, callVars
  <2>. QED
    BY <2>1, <1>3, <1>4, <1>5 DEF ClientOK, Pops
<1>. QED
  BY <1>6, <1>7, <1>8 DEF IInv

LEMMA ServeLateIInv ==
    ASSUME IInv, NEW c \in Client, ServeLate(c)
    PROVE  IInv'
<1>1. PICK i \in DOMAIN stray[c] :
          /\ object' \in {object} \cup {e.object : e \in Effects(stray[c][i].command)}
          /\ stray' = [stray EXCEPT ![c] =
                          SubSeq(@, 1, i - 1) \o SubSeq(@, i + 1, Len(@))]
          /\ UNCHANGED <<link, req, rep, callVars, taken>>
  BY DEF ServeLate, ServeStray
<1>2. ClientOK(c) /\ object \in Objects /\ Shape
  BY DEF IInv
<1>3. object' \in Objects
  <2>1. \A m : \A e \in Effects(m) : e.object \in Objects
    BY <1>2, Changed DEF Effects, Refused
  <2>. QED
    BY <1>1, <1>2, <2>1
<1>4. Shape'
  BY <1>1, <1>2 DEF Shape, callVars
<1>5. ASSUME NEW d \in Client, d # c
      PROVE  ClientOK(d)'
  BY <1>1, <1>2, <1>5, Untouched DEF IInv, Shape, callVars
<1>6. ClientOK(c)'
  <2>1. stray'[c] = SubSeq(stray[c], 1, i - 1) \o SubSeq(stray[c], i + 1, Len(stray[c]))
    BY <1>1, <1>2 DEF Shape
  <2>2. /\ Sequential(stray[c]) /\ Len(stray[c]) <= MaxStray
        /\ \A k \in DOMAIN stray[c] : Complete(stray[c][k].command)
    BY <1>2 DEF ClientOK
  <2>3. /\ Sequential(stray'[c])
        /\ Len(stray'[c]) = Len(stray[c]) - 1 /\ Len(stray[c]) \in Nat
        /\ Within(stray'[c], stray[c])
    BY <2>1, <2>2, RemovedOne
  <2>4. /\ Len(stray'[c]) <= MaxStray
        /\ \A j \in DOMAIN stray'[c] : Complete(stray'[c][j].command)
    BY <2>2, <2>3, TypedAssumption DEF Within
  <2>. QED
    BY <1>1, <1>2, <2>3, <2>4 DEF ClientOK, Pops, callVars
<1>. QED
  BY <1>3, <1>4, <1>5, <1>6 DEF IInv

LEMMA DropIInv ==
    ASSUME IInv, NEW c \in Client, Drop(c)
    PROVE  IInv'
<1>1. object' \in Objects /\ Shape'
  BY DEF IInv, Shape, Drop, callVars
<1>2. ASSUME NEW d \in Client, d # c
      PROVE  ClientOK(d)'
  BY <1>2, Untouched DEF IInv, Shape, Drop, callVars
<1>3. ClientOK(c)'
  <2>1. ClientOK(c)
    BY DEF IInv
  <2>2. /\ link'[c] = "down" /\ stray'[c] = stray[c] /\ busy'[c] = busy[c]
        /\ op'[c] = op[c] /\ outcome'[c] = outcome[c] /\ taken'[c] = taken[c]
        /\ \/ req'[c] = req[c] /\ rep'[c] = rep[c]
           \/ req'[c] = NoMsg /\ rep'[c] = NoMsg
    BY DEF IInv, Shape, Drop, callVars
  <2>. QED
    BY <2>1, <2>2 DEF ClientOK, Pops
<1>. QED
  BY <1>1, <1>2, <1>3 DEF IInv

LEMMA OthersIInv == IInv /\ Others => IInv'
<1>. SUFFICES ASSUME IInv, Others PROVE IInv'
  OBVIOUS
<1>1. object' \in Objects /\ Shape'
  BY DEF IInv, Shape, Others, netVars, callVars
<1>2. ASSUME NEW d \in Client
      PROVE  ClientOK(d)'
  BY Untouched DEF IInv, Others, netVars, callVars
<1>. QED
  BY <1>1, <1>2 DEF IInv

LEMMA NextIInv == IInv /\ [Next]_vars => IInv'
<1>. SUFFICES ASSUME IInv, [Next]_vars PROVE IInv'
  OBVIOUS
<1>1. ASSUME NEW c \in Client, Operation(c)
      PROVE  IInv'
  <2>1. SoundCall(c) /\ ~busy[c]
    BY <1>1, ValueCallSound, HashCallSound, ListCallSound, SetCallSound, ZSetCallSound,
       KeyCallSound DEF Operation
  <2>. QED
    BY <2>1, CallIInv DEF SoundCall
<1>2. CASE UNCHANGED vars
  <2>1. object' \in Objects /\ Shape'
    BY <1>2 DEF IInv, Shape, vars, netVars, callVars
  <2>2. ASSUME NEW d \in Client
        PROVE  ClientOK(d)'
    BY <1>2, Untouched DEF IInv, vars, netVars, callVars
  <2>. QED
    BY <2>1, <2>2 DEF IInv
<1>. QED
  BY <1>1, <1>2, ReturnIInv, TransportErrorIInv, ReconnectIInv, ServeCommandIInv,
     ServeLateIInv, DropIInv, OthersIInv DEF Next
-----------------------------------------------------------------------------
THEOREM Invariance == Spec => []IInv
BY InitIInv, NextIInv, PTL DEF Spec

\* Whatever the programs and the network do, every command that is sent has the
\* arguments the server insists on, and a reply waits only for a call.
THEOREM TypeCorrect == Spec => []TypeOK
BY Invariance, IInvTypeOK, PTL

\* A pop, an spop and a get_and_set give the caller just what the server removed
\* for it, or an exception that says why they do not.
THEOREM NothingTakenIsLost == Spec => []PopGivesWhatItRemoves
BY Invariance, IInvPops, PTL
-----------------------------------------------------------------------------
(***************************************************************************)
(* The contract of LinearObject.                                           *)
(*                                                                         *)
(* A command means an operation if, on every object the server may have,   *)
(* whatever the server does with the command is an effect of the           *)
(* operation, and whatever the view makes of the reply is an answer of     *)
(* that effect.  Every command in flight, also one that arrives after its  *)
(* call has failed, means the operation of its call; the steps of the      *)
(* clients, the server and the network map to those of LinearObject.       *)
(***************************************************************************)
EffectsOn(m, x) ==
    {Refused(x)} \cup
    {e \in ValueEffects(m, x) \cup HashEffects(m, x) \cup ListEffects(m, x)
           \cup SetEffects(m, x) \cup ZSetEffects(m, x) \cup KeyEffects(m, x) :
        e.object \in Objects}

Markers == {Throw("idle"), Throw("pending"), Throw("lost")}

\* What may be returned: something, and no marker.
Returnable(results) == results # {} /\ results \cap Markers = {}

\* What the server does is an effect of o on x.
Agrees(o, x, e) ==
    /\ Returnable(Results(o, e.reply))
    /\ \E f \in Apply(o, Typed(x)) :
          f.object = Typed(e.object) /\ Results(o, e.reply) \subseteq f.answers

Means(m, o) == \A x \in Objects : \A e \in EffectsOn(m, x) : Agrees(o, x, e)

\* What o may give without looking at the object.
AtOnce(o, x) ==
    Rejections(o) \cup UNION {e.answers : e \in {f \in Apply(o, x) : f.object = x}}

\* A call of o comes to a command that means o, or to an end at once.
Proper(o, command) ==
    /\ o \in Ops
    /\ command.ok => Means(command.value, o)
    /\ ~command.ok => \A x \in Objects : OutcomeOf(command) \in AtOnce(o, Typed(x))

ProperCall(c) == \E o, command : Proper(o, command) /\ Call(c, o, command)

\* The commands in flight mean their operations, and a reply under way gives
\* something to return.
Meaningful(c) ==
    /\ req[c] # NoMsg => Means(req[c], op[c])
    /\ rep[c] # NoMsg => Returnable(Results(op[c], rep[c]))
    /\ \A i \in DOMAIN stray[c] : Means(stray[c][i].command, stray[c][i].op)

MInv == \A c \in Client : Meaningful(c)

AnswersOf(c) ==
    CASE ~busy[c] -> IdleAnswers
      [] busy[c] /\ rep[c] # NoMsg -> Results(op[c], rep[c])
      [] busy[c] /\ rep[c] = NoMsg /\ req[c] # NoMsg -> PendingAnswers
      [] OTHER -> LostAnswers

Answers == [c \in Client |-> AnswersOf(c)]

LateOf(c) == [i \in DOMAIN stray[c] |-> stray[c][i].op]

Lates == [c \in Client |-> LateOf(c)]

\* Markers are told apart from one another and from what a call returns.
LEMMA MarkersDiffer ==
    /\ IdleAnswers # PendingAnswers /\ IdleAnswers # LostAnswers
    /\ PendingAnswers # LostAnswers
    /\ \A R : Returnable(R) => R \notin {IdleAnswers, PendingAnswers, LostAnswers}
<1>1. /\ Throw("idle") # Throw("pending") /\ Throw("idle") # Throw("lost")
      /\ Throw("pending") # Throw("lost")
  <2>1. \A e, f : Throw(e) = Throw(f) => e = f
    BY DEF Throw
  <2>. QED
    BY <2>1
<1>. QED
  BY <1>1, Zenon DEF IdleAnswers, PendingAnswers, LostAnswers, Returnable, Markers

\* What a client shows of itself, when its call is idle, pending, lost or answered.
LEMMA AnswersAt ==
    ASSUME NEW c \in Client, ClientOK(c), Meaningful(c)
    PROVE  /\ ~busy[c] <=> AnswersOf(c) = IdleAnswers
           /\ busy[c] /\ req[c] # NoMsg <=> AnswersOf(c) = PendingAnswers
           /\ busy[c] /\ req[c] = NoMsg /\ rep[c] = NoMsg <=> AnswersOf(c) = LostAnswers
           /\ rep[c] # NoMsg => AnswersOf(c) = Results(op[c], rep[c])
<1>1. rep[c] # NoMsg => busy[c] /\ Returnable(Results(op[c], rep[c]))
  BY DEF ClientOK, Meaningful
<1>2. req[c] # NoMsg => busy[c] /\ rep[c] = NoMsg
  BY DEF ClientOK
<1>3. CASE ~busy[c]
  <2>1. AnswersOf(c) = IdleAnswers
    BY <1>3 DEF AnswersOf
  <2>. QED
    BY <2>1, <1>1, <1>2, <1>3, MarkersDiffer
<1>4. CASE rep[c] # NoMsg
  <2>1. AnswersOf(c) = Results(op[c], rep[c])
    BY <1>1, <1>4 DEF AnswersOf
  <2>. QED
    BY <2>1, <1>1, <1>2, <1>4, MarkersDiffer
<1>5. CASE busy[c] /\ rep[c] = NoMsg /\ req[c] # NoMsg
  <2>1. AnswersOf(c) = PendingAnswers
    BY <1>5 DEF AnswersOf
  <2>. QED
    BY <2>1, <1>1, <1>2, <1>5, MarkersDiffer
<1>6. CASE busy[c] /\ rep[c] = NoMsg /\ req[c] = NoMsg
  <2>1. AnswersOf(c) = LostAnswers
    BY <1>6 DEF AnswersOf
  <2>. QED
    BY <2>1, <1>1, <1>2, <1>6, MarkersDiffer
<1>. QED
  BY <1>3, <1>4, <1>5, <1>6
-----------------------------------------------------------------------------
(* The steps, as LinearObject sees them.                                    *)

\* The mapping, in short.
LEMMA Mapping ==
    /\ Answers = [c \in Client |->
                   CASE ~busy[c] -> IdleAnswers
                     [] busy[c] /\ rep[c] # NoMsg -> Results(op[c], rep[c])
                     [] busy[c] /\ rep[c] = NoMsg /\ req[c] # NoMsg -> PendingAnswers
                     [] OTHER -> LostAnswers]
    /\ Lates = [c \in Client |-> [i \in DOMAIN stray[c] |-> stray[c][i].op]]
BY DEF Answers, AnswersOf, Lates, LateOf

LEMMA MappingPrime ==
    /\ Answers' = [c \in Client |->
                   CASE ~busy'[c] -> IdleAnswers
                     [] busy'[c] /\ rep'[c] # NoMsg -> Results(op'[c], rep'[c])
                     [] busy'[c] /\ rep'[c] = NoMsg /\ req'[c] # NoMsg -> PendingAnswers
                     [] OTHER -> LostAnswers]
    /\ Lates' = [c \in Client |-> [i \in DOMAIN stray'[c] |-> stray'[c][i].op]]
BY DEF Answers, AnswersOf, Lates, LateOf

\* A step leaves the other clients alone.
OnlyOf(c) ==
    \A d \in Client \ {c} :
        /\ busy'[d] = busy[d] /\ req'[d] = req[d] /\ rep'[d] = rep[d]
        /\ stray'[d] = stray[d] /\ op'[d] = op[d]

LEMMA OneClient ==
    ASSUME NEW c \in Client, OnlyOf(c)
    PROVE  /\ Answers' = [Answers EXCEPT ![c] = AnswersOf(c)']
           /\ Lates' = [Lates EXCEPT ![c] = LateOf(c)']
           /\ AnswersOf(c)' = AnswersOf(c) => Answers' = Answers
           /\ stray'[c] = stray[c] => Lates' = Lates
           /\ Answers[c] = AnswersOf(c) /\ Lates[c] = LateOf(c)
<1>1. \A d \in Client \ {c} : AnswersOf(d)' = AnswersOf(d) /\ LateOf(d)' = LateOf(d)
  BY DEF OnlyOf, AnswersOf, LateOf
<1>2. stray'[c] = stray[c] => LateOf(c)' = LateOf(c)
  BY DEF LateOf
<1>3. /\ Answers' = [d \in Client |-> AnswersOf(d)'] /\ Answers = [d \in Client |-> AnswersOf(d)]
      /\ Lates' = [d \in Client |-> LateOf(d)'] /\ Lates = [d \in Client |-> LateOf(d)]
  BY DEF Answers, Lates
<1>4. Answers' = [Answers EXCEPT ![c] = AnswersOf(c)']
  BY <1>1, <1>3
<1>5. Lates' = [Lates EXCEPT ![c] = LateOf(c)']
  BY <1>1, <1>3
<1>6. [Answers EXCEPT ![c] = AnswersOf(c)] = Answers /\ [Lates EXCEPT ![c] = LateOf(c)] = Lates
  BY DEF Answers, Lates
<1>. QED
  BY <1>2, <1>3, <1>4, <1>5, <1>6

\* What an operation may do on the object that is there.
Invokes(c, o) ==
    /\ o \in Ops
    /\ op' = [op EXCEPT ![c] = o] /\ Answers[c] = IdleAnswers
    /\ Typed(object') = Typed(object) /\ Lates' = Lates
    /\ \E a \in {PendingAnswers, LostAnswers} : Answers' = [Answers EXCEPT ![c] = a]
    /\ outcome' = [outcome EXCEPT ![c] = Waiting]

Comes(c, o) ==
    /\ o \in Ops
    /\ op' = [op EXCEPT ![c] = o] /\ Answers[c] = IdleAnswers
    /\ Typed(object') = Typed(object) /\ Lates' = Lates
    /\ \E r \in AtOnce(o, Typed(object)) : outcome' = [outcome EXCEPT ![c] = r]
    /\ Answers' = Answers

Acts(c) ==
    /\ Answers[c] = PendingAnswers
    /\ \E f \in Apply(op[c], Typed(object)) :
          /\ Typed(object') = f.object
          /\ Answers'[c] = LostAnswers \/ Answers'[c] \in (SUBSET f.answers) \ {{}}
    /\ Answers' = [Answers EXCEPT ![c] = Answers'[c]]
    /\ op' = op /\ outcome' = outcome /\ Lates' = Lates

Loses(c) ==
    /\ Answers[c] # IdleAnswers
    /\ Answers' = [Answers EXCEPT ![c] = LostAnswers]
    /\ Typed(object') = Typed(object) /\ op' = op /\ outcome' = outcome /\ Lates' = Lates

Ended(c, result) ==
    /\ Answers' = [Answers EXCEPT ![c] = IdleAnswers]
    /\ outcome' = [outcome EXCEPT ![c] = result]
    /\ Typed(object') = Typed(object) /\ op' = op

Returns(c) ==
    /\ Answers[c] \notin {IdleAnswers, PendingAnswers, LostAnswers}
    /\ \E result \in Answers[c] : Ended(c, result)
    /\ Lates' = Lates

GivesUp(c) ==
    /\ Answers[c] # IdleAnswers
    /\ Ended(c, Throw("transport"))
    /\ \/ Lates' = Lates
       \/ Answers[c] = PendingAnswers /\ Lates' = [Lates EXCEPT ![c] = Append(Lates[c], op[c])]

Settles(c) ==
    /\ \E i \in DOMAIN Lates[c] :
          /\ \/ \E f \in Apply(Lates[c][i], Typed(object)) : Typed(object') = f.object
             \/ Typed(object') = Typed(object)
          /\ Lates' = [Lates EXCEPT ![c] = SubSeq(Lates[c], 1, i - 1)
                                           \o SubSeq(Lates[c], i + 1, Len(Lates[c]))]
    /\ op' = op /\ Answers' = Answers /\ outcome' = outcome

Changes ==
    /\ Typed(object') \in ForeignObjects(Typed(object))
    /\ op' = op /\ Answers' = Answers /\ outcome' = outcome /\ Lates' = Lates

Stutters ==
    /\ Typed(object') = Typed(object)
    /\ op' = op /\ Answers' = Answers /\ outcome' = outcome /\ Lates' = Lates

AbstractStep ==
    \/ Stutters \/ Changes
    \/ \E c \in Client :
          \/ \E o : Invokes(c, o) \/ Comes(c, o)
          \/ Acts(c) \/ Loses(c) \/ Returns(c) \/ GivesUp(c) \/ Settles(c)

LEMMA Mapped ==
    ASSUME AbstractStep
    PROVE  [Promise!Next]_(Promise!vars)
<1>1. CASE Stutters
  BY <1>1, Mapping, MappingPrime DEF Stutters, Promise!vars
<1>2. CASE Changes
  <2>1. Promise!Others
    BY <1>2, Mapping, MappingPrime DEF Changes, Promise!Others
  <2>. QED
    BY <2>1 DEF Promise!Next
<1>3. ASSUME NEW c \in Client, NEW o, Invokes(c, o)
      PROVE  Promise!Next
  <2>1. Promise!Invoke(c, o) /\ o \in Ops
    BY <1>3, Mapping, MappingPrime DEF Invokes, Promise!Invoke, Promise!Start
  <2>. QED
    BY <2>1 DEF Promise!Next
<1>4. ASSUME NEW c \in Client, NEW o, Comes(c, o)
      PROVE  Promise!Next
  <2>1. Promise!CallAndReturn(c, o) /\ o \in Ops
    BY <1>4, Mapping, MappingPrime DEF Comes, AtOnce, Promise!CallAndReturn, Promise!Start
  <2>. QED
    BY <2>1 DEF Promise!Next
<1>5. ASSUME NEW c \in Client, Acts(c)
      PROVE  Promise!Next
  <2>1. Promise!TakeEffect(c)
    BY <1>5, Mapping, MappingPrime DEF Acts, Promise!TakeEffect
  <2>. QED
    BY <2>1 DEF Promise!Next
<1>6. ASSUME NEW c \in Client, Loses(c)
      PROVE  Promise!Next
  <2>1. Promise!Lose(c)
    BY <1>6, Mapping, MappingPrime DEF Loses, Promise!Lose
  <2>. QED
    BY <2>1 DEF Promise!Next
<1>7. ASSUME NEW c \in Client, Returns(c)
      PROVE  Promise!Next
  <2>1. Promise!Return(c)
    BY <1>7, Mapping, MappingPrime DEF Returns, Ended, Promise!Return, Promise!End
  <2>. QED
    BY <2>1 DEF Promise!Next
<1>8. ASSUME NEW c \in Client, GivesUp(c)
      PROVE  Promise!Next
  <2>1. Promise!Fail(c)
    BY <1>8, Mapping, MappingPrime DEF GivesUp, Ended, Promise!Fail, Promise!End
  <2>. QED
    BY <2>1 DEF Promise!Next
<1>9. ASSUME NEW c \in Client, Settles(c)
      PROVE  Promise!Next
  <2>1. Promise!Settle(c)
    BY <1>9, Mapping, MappingPrime DEF Settles, Promise!Settle
  <2>. QED
    BY <2>1 DEF Promise!Next
<1>. QED
  BY <1>1, <1>2, <1>3, <1>4, <1>5, <1>6, <1>7, <1>8, <1>9 DEF AbstractStep
-----------------------------------------------------------------------------
(* The steps of the clients, the server and the network.                    *)

LEMMA EffectsHere == \A m : Effects(m) = EffectsOn(m, object)
BY DEF Effects, EffectsOn

LEMMA ProperCallStep ==
    ASSUME IInv, MInv, IInv', NEW c \in Client, ~busy[c], ProperCall(c)
    PROVE  MInv' /\ AbstractStep
<1>1. PICK o, command : Proper(o, command) /\ Call(c, o, command)
  BY DEF ProperCall
<1>2. ClientOK(c) /\ Meaningful(c) /\ object \in Objects /\ Shape
  BY DEF IInv, MInv
<1>3. req[c] = NoMsg /\ rep[c] = NoMsg
  BY <1>2 DEF ClientOK
<1>4. /\ op' = [op EXCEPT ![c] = o] /\ op'[c] = o
      /\ busy'[c] = command.ok
      /\ outcome' = [outcome EXCEPT ![c] = OutcomeOf(command)]
      /\ req'[c] = IF command.ok /\ link[c] = "up" THEN command.value ELSE NoMsg
      /\ rep'[c] = NoMsg /\ stray'[c] = stray[c] /\ object' = object
  BY <1>1, <1>2, <1>3 DEF Call, Shape
<1>5. OnlyOf(c)
  BY <1>1, <1>2 DEF OnlyOf, Call, Shape
<1>6. Meaningful(c)'
  BY <1>1, <1>2, <1>3, <1>4 DEF Meaningful, Proper
<1>7. MInv'
  BY <1>5, <1>6 DEF MInv, Meaningful, OnlyOf
<1>8. ClientOK(c)'
  BY DEF IInv
<1>9. Answers[c] = IdleAnswers /\ Lates' = Lates
  BY <1>2, <1>4, <1>5, AnswersAt, OneClient
<1>10. CASE command.ok
  <2>1. AnswersOf(c)' \in {PendingAnswers, LostAnswers}
    BY <1>3, <1>4, <1>10 DEF AnswersOf
  <2>2. Answers' = [Answers EXCEPT ![c] = AnswersOf(c)']
    BY <1>5, OneClient
  <2>3. outcome' = [outcome EXCEPT ![c] = Waiting]
    BY <1>4, <1>10 DEF OutcomeOf
  <2>4. Invokes(c, o)
    BY <1>1, <1>4, <1>9, <2>1, <2>2, <2>3 DEF Invokes, Proper
  <2>. QED
    BY <1>7, <2>4 DEF AbstractStep
<1>11. CASE ~command.ok
  <2>1. AnswersOf(c)' = IdleAnswers /\ AnswersOf(c) = IdleAnswers
    BY <1>4, <1>11 DEF AnswersOf
  <2>2. Answers' = Answers
    BY <1>5, <2>1, OneClient
  <2>3. OutcomeOf(command) \in AtOnce(o, Typed(object))
    BY <1>1, <1>2, <1>11 DEF Proper
  <2>4. Comes(c, o)
    BY <1>1, <1>4, <1>9, <2>2, <2>3 DEF Comes, Proper
  <2>. QED
    BY <1>7, <2>4 DEF AbstractStep
<1>. QED
  BY <1>10, <1>11

LEMMA ReturnStep ==
    ASSUME IInv, MInv, IInv', NEW c \in Client, Return(c)
    PROVE  MInv' /\ AbstractStep
<1>1. PICK result \in Results(op[c], rep[c]) : Finish(c, result)
  BY DEF Return
<1>2. ClientOK(c) /\ Meaningful(c) /\ Shape /\ rep[c] # NoMsg
  BY DEF IInv, MInv, Return
<1>3. req[c] = NoMsg
  BY <1>2 DEF ClientOK
<1>4. /\ rep'[c] = NoMsg /\ busy'[c] = FALSE /\ req'[c] = NoMsg
      /\ outcome' = [outcome EXCEPT ![c] = result]
      /\ stray'[c] = stray[c] /\ object' = object /\ op' = op
  BY <1>1, <1>2, <1>3 DEF Finish, Shape
<1>5. OnlyOf(c)
  BY <1>1, <1>2 DEF OnlyOf, Finish, Shape
<1>6. Meaningful(c)'
  BY <1>2, <1>4 DEF Meaningful
<1>7. MInv'
  BY <1>5, <1>6 DEF MInv, Meaningful, OnlyOf
<1>8. AnswersOf(c) = Results(op[c], rep[c])
      /\ AnswersOf(c) \notin {IdleAnswers, PendingAnswers, LostAnswers}
  BY <1>2, AnswersAt, MarkersDiffer DEF Meaningful
<1>9. AnswersOf(c)' = IdleAnswers
  BY <1>4 DEF AnswersOf
<1>10. Returns(c)
  BY <1>1, <1>4, <1>5, <1>8, <1>9, OneClient DEF Returns, Ended
<1>. QED
  BY <1>7, <1>10 DEF AbstractStep

\* A command that is left behind is the last to come late.
LEMMA LateAppended ==
    ASSUME NEW c \in Client, Sequential(stray[c]), NEW m,
           stray'[c] = Append(stray[c], [op |-> op[c], command |-> m])
    PROVE  LateOf(c)' = Append(LateOf(c), op[c])
<1>. DEFINE e == [op |-> op[c], command |-> m]
            S == {stray[c][i] : i \in DOMAIN stray[c]} \cup {e}
            s == stray[c]
<1>1. s \in Seq(S) /\ e \in S
  <2>. DEFINE T == {stray[c][i] : i \in DOMAIN stray[c]}
  <2>1. s \in Seq(T) /\ T \subseteq S
    BY DEF Sequential
  <2>. HIDE DEF T, S, s
  <2>2. s \in Seq(S)
    BY <2>1
  <2>. QED
    BY <2>2 DEF S
<1>2. e.op = op[c]
  OBVIOUS
<1>3. LateOf(c)' = [i \in DOMAIN Append(s, e) |-> Append(s, e)[i].op]
  BY DEF LateOf
<1>4. LateOf(c) = [i \in DOMAIN s |-> s[i].op]
  BY DEF LateOf
<1>. HIDE DEF S, s, e
<1>5. /\ DOMAIN s = 1 .. Len(s) /\ Len(s) \in Nat
      /\ DOMAIN Append(s, e) = 1 .. Len(s) + 1
      /\ \A i \in 1 .. Len(s) : Append(s, e)[i] = s[i]
      /\ Append(s, e)[Len(s) + 1] = e
  BY <1>1
<1>. DEFINE U == {s[i].op : i \in DOMAIN s} \cup {op[c]}
            l == [i \in 1 .. Len(s) |-> s[i].op]
<1>6. l \in Seq(U) /\ Len(l) = Len(s)
  BY <1>5
<1>7. op[c] \in U
  OBVIOUS
<1>8. \A i \in 1 .. Len(s) : l[i] = s[i].op
  OBVIOUS
<1>. HIDE DEF U, l
<1>9. /\ DOMAIN Append(l, op[c]) = 1 .. Len(s) + 1
      /\ \A i \in 1 .. Len(s) : Append(l, op[c])[i] = l[i]
      /\ Append(l, op[c])[Len(s) + 1] = op[c]
      /\ Append(l, op[c]) \in Seq(U)
  BY <1>5, <1>6, <1>7
<1>10. Append(l, op[c]) = [i \in 1 .. Len(s) + 1 |-> Append(l, op[c])[i]]
  BY <1>9
<1>11. \A i \in 1 .. Len(s) + 1 : Append(s, e)[i].op = Append(l, op[c])[i]
  BY <1>2, <1>5, <1>8, <1>9
<1>. QED
  BY <1>3, <1>4, <1>5, <1>10, <1>11 DEF l

LEMMA TransportErrorStep ==
    ASSUME IInv, MInv, IInv', NEW c \in Client, TransportError(c)
    PROVE  MInv' /\ AbstractStep
<1>1. ClientOK(c) /\ Meaningful(c) /\ Shape /\ rep[c] = NoMsg /\ busy[c]
  BY DEF IInv, MInv, TransportError
<1>2. /\ rep'[c] = NoMsg /\ busy'[c] = FALSE /\ req'[c] = NoMsg
      /\ outcome' = [outcome EXCEPT ![c] = Throw("transport")]
      /\ object' = object /\ op' = op
  BY <1>1 DEF TransportError, Shape
<1>3. OnlyOf(c)
  BY <1>1 DEF OnlyOf, TransportError, Shape
<1>4. AnswersOf(c)' = IdleAnswers
  BY <1>2 DEF AnswersOf
<1>5. Answers' = [Answers EXCEPT ![c] = IdleAnswers] /\ Answers[c] = AnswersOf(c)
      /\ Answers[c] # IdleAnswers
  BY <1>1, <1>3, <1>4, OneClient, AnswersAt
<1>6. Ended(c, Throw("transport"))
  BY <1>2, <1>5 DEF Ended
<1>7. CASE UNCHANGED stray
  <2>1. Meaningful(c)'
    BY <1>1, <1>2, <1>7 DEF Meaningful
  <2>2. MInv'
    BY <1>3, <2>1 DEF MInv, Meaningful, OnlyOf
  <2>3. Lates' = Lates
    BY <1>3, <1>7, OneClient
  <2>4. GivesUp(c)
    BY <1>5, <1>6, <2>3 DEF GivesUp
  <2>. QED
    BY <2>2, <2>4 DEF AbstractStep
<1>8. CASE ~ UNCHANGED stray
  <2>. DEFINE e == [op |-> op[c], command |-> req[c]]
  <2>1. req[c] # NoMsg /\ stray'[c] = Append(stray[c], e)
    BY <1>1, <1>8 DEF TransportError, Shape
  <2>2. Means(e.command, e.op)
    BY <1>1, <2>1 DEF Meaningful
  <2>3. Sequential(stray[c]) /\ \A i \in DOMAIN stray[c] : Means(stray[c][i].command, stray[c][i].op)
    BY <1>1 DEF ClientOK, Meaningful
  <2>4. LateOf(c)' = Append(LateOf(c), op[c])
    BY <2>1, <2>3, LateAppended
  <2>. HIDE DEF e
  <2>5. \A i \in DOMAIN stray'[c] : Means(stray'[c][i].command, stray'[c][i].op)
    BY <2>1, <2>2, <2>3, OneMore
  <2>6. Meaningful(c)'
    BY <1>2, <2>5 DEF Meaningful
  <2>7. MInv'
    BY <1>3, <2>6 DEF MInv, Meaningful, OnlyOf
  <2>8. Lates' = [Lates EXCEPT ![c] = Append(Lates[c], op[c])]
    BY <1>3, <2>4, OneClient
  <2>9. Answers[c] = PendingAnswers
    BY <1>1, <1>5, <2>1, AnswersAt
  <2>10. GivesUp(c)
    BY <1>5, <1>6, <2>8, <2>9 DEF GivesUp
  <2>. QED
    BY <2>7, <2>10 DEF AbstractStep
<1>. QED
  BY <1>7, <1>8

LEMMA ReconnectStep ==
    ASSUME IInv, MInv, IInv', NEW c \in Client, Reconnect(c)
    PROVE  MInv' /\ AbstractStep
<1>1. UNCHANGED <<object, req, rep, stray, callVars>>
  BY DEF Reconnect
<1>2. MInv'
  BY <1>1 DEF MInv, Meaningful, callVars
<1>3. Answers' = Answers /\ Lates' = Lates
  BY <1>1 DEF Answers, AnswersOf, Lates, LateOf, callVars
<1>4. Stutters
  BY <1>1, <1>3 DEF Stutters, callVars
<1>. QED
  BY <1>2, <1>4 DEF AbstractStep

LEMMA ServeCommandStep ==
    ASSUME IInv, MInv, IInv', NEW c \in Client, ServeCommand(c)
    PROVE  MInv' /\ AbstractStep
<1>1. PICK e \in Effects(req[c]) :
          /\ object' = e.object
          /\ rep' = IF link[c] = "up" THEN [rep EXCEPT ![c] = e.reply] ELSE rep
  BY DEF ServeCommand, Serve
<1>2. req[c] # NoMsg /\ req' = [req EXCEPT ![c] = NoMsg] /\ UNCHANGED <<link, stray, callVars>>
  BY DEF ServeCommand, Serve
<1>3. ClientOK(c) /\ Meaningful(c) /\ object \in Objects /\ Shape
  BY DEF IInv, MInv
<1>4. busy[c] /\ rep[c] = NoMsg /\ link[c] \in {"up", "down"}
  BY <1>2, <1>3 DEF ClientOK
<1>5. Agrees(op[c], object, e)
  BY <1>1, <1>2, <1>3, EffectsHere DEF Meaningful, Means
<1>6. PICK f \in Apply(op[c], Typed(object)) :
          f.object = Typed(e.object) /\ Results(op[c], e.reply) \subseteq f.answers
  BY <1>5 DEF Agrees
<1>7. /\ req'[c] = NoMsg /\ rep'[c] = (IF link[c] = "up" THEN e.reply ELSE NoMsg)
      /\ stray' = stray /\ busy'[c] = TRUE /\ op' = op /\ outcome' = outcome
  BY <1>1, <1>2, <1>3, <1>4 DEF Shape, callVars, ClientOK
<1>8. OnlyOf(c)
  BY <1>1, <1>2, <1>3 DEF OnlyOf, Shape, callVars
<1>9. Returnable(Results(op[c], e.reply))
  BY <1>5 DEF Agrees
<1>10. Meaningful(c)'
  BY <1>3, <1>4, <1>7, <1>9 DEF Meaningful
<1>11. MInv'
  BY <1>8, <1>10 DEF MInv, Meaningful, OnlyOf
<1>12. /\ Answers[c] = PendingAnswers /\ Lates' = Lates
       /\ Answers' = [Answers EXCEPT ![c] = AnswersOf(c)'] /\ Answers'[c] = AnswersOf(c)'
  <2>1. AnswersOf(c) = PendingAnswers
    BY <1>2, <1>3, <1>4, AnswersAt
  <2>2. Answers' = [Answers EXCEPT ![c] = AnswersOf(c)'] /\ DOMAIN Answers = Client
    BY <1>8, OneClient DEF Answers
  <2>. QED
    BY <1>7, <1>8, <2>1, <2>2, OneClient
<1>13. ClientOK(c)'
  BY DEF IInv
<1>14. AnswersOf(c)' = LostAnswers \/ AnswersOf(c)' \in (SUBSET f.answers) \ {{}}
  <2>1. CASE link[c] = "up"
    <3>1. rep'[c] = e.reply
      BY <1>7, <2>1
    <3>2. CASE e.reply = NoMsg
      <4>1. AnswersOf(c)' = LostAnswers
        BY <1>7, <3>1, <3>2 DEF AnswersOf
      <4>. QED
        BY <4>1
    <3>3. CASE e.reply # NoMsg
      <4>1. AnswersOf(c)' = Results(op[c], e.reply)
        BY <1>7, <3>1, <3>3 DEF AnswersOf
      <4>2. \A R, A : R # {} /\ R \subseteq A => R \in (SUBSET A) \ {{}}
        OBVIOUS
      <4>3. Results(op[c], e.reply) # {}
        BY <1>9 DEF Returnable
      <4>4. Results(op[c], e.reply) \in (SUBSET f.answers) \ {{}}
        BY <1>6, <4>2, <4>3, Zenon
      <4>. QED
        BY <4>1, <4>4
    <3>. QED
      BY <3>2, <3>3
  <2>2. CASE link[c] = "down"
    <3>1. AnswersOf(c)' = LostAnswers
      BY <1>4, <1>7, <2>2 DEF AnswersOf
    <3>. QED
      BY <3>1
  <2>. QED
    BY <1>4, <2>1, <2>2
<1>15. Acts(c)
  BY <1>1, <1>6, <1>7, <1>12, <1>14 DEF Acts
<1>. QED
  BY <1>11, <1>15 DEF AbstractStep

LEMMA ConcatenatedAt ==
    ASSUME NEW S, NEW a \in Seq(S), NEW b \in Seq(S), NEW j \in 1 .. Len(a) + Len(b)
    PROVE  (a \o b)[j] = IF j <= Len(a) THEN a[j] ELSE b[j - Len(a)]
OBVIOUS

\* t is s without its element i.
Lacks(t, s, i) ==
    /\ Len(t) = Len(s) - 1
    /\ \A j \in 1 .. Len(s) - 1 : t[j] = IF j < i THEN s[j] ELSE s[j + 1]

LEMMA CutOut ==
    ASSUME NEW S, NEW s \in Seq(S), NEW i \in 1 .. Len(s)
    PROVE  \A t : t = SubSeq(s, 1, i - 1) \o SubSeq(s, i + 1, Len(s)) =>
              t \in Seq(S) /\ Lacks(t, s, i)
<1>. DEFINE a == SubSeq(s, 1, i - 1)
            b == SubSeq(s, i + 1, Len(s))
<1>1. a \in Seq(S) /\ Len(a) = i - 1 /\ \A j \in 1 .. i - 1 : a[j] = s[j]
  OBVIOUS
<1>2. b \in Seq(S) /\ Len(b) = Len(s) - i /\ \A j \in 1 .. Len(s) - i : b[j] = s[i + j]
  OBVIOUS
<1>. HIDE DEF a, b
<1>0. a \o b \in Seq(S) /\ Len(a \o b) = Len(a) + Len(b)
      /\ \A j \in 1 .. Len(a) + Len(b) :
            (a \o b)[j] = IF j <= Len(a) THEN a[j] ELSE b[j - Len(a)]
  BY <1>1, <1>2, Concatenated, ConcatenatedAt
<1>3. /\ a \o b \in Seq(S) /\ Len(a \o b) = Len(s) - 1
      /\ \A j \in 1 .. Len(s) - 1 :
            (a \o b)[j] = IF j < i THEN a[j] ELSE b[j - Len(a)]
  BY <1>0, <1>1, <1>2
<1>4. \A j \in 1 .. Len(s) - 1 : (a \o b)[j] = IF j < i THEN s[j] ELSE s[j + 1]
  <2>. TAKE j \in 1 .. Len(s) - 1
  <2>1. CASE j < i
    <3>1. j \in 1 .. i - 1
      BY <2>1
    <3>. QED
      BY <1>1, <1>3, <2>1, <3>1
  <2>2. CASE ~(j < i)
    <3>1. j - Len(a) = j - i + 1 /\ j - i + 1 \in 1 .. Len(s) - i /\ i + (j - i + 1) = j + 1
      BY <1>1, <2>2
    <3>. QED
      BY <1>2, <1>3, <2>2, <3>1
  <2>. QED
    BY <2>1, <2>2
<1>. QED
  BY <1>3, <1>4 DEF a, b, Lacks

\* A command that comes late leaves the others behind in their order.
LEMMA LateRemoved ==
    ASSUME NEW c \in Client, Sequential(stray[c]), NEW i \in DOMAIN stray[c],
           stray'[c] = SubSeq(stray[c], 1, i - 1) \o SubSeq(stray[c], i + 1, Len(stray[c]))
    PROVE  /\ i \in DOMAIN LateOf(c) /\ LateOf(c)[i] = stray[c][i].op
           /\ LateOf(c)' = SubSeq(LateOf(c), 1, i - 1)
                           \o SubSeq(LateOf(c), i + 1, Len(LateOf(c)))
<1>. DEFINE S == {stray[c][j] : j \in DOMAIN stray[c]}
            s == stray[c]
            U == {s[j].op : j \in DOMAIN s}
            l == [j \in DOMAIN s |-> s[j].op]
<1>1. s \in Seq(S) /\ i \in DOMAIN s
  BY DEF Sequential
<1>2. LateOf(c)' = [j \in DOMAIN stray'[c] |-> stray'[c][j].op] /\ LateOf(c) = l
  BY DEF LateOf
<1>3. stray'[c] = SubSeq(s, 1, i - 1) \o SubSeq(s, i + 1, Len(s))
  OBVIOUS
<1>. HIDE DEF S
<1>4. \A j \in 1 .. Len(s) : s[j].op \in U
  BY <1>1
<1>5. DOMAIN l = 1 .. Len(s) /\ Len(s) \in Nat
  BY <1>1
<1>6. l \in Seq(U) /\ Len(l) = Len(s) /\ \A j \in 1 .. Len(s) : l[j] = s[j].op
  <2>1. l = [j \in 1 .. Len(s) |-> s[j].op]
    BY <1>1
  <2>. HIDE DEF U, s
  <2>2. [j \in 1 .. Len(s) |-> s[j].op] \in Seq(U)
    BY <1>4, <1>5
  <2>. QED
    BY <1>5, <2>1, <2>2
<1>9. i \in 1 .. Len(s)
  BY <1>1
<1>. HIDE DEF U, l, s
<1>. DEFINE t == SubSeq(s, 1, i - 1) \o SubSeq(s, i + 1, Len(s))
            k == SubSeq(l, 1, i - 1) \o SubSeq(l, i + 1, Len(l))
<1>0. /\ t = SubSeq(s, 1, i - 1) \o SubSeq(s, i + 1, Len(s))
      /\ k = SubSeq(l, 1, i - 1) \o SubSeq(l, i + 1, Len(l))
  OBVIOUS
<1>. HIDE DEF t, k
<1>7. t \in Seq(S) /\ Lacks(t, s, i)
  BY <1>0, <1>1, <1>9, CutOut
<1>8. k \in Seq(U) /\ Lacks(k, l, i)
  BY <1>0, <1>6, <1>9, CutOut
<1>10. \A j \in 1 .. Len(s) - 1 : t[j].op = k[j]
  <2>. TAKE j \in 1 .. Len(s) - 1
  <2>1. j \in 1 .. Len(s) /\ j + 1 \in 1 .. Len(s)
    BY <1>5
  <2>. QED
    BY <1>6, <1>7, <1>8, <2>1 DEF Lacks
<1>11. DOMAIN t = 1 .. Len(s) - 1 /\ DOMAIN k = 1 .. Len(s) - 1
       /\ k = [j \in 1 .. Len(s) - 1 |-> k[j]]
  BY <1>6, <1>7, <1>8 DEF Lacks
<1>12. [j \in DOMAIN t |-> t[j].op] = k
  BY <1>10, <1>11
<1>. QED
  BY <1>2, <1>3, <1>5, <1>6, <1>9, <1>12 DEF t, k, s

LEMMA ServeLateStep ==
    ASSUME IInv, MInv, IInv', NEW c \in Client, ServeLate(c)
    PROVE  MInv' /\ AbstractStep
<1>1. PICK i \in DOMAIN stray[c] :
          /\ object' \in {object} \cup {e.object : e \in Effects(stray[c][i].command)}
          /\ stray' = [stray EXCEPT ![c] =
                          SubSeq(@, 1, i - 1) \o SubSeq(@, i + 1, Len(@))]
          /\ UNCHANGED <<link, req, rep, callVars, taken>>
  BY DEF ServeLate, ServeStray
<1>2. ClientOK(c) /\ Meaningful(c) /\ object \in Objects /\ Shape
  BY DEF IInv, MInv
<1>3. stray'[c] = SubSeq(stray[c], 1, i - 1) \o SubSeq(stray[c], i + 1, Len(stray[c]))
  BY <1>1, <1>2 DEF Shape
<1>4. Sequential(stray[c])
  BY <1>2 DEF ClientOK
<1>5. OnlyOf(c)
  BY <1>1, <1>2 DEF OnlyOf, Shape, callVars
<1>6. Within(stray'[c], stray[c])
  BY <1>3, <1>4, RemovedOne
<1>7. Meaningful(c)'
  BY <1>1, <1>2, <1>6 DEF Meaningful, Within, callVars
<1>8. MInv'
  BY <1>5, <1>7 DEF MInv, Meaningful, OnlyOf
<1>9. /\ i \in DOMAIN LateOf(c) /\ LateOf(c)[i] = stray[c][i].op
      /\ LateOf(c)' = SubSeq(LateOf(c), 1, i - 1)
                      \o SubSeq(LateOf(c), i + 1, Len(LateOf(c)))
  BY <1>3, <1>4, LateRemoved
<1>10. Answers' = Answers /\ op' = op /\ outcome' = outcome
  BY <1>1 DEF Answers, AnswersOf, callVars
<1>11. \/ \E f \in Apply(LateOf(c)[i], Typed(object)) : Typed(object') = f.object
       \/ Typed(object') = Typed(object)
  <2>1. CASE object' = object
    BY <2>1
  <2>2. ASSUME NEW e \in Effects(stray[c][i].command), object' = e.object
        PROVE  \E f \in Apply(LateOf(c)[i], Typed(object)) : Typed(object') = f.object
    <3>1. Agrees(stray[c][i].op, object, e)
      BY <1>2, EffectsHere DEF Meaningful, Means
    <3>. QED
      BY <1>9, <2>2, <3>1 DEF Agrees
  <2>. QED
    BY <1>1, <2>1, <2>2
<1>12. Lates[c] = LateOf(c) /\ Lates' = [Lates EXCEPT ![c] = LateOf(c)']
  BY <1>5, OneClient
<1>13. Settles(c)
  BY <1>9, <1>10, <1>11, <1>12 DEF Settles
<1>. QED
  BY <1>8, <1>13 DEF AbstractStep

LEMMA DropStep ==
    ASSUME IInv, MInv, IInv', NEW c \in Client, Drop(c)
    PROVE  MInv' /\ AbstractStep
<1>1. ClientOK(c) /\ Meaningful(c) /\ Shape
  BY DEF IInv, MInv
<1>2. /\ object' = object /\ stray' = stray /\ busy' = busy /\ op' = op /\ outcome' = outcome
      /\ \/ req' = req /\ rep' = rep
         \/ req'[c] = NoMsg /\ rep'[c] = NoMsg
  BY <1>1 DEF Drop, callVars, Shape
<1>3. OnlyOf(c)
  BY <1>1 DEF OnlyOf, Drop, callVars, Shape
<1>4. Meaningful(c)'
  BY <1>1, <1>2 DEF Meaningful
<1>5. MInv'
  BY <1>3, <1>4 DEF MInv, Meaningful, OnlyOf
<1>6. Lates' = Lates
  BY <1>2, <1>3, OneClient
<1>7. CASE AnswersOf(c)' = AnswersOf(c)
  <2>1. Answers' = Answers
    BY <1>3, <1>7, OneClient
  <2>2. Stutters
    BY <1>2, <1>6, <2>1 DEF Stutters
  <2>. QED
    BY <1>5, <2>2 DEF AbstractStep
<1>8. CASE AnswersOf(c)' # AnswersOf(c)
  <2>1. req'[c] = NoMsg /\ rep'[c] = NoMsg
    BY <1>2, <1>8 DEF AnswersOf
  <2>2. busy[c] /\ AnswersOf(c)' = LostAnswers
    BY <1>1, <1>2, <1>8, <2>1 DEF AnswersOf, ClientOK
  <2>3. Answers[c] # IdleAnswers /\ Answers' = [Answers EXCEPT ![c] = LostAnswers]
    BY <1>1, <1>3, <2>2, OneClient, AnswersAt
  <2>4. Loses(c)
    BY <1>2, <1>6, <2>3 DEF Loses
  <2>. QED
    BY <1>5, <2>4 DEF AbstractStep
<1>. QED
  BY <1>7, <1>8

LEMMA OthersStep ==
    ASSUME IInv, MInv, IInv', Others
    PROVE  MInv' /\ AbstractStep
<1>1. UNCHANGED <<req, rep, stray, busy, op, outcome>> /\ object' \in Objects
  BY DEF Others, netVars, callVars
<1>2. MInv'
  BY <1>1 DEF MInv, Meaningful
<1>3. Answers' = Answers /\ Lates' = Lates
  BY <1>1 DEF Answers, AnswersOf, Lates, LateOf
<1>4. Changes
  BY <1>1, <1>3 DEF Changes, ForeignObjects
<1>. QED
  BY <1>2, <1>4 DEF AbstractStep
-----------------------------------------------------------------------------
(* What commands mean.                                                      *)

\* What the program writes it reads back, as through the library's serializers
\* (serialization.hpp, README.md:286).
RoundTrips ==
    /\ \A v \in DOMAIN serialize_value :
          /\ serialize_value[v] \in DOMAIN deserialize_value
          /\ deserialize_value[serialize_value[v]] = v
    /\ \A f \in DOMAIN serialize_key :
          /\ serialize_key[f] \in DOMAIN deserialize_key
          /\ deserialize_key[serialize_key[f]] = f

LEMMA IntegersRead ==
    ASSUME NEW n \in Int64
    PROVE  /\ as_integer(make_integer(n)) = Val(n)
           /\ count_result(make_integer(n)) = Val(Count(n))
           /\ flag_result(make_integer(n)) = Val(Flag(n = 1))
           /\ ~is_error(make_integer(n))
<1>1. get_signed_integer(make_signed_integer(n)) = n
  BY SignedRoundTrip
<1>2. as_integer(make_integer(n)) = Val(n)
  BY <1>1 DEF as_integer, make_integer
<1>3. count_result(make_integer(n)) = Val(Count(n))
  BY <1>2, Outcomes DEF count_result, Bind, Once
<1>4. flag_result(make_integer(n)) = Val(Flag(n = 1))
  BY <1>2, Outcomes DEF flag_result, Bind, Once
<1>. QED
  BY <1>2, <1>3, <1>4 DEF is_error, make_integer

LEMMA SmallIntegers == {-2, -1, 0, 1} \subseteq Int64 /\ 0 .. HALF - 1 \subseteq Int64
BY TypedAssumption, HalfAssumption DEF Int64, INT64_MAX

LEMMA NoErrors ==
    /\ ~is_error(make_nil)
    /\ \A t : /\ ~is_error(make_string(t)) /\ ~is_error(make_status(t))
             /\ ~is_error(make_array(t)) /\ ~is_error(Array(t)) /\ ~is_error(StringOrNil(t))
<1>1. /\ ~is_error(make_nil)
      /\ \A t : ~is_error(make_string(t)) /\ ~is_error(make_status(t)) /\ ~is_error(make_array(t))
  BY DEF is_error, make_nil, make_string, make_status, make_array
<1>. QED
  BY <1>1 DEF Array, StringOrNil

\* A reply that is no error.
LEMMA PlainResults ==
    ASSUME NEW o, NEW r, ~is_error(r)
    PROVE  Results(o, r) = ValueResults(o, r) \cup HashResults(o, r) \cup ListResults(o, r)
                           \cup SetResults(o, r) \cup ZSetResults(o, r) \cup KeyResults(o, r)
<1>1. or_throw(r) = Val(r)
  BY DEF or_throw
<1>. QED
  BY <1>1, Outcomes DEF Results

LEMMA NoMarker ==
    /\ \A v : Val(v) \notin Markers
    /\ \A e : e \notin {"idle", "pending", "lost"} => Throw(e) \notin Markers
<1>1. \A v, e : Val(v) # Throw(e)
  BY Outcomes
<1>2. \A e, f : Throw(e) = Throw(f) => e = f
  BY Outcomes
<1>. QED
  BY <1>1, <1>2 DEF Markers

\* One result, which an effect of the operation answers.
LEMMA OneAnswer ==
    ASSUME NEW o, NEW x, NEW e, NEW w, Results(o, e.reply) = {w},
           (\E v : w = Val(v)) \/ w \in {Throw("deserialize"), Throw("redis_error")},
           NEW f \in Apply(o, Typed(x)), f.object = Typed(e.object), w \in f.answers
    PROVE  Agrees(o, x, e)
<1>1. w \notin Markers
  BY NoMarker
<1>2. Returnable({w})
  BY <1>1 DEF Returnable
<1>. QED
  BY <1>2 DEF Agrees

\* What may be promised of an operation whose values can be serialised.
PromisedOf(o, x) ==
    NothingToDo(o, x) \cup ValuePromised(o, x) \cup HashPromised(o, x)
    \cup ListPromised(o, x) \cup SetPromised(o, x)
    \cup ZSetPromised(o, x) \cup KeyPromised(o, x)

LEMMA Promised ==
    ASSUME NEW o, Rejections(o) = {}, NEW x
    PROVE  PromisedOf(o, x) \subseteq Apply(o, x)
BY DEF Apply, PromisedOf

LEMMA RefusedAgrees ==
    ASSUME NEW o, NEW x
    PROVE  Agrees(o, x, Refused(x))
<1>1. Refused(x).object = x /\ Refused(x).reply = make_error("error")
  BY Changed DEF Refused
<1>2. Results(o, Refused(x).reply) = {Throw("redis_error")}
  BY <1>1, ErrorResults
<1>. DEFINE f == [object |-> Typed(x), answers |-> {Throw("redis_error")}]
<1>3. f \in Apply(o, Typed(x)) /\ f.object = Typed(x) /\ Throw("redis_error") \in f.answers
  BY DEF Apply
<1>. HIDE DEF f
<1>. QED
  BY <1>1, <1>2, <1>3, OneAnswer

\* What each server command is for.
LEMMA MeansIf ==
    ASSUME NEW o, NEW m,
           \A x \in Objects :
               \A e \in ValueEffects(m, x) \cup HashEffects(m, x) \cup ListEffects(m, x)
                        \cup SetEffects(m, x) \cup ZSetEffects(m, x) \cup KeyEffects(m, x) :
                   e.object \in Objects => Agrees(o, x, e)
    PROVE  Means(m, o)
BY RefusedAgrees DEF Means, EffectsOn

\* An operation whose values and fields can all be serialised is never rejected.
LEMMA NotRejected ==
    ASSUME NEW o, o.name # "hget", o.name # "hget_batch", o.name # "hset", o.name # "hdel",
           "values" \in DOMAIN o =>
                      \A i \in DOMAIN o.values : o.values[i] \in DOMAIN serialize_value
    PROVE  Rejections(o) = {}
BY DEF Rejections, NamedFields

LEMMA FieldsNotRejected ==
    ASSUME NEW o, NamedFields(o) \subseteq DOMAIN serialize_key,
           "values" \in DOMAIN o =>
                      \A i \in DOMAIN o.values : o.values[i] \in DOMAIN serialize_value
    PROVE  Rejections(o) = {}
BY DEF Rejections

LEMMA RejectedProper ==
    ASSUME NEW o \in Ops, Rejections(o) = {Throw("serialize")}
    PROVE  Proper(o, Throw("serialize"))
<1>1. OutcomeOf(Throw("serialize")) = Throw("serialize")
  BY DEF OutcomeOf, Throw
<1>. QED
  BY <1>1, Outcomes DEF Proper, AtOnce

LEMMA IsRejected ==
    ASSUME NEW o, "values" \in DOMAIN o,
           \E i \in DOMAIN o.values : o.values[i] \notin DOMAIN serialize_value,
           o \in Ops
    PROVE  Proper(o, Throw("serialize"))
<1>1. Rejections(o) = {Throw("serialize")}
  BY DEF Rejections
<1>. QED
  BY <1>1, RejectedProper

LEMMA FieldsRejected ==
    ASSUME NEW o \in Ops, ~(NamedFields(o) \subseteq DOMAIN serialize_key)
    PROVE  Proper(o, Throw("serialize"))
<1>1. Rejections(o) = {Throw("serialize")}
  BY DEF Rejections
<1>. QED
  BY <1>1, RejectedProper

LEMMA ProperCommand ==
    ASSUME NEW o \in Ops, NEW m, Means(m, o)
    PROVE  Proper(o, Val(m))
BY Outcomes DEF Proper

\* A call that has nothing to do.
LEMMA NothingDone ==
    ASSUME NEW o \in Ops, Rejections(o) = {}, NEW v,
           \A x : NothingToDo(o, x) = {[object |-> x, answers |-> {Val(v)}]}
    PROVE  Proper(o, Done(v))
<1>1. OutcomeOf(Done(v)) = Val(v) /\ ~Done(v).ok
  BY DEF OutcomeOf, Done
<1>2. ASSUME NEW x
      PROVE  Val(v) \in AtOnce(o, x)
  <2>. DEFINE f == [object |-> x, answers |-> {Val(v)}]
  <2>1. f \in Apply(o, x)
    BY Promised DEF PromisedOf
  <2>2. f.object = x /\ Val(v) \in f.answers
    OBVIOUS
  <2>. HIDE DEF f
  <2>. QED
    BY <2>1, <2>2 DEF AtOnce
<1>. QED
  BY <1>1, <1>2 DEF Proper
\* A reply from which one result is made, which is promised.
Answered(o, x, e) ==
    /\ ~is_error(e.reply)
    /\ \E w : /\ Results(o, e.reply) = {w}
              /\ (\E v : w = Val(v)) \/ w = Throw("deserialize")
              /\ \E f \in PromisedOf(o, Typed(x)) :
                    f.object = Typed(e.object) /\ w \in f.answers

LEMMA AnsweredAgrees ==
    ASSUME NEW o, Rejections(o) = {}, NEW x, NEW e, Answered(o, x, e)
    PROVE  Agrees(o, x, e)
<1>1. PICK w : /\ Results(o, e.reply) = {w}
               /\ (\E v : w = Val(v)) \/ w = Throw("deserialize")
               /\ \E f \in PromisedOf(o, Typed(x)) :
                     f.object = Typed(e.object) /\ w \in f.answers
  BY DEF Answered
<1>2. PICK f \in Apply(o, Typed(x)) : f.object = Typed(e.object) /\ w \in f.answers
  BY <1>1, Promised
<1>. QED
  BY <1>1, <1>2, OneAnswer

\* Apart from lists, an object is the same to the program and to the server.
LEMMA TypedObjects ==
    ASSUME NEW x \in Objects
    PROVE  /\ Typed(x) = NoObject <=> x = NoObject
           /\ DOMAIN Typed(x) = DOMAIN x
           /\ "list" \notin DOMAIN x => Typed(x) = x
<1>1. "none" \in DOMAIN NoObject /\ "list" \notin DOMAIN NoObject
  BY DEF NoObject
<1>2. "list" \notin DOMAIN x => Typed(x) = x
  BY DEF Typed
<1>3. ASSUME "list" \in DOMAIN x
      PROVE  x # NoObject /\ Typed(x) # NoObject /\ DOMAIN Typed(x) = DOMAIN x
  <2>1. x = [list |-> x.list]
    BY <1>3, ObjectsAssumption
  <2>2. Typed(x) = [list |-> TypedList(x.list)]
    BY <1>3 DEF Typed
  <2>. QED
    BY <1>1, <1>3, <2>1, <2>2
<1>. QED
  BY <1>2, <1>3
-----------------------------------------------------------------------------
(* Lists of texts as lists of values.                                       *)

\* An element as the program sees it.
ReadAs(t) == IF t \in DOMAIN deserialize_value THEN deserialize_value[t] ELSE Bad

Values == Value \cup {Bad}

LEMMA TypedListSeq ==
    ASSUME NEW s \in Seq(Text)
    PROVE  /\ TypedList(s) \in Seq(Values)
           /\ Len(TypedList(s)) = Len(s)
           /\ DOMAIN TypedList(s) = 1 .. Len(s)
           /\ \A i \in 1 .. Len(s) : TypedList(s)[i] = ReadAs(s[i])
<1>1. TypedList(s) = [i \in 1 .. Len(s) |-> ReadAs(s[i])]
  BY DEF TypedList, ReadAs
<1>2. \A i \in 1 .. Len(s) : ReadAs(s[i]) \in Values
  BY TypedAssumption DEF ReadAs, Values
<1>3. Len(s) \in Nat
  OBVIOUS
<1>. QED
  BY <1>1, <1>2, <1>3

LEMMA TypedEmpty ==
    /\ TypedList(<<>>) = <<>>
    /\ \A s \in Seq(Text) : TypedList(s) = <<>> <=> s = <<>>
BY TypedListSeq DEF TypedList

LEMMA TypedConcat ==
    ASSUME NEW s \in Seq(Text), NEW t \in Seq(Text)
    PROVE  TypedList(s \o t) = TypedList(s) \o TypedList(t)
<1>1. s \o t \in Seq(Text) /\ Len(s \o t) = Len(s) + Len(t)
  OBVIOUS
<1>. DEFINE a == TypedList(s \o t)
            b == TypedList(s) \o TypedList(t)
<1>2. a \in Seq(Values) /\ Len(a) = Len(s) + Len(t)
  BY <1>1, TypedListSeq
<1>3. b \in Seq(Values) /\ Len(b) = Len(s) + Len(t)
  <2>. DEFINE u == TypedList(s)
              v == TypedList(t)
  <2>1. /\ u \in Seq(Values) /\ Len(u) = Len(s)
        /\ v \in Seq(Values) /\ Len(v) = Len(t)
    BY TypedListSeq
  <2>. HIDE DEF u, v
  <2>2. u \o v \in Seq(Values) /\ Len(u \o v) = Len(u) + Len(v)
    BY <2>1, ConcatProperties
  <2>. QED
    BY <2>1, <2>2 DEF u, v
<1>0. Len(s) \in Nat /\ Len(t) \in Nat
  OBVIOUS
<1>4. ASSUME NEW i \in 1 .. Len(a)
      PROVE  a[i] = b[i]
  <2>0. i \in Int
    BY <1>0, <1>2
  <2>1. a[i] = ReadAs((s \o t)[i])
    BY <1>1, <1>2, TypedListSeq
  <2>2. CASE i <= Len(s)
    <3>1. (s \o t)[i] = s[i] /\ b[i] = TypedList(s)[i]
      BY <1>2, <2>2, TypedListSeq
    <3>. QED
      BY <2>1, <2>2, <3>1, TypedListSeq
  <2>3. CASE i > Len(s)
    <3>1. (s \o t)[i] = t[i - Len(s)] /\ b[i] = TypedList(t)[i - Len(s)]
      BY <1>2, <2>3, TypedListSeq
    <3>2. i - Len(s) \in 1 .. Len(t)
      BY <1>2, <2>3
    <3>. QED
      BY <2>1, <3>1, <3>2, TypedListSeq
  <2>. HIDE DEF a, b
  <2>. QED
    BY <1>0, <2>0, <2>2, <2>3
<1>. HIDE DEF a, b
<1>5. a = b
  BY <1>2, <1>3, <1>4, SeqEqual
<1>. QED
  BY <1>5 DEF a, b

LEMMA Part ==
    ASSUME NEW S, NEW s \in Seq(S), NEW m \in Nat \ {0}, NEW n \in Int, n <= Len(s)
    PROVE  /\ SubSeq(s, m, n) \in Seq(S)
           /\ Len(SubSeq(s, m, n)) = IF n < m THEN 0 ELSE n + 1 - m
           /\ \A i \in 1 .. Len(SubSeq(s, m, n)) :
                 /\ SubSeq(s, m, n)[i] = s[i + m - 1]
                 /\ i + m - 1 \in 1 .. Len(s)
<1>1. CASE n < m
  <2>1. SubSeq(s, m, n) = <<>>
    BY <1>1, SubSeqEmpty
  <2>. QED
    BY <1>1, <2>1
<1>2. CASE n >= m
  BY <1>2
<1>. QED
  BY <1>1, <1>2

LEMMA TypedPart ==
    ASSUME NEW s \in Seq(Text), NEW m \in Nat \ {0}, NEW n \in Int, n <= Len(s)
    PROVE  TypedList(SubSeq(s, m, n)) = SubSeq(TypedList(s), m, n)
<1>. DEFINE p == SubSeq(s, m, n)
            a == TypedList(p)
            b == SubSeq(TypedList(s), m, n)
<1>1. p \in Seq(Text)
  BY Part
<1>2. a \in Seq(Values) /\ Len(a) = Len(p) /\ \A i \in 1 .. Len(p) : a[i] = ReadAs(p[i])
  BY <1>1, TypedListSeq
<1>3. /\ b \in Seq(Values) /\ Len(b) = Len(p)
      /\ \A i \in 1 .. Len(p) : b[i] = TypedList(s)[i + m - 1]
  BY Part, TypedListSeq
<1>4. \A i \in 1 .. Len(p) : p[i] = s[i + m - 1] /\ i + m - 1 \in 1 .. Len(s)
  BY Part
<1>5. \A i \in 1 .. Len(p) : a[i] = b[i]
  <2>. HIDE DEF a, b, p
  <2>. QED
    BY <1>2, <1>3, <1>4, TypedListSeq
<1>. HIDE DEF a, b, p
<1>6. a = b
  BY <1>2, <1>3, <1>5, SeqEqual
<1>. QED
  BY <1>6 DEF a, b, p

LEMMA TypedReversed ==
    ASSUME NEW s \in Seq(Text)
    PROVE  TypedList(Reversed(s)) = Reversed(TypedList(s))
<1>. DEFINE p == Reversed(s)
            a == TypedList(p)
            b == Reversed(TypedList(s))
<1>1. p \in Seq(Text) /\ Len(p) = Len(s) /\ \A i \in 1 .. Len(s) : p[i] = s[Len(s) + 1 - i]
  BY ReversedSeq
<1>2. a \in Seq(Values) /\ Len(a) = Len(s) /\ \A i \in 1 .. Len(s) : a[i] = ReadAs(p[i])
  BY <1>1, TypedListSeq
<1>3. /\ b \in Seq(Values) /\ Len(b) = Len(s)
      /\ \A i \in 1 .. Len(s) : b[i] = TypedList(s)[Len(s) + 1 - i]
  BY TypedListSeq, ReversedSeq
<1>4. \A i \in 1 .. Len(s) : Len(s) + 1 - i \in 1 .. Len(s)
  OBVIOUS
<1>5. ASSUME NEW i \in 1 .. Len(s)
      PROVE  a[i] = b[i]
  <2>. HIDE DEF a, b, p
  <2>. DEFINE k == Len(s) + 1 - i
  <2>1. k \in 1 .. Len(s) /\ p[i] = s[k]
    BY <1>1, <1>4
  <2>2. a[i] = ReadAs(p[i]) /\ b[i] = TypedList(s)[k]
    BY <1>2, <1>3
  <2>. HIDE DEF k
  <2>. QED
    BY <2>1, <2>2, TypedListSeq
<1>. HIDE DEF a, b, p
<1>6. a = b
  BY <1>2, <1>3, <1>5, SeqEqual
<1>. QED
  BY <1>6 DEF a, b, p

LEMMA SlicePart ==
    ASSUME NEW k \in Nat, NEW i \in Int, NEW j \in Int
    PROVE  \E m \in Nat \ {0}, n \in Int :
              n <= k /\ \A t : Len(t) = k => Slice(t, i, j) = SubSeq(t, m, n)
<1>. DEFINE At(x) == IF x < 0 THEN k + x ELSE x
            first == IF At(i) < 0 THEN 0 ELSE At(i)
            m == first + 1
            n == Least(At(j), k - 1) + 1
<1>1. m \in Nat \ {0} /\ n \in Int /\ n <= k
  BY DEF Least
<1>2. ASSUME NEW t, Len(t) = k
      PROVE  Slice(t, i, j) = SubSeq(t, m, n)
  BY <1>2 DEF Slice
<1>. HIDE DEF m, n
<1>. QED
  BY <1>1, <1>2

LEMMA TypedSlice ==
    ASSUME NEW s \in Seq(Text), NEW i \in Int, NEW j \in Int
    PROVE  /\ TypedList(Slice(s, i, j)) = Slice(TypedList(s), i, j)
           /\ Slice(s, i, j) \in Seq(Text)
<1>0. Len(s) \in Nat
  OBVIOUS
<1>1. PICK m \in Nat \ {0}, n \in Int :
          n <= Len(s) /\ \A t : Len(t) = Len(s) => Slice(t, i, j) = SubSeq(t, m, n)
  BY <1>0, SlicePart
<1>2. Slice(s, i, j) = SubSeq(s, m, n)
  BY <1>1
<1>3. Slice(TypedList(s), i, j) = SubSeq(TypedList(s), m, n)
  BY <1>1, TypedListSeq
<1>. QED
  BY <1>1, <1>2, <1>3, TypedPart, Part
-----------------------------------------------------------------------------
(* The list view.                                                           *)

LEMMA TypedLists ==
    ASSUME NEW x \in Objects, OfKind(x, "list"), NEW l, l = Content(x, "list")
    PROVE  /\ l \in Seq(Text) /\ Len(l) < HALF
           /\ x = AsList(l)
           /\ OfKind(Typed(x), "list") /\ Content(Typed(x), "list") = TypedList(l)
<1>1. CASE x = NoObject
  <2>1. l = <<>> /\ Typed(x) = NoObject
    BY <1>1, TypedObjects DEF Content
  <2>2. 0 < HALF
    BY HalfAssumption, TypedAssumption
  <2>. QED
    BY <1>1, <2>1, <2>2, TypedEmpty DEF AsList, OfKind, Content
<1>2. CASE x # NoObject
  <2>1. "list" \in DOMAIN x /\ l = x.list
    BY <1>2 DEF OfKind, Content
  <2>2. x = [list |-> l] /\ l \in Seq(Text) \ {<<>>} /\ Len(l) < HALF
    BY <2>1, ObjectsAssumption
  <2>3. Typed(x) = [list |-> TypedList(l)]
    BY <2>1 DEF Typed
  <2>4. Typed(x) # NoObject
    BY <1>2, TypedObjects
  <2>. QED
    BY <2>2, <2>3, <2>4 DEF AsList, OfKind, Content
<1>. QED
  BY <1>1, <1>2

LEMMA TypedAsList ==
    ASSUME NEW l \in Seq(Text)
    PROVE  /\ Typed(AsList(l)) = AsList(TypedList(l))
           /\ AsList(l) \in Objects => Len(l) < HALF
<1>1. CASE l = <<>>
  <2>1. AsList(l) = NoObject
    BY <1>1 DEF AsList
  <2>2. Typed(NoObject) = NoObject
    BY DEF Typed, NoObject
  <2>3. 0 < HALF
    BY HalfAssumption, TypedAssumption
  <2>. QED
    BY <1>1, <2>1, <2>2, <2>3, TypedEmpty
<1>2. CASE l # <<>>
  <2>1. AsList(l) = [list |-> l]
    BY <1>2 DEF AsList
  <2>2. TypedList(l) # <<>>
    BY <1>2, TypedEmpty
  <2>3. Typed([list |-> l]) = [list |-> TypedList(l)]
    BY DEF Typed
  <2>4. [list |-> l] \in Objects => Len(l) < HALF
    <3>. DEFINE y == [list |-> l]
    <3>1. "list" \in DOMAIN y /\ y.list = l
      OBVIOUS
    <3>. HIDE DEF y
    <3>2. y \in Objects => Len(l) < HALF
      BY <3>1, ObjectsAssumption
    <3>. QED
      BY <3>2 DEF y
  <2>. QED
    BY <2>1, <2>2, <2>3, <2>4 DEF AsList
<1>. QED
  BY <1>1, <1>2

\* Reading all of s comes to a value, or to an exception if one is bad.
LEMMA ReadAll ==
    ASSUME NEW s \in Seq(Text), NEW r, r = DeserializedAll(s)
    PROVE  \/ (\A i \in 1 .. Len(s) : ReadAs(s[i]) # Bad) /\ r = Val(Elements(TypedList(s)))
           \/ (\E i \in 1 .. Len(s) : ReadAs(s[i]) = Bad) /\ r = Throw("deserialize")
<1>1. \A i \in 1 .. Len(s) : ReadAs(s[i]) # Bad <=> s[i] \in DOMAIN deserialize_value
  BY TypedAssumption, BadAssumption DEF ReadAs
<1>2. (\A i \in 1 .. Len(s) : s[i] \in DOMAIN deserialize_value) =>
        [i \in DOMAIN s |-> deserialize_value[s[i]]] = TypedList(s)
  BY DEF TypedList
<1>3. DOMAIN s = 1 .. Len(s)
  OBVIOUS
<1>4. \/ /\ \A i \in 1 .. Len(s) : s[i] \in DOMAIN deserialize_value
         /\ r = Val(Elements([i \in DOMAIN s |-> deserialize_value[s[i]]]))
      \/ /\ \E i \in 1 .. Len(s) : s[i] \notin DOMAIN deserialize_value
         /\ r = Throw("deserialize")
  BY <1>3, DeserializedAllResult
<1>. QED
  BY <1>1, <1>2, <1>4
ListCommands == {"LPUSH", "RPUSH", "LLEN", "LRANGE", "LINDEX", "LPOP", "RPOP"}
ListNames == {"lpush", "rpush", "llen", "lpop", "rpop", "lpop_count", "rpop_count",
              "lrange", "lindex"}

LEMMA ListResultsOnly ==
    ASSUME NEW o, o.name \in ListNames, NEW r, ~is_error(r)
    PROVE  Results(o, r) = ListResults(o, r)
<1>1. ValueResults(o, r) = {} /\ HashResults(o, r) = {}
  BY DEF ValueResults, HashResults, ListNames
<1>2. SetResults(o, r) = {} /\ ZSetResults(o, r) = {} /\ KeyResults(o, r) = {}
  BY DEF SetResults, ZSetResults, KeyResults, ListNames
<1>. QED
  BY <1>1, <1>2, PlainResults

LEMMA ListEffectsOnly ==
    ASSUME NEW m, m.cmd \in ListCommands, NEW x
    PROVE  /\ ValueEffects(m, x) = {} /\ HashEffects(m, x) = {} /\ SetEffects(m, x) = {}
           /\ ZSetEffects(m, x) = {} /\ KeyEffects(m, x) = {}
<1>1. ValueEffects(m, x) = {}
  BY DEF ValueEffects, ListCommands
<1>2. HashEffects(m, x) = {}
  BY DEF HashEffects, ListCommands
<1>3. SetEffects(m, x) = {}
  BY DEF SetEffects, ListCommands
<1>4. ZSetEffects(m, x) = {}
  BY DEF ZSetEffects, ListCommands
<1>5. KeyEffects(m, x) = {}
  BY DEF KeyEffects, ListCommands
<1>. QED
  BY <1>1, <1>2, <1>3, <1>4, <1>5

\* The list l is left and the reply r is given; l as values, and what the view
\* makes of r, are what is promised on the typed list.
ListAnswered(o, l, e) ==
    \E left \in Seq(Text) :
        /\ e.object = AsList(left)
        /\ ~is_error(e.reply)
        /\ \E w : /\ ListResults(o, e.reply) = {w}
                  /\ (\E v : w = Val(v)) \/ w = Throw("deserialize")
                  /\ \A x : OfKind(x, "list") /\ Content(x, "list") = TypedList(l) =>
                       \E f \in ListPromised(o, x) :
                          f.object = AsList(TypedList(left)) /\ w \in f.answers

LEMMA ListMeans ==
    ASSUME NEW o, o.name \in ListNames, Rejections(o) = {},
           NEW m, m.cmd \in ListCommands,
           \A l \in Seq(Text) : \A x : \A e \in ListEffects(m, x) :
               /\ Len(l) < HALF /\ OfKind(x, "list") /\ Content(x, "list") = l /\ x = AsList(l)
               /\ e.object \in Objects
               => ListAnswered(o, l, e)
    PROVE  Means(m, o)
<1>. SUFFICES ASSUME NEW x \in Objects, NEW e \in ListEffects(m, x), e.object \in Objects
              PROVE  Agrees(o, x, e)
  BY ListEffectsOnly, MeansIf
<1>. DEFINE l == Content(x, "list")
<1>1. OfKind(x, "list")
  BY DEF ListEffects
<1>2. /\ l \in Seq(Text) /\ Len(l) < HALF /\ x = AsList(l)
      /\ OfKind(Typed(x), "list") /\ Content(Typed(x), "list") = TypedList(l)
  BY <1>1, TypedLists
<1>. HIDE DEF l
<1>3. ListAnswered(o, l, e)
  BY <1>1, <1>2 DEF l
<1>0. PICK left \in Seq(Text) : \E w :
          /\ e.object = AsList(left)
          /\ ~is_error(e.reply)
          /\ ListResults(o, e.reply) = {w}
          /\ (\E v : w = Val(v)) \/ w = Throw("deserialize")
          /\ \E f \in ListPromised(o, Typed(x)) :
                f.object = AsList(TypedList(left)) /\ w \in f.answers
  BY <1>2, <1>3 DEF ListAnswered
<1>4. PICK w :
          /\ e.object = AsList(left)
          /\ ~is_error(e.reply)
          /\ ListResults(o, e.reply) = {w}
          /\ (\E v : w = Val(v)) \/ w = Throw("deserialize")
          /\ \E f \in ListPromised(o, Typed(x)) :
                f.object = AsList(TypedList(left)) /\ w \in f.answers
  BY <1>0
<1>5. Results(o, e.reply) = {w} /\ Typed(e.object) = AsList(TypedList(left))
  BY <1>4, ListResultsOnly, TypedAsList
<1>6. \E f \in PromisedOf(o, Typed(x)) : f.object = Typed(e.object) /\ w \in f.answers
  BY <1>4, <1>5 DEF PromisedOf
<1>. QED
  BY <1>4, <1>5, <1>6, AnsweredAgrees DEF Answered

\* What ListGives promises, when everything can be read and when it cannot.
LEMMA Gives ==
    ASSUME NEW l, NEW vs, NEW answer
    PROVE  \E f \in ListGives(l, vs, answer) :
              /\ f.object = AsList(l)
              /\ (\A i \in DOMAIN vs : vs[i] # Bad) => Val(answer) \in f.answers
              /\ ~(\A i \in DOMAIN vs : vs[i] # Bad) => Throw("deserialize") \in f.answers
BY DEF ListGives

LEMMA NonemptyText == \A s \in Seq(Text) : s # <<>> => Len(s) \in Nat /\ Len(s) # 0
BY EmptySeq

LEMMA AnsweredSo ==
    ASSUME NEW o, NEW l, NEW e, NEW left \in Seq(Text), NEW w, NEW promised,
           e.object = AsList(left), ~is_error(e.reply),
           ListResults(o, e.reply) = {w}, (\E v : w = Val(v)) \/ w = Throw("deserialize"),
           \A x : OfKind(x, "list") /\ Content(x, "list") = TypedList(l) =>
               ListPromised(o, x) = promised,
           \E f \in promised : f.object = AsList(TypedList(left)) /\ w \in f.answers
    PROVE  ListAnswered(o, l, e)
<1>1. ASSUME NEW x, OfKind(x, "list"), Content(x, "list") = TypedList(l)
      PROVE  \E f \in ListPromised(o, x) : f.object = AsList(TypedList(left)) /\ w \in f.answers
  <2>1. ListPromised(o, x) = promised
    BY <1>1
  <2>. QED
    BY <2>1
<1>. QED
  BY <1>1 DEF ListAnswered

\* A list that gets a length for an answer.
LEMMA CountAnswered ==
    ASSUME NEW o, o.name \in {"lpush", "rpush", "llen"}, NEW l \in Seq(Text),
           NEW left \in Seq(Text), NEW e, NEW n \in Int64,
           e.object = AsList(left), e.reply = make_integer(n),
           \A x : OfKind(x, "list") /\ Content(x, "list") = TypedList(l) =>
               ListPromised(o, x) = ListGives(TypedList(left), <<>>, Count(n))
    PROVE  ListAnswered(o, l, e)
<1>1. ListResults(o, e.reply) = {Val(Count(n))}
  BY IntegersRead DEF ListResults
<1>2. ~is_error(e.reply)
  BY IntegersRead
<1>3. \E f \in ListGives(TypedList(left), <<>>, Count(n)) :
         f.object = AsList(TypedList(left)) /\ Val(Count(n)) \in f.answers
  BY Gives
<1>. QED
  BY <1>1, <1>2, <1>3, AnsweredSo

\* A list that gets elements for an answer, in the order of the list or not.
Holds(reply, s) == reply = Array(s) \/ (reply = make_nil /\ s = <<>>)

\* On the typed l, o promises to give the elements s, and leaves left.
Promising(o, l, left, s, answer) ==
    \A x : OfKind(x, "list") /\ Content(x, "list") = TypedList(l) =>
        ListPromised(o, x) = ListGives(TypedList(left), TypedList(s), answer)

LEMMA ElementsAnswered ==
    ASSUME NEW o, o.name \in {"lpop_count", "rpop_count", "lrange"}, NEW l \in Seq(Text),
           NEW left \in Seq(Text), NEW e, NEW s \in Seq(Text), NEW t \in Seq(Text),
           s = t \/ s = Reversed(t),
           e.object = AsList(left),
           Holds(e.reply, s),
           Promising(o, l, left, t, Elements(TypedList(s)))
    PROVE  ListAnswered(o, l, e)
<1>1. elements_result(e.reply) = DeserializedAll(s)
  <2>1. strings(e.reply) = Val(s)
    <3>1. e.reply = Array(s) => strings(e.reply) = Val(s)
      BY StringsOfArray
    <3>2. strings(make_nil) = Val(<<>>)
      BY DEF strings, is_nil, make_nil
    <3>. QED
      BY <3>1, <3>2 DEF Holds
  <2>. QED
    BY <2>1, Outcomes DEF elements_result, Bind, Once
<1>2. ListResults(o, e.reply) = {elements_result(e.reply)}
  BY DEF ListResults
<1>3. ~is_error(e.reply)
  BY NoErrors DEF Holds
<1>. DEFINE w == elements_result(e.reply)
<1>. HIDE DEF w
<1>4. \/ (\A i \in 1 .. Len(s) : ReadAs(s[i]) # Bad) /\ w = Val(Elements(TypedList(s)))
      \/ (\E i \in 1 .. Len(s) : ReadAs(s[i]) = Bad) /\ w = Throw("deserialize")
  BY <1>1, ReadAll DEF w
<1>5. (\A i \in 1 .. Len(s) : ReadAs(s[i]) # Bad) <=>
      (\A i \in DOMAIN TypedList(t) : TypedList(t)[i] # Bad)
  <2>1. /\ DOMAIN TypedList(t) = 1 .. Len(t)
        /\ \A i \in 1 .. Len(t) : TypedList(t)[i] = ReadAs(t[i])
    BY TypedListSeq
  <2>2. CASE s = t
    BY <2>1, <2>2
  <2>3. CASE s = Reversed(t)
    <3>1. Len(s) = Len(t) /\ \A i \in 1 .. Len(t) : s[i] = t[Len(t) + 1 - i]
      BY <2>3, ReversedSeq
    <3>. DEFINE opposite(i) == Len(t) + 1 - i
    <3>2. \A i \in 1 .. Len(t) :
             opposite(i) \in 1 .. Len(t) /\ opposite(opposite(i)) = i
      OBVIOUS
    <3>3. \A i \in 1 .. Len(t) : s[i] = t[opposite(i)]
      BY <3>1
    <3>. HIDE DEF opposite
    <3>4. \A i \in 1 .. Len(t) : t[i] = s[opposite(i)]
      BY <3>2, <3>3
    <3>5. \A i \in 1 .. Len(t) : TypedList(t)[i] = ReadAs(s[opposite(i)])
      BY <2>1, <3>4
    <3>6. \A i \in 1 .. Len(t) : ReadAs(s[i]) = TypedList(t)[opposite(i)]
      BY <2>1, <3>2, <3>3
    <3>7. DOMAIN TypedList(t) = 1 .. Len(t) /\ 1 .. Len(s) = 1 .. Len(t)
      BY <2>1, <3>1
    <3>8. ASSUME \A i \in 1 .. Len(s) : ReadAs(s[i]) # Bad, NEW i \in 1 .. Len(t)
          PROVE  TypedList(t)[i] # Bad
      <4>1. opposite(i) \in 1 .. Len(s)
        BY <3>2, <3>7
      <4>. QED
        BY <3>5, <3>8, <4>1, Zenon
    <3>9. ASSUME \A i \in 1 .. Len(t) : TypedList(t)[i] # Bad, NEW i \in 1 .. Len(s)
          PROVE  ReadAs(s[i]) # Bad
      <4>1. opposite(i) \in 1 .. Len(t) /\ i \in 1 .. Len(t)
        BY <3>2, <3>7
      <4>. QED
        BY <3>6, <3>9, <4>1, Zenon
    <3>. QED
      BY <3>7, <3>8, <3>9, Zenon
  <2>. QED
    BY <2>2, <2>3
<1>6. \E f \in ListGives(TypedList(left), TypedList(t), Elements(TypedList(s))) :
         f.object = AsList(TypedList(left)) /\ w \in f.answers
  <2>. DEFINE vs == TypedList(t)
              answer == Elements(TypedList(s))
  <2>1. \/ (\A i \in DOMAIN vs : vs[i] # Bad) /\ w = Val(answer)
        \/ ~(\A i \in DOMAIN vs : vs[i] # Bad) /\ w = Throw("deserialize")
    BY <1>4, <1>5
  <2>. HIDE DEF vs, answer
  <2>2. \E f \in ListGives(TypedList(left), vs, answer) :
           f.object = AsList(TypedList(left)) /\ w \in f.answers
    BY <2>1, Gives
  <2>. QED
    BY <2>2 DEF vs, answer
<1>7. ListResults(o, e.reply) = {w} /\ ((\E v : w = Val(v)) \/ w = Throw("deserialize"))
  BY <1>2, <1>4 DEF w
<1>8. \A x : OfKind(x, "list") /\ Content(x, "list") = TypedList(l) =>
         ListPromised(o, x) =
             ListGives(TypedList(left), TypedList(t), Elements(TypedList(s)))
  BY DEF Promising
<1>. QED
  BY <1>3, <1>6, <1>7, <1>8, AnsweredSo

\* A list that gets one element or none for an answer.
LEMMA ElementAnswered ==
    ASSUME NEW o, o.name \in {"lpop", "rpop", "lindex"}, NEW l \in Seq(Text),
           NEW left \in Seq(Text), NEW e, NEW s \in Seq(Text), Len(s) <= 1,
           e.object = AsList(left), e.reply = StringOrNil(s),
           \A x : OfKind(x, "list") /\ Content(x, "list") = TypedList(l) =>
               ListPromised(o, x) =
                   ListGives(TypedList(left), TypedList(s), Element(TypedList(s)))
    PROVE  ListAnswered(o, l, e)
<1>1. ListResults(o, e.reply) = {element_result(e.reply)}
  BY DEF ListResults
<1>2. ~is_error(e.reply)
  BY NoErrors
<1>3. CASE s = <<>>
  <2>1. element_result(e.reply) = Val(Element(<<>>))
    BY <1>3, ElementOfNil DEF StringOrNil, None
  <2>2. TypedList(s) = <<>> /\ \A i \in DOMAIN TypedList(s) : TypedList(s)[i] # Bad
    BY <1>3, TypedEmpty
  <2>3. \E f \in ListGives(TypedList(left), TypedList(s), Element(TypedList(s))) :
           f.object = AsList(TypedList(left)) /\ Val(Element(<<>>)) \in f.answers
    BY <2>2, Gives
  <2>4. ListResults(o, e.reply) = {Val(Element(<<>>))}
    BY <1>1, <2>1
  <2>. QED
    BY <1>2, <2>3, <2>4, AnsweredSo
<1>4. CASE s # <<>>
  <2>1. Len(s) = 1
    <3>1. Len(s) \in Nat /\ Len(s) # 0
      BY <1>4, NonemptyText
    <3>2. \A n \in Nat : n <= 1 /\ n # 0 => n = 1
      OBVIOUS
    <3>. QED
      BY <3>1, <3>2
  <2>2. element_result(e.reply) = element_result(make_string(s[1]))
    BY <1>4 DEF StringOrNil, None
  <2>3. /\ TypedList(s) \in Seq(Values) /\ Len(TypedList(s)) = 1
        /\ DOMAIN TypedList(s) = 1 .. 1 /\ TypedList(s)[1] = ReadAs(s[1])
    <3>1. /\ TypedList(s) \in Seq(Values) /\ Len(TypedList(s)) = Len(s)
          /\ DOMAIN TypedList(s) = 1 .. Len(s)
          /\ \A i \in 1 .. Len(s) : TypedList(s)[i] = ReadAs(s[i])
      BY TypedListSeq
    <3>2. 1 \in 1 .. Len(s)
      BY <2>1
    <3>. QED
      BY <2>1, <3>1, <3>2, Zenon
  <2>4. TypedList(s) = <<ReadAs(s[1])>>
    BY <2>3
  <2>. DEFINE w == element_result(e.reply)
  <2>5. \/ ReadAs(s[1]) # Bad /\ w = Val(Element(TypedList(s)))
        \/ ReadAs(s[1]) = Bad /\ w = Throw("deserialize")
    BY <2>2, <2>4, ElementOfString, BadAssumption, TypedAssumption DEF ReadAs, Some
  <2>. HIDE DEF w
  <2>6. (\A i \in DOMAIN TypedList(s) : TypedList(s)[i] # Bad) <=> ReadAs(s[1]) # Bad
    BY <2>3
  <2>7. \E f \in ListGives(TypedList(left), TypedList(s), Element(TypedList(s))) :
           f.object = AsList(TypedList(left)) /\ w \in f.answers
    BY <2>5, <2>6, Gives
  <2>8. ListResults(o, e.reply) = {w} /\ ((\E v : w = Val(v)) \/ w = Throw("deserialize"))
    BY <1>1, <2>5 DEF w
  <2>. QED
    BY <1>2, <2>7, <2>8, AnsweredSo
<1>. QED
  BY <1>3, <1>4

\* What is written is read back.
Written(values, texts) ==
    /\ texts \in Seq(Text) /\ Len(texts) = Len(values)
    /\ \A i \in DOMAIN values :
          values[i] \in DOMAIN serialize_value /\ texts[i] = serialize_value[values[i]]

LEMMA ReadBack ==
    ASSUME RoundTrips, NEW values \in Seq(Value), NEW texts, Written(values, texts)
    PROVE  /\ TypedList(texts) = values
           /\ texts \in Seq(Text) /\ Len(texts) = Len(values)
<1>0. texts \in Seq(Text) /\ Len(texts) = Len(values)
  BY DEF Written
<1>1. /\ TypedList(texts) \in Seq(Values) /\ Len(TypedList(texts)) = Len(values)
      /\ \A i \in 1 .. Len(values) : TypedList(texts)[i] = ReadAs(texts[i])
  BY <1>0, TypedListSeq
<1>2. \A i \in 1 .. Len(values) : values[i] \in Value /\ ReadAs(texts[i]) = values[i]
  <2>1. DOMAIN values = 1 .. Len(values)
    OBVIOUS
  <2>. QED
    BY <2>1 DEF ReadAs, RoundTrips, Written
<1>3. values \in Seq(Values)
  BY <1>2 DEF Values
<1>. QED
  BY <1>0, <1>1, <1>2, <1>3, SeqEqual

LEMMA PushMeans ==
    ASSUME RoundTrips, NEW values \in Seq(Value), NEW texts, Written(values, texts),
           NEW name, NEW cmd, <<name, cmd>> \in {<<"lpush", "LPUSH">>, <<"rpush", "RPUSH">>}
    PROVE  Means([cmd |-> cmd, texts |-> texts], [name |-> name, values |-> values])
<1>. DEFINE m == [cmd |-> cmd, texts |-> texts]
            o == [name |-> name, values |-> values]
<1>1. TypedList(texts) = values /\ texts \in Seq(Text) /\ Len(texts) = Len(values)
  BY ReadBack
<1>2. o.name \in ListNames /\ m.cmd \in ListCommands /\ Rejections(o) = {}
  BY NotRejected DEF ListNames, ListCommands, Written
<1>3. ASSUME NEW l \in Seq(Text), NEW x, NEW e \in ListEffects(m, x), Len(l) < HALF,
             OfKind(x, "list"), Content(x, "list") = l, e.object \in Objects
      PROVE  ListAnswered(o, l, e)
  <2>. DEFINE left == IF cmd = "LPUSH" THEN Reversed(texts) \o l ELSE l \o texts
  <2>1. Reversed(texts) \in Seq(Text) /\ Len(Reversed(texts)) = Len(texts)
    BY <1>1, ReversedSeq
  <2>2. left \in Seq(Text) /\ Len(left) = Len(l) + Len(values)
    <3>1. /\ Reversed(texts) \o l \in Seq(Text)
          /\ Len(Reversed(texts) \o l) = Len(texts) + Len(l)
      <4>. DEFINE u == Reversed(texts)
      <4>. HIDE DEF u
      <4>1. u \in Seq(Text) /\ Len(u) = Len(texts)
        BY <1>1, <2>1 DEF u
      <4>2. u \o l \in Seq(Text) /\ Len(u \o l) = Len(u) + Len(l)
        BY <4>1, ConcatProperties
      <4>. QED
        BY <4>1, <4>2 DEF u
    <3>2. l \o texts \in Seq(Text) /\ Len(l \o texts) = Len(l) + Len(texts)
      BY <1>1, ConcatProperties
    <3>3. Len(l) \in Nat /\ Len(values) \in Nat
      OBVIOUS
    <3>. QED
      BY <1>1, <3>1, <3>2, <3>3
  <2>3. e = Change(AsList(left), <<>>, make_integer(Len(left)))
    <3>1. CASE cmd = "LPUSH"
      <4>1. e \in ListPushed(Reversed(texts) \o l)
        BY <1>3, <3>1 DEF ListEffects
      <4>. QED
        BY <3>1, <4>1 DEF ListPushed
    <3>2. CASE cmd = "RPUSH"
      <4>1. e \in ListPushed(l \o texts)
        BY <1>3, <3>2 DEF ListEffects
      <4>. QED
        BY <3>2, <4>1 DEF ListPushed
    <3>. QED
      BY <3>1, <3>2
  <2>4. e.object = AsList(left) /\ e.reply = make_integer(Len(left))
    <3>. HIDE DEF left
    <3>. QED
      BY <2>3, Changed
  <2>5. TypedList(left) = IF cmd = "LPUSH" THEN Reversed(values) \o TypedList(l)
                                          ELSE TypedList(l) \o values
    BY <1>1, <2>1, TypedConcat, TypedReversed
  <2>6. Len(TypedList(l)) = Len(l)
    BY TypedListSeq
  <2>7. \A y : OfKind(y, "list") /\ Content(y, "list") = TypedList(l) =>
           ListPromised(o, y) =
               ListGives(IF cmd = "LPUSH" THEN Reversed(values) \o TypedList(l)
                                          ELSE TypedList(l) \o values,
                         <<>>, Count(Len(TypedList(l)) + Len(values)))
    BY DEF ListPromised
  <2>. HIDE DEF left
  <2>8. \A y : OfKind(y, "list") /\ Content(y, "list") = TypedList(l) =>
           ListPromised(o, y) = ListGives(TypedList(left), <<>>, Count(Len(left)))
    BY <2>2, <2>5, <2>6, <2>7
  <2>9. Len(left) \in Int64
    <3>0. Len(left) \in Nat
      BY <2>2, LenProperties
    <3>1. Len(left) < HALF /\ Len(left) \in Nat
      <4>1. AsList(left) \in Objects
        BY <1>3, <2>4
      <4>. QED
        BY <3>0, <4>1, <2>2, TypedAsList
    <3>2. \A n \in Nat : n < HALF => n \in Int64
      BY HalfAssumption DEF Int64, INT64_MAX
    <3>. QED
      BY <3>1, <3>2
  <2>10. o.name \in {"lpush", "rpush", "llen"}
    OBVIOUS
  <2>. HIDE DEF o
  <2>. QED
    BY <2>2, <2>4, <2>8, <2>9, <2>10, CountAnswered
<1>. HIDE DEF o, m
<1>4. Means(m, o)
  BY <1>2, <1>3, ListMeans
<1>. QED
  BY <1>4 DEF o, m

\* The length is also asked for when there is nothing to push.
LEMMA LengthMeans ==
    ASSUME NEW o, o.name = "llen" \/ (o.name \in {"lpush", "rpush"} /\ o.values = <<>>),
           Rejections(o) = {}
    PROVE  Means([cmd |-> "LLEN"], o)
<1>. DEFINE m == [cmd |-> "LLEN"]
<1>1. o.name \in ListNames /\ m.cmd \in ListCommands
  BY DEF ListNames, ListCommands
<1>2. ASSUME NEW l \in Seq(Text), NEW x, NEW e \in ListEffects(m, x), Len(l) < HALF,
             OfKind(x, "list"), Content(x, "list") = l, x = AsList(l), e.object \in Objects
      PROVE  ListAnswered(o, l, e)
  <2>1. e = Change(x, <<>>, make_integer(Len(l)))
    BY <1>2 DEF ListEffects
  <2>2. e.object = AsList(l) /\ e.reply = make_integer(Len(l))
    BY <1>2, <2>1, Changed
  <2>3. TypedList(l) \in Seq(Values) /\ Len(TypedList(l)) = Len(l)
    BY TypedListSeq
  <2>4. Reversed(<<>>) = <<>>
    BY DEF Reversed
  <2>. DEFINE t == TypedList(l)
  <2>. HIDE DEF t
  <2>5. t \in Seq(Values) /\ Len(t) = Len(l) /\ Len(l) \in Nat
    BY <2>3 DEF t
  <2>6. <<>> \o t = t /\ t \o <<>> = t /\ Len(t) + Len(<<>>) = Len(l)
    BY <2>5, ConcatEmptySeq, EmptySeq
  <2>7. \A y : OfKind(y, "list") /\ Content(y, "list") = t =>
           ListPromised(o, y) = ListGives(t, <<>>, Count(Len(l)))
    <3>. TAKE y
    <3>. HAVE OfKind(y, "list") /\ Content(y, "list") = t
    <3>1. CASE o.name = "llen"
      BY <2>5, <3>1 DEF ListPromised
    <3>2. CASE o.name = "lpush" /\ o.values = <<>>
      <4>1. ListPromised(o, y) = ListGives(Reversed(<<>>) \o t, <<>>, Count(Len(t) + Len(<<>>)))
        BY <3>2 DEF ListPromised
      <4>. QED
        BY <2>4, <2>6, <4>1
    <3>3. CASE o.name = "rpush" /\ o.values = <<>>
      <4>1. ListPromised(o, y) = ListGives(t \o <<>>, <<>>, Count(Len(t) + Len(<<>>)))
        BY <3>3 DEF ListPromised
      <4>. QED
        BY <2>6, <4>1
    <3>. QED
      BY <3>1, <3>2, <3>3
  <2>8. Len(l) \in Int64
    BY <1>2, <2>5, HalfAssumption DEF Int64, INT64_MAX
  <2>9. \A y : OfKind(y, "list") /\ Content(y, "list") = TypedList(l) =>
           ListPromised(o, y) = ListGives(TypedList(l), <<>>, Count(Len(l)))
    BY <2>7 DEF t
  <2>. QED
    BY <2>2, <2>8, <2>9, CountAnswered
<1>. HIDE DEF m
<1>3. Means(m, o)
  BY <1>1, <1>2, ListMeans
<1>. QED
  BY <1>3 DEF m

LEMMA RangeMeans ==
    ASSUME NEW i \in Int, NEW j \in Int
    PROVE  Means([cmd |-> "LRANGE", start |-> i, stop |-> j],
                 [name |-> "lrange", start |-> i, stop |-> j])
<1>. DEFINE m == [cmd |-> "LRANGE", start |-> i, stop |-> j]
            o == [name |-> "lrange", start |-> i, stop |-> j]
<1>1. o.name \in ListNames /\ m.cmd \in ListCommands /\ Rejections(o) = {}
  BY NotRejected DEF ListNames, ListCommands
<1>2. ASSUME NEW l \in Seq(Text), NEW x, NEW e \in ListEffects(m, x), Len(l) < HALF,
             OfKind(x, "list"), Content(x, "list") = l, x = AsList(l), e.object \in Objects
      PROVE  ListAnswered(o, l, e)
  <2>. DEFINE s == Slice(l, i, j)
  <2>1. e = Change(x, <<>>, Array(s))
    BY <1>2 DEF ListEffects
  <2>2. s \in Seq(Text) /\ TypedList(s) = Slice(TypedList(l), i, j)
    BY TypedSlice
  <2>3. \A y : OfKind(y, "list") /\ Content(y, "list") = TypedList(l) =>
           ListPromised(o, y) = ListGives(TypedList(l), Slice(TypedList(l), i, j),
                                          Elements(Slice(TypedList(l), i, j)))
    BY DEF ListPromised
  <2>4. o.name = "lrange"
    OBVIOUS
  <2>. HIDE DEF s, o
  <2>5. \A y : OfKind(y, "list") /\ Content(y, "list") = TypedList(l) =>
           ListPromised(o, y) = ListGives(TypedList(l), TypedList(s), Elements(TypedList(s)))
    BY <2>2, <2>3
  <2>6. e.object = AsList(l) /\ Holds(e.reply, s)
    BY <1>2, <2>1, Changed DEF Holds
  <2>7. Promising(o, l, l, s, Elements(TypedList(s)))
    BY <2>5 DEF Promising
  <2>. QED
    BY <2>2, <2>4, <2>6, <2>7, ElementsAnswered
<1>. HIDE DEF o, m
<1>3. Means(m, o)
  BY <1>1, <1>2, ListMeans
<1>. QED
  BY <1>3 DEF o, m

LEMMA PartOne ==
    ASSUME NEW S, NEW s \in Seq(S), NEW k \in Nat, k \in 1 .. Len(s)
    PROVE  /\ SubSeq(s, k, k) \in Seq(S) /\ Len(SubSeq(s, k, k)) = 1
           /\ SubSeq(s, k, k)[1] = s[k]
OBVIOUS

\* One index of a list, counted from the front or from the back.
LEMMA SliceOne ==
    ASSUME NEW l, Len(l) \in Nat, NEW i \in -Len(l) .. Len(l) - 1,
           NEW at, at = IF i < 0 THEN Len(l) + i + 1 ELSE i + 1
    PROVE  Slice(l, i, i) = SubSeq(l, at, at)
<1>. DEFINE k == Len(l)
            from == IF i < 0 THEN k + i ELSE i
            first == IF from < 0 THEN 0 ELSE from
            last == Least(from, k - 1) + 1
<1>1. Slice(l, i, i) = SubSeq(l, first + 1, last)
  BY DEF Slice
<1>. HIDE DEF k
<1>2. k \in Nat /\ i \in -k .. k - 1 /\ at = IF i < 0 THEN k + i + 1 ELSE i + 1
  BY DEF k
<1>3. first + 1 = at /\ last = at
  BY <1>2 DEF Least
<1>. HIDE DEF first, last
<1>. QED
  BY <1>1, <1>3

LEMMA IndexMeans ==
    ASSUME NEW i \in Int
    PROVE  Means([cmd |-> "LINDEX", index |-> i], [name |-> "lindex", index |-> i])
<1>. DEFINE m == [cmd |-> "LINDEX", index |-> i]
            o == [name |-> "lindex", index |-> i]
<1>1. o.name \in ListNames /\ m.cmd \in ListCommands /\ Rejections(o) = {}
  BY NotRejected DEF ListNames, ListCommands
<1>2. ASSUME NEW l \in Seq(Text), NEW x, NEW e \in ListEffects(m, x), Len(l) < HALF,
             OfKind(x, "list"), Content(x, "list") = l, x = AsList(l), e.object \in Objects
      PROVE  ListAnswered(o, l, e)
  <2>. DEFINE s == IF i \in -Len(l) .. Len(l) - 1 THEN Slice(l, i, i) ELSE None
              at == IF i < 0 THEN Len(l) + i + 1 ELSE i + 1
              t == TypedList(l)
              p == IF at \in DOMAIN t THEN <<t[at]>> ELSE <<>>
  <2>0. Len(l) \in Nat
    OBVIOUS
  <2>1. e = Change(x, <<>>, StringOrNil(s))
    BY <1>2 DEF ListEffects
  <2>2. t \in Seq(Values) /\ Len(t) = Len(l) /\ DOMAIN t = 1 .. Len(l)
    BY TypedListSeq
  <2>3. at \in DOMAIN t <=> i \in -Len(l) .. Len(l) - 1
    <3>. HIDE DEF t
    <3>. QED
      BY <2>0, <2>2
  <2>4. s \in Seq(Text) /\ Len(s) <= 1 /\ TypedList(s) = p
    <3>1. CASE at \in DOMAIN t
      <4>1. at \in 1 .. Len(l) /\ i \in -Len(l) .. Len(l) - 1
        BY <2>2, <2>3, <3>1
      <4>2. Slice(l, i, i) = SubSeq(l, at, at)
        BY <2>0, <4>1, SliceOne
      <4>. HIDE DEF at
      <4>3. /\ SubSeq(l, at, at) \in Seq(Text) /\ Len(SubSeq(l, at, at)) = 1
            /\ SubSeq(l, at, at)[1] = l[at]
        <5>1. at \in Nat \ {0} /\ at \in 1 .. Len(l)
          BY <2>0, <4>1
        <5>. QED
          BY <5>1, PartOne
      <4>4. s = SubSeq(l, at, at)
        BY <4>1, <4>2
      <4>. HIDE DEF s
      <4>5. /\ TypedList(s) \in Seq(Values) /\ Len(TypedList(s)) = 1
            /\ TypedList(s)[1] = ReadAs(l[at])
        <5>1. s \in Seq(Text) /\ Len(s) = 1 /\ s[1] = l[at]
          BY <4>3, <4>4
        <5>. QED
          BY <5>1, TypedListSeq
      <4>6. t[at] = ReadAs(l[at])
        BY <4>1, TypedListSeq
      <4>7. TypedList(s) = <<t[at]>>
        <5>. HIDE DEF t
        <5>. QED
          BY <4>5, <4>6
      <4>. QED
        BY <3>1, <4>3, <4>4, <4>7
    <3>2. CASE at \notin DOMAIN t
      <4>1. s = <<>> /\ p = <<>>
        BY <2>3, <3>2 DEF None
      <4>. HIDE DEF s, p
      <4>. QED
        BY <4>1, TypedEmpty, EmptySeq
    <3>. QED
      BY <3>1, <3>2
  <2>5. \A y : OfKind(y, "list") /\ Content(y, "list") = t =>
           ListPromised(o, y) = ListGives(t, p, Element(p))
    <3>. HIDE DEF t
    <3>. QED
      BY <2>2 DEF ListPromised
  <2>6. o.name = "lindex"
    OBVIOUS
  <2>. HIDE DEF s, p, o
  <2>7. \A y : OfKind(y, "list") /\ Content(y, "list") = TypedList(l) =>
           ListPromised(o, y) = ListGives(TypedList(l), TypedList(s), Element(TypedList(s)))
    BY <2>4, <2>5
  <2>8. e.object = AsList(l) /\ e.reply = StringOrNil(s)
    BY <1>2, <2>1, Changed
  <2>. QED
    BY <2>4, <2>6, <2>7, <2>8, ElementAnswered
<1>. HIDE DEF o, m
<1>3. Means(m, o)
  BY <1>1, <1>2, ListMeans
<1>. QED
  BY <1>3 DEF o, m

\* What a pop of n elements leaves, and the reply.
Popped(m, l, n, e) ==
    LET gone == IF m.cmd = "LPOP" THEN SubSeq(l, 1, n)
                ELSE Reversed(SubSeq(l, Len(l) - n + 1, Len(l)))
    IN  /\ e.object = AsList(IF m.cmd = "LPOP" THEN SubSeq(l, n + 1, Len(l))
                                              ELSE SubSeq(l, 1, Len(l) - n))
        /\ e.reply = IF l = <<>> THEN make_nil
                     ELSE IF "count" \in DOMAIN m THEN Array(gone) ELSE make_string(gone[1])

LEMMA PopEffect ==
    ASSUME NEW m, m.cmd \in Popping, "count" \in DOMAIN m => m.count \in Int,
           NEW l \in Seq(Text), NEW e \in ListPopped(m, l), NEW n,
           n = Least(IF "count" \in DOMAIN m THEN m.count ELSE 1, Len(l))
    PROVE  /\ "count" \in DOMAIN m => m.count >= 0
           /\ n \in 0 .. Len(l)
           /\ Popped(m, l, n, e)
<1>1. "count" \in DOMAIN m => m.count >= 0
  BY DEF ListPopped
<1>2. Len(l) \in Nat
  OBVIOUS
<1>3. n \in 0 .. Len(l)
  BY <1>1, <1>2 DEF Least
<1>. DEFINE gone == IF m.cmd = "LPOP" THEN SubSeq(l, 1, n)
                    ELSE Reversed(SubSeq(l, Len(l) - n + 1, Len(l)))
            rest == IF m.cmd = "LPOP" THEN SubSeq(l, n + 1, Len(l))
                                      ELSE SubSeq(l, 1, Len(l) - n)
            reply == IF l = <<>> THEN make_nil
                     ELSE IF "count" \in DOMAIN m THEN Array(gone) ELSE make_string(gone[1])
<1>4. e = Change(AsList(rest), gone, reply)
  BY <1>1 DEF ListPopped
<1>5. e.object = AsList(rest) /\ e.reply = reply
  <2>. HIDE DEF rest, gone, reply
  <2>. QED
    BY <1>4, Changed
<1>. QED
  BY <1>1, <1>3, <1>5 DEF Popped

\* The ends of a list, as texts and as values.
LEMMA Ends ==
    ASSUME NEW l \in Seq(Text), NEW n \in 0 .. Len(l)
    PROVE  /\ SubSeq(l, 1, n) \in Seq(Text) /\ Len(SubSeq(l, 1, n)) = n
           /\ SubSeq(l, Len(l) - n + 1, Len(l)) \in Seq(Text)
           /\ Len(SubSeq(l, Len(l) - n + 1, Len(l))) = n
           /\ SubSeq(l, n + 1, Len(l)) \in Seq(Text) /\ SubSeq(l, 1, Len(l) - n) \in Seq(Text)
           /\ TypedList(SubSeq(l, 1, n)) = SubSeq(TypedList(l), 1, n)
           /\ TypedList(SubSeq(l, n + 1, Len(l))) = SubSeq(TypedList(l), n + 1, Len(l))
           /\ TypedList(SubSeq(l, 1, Len(l) - n)) = SubSeq(TypedList(l), 1, Len(l) - n)
           /\ TypedList(SubSeq(l, Len(l) - n + 1, Len(l))) =
                 SubSeq(TypedList(l), Len(l) + 1 - n, Len(l))
<1>1. Len(l) \in Nat /\ n \in Nat /\ n <= Len(l)
  OBVIOUS
<1>2. SubSeq(l, 1, n) \in Seq(Text) /\ Len(SubSeq(l, 1, n)) = n
  BY <1>1
<1>3. /\ SubSeq(l, Len(l) - n + 1, Len(l)) \in Seq(Text)
      /\ Len(SubSeq(l, Len(l) - n + 1, Len(l))) = n
  BY <1>1
<1>4. SubSeq(l, n + 1, Len(l)) \in Seq(Text) /\ SubSeq(l, 1, Len(l) - n) \in Seq(Text)
  BY <1>1
<1>5. TypedList(SubSeq(l, 1, n)) = SubSeq(TypedList(l), 1, n)
  BY <1>1, TypedPart
<1>6. TypedList(SubSeq(l, n + 1, Len(l))) = SubSeq(TypedList(l), n + 1, Len(l))
  <2>1. n + 1 \in Nat \ {0} /\ Len(l) \in Int /\ Len(l) <= Len(l)
    BY <1>1
  <2>. QED
    BY <2>1, TypedPart
<1>7. TypedList(SubSeq(l, 1, Len(l) - n)) = SubSeq(TypedList(l), 1, Len(l) - n)
  <2>1. 1 \in Nat \ {0} /\ Len(l) - n \in Int /\ Len(l) - n <= Len(l)
    BY <1>1
  <2>. QED
    BY <2>1, TypedPart
<1>8. /\ Len(l) - n + 1 = Len(l) + 1 - n /\ Len(l) - n + 1 \in Nat \ {0}
      /\ Len(l) \in Int /\ Len(l) <= Len(l)
  BY <1>1
<1>9. TypedList(SubSeq(l, Len(l) - n + 1, Len(l))) = SubSeq(TypedList(l), Len(l) - n + 1, Len(l))
  BY <1>8, TypedPart
<1>. QED
  BY <1>2, <1>3, <1>4, <1>5, <1>6, <1>7, <1>8, <1>9

LEMMA PopOneMeans ==
    ASSUME NEW name, NEW cmd, <<name, cmd>> \in {<<"lpop", "LPOP">>, <<"rpop", "RPOP">>}
    PROVE  Means([cmd |-> cmd], [name |-> name])
<1>. DEFINE m == [cmd |-> cmd]
            o == [name |-> name]
<1>1. o.name \in ListNames /\ m.cmd \in ListCommands /\ Rejections(o) = {}
  BY NotRejected DEF ListNames, ListCommands
<1>2. ASSUME NEW l \in Seq(Text), NEW x, NEW e \in ListEffects(m, x), Len(l) < HALF,
             OfKind(x, "list"), Content(x, "list") = l, x = AsList(l), e.object \in Objects
      PROVE  ListAnswered(o, l, e)
  <2>. DEFINE n == Least(1, Len(l))
              t == TypedList(l)
  <2>1. m.cmd \in Popping /\ "count" \notin DOMAIN m /\ m.cmd = cmd
    BY DEF Popping
  <2>2. e \in ListPopped(m, l)
    BY <1>2 DEF ListEffects
  <2>3. n \in 0 .. Len(l) /\ Popped(m, l, n, e)
    <3>. HIDE DEF m
    <3>. QED
      BY <2>1, <2>2, PopEffect
  <2>4. n <= 1 /\ (n = 0 => l = <<>>) /\ (l = <<>> => n = 0)
    <3>1. Len(l) \in Nat /\ (l # <<>> => Len(l) # 0) /\ (l = <<>> => Len(l) = 0)
      BY NonemptyText
    <3>2. \A k \in Nat : Least(1, k) <= 1 /\ (Least(1, k) = 0 <=> k = 0)
      BY DEF Least
    <3>. QED
      BY <3>1, <3>2
  <2>5. Least(1, Len(t)) = n /\ Len(t) = Len(l)
    BY TypedListSeq
  <2>6. ASSUME NEW s \in Seq(Text), Len(s) = n
        PROVE  /\ Len(s) <= 1 /\ Reversed(s) = s
               /\ (IF l = <<>> THEN make_nil ELSE make_string(s[1])) = StringOrNil(s)
    <3>. HIDE DEF n
    <3>0. Len(s) \in Nat
      OBVIOUS
    <3>1. s = <<>> <=> l = <<>>
      BY <2>4, <2>6, NonemptyText, EmptySeq
    <3>2. Reversed(s) = s
      <4>1. /\ Reversed(s) \in Seq(Text) /\ Len(Reversed(s)) = Len(s)
            /\ \A i \in 1 .. Len(s) : Reversed(s)[i] = s[Len(s) + 1 - i]
        BY ReversedSeq
      <4>2. \A k \in Nat : k <= 1 => \A i \in 1 .. k : k + 1 - i = i
        OBVIOUS
      <4>3. \A i \in 1 .. Len(s) : Len(s) + 1 - i = i
        BY <2>4, <2>6, <3>0, <4>2
      <4>4. \A i \in 1 .. Len(s) : Reversed(s)[i] = s[i]
        BY <4>1, <4>3
      <4>. QED
        BY <4>1, <4>4, SeqEqual
    <3>. QED
      BY <2>4, <2>6, <3>1, <3>2 DEF StringOrNil, None
  <2>. HIDE DEF n
  <2>7. CASE cmd = "LPOP"
    <3>. DEFINE s == SubSeq(l, 1, n)
                left == SubSeq(l, n + 1, Len(l))
    <3>1. e.object = AsList(left) /\ e.reply = StringOrNil(s)
      <4>1. e.object = AsList(left) /\ e.reply = IF l = <<>> THEN make_nil ELSE make_string(s[1])
        BY <2>1, <2>3, <2>7 DEF Popped
      <4>2. s \in Seq(Text) /\ Len(s) = n
        BY <2>3, Ends
      <4>. HIDE DEF s, left
      <4>. QED
        BY <2>6, <4>1, <4>2
    <3>2. /\ s \in Seq(Text) /\ Len(s) <= 1 /\ left \in Seq(Text)
          /\ TypedList(s) = SubSeq(t, 1, n) /\ TypedList(left) = SubSeq(t, n + 1, Len(l))
      BY <2>3, <2>4, Ends
    <3>3. \A y : OfKind(y, "list") /\ Content(y, "list") = t =>
             ListPromised(o, y) = ListGives(SubSeq(t, Least(1, Len(t)) + 1, Len(t)),
                                            SubSeq(t, 1, Least(1, Len(t))),
                                            Element(SubSeq(t, 1, Least(1, Len(t)))))
      <4>. HIDE DEF t
      <4>. QED
        BY <2>7 DEF ListPromised
    <3>4. o.name = "lpop"
      BY <2>7
    <3>. HIDE DEF s, left, o
    <3>5. \A y : OfKind(y, "list") /\ Content(y, "list") = TypedList(l) =>
             ListPromised(o, y) = ListGives(TypedList(left), TypedList(s), Element(TypedList(s)))
      <4>. DEFINE a == SubSeq(t, n + 1, Len(l))
                  b == SubSeq(t, 1, n)
      <4>1. ASSUME NEW y, OfKind(y, "list"), Content(y, "list") = t
            PROVE  ListPromised(o, y) = ListGives(a, b, Element(b))
        <5>1. ListPromised(o, y) = ListGives(SubSeq(t, Least(1, Len(t)) + 1, Len(t)),
                                               SubSeq(t, 1, Least(1, Len(t))),
                                               Element(SubSeq(t, 1, Least(1, Len(t)))))
          BY <3>3, <4>1
        <5>. HIDE DEF t
        <5>. QED
          BY <2>5, <5>1
      <4>2. /\ TypedList(left) = a /\ TypedList(s) = b
            /\ TypedList(l) = t
        BY <3>2
      <4>. HIDE DEF a, b, t
      <4>. QED
        BY <4>1, <4>2
    <3>6. s \in Seq(Text) /\ Len(s) <= 1 /\ left \in Seq(Text)
      BY <3>2
    <3>. QED
      BY <3>1, <3>4, <3>5, <3>6, ElementAnswered
  <2>8. CASE cmd = "RPOP"
    <3>. DEFINE s == SubSeq(l, Len(l) - n + 1, Len(l))
                left == SubSeq(l, 1, Len(l) - n)
    <3>1. e.object = AsList(left) /\ e.reply = StringOrNil(s)
      <4>1. /\ e.object = AsList(left)
            /\ e.reply = IF l = <<>> THEN make_nil ELSE make_string(Reversed(s)[1])
        BY <2>1, <2>3, <2>8 DEF Popped
      <4>2. s \in Seq(Text) /\ Len(s) = n
        BY <2>3, Ends
      <4>. HIDE DEF s, left
      <4>. QED
        BY <2>6, <4>1, <4>2
    <3>2. /\ s \in Seq(Text) /\ Len(s) <= 1 /\ left \in Seq(Text)
          /\ TypedList(s) = SubSeq(t, Len(l) + 1 - n, Len(l))
          /\ TypedList(left) = SubSeq(t, 1, Len(l) - n)
      BY <2>3, <2>4, Ends
    <3>3. \A y : OfKind(y, "list") /\ Content(y, "list") = t =>
             ListPromised(o, y) =
                 ListGives(SubSeq(t, 1, Len(t) - Least(1, Len(t))),
                           SubSeq(t, Len(t) + 1 - Least(1, Len(t)), Len(t)),
                           Element(SubSeq(t, Len(t) + 1 - Least(1, Len(t)), Len(t))))
      <4>. HIDE DEF t
      <4>. QED
        BY <2>8 DEF ListPromised
    <3>4. o.name = "rpop"
      BY <2>8
    <3>. HIDE DEF s, left, o
    <3>5. \A y : OfKind(y, "list") /\ Content(y, "list") = TypedList(l) =>
             ListPromised(o, y) = ListGives(TypedList(left), TypedList(s), Element(TypedList(s)))
      <4>. DEFINE a == SubSeq(t, 1, Len(l) - n)
                  b == SubSeq(t, Len(l) + 1 - n, Len(l))
      <4>1. ASSUME NEW y, OfKind(y, "list"), Content(y, "list") = t
            PROVE  ListPromised(o, y) = ListGives(a, b, Element(b))
        <5>1. ListPromised(o, y) = ListGives(
                   SubSeq(t, 1, Len(t) - Least(1, Len(t))), SubSeq(t, Len(t) + 1 - Least(1, Len(t)), Len(t)),
                   Element(SubSeq(t, Len(t) + 1 - Least(1, Len(t)), Len(t))))
          BY <3>3, <4>1
        <5>. HIDE DEF t
        <5>. QED
          BY <2>5, <5>1
      <4>2. /\ TypedList(left) = a /\ TypedList(s) = b
            /\ TypedList(l) = t
        BY <3>2
      <4>. HIDE DEF a, b, t
      <4>. QED
        BY <4>1, <4>2
    <3>6. s \in Seq(Text) /\ Len(s) <= 1 /\ left \in Seq(Text)
      BY <3>2
    <3>. QED
      BY <3>1, <3>4, <3>5, <3>6, ElementAnswered
  <2>. QED
    BY <2>7, <2>8
<1>. HIDE DEF o, m
<1>3. Means(m, o)
  BY <1>1, <1>2, ListMeans
<1>. QED
  BY <1>3 DEF o, m

LEMMA PopManyMeans ==
    ASSUME NEW name, NEW cmd, NEW count \in Int,
           <<name, cmd>> \in {<<"lpop_count", "LPOP">>, <<"rpop_count", "RPOP">>}
    PROVE  Means([cmd |-> cmd, count |-> count], [name |-> name, count |-> count])
<1>. DEFINE m == [cmd |-> cmd, count |-> count]
            o == [name |-> name, count |-> count]
<1>1. o.name \in ListNames /\ m.cmd \in ListCommands /\ Rejections(o) = {}
  BY NotRejected DEF ListNames, ListCommands
<1>2. ASSUME NEW l \in Seq(Text), NEW x, NEW e \in ListEffects(m, x), Len(l) < HALF,
             OfKind(x, "list"), Content(x, "list") = l, x = AsList(l), e.object \in Objects
      PROVE  ListAnswered(o, l, e)
  <2>. DEFINE n == Least(count, Len(l))
              t == TypedList(l)
  <2>1. m.cmd \in Popping /\ "count" \in DOMAIN m /\ m.cmd = cmd /\ m.count = count
    BY DEF Popping
  <2>2. e \in ListPopped(m, l)
    BY <1>2 DEF ListEffects
  <2>3. n \in 0 .. Len(l) /\ Popped(m, l, n, e) /\ count >= 0
    <3>. HIDE DEF m
    <3>. QED
      BY <2>1, <2>2, PopEffect
  <2>4. l = <<>> => n = 0
    <3>1. l = <<>> => Len(l) = 0
      OBVIOUS
    <3>. QED
      BY <2>3, <3>1
  <2>5. Least(count, Len(t)) = n /\ Len(t) = Len(l)
    BY TypedListSeq
  <2>6. \A s \in Seq(Text) : Len(s) = n /\ l = <<>> => s = <<>> /\ Reversed(s) = <<>>
    BY <2>4, EmptySeq DEF Reversed
  <2>. HIDE DEF n
  <2>7. CASE cmd = "LPOP"
    <3>. DEFINE s == SubSeq(l, 1, n)
                left == SubSeq(l, n + 1, Len(l))
    <3>1. e.object = AsList(left) /\ e.reply = IF l = <<>> THEN make_nil ELSE Array(s)
      BY <2>1, <2>3, <2>7 DEF Popped
    <3>2. /\ s \in Seq(Text) /\ Len(s) = n /\ left \in Seq(Text)
          /\ TypedList(s) = SubSeq(t, 1, n) /\ TypedList(left) = SubSeq(t, n + 1, Len(l))
      BY <2>3, Ends
    <3>3. \A y : OfKind(y, "list") /\ Content(y, "list") = t =>
             ListPromised(o, y) = ListGives(SubSeq(t, Least(count, Len(t)) + 1, Len(t)),
                                            SubSeq(t, 1, Least(count, Len(t))),
                                            Elements(SubSeq(t, 1, Least(count, Len(t)))))
      <4>. HIDE DEF t
      <4>. QED
        BY <2>3, <2>7 DEF ListPromised
    <3>4. o.name = "lpop_count"
      BY <2>7
    <3>. HIDE DEF s, left, o
    <3>5. \A y : OfKind(y, "list") /\ Content(y, "list") = TypedList(l) =>
             ListPromised(o, y) = ListGives(TypedList(left), TypedList(s), Elements(TypedList(s)))
      <4>. DEFINE a == SubSeq(t, n + 1, Len(l))
                  b == SubSeq(t, 1, n)
      <4>1. ASSUME NEW y, OfKind(y, "list"), Content(y, "list") = t
            PROVE  ListPromised(o, y) = ListGives(a, b, Elements(b))
        <5>1. ListPromised(o, y) = ListGives(SubSeq(t, Least(count, Len(t)) + 1, Len(t)),
                                               SubSeq(t, 1, Least(count, Len(t))),
                                               Elements(SubSeq(t, 1, Least(count, Len(t)))))
          BY <3>3, <4>1
        <5>. HIDE DEF t
        <5>. QED
          BY <2>5, <5>1
      <4>2. /\ TypedList(left) = a /\ TypedList(s) = b
            /\ TypedList(l) = t
        BY <3>2
      <4>. HIDE DEF a, b, t
      <4>. QED
        BY <4>1, <4>2
    <3>6. e.object = AsList(left) /\ Holds(e.reply, s)
      BY <2>6, <3>1, <3>2 DEF Holds
    <3>7. s \in Seq(Text) /\ left \in Seq(Text)
      BY <3>2
    <3>8. Promising(o, l, left, s, Elements(TypedList(s)))
      BY <3>5 DEF Promising
    <3>. QED
      BY <3>4, <3>6, <3>7, <3>8, ElementsAnswered
  <2>8. CASE cmd = "RPOP"
    <3>. DEFINE s == SubSeq(l, Len(l) - n + 1, Len(l))
                r == Reversed(s)
                left == SubSeq(l, 1, Len(l) - n)
    <3>1. e.object = AsList(left) /\ e.reply = IF l = <<>> THEN make_nil ELSE Array(r)
      BY <2>1, <2>3, <2>8 DEF Popped
    <3>2. /\ s \in Seq(Text) /\ Len(s) = n /\ left \in Seq(Text)
          /\ TypedList(s) = SubSeq(t, Len(l) + 1 - n, Len(l))
          /\ TypedList(left) = SubSeq(t, 1, Len(l) - n)
      BY <2>3, Ends
    <3>3. \A y : OfKind(y, "list") /\ Content(y, "list") = t =>
             ListPromised(o, y) =
                 ListGives(SubSeq(t, 1, Len(t) - Least(count, Len(t))),
                           SubSeq(t, Len(t) + 1 - Least(count, Len(t)), Len(t)),
                           Elements(Reversed(SubSeq(t, Len(t) + 1 - Least(count, Len(t)), Len(t)))))
      <4>. HIDE DEF t
      <4>. QED
        BY <2>3, <2>8 DEF ListPromised
    <3>4. o.name = "rpop_count"
      BY <2>8
    <3>5. r \in Seq(Text) /\ TypedList(r) = Reversed(TypedList(s))
      <4>. HIDE DEF s
      <4>. QED
        BY <3>2, ReversedSeq, TypedReversed
    <3>. HIDE DEF s, left, o
    <3>6. e.object = AsList(left) /\ Holds(e.reply, r)
      BY <2>6, <3>1, <3>2 DEF Holds
    <3>7. r = Reversed(s)
      OBVIOUS
    <3>. HIDE DEF r
    <3>8. \A y : OfKind(y, "list") /\ Content(y, "list") = TypedList(l) =>
             ListPromised(o, y) = ListGives(TypedList(left), TypedList(s), Elements(TypedList(r)))
      <4>. DEFINE a == SubSeq(t, 1, Len(l) - n)
                  b == SubSeq(t, Len(l) + 1 - n, Len(l))
      <4>1. ASSUME NEW y, OfKind(y, "list"), Content(y, "list") = t
            PROVE  ListPromised(o, y) = ListGives(a, b, Elements(Reversed(b)))
        <5>1. ListPromised(o, y) = ListGives(
                   SubSeq(t, 1, Len(t) - Least(count, Len(t))), SubSeq(t, Len(t) + 1 - Least(count, Len(t)), Len(t)),
                   Elements(Reversed(SubSeq(t, Len(t) + 1 - Least(count, Len(t)), Len(t)))))
          BY <3>3, <4>1
        <5>. HIDE DEF t
        <5>. QED
          BY <2>5, <5>1
      <4>2. /\ TypedList(left) = a /\ TypedList(s) = b /\ TypedList(r) = Reversed(b)
            /\ TypedList(l) = t
        BY <3>2, <3>5
      <4>. HIDE DEF a, b, t
      <4>. QED
        BY <4>1, <4>2
    <3>9. s \in Seq(Text) /\ left \in Seq(Text) /\ r \in Seq(Text)
      BY <3>2, <3>5
    <3>10. Promising(o, l, left, s, Elements(TypedList(r)))
      BY <3>8 DEF Promising
    <3>. QED
      BY <3>4, <3>6, <3>7, <3>9, <3>10, ElementsAnswered
  <2>. QED
    BY <2>7, <2>8
<1>. HIDE DEF o, m
<1>3. Means(m, o)
  BY <1>1, <1>2, ListMeans
<1>. QED
  BY <1>3 DEF o, m

LEMMA ListOpsAre ==
    ASSUME "list" \in Views
    PROVE  ListOps \subseteq Ops
BY DEF Ops

LEMMA ListCallProper ==
    ASSUME RoundTrips, "list" \in Views, NEW c, ListCall(c)
    PROVE  ProperCall(c)
<1>1. ASSUME NEW values \in Batches, lpush(c, values) \/ rpush(c, values)
      PROVE  ProperCall(c)
  <2>. SUFFICES ASSUME NEW name, NEW cmd,
                       <<name, cmd>> \in {<<"lpush", "LPUSH">>, <<"rpush", "RPUSH">>},
                       Call(c, [name |-> name, values |-> values], Push(cmd, values))
                PROVE  ProperCall(c)
    BY <1>1 DEF lpush, rpush
  <2>. DEFINE o == [name |-> name, values |-> values]
  <2>1. values \in Seq(Value) /\ name \in {"lpush", "rpush"}
    BY TypedAssumption
  <2>2. o \in Ops
    BY <2>1, ListOpsAre DEF ListOps
  <2>3. CASE /\ \E i \in DOMAIN values : values[i] \notin DOMAIN serialize_value
             /\ SerializedAll(values) = Throw("serialize")
    <3>1. Push(cmd, values) = Throw("serialize")
      BY <2>3, Outcomes DEF Push, Bind, Once
    <3>2. Proper(o, Throw("serialize"))
      BY <2>2, <2>3, IsRejected
    <3>. QED
      BY <3>1, <3>2 DEF ProperCall
  <2>4. ASSUME \A i \in DOMAIN values : values[i] \in DOMAIN serialize_value,
               NEW texts \in Seq(Text), Len(texts) = Len(values),
               \A i \in DOMAIN values : texts[i] = serialize_value[values[i]],
               SerializedAll(values) = Val(texts)
        PROVE  ProperCall(c)
    <3>1. Push(cmd, values) = IF texts = <<>> THEN LLEN ELSE Val([cmd |-> cmd, texts |-> texts])
      BY <2>4, Outcomes DEF Push, Bind, Once
    <3>2. CASE texts = <<>>
      <4>1. values = <<>>
        BY <2>1, <2>4, <3>2, EmptySeq
      <4>2. Rejections(o) = {}
        BY <2>4, NotRejected
      <4>3. Means([cmd |-> "LLEN"], o)
        BY <2>1, <4>1, <4>2, LengthMeans
      <4>4. Proper(o, Push(cmd, values))
        BY <2>2, <3>1, <3>2, <4>3, ProperCommand DEF LLEN
      <4>. QED
        BY <4>4 DEF ProperCall
    <3>3. CASE texts # <<>>
      <4>0. Written(values, texts)
        BY <2>4 DEF Written
      <4>1. Means([cmd |-> cmd, texts |-> texts], o)
        BY <2>1, <4>0, PushMeans
      <4>2. Proper(o, Push(cmd, values))
        BY <2>2, <3>1, <3>3, <4>1, ProperCommand
      <4>. QED
        BY <4>2 DEF ProperCall
    <3>. QED
      BY <3>2, <3>3
  <2>. QED
    BY <2>1, <2>3, <2>4, SerializedAllResult
<1>2. ASSUME NEW v \in Value, lpush_value(c, v) \/ rpush_value(c, v)
      PROVE  ProperCall(c)
  <2>. DEFINE values == <<v>>
              command(cmd) ==
                  Bind(Serialized(v), LAMBDA t : Val([cmd |-> cmd, texts |-> <<t>>]))
  <2>. SUFFICES ASSUME NEW name, NEW cmd,
                       <<name, cmd>> \in {<<"lpush", "LPUSH">>, <<"rpush", "RPUSH">>},
                       Call(c, [name |-> name, values |-> values], command(cmd))
                PROVE  ProperCall(c)
    <3>1. \/ Call(c, [name |-> "lpush", values |-> values], command("LPUSH"))
          \/ Call(c, [name |-> "rpush", values |-> values], command("RPUSH"))
      BY <1>2 DEF lpush_value, rpush_value
    <3>. HIDE DEF values, command
    <3>. QED
      BY <3>1
  <2>. DEFINE o == [name |-> name, values |-> values]
  <2>1. values \in Seq(Value) /\ Len(values) = 1 /\ name \in {"lpush", "rpush"}
    BY <1>2
  <2>2. o \in Ops
    BY <1>2, <2>1, ListOpsAre DEF ListOps
  <2>3. CASE v \notin DOMAIN serialize_value /\ Serialized(v) = Throw("serialize")
    <3>1. command(cmd) = Throw("serialize")
      BY <2>3, Outcomes DEF Bind, Once
    <3>2. Proper(o, Throw("serialize"))
      BY <2>2, <2>3, IsRejected
    <3>. HIDE DEF command
    <3>. QED
      BY <3>1, <3>2 DEF ProperCall
  <2>4. ASSUME v \in DOMAIN serialize_value, NEW t \in Text, t = serialize_value[v],
               Serialized(v) = Val(t)
        PROVE  ProperCall(c)
    <3>1. command(cmd) = Val([cmd |-> cmd, texts |-> <<t>>])
      BY <2>4, Outcomes DEF Bind, Once
    <3>2. /\ \A i \in DOMAIN values : values[i] \in DOMAIN serialize_value
          /\ \A i \in DOMAIN values : <<t>>[i] = serialize_value[values[i]]
          /\ <<t>> \in Seq(Text) /\ Len(<<t>>) = Len(values)
      BY <2>4
    <3>3. Means([cmd |-> cmd, texts |-> <<t>>], o)
      <4>. DEFINE texts == <<t>>
      <4>1. Written(values, texts)
        BY <3>2 DEF Written
      <4>. HIDE DEF values, texts
      <4>2. Means([cmd |-> cmd, texts |-> texts], [name |-> name, values |-> values])
        BY <2>1, <4>1, PushMeans
      <4>. QED
        BY <4>2 DEF texts
    <3>4. Proper(o, command(cmd))
      BY <2>2, <3>1, <3>3, ProperCommand
    <3>. HIDE DEF command
    <3>. QED
      BY <3>4 DEF ProperCall
  <2>. QED
    BY <1>2, <2>3, <2>4, SerializedResult
<1>3. ASSUME lpop(c) \/ rpop(c)
      PROVE  ProperCall(c)
  <2>. SUFFICES ASSUME NEW name, NEW cmd,
                       <<name, cmd>> \in {<<"lpop", "LPOP">>, <<"rpop", "RPOP">>},
                       Call(c, [name |-> name], Val([cmd |-> cmd]))
                PROVE  ProperCall(c)
    BY <1>3 DEF lpop, rpop
  <2>1. [name |-> name] \in Ops
    BY ListOpsAre DEF ListOps
  <2>2. Means([cmd |-> cmd], [name |-> name])
    BY PopOneMeans
  <2>. QED
    BY <2>1, <2>2, ProperCommand DEF ProperCall
<1>4. ASSUME NEW n \in Counts, lpop_count(c, n) \/ rpop_count(c, n)
      PROVE  ProperCall(c)
  <2>. SUFFICES ASSUME NEW name, NEW cmd,
                       <<name, cmd>> \in {<<"lpop_count", "LPOP">>, <<"rpop_count", "RPOP">>},
                       Call(c, [name |-> name, count |-> n], Val([cmd |-> cmd, count |-> n]))
                PROVE  ProperCall(c)
    BY <1>4 DEF lpop_count, rpop_count
  <2>1. [name |-> name, count |-> n] \in Ops
    BY <1>4, ListOpsAre DEF ListOps
  <2>2. n \in Int
    BY <1>4, CountsAssumption
  <2>3. Means([cmd |-> cmd, count |-> n], [name |-> name, count |-> n])
    BY <2>2, PopManyMeans
  <2>. QED
    BY <2>1, <2>3, ProperCommand DEF ProperCall
<1>5. ASSUME llen(c)
      PROVE  ProperCall(c)
  <2>1. [name |-> "llen"] \in Ops
    BY ListOpsAre DEF ListOps
  <2>2. Rejections([name |-> "llen"]) = {}
    BY NotRejected
  <2>3. Means([cmd |-> "LLEN"], [name |-> "llen"])
    BY <2>2, LengthMeans
  <2>. QED
    BY <1>5, <2>1, <2>3, ProperCommand DEF ProperCall, llen, LLEN
<1>6. ASSUME NEW i \in Indexes, lindex(c, i)
      PROVE  ProperCall(c)
  <2>1. [name |-> "lindex", index |-> i] \in Ops
    BY <1>6, ListOpsAre DEF ListOps
  <2>2. Means([cmd |-> "LINDEX", index |-> i], [name |-> "lindex", index |-> i])
    BY <1>6, TypedAssumption, IndexMeans
  <2>. QED
    BY <1>6, <2>1, <2>2, ProperCommand DEF ProperCall, lindex
<1>7. ASSUME NEW i \in Indexes, NEW j \in Indexes, lrange(c, i, j)
      PROVE  ProperCall(c)
  <2>1. [name |-> "lrange", start |-> i, stop |-> j] \in Ops
    BY <1>7, ListOpsAre DEF ListOps
  <2>2. Means([cmd |-> "LRANGE", start |-> i, stop |-> j],
              [name |-> "lrange", start |-> i, stop |-> j])
    BY <1>7, TypedAssumption, RangeMeans
  <2>. QED
    BY <1>7, <2>1, <2>2, ProperCommand DEF ProperCall, lrange
<1>. QED
  BY <1>1, <1>2, <1>3, <1>4, <1>5, <1>6, <1>7 DEF ListCall
-----------------------------------------------------------------------------
(* The operations on a key.                                                 *)

KeyCmds == {"EXPIRE", "PEXPIRE", "TTL", "PTTL", "PERSIST", "PING", "EXISTS", "TYPE", "DEL"}
KeyNames == {"exists", "expire", "persist", "type", "del", "ttl", "ping"}

LEMMA KeyResultsOnly ==
    ASSUME NEW o, o.name \in KeyNames, NEW r, ~is_error(r)
    PROVE  Results(o, r) = KeyResults(o, r)
<1>1. ValueResults(o, r) = {} /\ HashResults(o, r) = {}
  BY DEF ValueResults, HashResults, KeyNames
<1>2. SetResults(o, r) = {} /\ ZSetResults(o, r) = {} /\ ListResults(o, r) = {}
  BY DEF SetResults, ZSetResults, ListResults, KeyNames
<1>. QED
  BY <1>1, <1>2, PlainResults

LEMMA KeyEffectsOnly ==
    ASSUME NEW m, m.cmd \in KeyCmds, NEW x
    PROVE  /\ ValueEffects(m, x) = {} /\ HashEffects(m, x) = {} /\ SetEffects(m, x) = {}
           /\ ZSetEffects(m, x) = {} /\ ListEffects(m, x) = {}
<1>1. ValueEffects(m, x) = {}
  BY DEF ValueEffects, KeyCmds
<1>2. HashEffects(m, x) = {}
  BY DEF HashEffects, KeyCmds
<1>3. SetEffects(m, x) = {}
  BY DEF SetEffects, KeyCmds
<1>4. ZSetEffects(m, x) = {}
  BY DEF ZSetEffects, KeyCmds
<1>5. ListEffects(m, x) = {}
  BY DEF ListEffects, KeyCmds
<1>. QED
  BY <1>1, <1>2, <1>3, <1>4, <1>5

\* A result v of the view, which is promised together with what is left.
Gets(o, x, y, v) ==
    \E f \in KeyPromised(o, Typed(x)) : f.object = Typed(y) /\ Val(v) \in f.answers

Leaves(y, v) == [object |-> y, answers |-> {Val(v)}]

LEMMA GetsPromised ==
    ASSUME NEW o, NEW x, NEW y, NEW v, NEW z, NEW u,
           Leaves(z, u) \in KeyPromised(o, Typed(x)), z = Typed(y), u = v
    PROVE  Gets(o, x, y, v)
<1>1. Leaves(z, u).object = Typed(y) /\ Val(v) \in Leaves(z, u).answers
  BY DEF Leaves
<1>. QED
  BY <1>1 DEF Gets

LEMMA KeyMeans ==
    ASSUME NEW o, o.name \in KeyNames, Rejections(o) = {},
           NEW m, m.cmd \in KeyCmds,
           \A x \in Objects : \A e \in KeyEffects(m, x) :
               \E v : /\ ~is_error(e.reply) /\ KeyResults(o, e.reply) = {Val(v)}
                      /\ Gets(o, x, e.object, v)
    PROVE  Means(m, o)
<1>. SUFFICES ASSUME NEW x \in Objects, NEW e \in KeyEffects(m, x)
              PROVE  Answered(o, x, e)
  BY KeyEffectsOnly, MeansIf, AnsweredAgrees
<1>1. PICK v : /\ ~is_error(e.reply) /\ KeyResults(o, e.reply) = {Val(v)}
               /\ Gets(o, x, e.object, v)
  OBVIOUS
<1>2. Results(o, e.reply) = {Val(v)}
  BY <1>1, KeyResultsOnly
<1>3. \E f \in PromisedOf(o, Typed(x)) : f.object = Typed(e.object) /\ Val(v) \in f.answers
  BY <1>1 DEF PromisedOf, Gets
<1>. QED
  BY <1>1, <1>2, <1>3 DEF Answered

\* Replies with the result that goes with the name.
LEMMA KeyReplies ==
    ASSUME NEW o, NEW n \in Int64
    PROVE  /\ o.name \in {"exists", "expire", "persist"} =>
                 KeyResults(o, make_integer(n)) = {Val(Flag(n = 1))}
           /\ o.name \in {"del", "ttl"} => KeyResults(o, make_integer(n)) = {Val(Count(n))}
           /\ ~is_error(make_integer(n))
BY IntegersRead DEF KeyResults

LEMMA StatusReplies ==
    ASSUME NEW o, NEW t
    PROVE  /\ o.name = "type" => KeyResults(o, make_status(t)) = {Val([kind |-> t])}
           /\ o.name = "ping" => KeyResults(o, make_status(t)) = {Val([pong |-> t])}
           /\ ~is_error(make_status(t))
<1>1. as_text(make_status(t)) = Val(t) /\ as_status(make_status(t)) = Val(t)
  BY DEF as_text, as_status, make_status
<1>2. type_result(make_status(t)) = Val([kind |-> t])
  BY <1>1, Outcomes DEF type_result, Bind, Once
<1>3. pong_result(make_status(t)) = Val([pong |-> t])
  BY <1>1, Outcomes DEF pong_result, Bind, Once
<1>. QED
  BY <1>2, <1>3, NoErrors DEF KeyResults

\* A ping that carries a message gets it back as a text.
LEMMA MessageReplies ==
    ASSUME NEW o, o.name = "ping", NEW t
    PROVE  KeyResults(o, make_string(t)) = {Val([pong |-> t])} /\ ~is_error(make_string(t))
<1>1. as_text(make_string(t)) = Val(t)
  BY DEF as_text, make_string
<1>2. pong_result(make_string(t)) = Val([pong |-> t])
  BY <1>1, Outcomes DEF pong_result, Bind, Once
<1>. QED
  BY <1>2, NoErrors DEF KeyResults

LEMMA ZeroOrOne == 0 \in Int64 /\ 1 \in Int64 /\ -1 \in Int64 /\ -2 \in Int64
BY SmallIntegers

Yes == Flag(TRUE)
No == Flag(FALSE)

Replies(o, r, v) == KeyResults(o, r) = {Val(v)} /\ ~is_error(r)

LEMMA FlagReplies ==
    ASSUME NEW o, o.name \in {"exists", "expire", "persist"}
    PROVE  Replies(o, make_integer(0), No) /\ Replies(o, make_integer(1), Yes)
<1>1. (0 = 1) = FALSE /\ (1 = 1) = TRUE
  OBVIOUS
<1>2. Flag(0 = 1) = Flag(FALSE) /\ Flag(1 = 1) = Flag(TRUE)
  BY <1>1 DEF Flag
<1>3. /\ KeyResults(o, make_integer(0)) = {Val(Flag(0 = 1))}
      /\ KeyResults(o, make_integer(1)) = {Val(Flag(1 = 1))}
      /\ ~is_error(make_integer(0)) /\ ~is_error(make_integer(1))
  BY ZeroOrOne, KeyReplies
<1>. QED
  BY <1>2, <1>3 DEF Replies, Yes, No

\* Whether there is a key.
LEMMA ThereReplies ==
    ASSUME NEW o, o.name \in {"exists", "expire"}, NEW x, NEW r,
           r = make_integer(IF x = NoObject THEN 0 ELSE 1)
    PROVE  KeyResults(o, r) = {Val(Flag(x # NoObject))} /\ ~is_error(r)
<1>0. Replies(o, make_integer(0), No) /\ Replies(o, make_integer(1), Yes)
  BY FlagReplies
<1>1. CASE x = NoObject
  <2>1. r = make_integer(0)
    BY <1>1
  <2>2. Flag(x # NoObject) = No
    BY <1>1 DEF Flag, No
  <2>. QED
    BY <1>0, <2>1, <2>2 DEF Replies
<1>2. CASE x # NoObject
  <2>1. r = make_integer(1)
    BY <1>2
  <2>2. Flag(x # NoObject) = Yes
    BY <1>2 DEF Flag, Yes
  <2>. QED
    BY <1>0, <2>1, <2>2 DEF Replies
<1>. QED
  BY <1>1, <1>2

LEMMA KeyOpsAre ==
    ASSUME "key" \in Views
    PROVE  KeyOps \subseteq Ops
BY DEF Ops

LEMMA TypedNothing == Typed(NoObject) = NoObject
BY DEF Typed, NoObject

LEMMA ExpireMeans ==
    ASSUME NEW cmd \in {"EXPIRE", "PEXPIRE"}, NEW n
    PROVE  Means([cmd |-> cmd, time |-> n], [name |-> "expire", time |-> n])
<1>. DEFINE m == [cmd |-> cmd, time |-> n]
            o == [name |-> "expire", time |-> n]
<1>1. o.name \in KeyNames /\ m.cmd \in KeyCmds /\ Rejections(o) = {}
  BY NotRejected DEF KeyNames, KeyCmds
<1>2. ASSUME NEW x \in Objects, NEW e \in KeyEffects(m, x)
      PROVE  \E v : /\ ~is_error(e.reply) /\ KeyResults(o, e.reply) = {Val(v)}
                    /\ Gets(o, x, e.object, v)
  <2>1. /\ e.object = Expired(x, n)
        /\ e.reply = make_integer(IF x = NoObject THEN 0 ELSE 1)
    BY <1>2, Changed DEF KeyEffects
  <2>2. KeyResults(o, e.reply) = {Val(Flag(x # NoObject))} /\ ~is_error(e.reply)
    BY <2>1, ThereReplies
  <2>3. Flag(Typed(x) # NoObject) = Flag(x # NoObject)
    BY TypedObjects
  <2>4. Expired(Typed(x), n) = Typed(Expired(x, n))
    BY TypedNothing DEF Expired
  <2>5. Leaves(Expired(Typed(x), n), Flag(Typed(x) # NoObject)) \in KeyPromised(o, Typed(x))
    BY DEF KeyPromised, Leaves
  <2>6. Gets(o, x, e.object, Flag(x # NoObject))
    BY <2>1, <2>3, <2>4, <2>5, GetsPromised
  <2>. QED
    BY <2>2, <2>6
<1>. HIDE DEF o, m
<1>3. Means(m, o)
  BY <1>1, <1>2, KeyMeans
<1>. QED
  BY <1>3 DEF o, m

LEMMA ExistsMeans == Means([cmd |-> "EXISTS"], [name |-> "exists"])
<1>. DEFINE m == [cmd |-> "EXISTS"]
            o == [name |-> "exists"]
<1>1. o.name \in KeyNames /\ m.cmd \in KeyCmds /\ Rejections(o) = {}
  BY NotRejected DEF KeyNames, KeyCmds
<1>2. ASSUME NEW x \in Objects, NEW e \in KeyEffects(m, x)
      PROVE  \E v : /\ ~is_error(e.reply) /\ KeyResults(o, e.reply) = {Val(v)}
                    /\ Gets(o, x, e.object, v)
  <2>1. e.object = x /\ e.reply = make_integer(IF x = NoObject THEN 0 ELSE 1)
    BY <1>2, Changed DEF KeyEffects
  <2>2. KeyResults(o, e.reply) = {Val(Flag(x # NoObject))} /\ ~is_error(e.reply)
    BY <2>1, ThereReplies
  <2>3. Flag(Typed(x) # NoObject) = Flag(x # NoObject)
    BY TypedObjects
  <2>4. Leaves(Typed(x), Flag(Typed(x) # NoObject)) \in KeyPromised(o, Typed(x))
    BY DEF KeyPromised, Leaves
  <2>5. Gets(o, x, e.object, Flag(x # NoObject))
    BY <2>1, <2>3, <2>4, GetsPromised
  <2>. QED
    BY <2>2, <2>5
<1>. HIDE DEF o, m
<1>3. Means(m, o)
  BY <1>1, <1>2, KeyMeans
<1>. QED
  BY <1>3 DEF o, m

LEMMA TypeMeans == Means([cmd |-> "TYPE"], [name |-> "type"])
<1>. DEFINE m == [cmd |-> "TYPE"]
            o == [name |-> "type"]
<1>1. o.name \in KeyNames /\ m.cmd \in KeyCmds /\ Rejections(o) = {}
  BY NotRejected DEF KeyNames, KeyCmds
<1>2. ASSUME NEW x \in Objects, NEW e \in KeyEffects(m, x)
      PROVE  \E v : /\ ~is_error(e.reply) /\ KeyResults(o, e.reply) = {Val(v)}
                    /\ Gets(o, x, e.object, v)
  <2>1. e.object = x /\ e.reply = make_status(Kind(x))
    BY <1>2, Changed DEF KeyEffects
  <2>2. KeyResults(o, e.reply) = {Val([kind |-> Kind(x)])} /\ ~is_error(e.reply)
    BY <2>1, StatusReplies
  <2>3. Kind(Typed(x)) = Kind(x)
    <3>1. DOMAIN Typed(x) = DOMAIN x
      BY TypedObjects
    <3>2. Typed(x) = NoObject <=> x = NoObject
      BY TypedObjects
    <3>. QED
      BY <3>1, <3>2 DEF Kind
  <2>4. Leaves(Typed(x), [kind |-> Kind(Typed(x))]) \in KeyPromised(o, Typed(x))
    BY DEF KeyPromised, Leaves
  <2>5. Gets(o, x, e.object, [kind |-> Kind(x)])
    BY <2>1, <2>3, <2>4, GetsPromised
  <2>. QED
    BY <2>2, <2>5
<1>. HIDE DEF o, m
<1>3. Means(m, o)
  BY <1>1, <1>2, KeyMeans
<1>. QED
  BY <1>3 DEF o, m

LEMMA PingMeans == Means([cmd |-> "PING"], [name |-> "ping"])
<1>. DEFINE m == [cmd |-> "PING"]
            o == [name |-> "ping"]
<1>1. o.name \in KeyNames /\ m.cmd \in KeyCmds /\ Rejections(o) = {}
  BY NotRejected DEF KeyNames, KeyCmds
<1>2. ASSUME NEW x \in Objects, NEW e \in KeyEffects(m, x)
      PROVE  \E v : /\ ~is_error(e.reply) /\ KeyResults(o, e.reply) = {Val(v)}
                    /\ Gets(o, x, e.object, v)
  <2>1. e.object = x /\ e.reply = make_status("PONG")
    BY <1>2, Changed DEF KeyEffects
  <2>2. KeyResults(o, e.reply) = {Val([pong |-> "PONG"])} /\ ~is_error(e.reply)
    BY <2>1, StatusReplies
  <2>3. Leaves(Typed(x), [pong |-> "PONG"]) \in KeyPromised(o, Typed(x))
    BY DEF KeyPromised, Leaves
  <2>4. Gets(o, x, e.object, [pong |-> "PONG"])
    BY <2>1, <2>3, GetsPromised
  <2>. QED
    BY <2>2, <2>4
<1>. HIDE DEF o, m
<1>3. Means(m, o)
  BY <1>1, <1>2, KeyMeans
<1>. QED
  BY <1>3 DEF o, m

LEMMA MessageMeans ==
    ASSUME NEW t
    PROVE  Means([cmd |-> "PING", message |-> t], [name |-> "ping", message |-> t])
<1>. DEFINE m == [cmd |-> "PING", message |-> t]
            o == [name |-> "ping", message |-> t]
<1>1. o.name \in KeyNames /\ m.cmd \in KeyCmds /\ Rejections(o) = {}
  BY NotRejected DEF KeyNames, KeyCmds
<1>2. ASSUME NEW x \in Objects, NEW e \in KeyEffects(m, x)
      PROVE  \E v : /\ ~is_error(e.reply) /\ KeyResults(o, e.reply) = {Val(v)}
                    /\ Gets(o, x, e.object, v)
  <2>1. e.object = x /\ e.reply = make_string(t)
    BY <1>2, Changed DEF KeyEffects
  <2>2. KeyResults(o, e.reply) = {Val([pong |-> t])} /\ ~is_error(e.reply)
    BY <2>1, MessageReplies
  <2>3. Leaves(Typed(x), [pong |-> t]) \in KeyPromised(o, Typed(x))
    BY DEF KeyPromised, Leaves
  <2>4. Gets(o, x, e.object, [pong |-> t])
    BY <2>1, <2>3, GetsPromised
  <2>. QED
    BY <2>2, <2>4
<1>. HIDE DEF o, m
<1>3. Means(m, o)
  BY <1>1, <1>2, KeyMeans
<1>. QED
  BY <1>3 DEF o, m

LEMMA TimeLeftMeans ==
    ASSUME NEW cmd \in {"TTL", "PTTL"}
    PROVE  Means([cmd |-> cmd], [name |-> "ttl"])
<1>. DEFINE m == [cmd |-> cmd]
            o == [name |-> "ttl"]
<1>1. o.name \in KeyNames /\ m.cmd \in KeyCmds /\ Rejections(o) = {}
  BY NotRejected DEF KeyNames, KeyCmds
<1>2. ASSUME NEW x \in Objects, NEW e \in KeyEffects(m, x)
      PROVE  \E v : /\ ~is_error(e.reply) /\ KeyResults(o, e.reply) = {Val(v)}
                    /\ Gets(o, x, e.object, v)
  <2>1. PICK n \in TimesLeft(x) : e = Change(x, <<>>, make_integer(n))
    BY <1>2 DEF KeyEffects
  <2>2. e.object = x /\ e.reply = make_integer(n)
    BY <2>1, Changed
  <2>3. n \in Int64
    BY ZeroOrOne, KeyVectorsAssumption DEF TimesLeft
  <2>4. KeyResults(o, e.reply) = {Val(Count(n))} /\ ~is_error(e.reply)
    BY <2>2, <2>3, KeyReplies
  <2>5. TimesLeft(Typed(x)) = TimesLeft(x)
    BY TypedObjects DEF TimesLeft
  <2>6. \A k \in TimesLeft(Typed(x)) : Leaves(Typed(x), Count(k)) \in KeyPromised(o, Typed(x))
    BY DEF KeyPromised, Leaves
  <2>7. Leaves(Typed(x), Count(n)) \in KeyPromised(o, Typed(x))
    BY <2>5, <2>6
  <2>8. Gets(o, x, e.object, Count(n))
    BY <2>2, <2>7, GetsPromised
  <2>. QED
    BY <2>4, <2>8
<1>. HIDE DEF o, m
<1>3. Means(m, o)
  BY <1>1, <1>2, KeyMeans
<1>. QED
  BY <1>3 DEF o, m

LEMMA PersistMeans == Means([cmd |-> "PERSIST"], [name |-> "persist"])
<1>. DEFINE m == [cmd |-> "PERSIST"]
            o == [name |-> "persist"]
<1>1. o.name \in KeyNames /\ m.cmd \in KeyCmds /\ Rejections(o) = {}
  BY NotRejected DEF KeyNames, KeyCmds
<1>2. ASSUME NEW x \in Objects, NEW e \in KeyEffects(m, x)
      PROVE  \E v : /\ ~is_error(e.reply) /\ KeyResults(o, e.reply) = {Val(v)}
                    /\ Gets(o, x, e.object, v)
  <2>0. Replies(o, make_integer(0), No) /\ Replies(o, make_integer(1), Yes)
    BY FlagReplies
  <2>1. PICK n \in IF x = NoObject THEN {0} ELSE 0 .. 1 : e = Change(x, <<>>, make_integer(n))
    BY <1>2 DEF KeyEffects
  <2>2. e.object = x /\ e.reply = make_integer(n)
    BY <2>1, Changed
  <2>3. n = 0 \/ (n = 1 /\ x # NoObject)
    OBVIOUS
  <2>4. /\ Leaves(Typed(x), No) \in KeyPromised(o, Typed(x))
        /\ Typed(x) # NoObject => Leaves(Typed(x), Yes) \in KeyPromised(o, Typed(x))
    BY DEF KeyPromised, Leaves, Yes, No
  <2>5. CASE n = 0
    <3>1. KeyResults(o, e.reply) = {Val(No)} /\ ~is_error(e.reply)
      <4>1. e.reply = make_integer(0)
        BY <2>2, <2>5
      <4>. QED
        BY <2>0, <4>1 DEF Replies
    <3>. QED
      BY <2>2, <2>4, <3>1, GetsPromised
  <2>6. CASE n = 1 /\ x # NoObject
    <3>1. KeyResults(o, e.reply) = {Val(Yes)} /\ ~is_error(e.reply)
      <4>1. e.reply = make_integer(1)
        BY <2>2, <2>6
      <4>. QED
        BY <2>0, <4>1 DEF Replies
    <3>2. Typed(x) # NoObject
      BY <2>6, TypedObjects
    <3>. QED
      BY <2>2, <2>4, <3>1, <3>2, GetsPromised
  <2>. QED
    BY <2>3, <2>5, <2>6
<1>. HIDE DEF o, m
<1>3. Means(m, o)
  BY <1>1, <1>2, KeyMeans
<1>. QED
  BY <1>3 DEF o, m

LEMMA DeleteMeans ==
    ASSUME NEW n \in Nat, n # 0
    PROVE  Means([cmd |-> "DEL", keys |-> n], [name |-> "del", keys |-> n])
<1>. DEFINE m == [cmd |-> "DEL", keys |-> n]
            o == [name |-> "del", keys |-> n]
<1>1. o.name \in KeyNames /\ m.cmd \in KeyCmds /\ Rejections(o) = {}
  BY NotRejected DEF KeyNames, KeyCmds
<1>2. ASSUME NEW x \in Objects, NEW e \in KeyEffects(m, x)
      PROVE  \E v : /\ ~is_error(e.reply) /\ KeyResults(o, e.reply) = {Val(v)}
                    /\ Gets(o, x, e.object, v)
  <2>. DEFINE k == IF x = NoObject THEN 0 ELSE 1
  <2>1. e.object = NoObject /\ e.reply = make_integer(k)
    BY <1>2, Changed DEF KeyEffects
  <2>2. KeyResults(o, e.reply) = {Val(Count(k))} /\ ~is_error(e.reply)
    <3>1. k \in Int64
      BY ZeroOrOne
    <3>. HIDE DEF k
    <3>. QED
      BY <2>1, <3>1, KeyReplies
  <2>3. Leaves(NoObject, Count(IF Typed(x) = NoObject THEN 0 ELSE 1)) \in KeyPromised(o, Typed(x))
    BY DEF KeyPromised, Leaves
  <2>4. Count(IF Typed(x) = NoObject THEN 0 ELSE 1) = Count(k)
    BY TypedObjects
  <2>. HIDE DEF k
  <2>5. Gets(o, x, e.object, Count(k))
    BY <2>1, <2>3, <2>4, TypedNothing, GetsPromised
  <2>. QED
    BY <2>2, <2>5
<1>. HIDE DEF o, m
<1>3. Means(m, o)
  BY <1>1, <1>2, KeyMeans
<1>. QED
  BY <1>3 DEF o, m

LEMMA KeyCallProper ==
    ASSUME "key" \in Views, NEW c, KeyCall(c)
    PROVE  ProperCall(c)
<1>1. ASSUME NEW name, NEW cmd, Call(c, [name |-> name], Val([cmd |-> cmd])),
             name \in {"exists", "type", "ttl", "persist", "ping"},
             Means([cmd |-> cmd], [name |-> name])
      PROVE  ProperCall(c)
  <2>1. [name |-> name] \in Ops
    BY <1>1, KeyOpsAre DEF KeyOps
  <2>. QED
    BY <1>1, <2>1, ProperCommand DEF ProperCall
<1>2. CASE exists(c)
  BY <1>1, <1>2, ExistsMeans DEF exists
<1>3. CASE type(c)
  BY <1>1, <1>3, TypeMeans DEF type
<1>4. CASE ttl(c)
  BY <1>1, <1>4, TimeLeftMeans DEF ttl, Plainly
<1>5. CASE pttl(c)
  BY <1>1, <1>5, TimeLeftMeans DEF pttl, Plainly
<1>6. CASE persist(c)
  BY <1>1, <1>6, PersistMeans DEF persist, Plainly
<1>7. CASE ping(c)
  BY <1>1, <1>7, PingMeans DEF ping, Plainly
<1>12. ASSUME NEW t \in Messages, ping_message(c, t)
       PROVE  ProperCall(c)
  <2>1. [name |-> "ping", message |-> t] \in Ops
    BY <1>12, KeyOpsAre DEF KeyOps
  <2>2. Proper([name |-> "ping", message |-> t], Val([cmd |-> "PING", message |-> t]))
    BY <2>1, MessageMeans, ProperCommand
  <2>. QED
    BY <1>12, <2>2 DEF ProperCall, ping_message
<1>8. ASSUME NEW n \in Times, expire(c, n) \/ pexpire(c, n)
      PROVE  ProperCall(c)
  <2>1. [name |-> "expire", time |-> n] \in Ops
    BY <1>8, KeyOpsAre DEF KeyOps
  <2>2. \A cmd \in {"EXPIRE", "PEXPIRE"} :
           Proper([name |-> "expire", time |-> n], Val([cmd |-> cmd, time |-> n]))
    BY <2>1, ExpireMeans, ProperCommand
  <2>. QED
    BY <1>8, <2>2 DEF ProperCall, expire, pexpire
<1>9. ASSUME NEW n \in KeyVectors \cup {1},
             Call(c, [name |-> "del", keys |-> n], Del(n))
      PROVE  ProperCall(c)
  <2>. DEFINE o == [name |-> "del", keys |-> n]
  <2>1. o \in Ops
    BY <1>9, KeyOpsAre DEF KeyOps
  <2>2. n \in Nat
    BY <1>9, KeyVectorsAssumption
  <2>3. CASE n = 0
    <3>1. OutcomeOf(Del(n)) = Val(Count(0)) /\ ~Del(n).ok
      BY <2>3 DEF Del, OutcomeOf, Done
    <3>2. Rejections(o) = {}
      BY NotRejected
    <3>3. ASSUME NEW y
          PROVE  Val(Count(0)) \in AtOnce(o, y)
      <4>1. Leaves(y, Count(0)) \in KeyPromised(o, y)
        BY <2>3 DEF KeyPromised, Leaves
      <4>2. Leaves(y, Count(0)) \in Apply(o, y)
        BY <3>2, <4>1, Promised DEF PromisedOf
      <4>3. Leaves(y, Count(0)).object = y /\ Val(Count(0)) \in Leaves(y, Count(0)).answers
        BY DEF Leaves
      <4>. QED
        BY <4>2, <4>3 DEF AtOnce
    <3>4. Proper(o, Del(n))
      BY <2>1, <3>1, <3>3 DEF Proper
    <3>. QED
      BY <1>9, <3>4 DEF ProperCall
  <2>4. CASE n # 0
    <3>1. Del(n) = Val([cmd |-> "DEL", keys |-> n])
      BY <2>4 DEF Del
    <3>2. Means([cmd |-> "DEL", keys |-> n], o)
      BY <2>2, <2>4, DeleteMeans
    <3>3. Proper(o, Del(n))
      BY <2>1, <3>1, <3>2, ProperCommand
    <3>. QED
      BY <1>9, <3>3 DEF ProperCall
  <2>. QED
    BY <2>3, <2>4
<1>10. CASE del(c)
  <2>1. Call(c, [name |-> "del", keys |-> 1], Del(1))
    BY <1>10 DEF del, Del
  <2>. QED
    BY <1>9, <2>1
<1>11. ASSUME NEW n \in KeyVectors, del_list(c, n)
       PROVE  ProperCall(c)
  BY <1>9, <1>11 DEF del_list
<1>. QED
  BY <1>2, <1>3, <1>4, <1>5, <1>6, <1>7, <1>8, <1>10, <1>11, <1>12 DEF KeyCall
-----------------------------------------------------------------------------
(* The operations on a single value.                                        *)

ValueCmds == {"SET", "SET NX", "GET", "GETSET", "INCRBY", "DECRBY", "APPEND"}
ValueNames == {"set", "set_text", "set_not_exists", "get", "get_and_set", "incr", "decr",
               "append"}

LEMMA ValueResultsOnly ==
    ASSUME NEW o, o.name \in ValueNames, NEW r, ~is_error(r)
    PROVE  Results(o, r) = ValueResults(o, r)
<1>1. KeyResults(o, r) = {} /\ HashResults(o, r) = {}
  BY DEF KeyResults, HashResults, ValueNames
<1>2. SetResults(o, r) = {} /\ ZSetResults(o, r) = {} /\ ListResults(o, r) = {}
  BY DEF SetResults, ZSetResults, ListResults, ValueNames
<1>. QED
  BY <1>1, <1>2, PlainResults

LEMMA ValueEffectsOnly ==
    ASSUME NEW m, m.cmd \in ValueCmds, NEW x
    PROVE  /\ KeyEffects(m, x) = {} /\ HashEffects(m, x) = {} /\ SetEffects(m, x) = {}
           /\ ZSetEffects(m, x) = {} /\ ListEffects(m, x) = {}
<1>1. KeyEffects(m, x) = {}
  BY DEF KeyEffects, ValueCmds
<1>2. HashEffects(m, x) = {}
  <2>1. m.cmd \notin {"HGET", "HMGET", "HGETALL", "HKEYS", "HVALS", "HSCAN", "HSET", "HDEL"}
    BY DEF ValueCmds
  <2>. QED
    BY <2>1 DEF HashEffects
<1>3. SetEffects(m, x) = {}
  BY DEF SetEffects, ValueCmds
<1>4. ZSetEffects(m, x) = {}
  BY DEF ZSetEffects, ValueCmds
<1>5. ListEffects(m, x) = {}
  BY DEF ListEffects, ValueCmds
<1>. QED
  BY <1>1, <1>2, <1>3, <1>4, <1>5

\* What the view makes of the reply is w, which is promised.
ValueAnswered(o, x, e) ==
    \E w : /\ ~is_error(e.reply) /\ ValueResults(o, e.reply) = {w}
           /\ (\E v : w = Val(v)) \/ w = Throw("deserialize")
           /\ \E f \in ValuePromised(o, Typed(x)) :
                 f.object = Typed(e.object) /\ w \in f.answers

LEMMA ValueMeans ==
    ASSUME NEW o, o.name \in ValueNames, Rejections(o) = {},
           NEW m, m.cmd \in ValueCmds,
           \A x \in Objects : \A e \in ValueEffects(m, x) :
               e.object \in Objects => ValueAnswered(o, x, e)
    PROVE  Means(m, o)
<1>. SUFFICES ASSUME NEW x \in Objects, NEW e \in ValueEffects(m, x), e.object \in Objects
              PROVE  Answered(o, x, e)
  BY ValueEffectsOnly, MeansIf, AnsweredAgrees
<1>1. PICK w : /\ ~is_error(e.reply) /\ ValueResults(o, e.reply) = {w}
               /\ (\E v : w = Val(v)) \/ w = Throw("deserialize")
               /\ \E f \in ValuePromised(o, Typed(x)) :
                     f.object = Typed(e.object) /\ w \in f.answers
  BY DEF ValueAnswered
<1>2. Results(o, e.reply) = {w}
  BY <1>1, ValueResultsOnly
<1>3. \E f \in PromisedOf(o, Typed(x)) : f.object = Typed(e.object) /\ w \in f.answers
  BY <1>1 DEF PromisedOf
<1>. QED
  BY <1>1, <1>2, <1>3 DEF Answered

LEMMA ValueAnsweredSo ==
    ASSUME NEW o, NEW x, NEW e, NEW w, ~is_error(e.reply), ValueResults(o, e.reply) = {w},
           (\E v : w = Val(v)) \/ w = Throw("deserialize"),
           ValueGives(Typed(e.object), w) \in ValuePromised(o, Typed(x))
    PROVE  ValueAnswered(o, x, e)
<1>1. /\ ValueGives(Typed(e.object), w).object = Typed(e.object)
      /\ w \in ValueGives(Typed(e.object), w).answers
  BY DEF ValueGives
<1>. QED
  BY <1>1 DEF ValueAnswered

\* Values are the same to the program and to the server.
LEMMA TypedString ==
    /\ \A t : Typed(AsString(t)) = AsString(t)
    /\ \A x \in Objects : /\ OfKind(Typed(x), "string") <=> OfKind(x, "string")
                          /\ OfKind(x, "string") => Typed(x) = x
                          /\ OfKind(x, "string") /\ x # NoObject => x.string \in Text
<1>1. \A t : Typed(AsString(t)) = AsString(t)
  BY DEF Typed, AsString
<1>2. ASSUME NEW x \in Objects
      PROVE  /\ OfKind(Typed(x), "string") <=> OfKind(x, "string")
             /\ OfKind(x, "string") => Typed(x) = x
             /\ OfKind(x, "string") /\ x # NoObject => x.string \in Text
  <2>1. (Typed(x) = NoObject <=> x = NoObject) /\ DOMAIN Typed(x) = DOMAIN x
    BY TypedObjects
  <2>2. OfKind(Typed(x), "string") <=> OfKind(x, "string")
    BY <2>1 DEF OfKind
  <2>3. ASSUME "string" \in DOMAIN x
        PROVE  Typed(x) = x /\ x.string \in Text
    BY <2>3, <1>1, ObjectsAssumption
  <2>4. x = NoObject => Typed(x) = x
    BY <2>1
  <2>. QED
    BY <2>2, <2>3, <2>4 DEF OfKind
<1>. QED
  BY <1>1, <1>2

LEMMA Stored ==
    /\ stored_result(make_status("OK")) = Val(Yes)
    /\ stored_result(make_nil) = Val(No)
<1>1. as_status(make_status("OK")) = Val("OK")
  BY DEF as_status, as_text, make_status
<1>2. status_is_ok(make_status("OK")) = Val("OK" = "OK")
  BY <1>1, Outcomes DEF status_is_ok, Bind, Once
<1>3. set_result(make_status("OK")) = Val("OK" = "OK")
  BY <1>2 DEF set_result, make_status
<1>. DEFINE flagged(b) == Val(Flag(b))
<1>8. \A v : Bind(Val(v), flagged) = flagged(v)
  <2>. HIDE DEF flagged
  <2>. QED
    BY Outcomes DEF Bind, Once
<1>4. stored_result(make_status("OK")) = Val(Flag("OK" = "OK"))
  BY <1>3, <1>8, Zenon DEF stored_result
<1>5. Flag("OK" = "OK") = Yes
  BY DEF Flag, Yes
<1>6. set_result(make_nil) = Val(FALSE)
  BY DEF set_result, make_nil
<1>7. stored_result(make_nil) = Val(No)
  BY <1>6, <1>8, Zenon DEF stored_result, No
<1>. QED
  BY <1>4, <1>5, <1>7

\* The reply with the value that was there.
LEMMA CurrentRead ==
    ASSUME NEW x \in Objects, OfKind(x, "string"),
           NEW r, r = StringOrNil(StringOf(x))
    PROVE  /\ ~is_error(r) /\ element_result(r) = Current(x)
           /\ (\E v : Current(x) = Val(v)) \/ Current(x) = Throw("deserialize")
<1>1. ~is_error(r)
  BY NoErrors
<1>2. CASE x = NoObject
  <2>1. r = make_nil
    BY <1>2 DEF StringOrNil, StringOf, None
  <2>2. Current(x) = Val(Element(None))
    BY <1>2 DEF Current
  <2>. QED
    BY <1>1, <2>1, <2>2, ElementOfNil
<1>3. CASE x # NoObject
  <2>1. r = make_string(x.string)
    BY <1>3 DEF StringOrNil, StringOf, None, Some
  <2>. QED
    BY <1>1, <1>3, <2>1, ElementOfString DEF Current
<1>. QED
  BY <1>2, <1>3

LEMMA StoreMeans ==
    ASSUME NEW o, NEW t, Rejections(o) = {},
           \/ o.name = "set" /\ serialize_value[o.values[1]] = t
           \/ o.name = "set_text" /\ o.text = t
    PROVE  Means([cmd |-> "SET", text |-> t], o)
<1>. DEFINE m == [cmd |-> "SET", text |-> t]
<1>1. o.name \in ValueNames /\ m.cmd \in ValueCmds
  BY DEF ValueNames, ValueCmds
<1>2. ASSUME NEW x \in Objects, NEW e \in ValueEffects(m, x)
      PROVE  ValueAnswered(o, x, e)
  <2>1. e.object = AsString(t) /\ e.reply = make_status("OK")
    BY <1>2, Changed DEF ValueEffects
  <2>2. ~is_error(e.reply)
    BY <2>1, NoErrors
  <2>3. ValueResults(o, e.reply) = {Val(Yes)}
    BY <2>1, Stored DEF ValueResults
  <2>4. ValueGives(AsString(t), Val(Flag(TRUE))) \in ValuePromised(o, Typed(x))
    BY DEF ValuePromised
  <2>5. Typed(e.object) = AsString(t)
    BY <2>1, TypedString
  <2>. QED
    BY <2>2, <2>3, <2>4, <2>5, ValueAnsweredSo DEF Yes
<1>. HIDE DEF m
<1>3. Means(m, o)
  BY <1>1, <1>2, ValueMeans
<1>. QED
  BY <1>3 DEF m

LEMMA SetNotExistsMeans ==
    ASSUME NEW t
    PROVE  Means([cmd |-> "SET NX", text |-> t], [name |-> "set_not_exists", text |-> t])
<1>. DEFINE m == [cmd |-> "SET NX", text |-> t]
            o == [name |-> "set_not_exists", text |-> t]
<1>1. o.name \in ValueNames /\ m.cmd \in ValueCmds /\ Rejections(o) = {}
  BY NotRejected DEF ValueNames, ValueCmds
<1>2. ASSUME NEW x \in Objects, NEW e \in ValueEffects(m, x)
      PROVE  ValueAnswered(o, x, e)
  <2>1. x = NoObject <=> Typed(x) = NoObject
    BY TypedObjects
  <2>2. CASE x = NoObject
    <3>1. e.object = AsString(t) /\ e.reply = make_status("OK")
      BY <1>2, <2>2, Changed DEF ValueEffects
    <3>2. ~is_error(e.reply)
      BY <3>1, NoErrors
    <3>3. ValueResults(o, e.reply) = {Val(Yes)}
      BY <3>1, Stored DEF ValueResults
    <3>4. ValueGives(AsString(t), Val(Yes)) \in ValuePromised(o, Typed(x))
      BY <2>1, <2>2 DEF ValuePromised, Flag, Yes
    <3>5. Typed(e.object) = AsString(t)
      BY <3>1, TypedString
    <3>. QED
      BY <3>2, <3>3, <3>4, <3>5, ValueAnsweredSo
  <2>3. CASE x # NoObject
    <3>1. e.object = x /\ e.reply = make_nil
      BY <1>2, <2>3, Changed DEF ValueEffects
    <3>2. ~is_error(e.reply)
      BY <3>1, NoErrors
    <3>3. ValueResults(o, e.reply) = {Val(No)}
      BY <3>1, Stored DEF ValueResults
    <3>4. ValueGives(Typed(x), Val(No)) \in ValuePromised(o, Typed(x))
      BY <2>1, <2>3 DEF ValuePromised, Flag, No
    <3>. QED
      BY <3>1, <3>2, <3>3, <3>4, ValueAnsweredSo
  <2>. QED
    BY <2>2, <2>3
<1>. HIDE DEF o, m
<1>3. Means(m, o)
  BY <1>1, <1>2, ValueMeans
<1>. QED
  BY <1>3 DEF o, m

LEMMA GetMeans == Means([cmd |-> "GET"], [name |-> "get"])
<1>. DEFINE m == [cmd |-> "GET"]
            o == [name |-> "get"]
<1>1. o.name \in ValueNames /\ m.cmd \in ValueCmds /\ Rejections(o) = {}
  BY NotRejected DEF ValueNames, ValueCmds
<1>2. ASSUME NEW x \in Objects, NEW e \in ValueEffects(m, x)
      PROVE  ValueAnswered(o, x, e)
  <2>1. OfKind(x, "string")
    BY <1>2 DEF ValueEffects
  <2>2. e.object = x /\ e.reply = StringOrNil(StringOf(x))
    BY <1>2, <2>1, Changed DEF ValueEffects
  <2>3. /\ ~is_error(e.reply) /\ element_result(e.reply) = Current(x)
        /\ (\E v : Current(x) = Val(v)) \/ Current(x) = Throw("deserialize")
    BY <2>1, <2>2, CurrentRead
  <2>4. ValueResults(o, e.reply) = {Current(x)}
    BY <2>3 DEF ValueResults
  <2>5. ValueGives(x, Current(x)) \in ValuePromised(o, x)
    BY <2>1 DEF ValuePromised
  <2>6. Typed(x) = x
    BY <2>1, TypedString
  <2>. QED
    BY <2>2, <2>3, <2>4, <2>5, <2>6, ValueAnsweredSo
<1>. HIDE DEF o, m
<1>3. Means(m, o)
  BY <1>1, <1>2, ValueMeans
<1>. QED
  BY <1>3 DEF o, m

LEMMA GetAndSetMeans ==
    ASSUME NEW o, NEW t, Rejections(o) = {},
           o.name = "get_and_set", serialize_value[o.values[1]] = t
    PROVE  Means([cmd |-> "GETSET", text |-> t], o)
<1>. DEFINE m == [cmd |-> "GETSET", text |-> t]
<1>1. o.name \in ValueNames /\ m.cmd \in ValueCmds
  BY DEF ValueNames, ValueCmds
<1>2. ASSUME NEW x \in Objects, NEW e \in ValueEffects(m, x)
      PROVE  ValueAnswered(o, x, e)
  <2>1. OfKind(x, "string")
    BY <1>2 DEF ValueEffects
  <2>2. e.object = AsString(t) /\ e.reply = StringOrNil(StringOf(x))
    BY <1>2, <2>1, Changed DEF ValueEffects
  <2>3. /\ ~is_error(e.reply) /\ element_result(e.reply) = Current(x)
        /\ (\E v : Current(x) = Val(v)) \/ Current(x) = Throw("deserialize")
    BY <2>1, <2>2, CurrentRead
  <2>4. ValueResults(o, e.reply) = {Current(x)}
    BY <2>3 DEF ValueResults
  <2>5. ValueGives(AsString(t), Current(x)) \in ValuePromised(o, x)
    BY <2>1 DEF ValuePromised
  <2>6. Typed(x) = x /\ Typed(e.object) = AsString(t)
    BY <2>1, <2>2, TypedString
  <2>. QED
    BY <2>3, <2>4, <2>5, <2>6, ValueAnsweredSo
<1>. HIDE DEF m
<1>3. Means(m, o)
  BY <1>1, <1>2, ValueMeans
<1>. QED
  BY <1>3 DEF m

\* A text that the server makes, and a number it answers with it.
LEMMA NumberAnswered ==
    ASSUME NEW o, o.name \in {"incr", "decr", "append"}, NEW x, NEW e, NEW t, NEW n \in Int64,
           e.object = AsString(t), e.reply = make_integer(n),
           ValueGives(AsString(t), Val(Count(n))) \in ValuePromised(o, Typed(x))
    PROVE  ValueAnswered(o, x, e)
<1>1. count_result(e.reply) = Val(Count(n)) /\ ~is_error(e.reply)
  BY IntegersRead
<1>2. ValueResults(o, e.reply) = {Val(Count(n))}
  BY <1>1 DEF ValueResults
<1>3. Typed(e.object) = AsString(t)
  BY TypedString
<1>. QED
  BY <1>1, <1>2, <1>3, ValueAnsweredSo

LEMMA AddMeans ==
    ASSUME NEW d, NEW name, NEW cmd,
           <<name, cmd>> \in {<<"incr", "INCRBY">>, <<"decr", "DECRBY">>}
    PROVE  Means([cmd |-> cmd, delta |-> d], [name |-> name, delta |-> d])
<1>. DEFINE m == [cmd |-> cmd, delta |-> d]
            o == [name |-> name, delta |-> d]
            n == IF cmd = "INCRBY" THEN d ELSE -d
<1>1. o.name \in ValueNames /\ m.cmd \in ValueCmds /\ Rejections(o) = {}
  BY NotRejected DEF ValueNames, ValueCmds
<1>2. ASSUME NEW x \in Objects, NEW e \in ValueEffects(m, x)
      PROVE  ValueAnswered(o, x, e)
  <2>1. OfKind(x, "string")
    BY <1>2 DEF ValueEffects
  <2>2. PICK t \in Sums(x, n) : e = Change(AsString(t), <<>>, make_integer(NumberOf[t]))
    BY <1>2, <2>1 DEF ValueEffects
  <2>3. t \in DOMAIN NumberOf
    BY <2>2 DEF Sums
  <2>4. NumberOf[t] \in Int64
    BY <2>3, NumbersAssumption
  <2>5. \A s \in Sums(x, n) :
           ValueGives(AsString(s), Val(Count(NumberOf[s]))) \in ValuePromised(o, x)
    <3>1. CASE name = "incr" /\ cmd = "INCRBY"
      BY <2>1, <3>1 DEF ValuePromised
    <3>2. CASE name = "decr" /\ cmd = "DECRBY"
      BY <2>1, <3>2 DEF ValuePromised
    <3>. QED
      BY <3>1, <3>2
  <2>6. Typed(x) = x
    BY <2>1, TypedString
  <2>7. ValueGives(AsString(t), Val(Count(NumberOf[t]))) \in ValuePromised(o, Typed(x))
    BY <2>2, <2>5, <2>6
  <2>8. o.name \in {"incr", "decr", "append"}
    OBVIOUS
  <2>9. e.object = AsString(t) /\ e.reply = make_integer(NumberOf[t])
    BY <2>2, Changed
  <2>. HIDE DEF o
  <2>. QED
    BY <2>4, <2>7, <2>8, <2>9, NumberAnswered
<1>. HIDE DEF o, m
<1>3. Means(m, o)
  BY <1>1, <1>2, ValueMeans
<1>. QED
  BY <1>3 DEF o, m

LEMMA AppendMeans ==
    ASSUME NEW o, NEW v \in DOMAIN serialize_value, NEW t, t = serialize_value[v],
           Rejections(o) = {}, o.name = "append", serialize_value[o.values[1]] = t
    PROVE  Means([cmd |-> "APPEND", text |-> t], o)
<1>. DEFINE m == [cmd |-> "APPEND", text |-> t]
<1>1. o.name \in ValueNames /\ m.cmd \in ValueCmds
  BY DEF ValueNames, ValueCmds
<1>2. ASSUME NEW x \in Objects, NEW e \in ValueEffects(m, x)
      PROVE  ValueAnswered(o, x, e)
  <2>1. OfKind(x, "string")
    BY <1>2 DEF ValueEffects
  <2>2. PICK s \in Joined(x, t) : e = Change(AsString(s), <<>>, make_integer(LengthOf[s]))
    BY <1>2, <2>1 DEF ValueEffects
  <2>3. LengthOf[s] \in Int64
    <3>1. CASE x = NoObject
      BY <2>2, <3>1, NumbersAssumption DEF Joined
    <3>2. CASE x # NoObject
      BY <2>2, <3>2, NumbersAssumption DEF Joined
    <3>. QED
      BY <3>1, <3>2
  <2>4. \A u \in Joined(x, t) :
           ValueGives(AsString(u), Val(Count(LengthOf[u]))) \in ValuePromised(o, x)
    BY <2>1 DEF ValuePromised
  <2>5. Typed(x) = x
    BY <2>1, TypedString
  <2>6. ValueGives(AsString(s), Val(Count(LengthOf[s]))) \in ValuePromised(o, Typed(x))
    BY <2>2, <2>4, <2>5
  <2>7. e.object = AsString(s) /\ e.reply = make_integer(LengthOf[s])
    BY <2>2, Changed
  <2>. QED
    BY <2>3, <2>6, <2>7, NumberAnswered
<1>. HIDE DEF m
<1>3. Means(m, o)
  BY <1>1, <1>2, ValueMeans
<1>. QED
  BY <1>3 DEF m

LEMMA ValueOpsAre ==
    ASSUME "value" \in Views
    PROVE  ValueOps \subseteq Ops
BY DEF Ops

LEMMA ValueCallProper ==
    ASSUME "value" \in Views, NEW c, ValueCall(c)
    PROVE  ProperCall(c)
<1>1. ASSUME NEW t \in DOMAIN NumberOf, set_not_exists(c, t) \/ set_ex(c, t) \/ set_px(c, t)
      PROVE  ProperCall(c)
  <2>1. CASE set_not_exists(c, t)
    <3>. DEFINE o == [name |-> "set_not_exists", text |-> t]
                m == [cmd |-> "SET NX", text |-> t]
    <3>1. Call(c, o, Val(m))
      BY <2>1 DEF set_not_exists, SetText
    <3>2. o \in Ops
      BY ValueOpsAre DEF ValueOps
    <3>3. Means(m, o)
      BY SetNotExistsMeans
    <3>. HIDE DEF o, m
    <3>. QED
      BY <3>1, <3>2, <3>3, ProperCommand DEF ProperCall
  <2>2. CASE set_ex(c, t) \/ set_px(c, t)
    <3>. DEFINE o == [name |-> "set_text", text |-> t]
                m == [cmd |-> "SET", text |-> t]
    <3>1. Call(c, o, Val(m))
      BY <2>2 DEF set_ex, set_px, SetText
    <3>2. o \in Ops
      BY ValueOpsAre DEF ValueOps
    <3>3. Rejections(o) = {} /\ o.name = "set_text" /\ o.text = t
      BY NotRejected
    <3>4. Means(m, o)
      BY <3>3, StoreMeans
    <3>. HIDE DEF o, m
    <3>. QED
      BY <3>1, <3>2, <3>4, ProperCommand DEF ProperCall
  <2>. QED
    BY <1>1, <2>1, <2>2
<1>2. ASSUME NEW v \in Value, NEW name, NEW cmd,
             <<name, cmd>> \in {<<"set", "SET">>, <<"append", "APPEND">>,
                                <<"get_and_set", "GETSET">>},
             Call(c, [name |-> name, values |-> <<v>>], Store(cmd, v))
      PROVE  ProperCall(c)
  <2>. DEFINE o == [name |-> name, values |-> <<v>>]
  <2>1. o \in Ops
    BY <1>2, ValueOpsAre DEF ValueOps
  <2>2. o.name = name /\ o.values = <<v>> /\ o.values[1] = v /\ DOMAIN o.values = {1}
    BY <1>2
  <2>3. CASE v \notin DOMAIN serialize_value /\ Serialized(v) = Throw("serialize")
    <3>1. Store(cmd, v) = Throw("serialize")
      BY <2>3, Outcomes DEF Store, Bind, Once
    <3>2. "values" \in DOMAIN o
      OBVIOUS
    <3>. HIDE DEF o
    <3>3. Proper(o, Throw("serialize"))
      BY <2>1, <2>2, <2>3, <3>2, IsRejected
    <3>. QED
      BY <1>2, <3>1, <3>3 DEF ProperCall, o
  <2>4. ASSUME v \in DOMAIN serialize_value, NEW t \in Text, t = serialize_value[v],
               Serialized(v) = Val(t)
        PROVE  ProperCall(c)
    <3>1. Store(cmd, v) = Val([cmd |-> cmd, text |-> t])
      BY <2>4, Outcomes DEF Store, Bind, Once
    <3>2. Rejections(o) = {}
      <4>1. name # "hget" /\ name # "hget_batch" /\ name # "hset" /\ name # "hdel"
        BY <1>2
      <4>. HIDE DEF o
      <4>. QED
        BY <2>2, <2>4, <4>1, NotRejected
    <3>. HIDE DEF o
    <3>3. Means([cmd |-> cmd, text |-> t], o)
      <4>1. CASE name = "set" /\ cmd = "SET"
        BY <2>2, <2>4, <3>2, <4>1, StoreMeans
      <4>2. CASE name = "append" /\ cmd = "APPEND"
        BY <2>2, <2>4, <3>2, <4>2, AppendMeans
      <4>3. CASE name = "get_and_set" /\ cmd = "GETSET"
        BY <2>2, <2>4, <3>2, <4>3, GetAndSetMeans
      <4>. QED
        BY <1>2, <4>1, <4>2, <4>3
    <3>4. Proper(o, Store(cmd, v))
      BY <2>1, <3>1, <3>3, ProperCommand
    <3>. QED
      BY <1>2, <3>4 DEF ProperCall, o
  <2>. QED
    BY <1>2, <2>3, <2>4, SerializedResult
<1>3. ASSUME NEW v \in Value, set(c, v) \/ append(c, v) \/ get_and_set(c, v)
      PROVE  ProperCall(c)
  <2>1. CASE set(c, v)
    BY <1>2, <2>1 DEF set
  <2>2. CASE append(c, v)
    BY <1>2, <2>2 DEF append
  <2>3. CASE get_and_set(c, v)
    BY <1>2, <2>3 DEF get_and_set
  <2>. QED
    BY <1>3, <2>1, <2>2, <2>3
<1>4. CASE get(c)
  <2>1. [name |-> "get"] \in Ops
    BY ValueOpsAre DEF ValueOps
  <2>. QED
    BY <1>4, <2>1, GetMeans, ProperCommand DEF ProperCall, get
<1>5. ASSUME NEW d \in Deltas, incr(c, d) \/ decr(c, d)
      PROVE  ProperCall(c)
  <2>. SUFFICES ASSUME NEW name, NEW cmd,
                       <<name, cmd>> \in {<<"incr", "INCRBY">>, <<"decr", "DECRBY">>},
                       Call(c, [name |-> name, delta |-> d], Val([cmd |-> cmd, delta |-> d]))
                PROVE  ProperCall(c)
    BY <1>5 DEF incr, decr
  <2>1. [name |-> name, delta |-> d] \in Ops
    BY <1>5, ValueOpsAre DEF ValueOps
  <2>2. Means([cmd |-> cmd, delta |-> d], [name |-> name, delta |-> d])
    BY AddMeans
  <2>. QED
    BY <2>1, <2>2, ProperCommand DEF ProperCall
<1>. QED
  BY <1>1, <1>3, <1>4, <1>5 DEF ValueCall
-----------------------------------------------------------------------------
(* The operations on a set.                                                 *)

\* The orders of a finite set: sequences in which every member is.
LEMMA Orders ==
    ASSUME NEW S, IsFiniteSet(S)
    PROVE  /\ \A s \in SetToSeqs(S) : /\ s \in Seq(S) /\ Len(s) = Cardinality(S)
                                      /\ \A t \in S : \E i \in DOMAIN s : s[i] = t
           /\ SetToSeq(S) \in SetToSeqs(S)
<1>. DEFINE n == Cardinality(S)
            D == 1 .. n
<1>1. n \in Nat /\ IsFiniteSet(D) /\ Cardinality(D) = n
  BY FS_CardinalityType, FS_Interval
<1>2. \E f \in [D -> S] : IsInjective(f)
  <2>1. ExistsBijection(1 .. n, S)
    BY FS_CardinalityType
  <2>2. PICK f : f \in Bijection(1 .. n, S)
    BY <2>1 DEF ExistsBijection
  <2>3. f \in [1 .. n -> S] /\ IsInjective(f)
    BY <2>2 DEF Bijection, Injection, IsInjective
  <2>. QED
    BY <2>3
<1>3. SetToSeq(S) \in [D -> S] /\ IsInjective(SetToSeq(S))
  BY <1>2 DEF SetToSeq
<1>4. SetToSeqs(S) = {f \in [D -> S] : \A i, j \in D : i # j => f[i] # f[j]}
  BY DEF SetToSeqs
<1>. HIDE DEF n
<1>5. SetToSeq(S) \in SetToSeqs(S)
  BY <1>3, <1>4 DEF IsInjective
<1>6. ASSUME NEW s \in SetToSeqs(S)
      PROVE  /\ s \in Seq(S) /\ Len(s) = n
             /\ \A t \in S : \E i \in DOMAIN s : s[i] = t
  <2>1. s \in [D -> S] /\ \A i, j \in D : i # j => s[i] # s[j]
    BY <1>4
  <2>2. s \in Seq(S) /\ Len(s) = n
    BY <1>1, <2>1
  <2>3. s \in Injection(D, S)
    BY <2>1 DEF Injection, IsInjective
  <2>4. s \in Surjection(D, S)
    BY <1>1, <2>3, FS_Injection DEF n
  <2>. QED
    BY <2>1, <2>2, <2>4 DEF Surjection
<1>. QED
  BY <1>5, <1>6 DEF n

SetCmds == {"SADD", "SREM", "SPOP", "SMEMBERS", "SCARD", "SISMEMBER", "SINTER"}
SetNames == {"sadd", "srem", "spop", "smembers", "scard", "sismember", "sinter"}

LEMMA SetResultsOnly ==
    ASSUME NEW o, o.name \in SetNames, NEW r, ~is_error(r)
    PROVE  Results(o, r) = SetResults(o, r)
<1>1. KeyResults(o, r) = {} /\ HashResults(o, r) = {}
  BY DEF KeyResults, HashResults, SetNames
<1>2. ValueResults(o, r) = {} /\ ZSetResults(o, r) = {} /\ ListResults(o, r) = {}
  BY DEF ValueResults, ZSetResults, ListResults, SetNames
<1>. QED
  BY <1>1, <1>2, PlainResults

LEMMA SetEffectsOnly ==
    ASSUME NEW m, m.cmd \in SetCmds, NEW x
    PROVE  /\ KeyEffects(m, x) = {} /\ HashEffects(m, x) = {} /\ ValueEffects(m, x) = {}
           /\ ZSetEffects(m, x) = {} /\ ListEffects(m, x) = {}
<1>1. KeyEffects(m, x) = {}
  BY DEF KeyEffects, SetCmds
<1>2. HashEffects(m, x) = {}
  <2>1. m.cmd \notin {"HGET", "HMGET", "HGETALL", "HKEYS", "HVALS", "HSCAN", "HSET", "HDEL"}
    BY DEF SetCmds
  <2>. QED
    BY <2>1 DEF HashEffects
<1>3. ValueEffects(m, x) = {}
  BY DEF ValueEffects, SetCmds
<1>4. ZSetEffects(m, x) = {}
  BY DEF ZSetEffects, SetCmds
<1>5. ListEffects(m, x) = {}
  BY DEF ListEffects, SetCmds
<1>. QED
  BY <1>1, <1>2, <1>3, <1>4, <1>5

\* The set of an object, as the program sees it too.
LEMMA TypedSet ==
    /\ \A Q : Typed(AsSet(Q)) = AsSet(Q)
    /\ \A x \in Objects : OfKind(x, "set") =>
          /\ Typed(x) = x /\ AsSet(SetOf(x)) = x /\ OfKind(Typed(x), "set")
          /\ SetOf(x) \subseteq Text /\ IsFiniteSet(SetOf(x))
          /\ Cardinality(SetOf(x)) \in 0 .. HALF - 1
<1>1. \A Q : Typed(AsSet(Q)) = AsSet(Q)
  BY TypedNothing DEF Typed, AsSet
<1>2. ASSUME NEW x \in Objects, OfKind(x, "set")
      PROVE  /\ Typed(x) = x /\ AsSet(SetOf(x)) = x /\ OfKind(Typed(x), "set")
             /\ SetOf(x) \subseteq Text /\ IsFiniteSet(SetOf(x))
             /\ Cardinality(SetOf(x)) \in 0 .. HALF - 1
  <2>1. CASE x = NoObject
    <3>1. SetOf(x) = {}
      BY <2>1 DEF SetOf
    <3>2. AsSet(SetOf(x)) = x /\ Typed(x) = x
      BY <2>1, <3>1, TypedNothing DEF AsSet
    <3>3. Cardinality({}) \in 0 .. HALF - 1 /\ IsFiniteSet({})
      BY FS_EmptySet, TypedAssumption, HalfAssumption
    <3>. QED
      BY <1>2, <3>1, <3>2, <3>3
  <2>2. CASE x # NoObject
    <3>1. "set" \in DOMAIN x /\ SetOf(x) = x.set
      BY <1>2, <2>2 DEF OfKind, SetOf
    <3>2. /\ x = [set |-> x.set] /\ x.set \subseteq Text /\ x.set # {}
          /\ IsFiniteSet(x.set) /\ Cardinality(x.set) < HALF
      BY <3>1, ObjectsAssumption
    <3>3. AsSet(SetOf(x)) = x
      BY <3>1, <3>2 DEF AsSet
    <3>4. Typed(x) = x
      BY <1>1, <3>3
    <3>5. Cardinality(x.set) \in 0 .. HALF - 1
      BY <3>2, FS_CardinalityType, HalfAssumption
    <3>. QED
      BY <1>2, <3>1, <3>2, <3>3, <3>4, <3>5
  <2>. QED
    BY <2>1, <2>2
<1>. QED
  BY <1>1, <1>2

\* A set that the server can keep.
LEMMA KeptSet ==
    ASSUME NEW Q, AsSet(Q) \in Objects
    PROVE  IsFiniteSet(Q) /\ Cardinality(Q) \in 0 .. HALF - 1
<1>1. OfKind(AsSet(Q), "set") /\ SetOf(AsSet(Q)) = Q
  <2>1. CASE Q = {}
    BY <2>1 DEF AsSet, OfKind, SetOf
  <2>2. CASE Q # {}
    <3>1. AsSet(Q) = [set |-> Q] /\ AsSet(Q) # NoObject
      BY <2>2 DEF AsSet, NoObject
    <3>. QED
      BY <3>1 DEF OfKind, SetOf
  <2>. QED
    BY <2>1, <2>2
<1>. QED
  BY <1>1, TypedSet

SetGives(Q, answers) == [object |-> AsSet(Q), answers |-> answers]

\* What the view makes of the reply is w, which is promised.
SetAnswered(o, x, e) ==
    \E Q, w, answers :
        /\ ~is_error(e.reply) /\ SetResults(o, e.reply) = {w}
        /\ (\E v : w = Val(v)) \/ w = Throw("deserialize")
        /\ e.object = AsSet(Q) /\ w \in answers
        /\ SetGives(Q, answers) \in SetPromised(o, x)

LEMMA SetMeans ==
    ASSUME NEW o, o.name \in SetNames, Rejections(o) = {},
           NEW m, m.cmd \in SetCmds,
           \A x \in Objects : \A e \in SetEffects(m, x) :
               OfKind(x, "set") /\ e.object \in Objects => SetAnswered(o, x, e)
    PROVE  Means(m, o)
<1>. SUFFICES ASSUME NEW x \in Objects, NEW e \in SetEffects(m, x), e.object \in Objects
              PROVE  Answered(o, x, e)
  BY SetEffectsOnly, MeansIf, AnsweredAgrees
<1>1. OfKind(x, "set")
  BY DEF SetEffects
<1>2. PICK Q, w, answers :
               /\ ~is_error(e.reply) /\ SetResults(o, e.reply) = {w}
               /\ (\E v : w = Val(v)) \/ w = Throw("deserialize")
               /\ e.object = AsSet(Q) /\ w \in answers
               /\ SetGives(Q, answers) \in SetPromised(o, x)
  BY <1>1 DEF SetAnswered
<1>3. Results(o, e.reply) = {w}
  BY <1>2, SetResultsOnly
<1>4. Typed(e.object) = AsSet(Q) /\ Typed(x) = x
  BY <1>1, <1>2, TypedSet
<1>5. SetGives(Q, answers).object = AsSet(Q) /\ SetGives(Q, answers).answers = answers
  BY DEF SetGives
<1>6. \E f \in PromisedOf(o, Typed(x)) : f.object = Typed(e.object) /\ w \in f.answers
  BY <1>2, <1>4, <1>5 DEF PromisedOf
<1>. QED
  BY <1>2, <1>3, <1>6 DEF Answered

LEMMA SetAnsweredSo ==
    ASSUME NEW o, NEW x, NEW e, NEW Q, NEW w, NEW answers,
           ~is_error(e.reply), SetResults(o, e.reply) = {w},
           (\E v : w = Val(v)) \/ w = Throw("deserialize"),
           e.object = AsSet(Q), w \in answers,
           SetGives(Q, answers) \in SetPromised(o, x)
    PROVE  SetAnswered(o, x, e)
BY DEF SetAnswered

LEMMA SetCountAnswered ==
    ASSUME NEW o, o.name \in {"sadd", "srem", "scard"}, NEW x, NEW e, NEW Q, NEW n \in 0 .. HALF - 1,
           e.object = AsSet(Q), e.reply = make_integer(n),
           SetGives(Q, {Val(Count(n))}) \in SetPromised(o, x)
    PROVE  SetAnswered(o, x, e)
<1>1. n \in Int64
  BY SmallIntegers
<1>2. count_result(e.reply) = Val(Count(n)) /\ ~is_error(e.reply)
  BY <1>1, IntegersRead
<1>3. SetResults(o, e.reply) = {Val(Count(n))}
  BY <1>2 DEF SetResults
<1>. QED
  BY <1>2, <1>3, SetAnsweredSo

\* The texts of values are those the server gets.
TextsOf(values) == {serialize_value[values[i]] : i \in DOMAIN values}

LEMMA SameTexts ==
    ASSUME NEW values \in Seq(Value), NEW texts, Written(values, texts)
    PROVE  {texts[i] : i \in DOMAIN texts} = TextsOf(values)
BY DEF Written, TextsOf

LEMMA AddRemoveMeans ==
    ASSUME NEW values \in Seq(Value), NEW texts, Written(values, texts),
           NEW name, NEW cmd, <<name, cmd>> \in {<<"sadd", "SADD">>, <<"srem", "SREM">>}
    PROVE  Means([cmd |-> cmd, texts |-> texts], [name |-> name, values |-> values])
<1>. DEFINE m == [cmd |-> cmd, texts |-> texts]
            o == [name |-> name, values |-> values]
            T == TextsOf(values)
<1>1. o.name \in SetNames /\ m.cmd \in SetCmds
  BY DEF SetNames, SetCmds
<1>2. Rejections(o) = {}
  BY NotRejected DEF Written
<1>3. {m.texts[i] : i \in DOMAIN m.texts} = T
  BY SameTexts
<1>4. {serialize_value[o.values[i]] : i \in DOMAIN o.values} = T
  BY DEF TextsOf
<1>. HIDE DEF T
<1>5. ASSUME NEW x \in Objects, NEW e \in SetEffects(m, x), OfKind(x, "set"),
             e.object \in Objects
      PROVE  SetAnswered(o, x, e)
  <2>. DEFINE S == SetOf(x)
  <2>1. IsFiniteSet(S) /\ Cardinality(S) \in 0 .. HALF - 1
    BY <1>5, TypedSet
  <2>2. CASE name = "sadd" /\ cmd = "SADD"
    <3>1. e = Change(AsSet(S \cup T), <<>>, make_integer(Cardinality(T \ S)))
      BY <1>3, <1>5, <2>2 DEF SetEffects
    <3>2. e.object = AsSet(S \cup T) /\ e.reply = make_integer(Cardinality(T \ S))
      BY <3>1, Changed
    <3>3. IsFiniteSet(S \cup T) /\ Cardinality(S \cup T) \in 0 .. HALF - 1
      BY <1>5, <3>2, KeptSet
    <3>4. Cardinality(T \ S) \in 0 .. HALF - 1
      <4>1. T \ S \in SUBSET (S \cup T)
        OBVIOUS
      <4>2. IsFiniteSet(T \ S) /\ Cardinality(T \ S) <= Cardinality(S \cup T)
        BY <3>3, <4>1, FS_Subset
      <4>3. Cardinality(T \ S) \in Nat
        BY <4>2, FS_CardinalityType
      <4>. QED
        BY <3>3, <4>2, <4>3, HalfAssumption
    <3>5. SetGives(S \cup T, {Val(Count(Cardinality(T \ S)))}) \in SetPromised(o, x)
      BY <1>4, <1>5, <2>2 DEF SetPromised, SetGives
    <3>6. o.name \in {"sadd", "srem", "scard"}
      BY <2>2
    <3>. DEFINE Q == S \cup T
                n == Cardinality(T \ S)
    <3>7. /\ e.object = AsSet(Q) /\ e.reply = make_integer(n) /\ n \in 0 .. HALF - 1
          /\ SetGives(Q, {Val(Count(n))}) \in SetPromised(o, x)
      BY <3>2, <3>4, <3>5
    <3>. HIDE DEF Q, n, S, o
    <3>. QED
      BY <3>6, <3>7, SetCountAnswered
  <2>3. CASE name = "srem" /\ cmd = "SREM"
    <3>1. e = Change(AsSet(S \ T), <<>>, make_integer(Cardinality(T \cap S)))
      BY <1>3, <1>5, <2>3 DEF SetEffects
    <3>2. e.object = AsSet(S \ T) /\ e.reply = make_integer(Cardinality(T \cap S))
      BY <3>1, Changed
    <3>3. /\ IsFiniteSet(T \cap S) /\ IsFiniteSet(S \ T)
          /\ Cardinality(T \cap S) <= Cardinality(S)
      <4>1. T \cap S \in SUBSET S /\ S \ T \in SUBSET S
        OBVIOUS
      <4>. QED
        BY <2>1, <4>1, FS_Subset
    <3>4. Cardinality(T \cap S) \in Nat /\ Cardinality(S \ T) \in Nat
      BY <3>3, FS_CardinalityType
    <3>5. Cardinality(S) - Cardinality(S \ T) = Cardinality(T \cap S)
      <4>1. (S \ T) \cup (T \cap S) = S /\ (S \ T) \cap (T \cap S) = {}
        OBVIOUS
      <4>2. Cardinality((S \ T) \cup (T \cap S)) =
               Cardinality(S \ T) + Cardinality(T \cap S)
                 - Cardinality((S \ T) \cap (T \cap S))
        BY <3>3, FS_Union
      <4>3. Cardinality({}) = 0
        BY FS_EmptySet
      <4>4. Cardinality(S) = Cardinality(S \ T) + Cardinality(T \cap S) - 0
        BY <4>1, <4>2, <4>3
      <4>. QED
        BY <2>1, <3>4, <4>4
    <3>6. SetGives(S \ T, {Val(Count(Cardinality(S) - Cardinality(S \ T)))}) \in SetPromised(o, x)
      BY <1>4, <1>5, <2>3 DEF SetPromised, SetGives
    <3>7. Cardinality(T \cap S) \in 0 .. HALF - 1
      BY <2>1, <3>3, <3>4, HalfAssumption
    <3>8. o.name \in {"sadd", "srem", "scard"}
      BY <2>3
    <3>9. SetGives(S \ T, {Val(Count(Cardinality(T \cap S)))}) \in SetPromised(o, x)
      BY <3>5, <3>6
    <3>. DEFINE Q == S \ T
                n == Cardinality(T \cap S)
    <3>10. /\ e.object = AsSet(Q) /\ e.reply = make_integer(n) /\ n \in 0 .. HALF - 1
           /\ SetGives(Q, {Val(Count(n))}) \in SetPromised(o, x)
      BY <3>2, <3>7, <3>9
    <3>. HIDE DEF Q, n, S, o
    <3>. QED
      BY <3>8, <3>10, SetCountAnswered
  <2>. QED
    BY <2>2, <2>3
<1>. HIDE DEF o, m
<1>6. Means(m, o)
  BY <1>1, <1>2, <1>5, SetMeans
<1>. QED
  BY <1>6 DEF o, m

LEMMA SizeMeans == Means([cmd |-> "SCARD"], [name |-> "scard"])
<1>. DEFINE m == [cmd |-> "SCARD"]
            o == [name |-> "scard"]
<1>1. o.name \in SetNames /\ m.cmd \in SetCmds /\ Rejections(o) = {}
  BY NotRejected DEF SetNames, SetCmds
<1>2. ASSUME NEW x \in Objects, NEW e \in SetEffects(m, x), OfKind(x, "set")
      PROVE  SetAnswered(o, x, e)
  <2>. DEFINE S == SetOf(x)
  <2>1. Cardinality(S) \in 0 .. HALF - 1 /\ AsSet(S) = x
    BY <1>2, TypedSet
  <2>2. e.object = x /\ e.reply = make_integer(Cardinality(S))
    BY <1>2, Changed DEF SetEffects
  <2>3. SetGives(S, {Val(Count(Cardinality(S)))}) \in SetPromised(o, x)
    BY <1>2 DEF SetPromised, SetGives
  <2>4. o.name \in {"sadd", "srem", "scard"}
    OBVIOUS
  <2>. HIDE DEF S, o
  <2>. QED
    BY <2>1, <2>2, <2>3, <2>4, SetCountAnswered
<1>. HIDE DEF o, m
<1>3. Means(m, o)
  BY <1>1, <1>2, SetMeans
<1>. QED
  BY <1>3 DEF o, m

LEMMA IsMemberMeans ==
    ASSUME NEW v, NEW t, t = serialize_value[v], v \in DOMAIN serialize_value
    PROVE  Means([cmd |-> "SISMEMBER", text |-> t], [name |-> "sismember", values |-> <<v>>])
<1>. DEFINE m == [cmd |-> "SISMEMBER", text |-> t]
            o == [name |-> "sismember", values |-> <<v>>]
<1>1. o.name \in SetNames /\ m.cmd \in SetCmds /\ Rejections(o) = {}
  BY NotRejected DEF SetNames, SetCmds
<1>2. ASSUME NEW x \in Objects, NEW e \in SetEffects(m, x), OfKind(x, "set")
      PROVE  SetAnswered(o, x, e)
  <2>. DEFINE S == SetOf(x)
              n == IF t \in S THEN 1 ELSE 0
              T == {serialize_value[o.values[i]] : i \in DOMAIN o.values}
  <2>1. AsSet(S) = x
    BY <1>2, TypedSet
  <2>2. e.object = x /\ e.reply = make_integer(n)
    BY <1>2, Changed DEF SetEffects
  <2>3. T = {t}
    OBVIOUS
  <2>4. SetGives(S, {Val(Flag(T \subseteq S))}) \in SetPromised(o, x)
    BY <1>2 DEF SetPromised, SetGives
  <2>5. Flag(T \subseteq S) = Flag(n = 1)
    BY <2>3 DEF Flag
  <2>6. n \in Int64
    BY ZeroOrOne
  <2>. HIDE DEF n, T, S
  <2>7. flag_result(e.reply) = Val(Flag(n = 1)) /\ ~is_error(e.reply)
    BY <2>2, <2>6, IntegersRead
  <2>8. SetResults(o, e.reply) = {Val(Flag(n = 1))}
    BY <2>7 DEF SetResults
  <2>9. SetGives(S, {Val(Flag(n = 1))}) \in SetPromised(o, x)
    BY <2>4, <2>5
  <2>. DEFINE w == Val(Flag(n = 1))
  <2>10. \E u : w = Val(u)
    OBVIOUS
  <2>. HIDE DEF w, o
  <2>. QED
    BY <2>1, <2>2, <2>7, <2>8, <2>9, <2>10, SetAnsweredSo DEF w
<1>. HIDE DEF o, m
<1>3. Means(m, o)
  BY <1>1, <1>2, SetMeans
<1>. QED
  BY <1>3 DEF o, m

LEMMA PopMemberMeans == Means([cmd |-> "SPOP"], [name |-> "spop"])
<1>. DEFINE m == [cmd |-> "SPOP"]
            o == [name |-> "spop"]
<1>1. o.name \in SetNames /\ m.cmd \in SetCmds /\ Rejections(o) = {}
  BY NotRejected DEF SetNames, SetCmds
<1>2. ASSUME NEW x \in Objects, NEW e \in SetEffects(m, x), OfKind(x, "set")
      PROVE  SetAnswered(o, x, e)
  <2>. DEFINE S == SetOf(x)
  <2>1. AsSet(S) = x
    BY <1>2, TypedSet
  <2>2. CASE S = {}
    <3>1. e.object = AsSet({}) /\ e.reply = make_nil
      BY <1>2, <2>1, <2>2, Changed DEF SetEffects
    <3>2. SetResults(o, e.reply) = {Val(Element(None))} /\ ~is_error(e.reply)
      BY <3>1, ElementOfNil, NoErrors DEF SetResults
    <3>3. SetGives({}, {Val(Element(None))}) \in SetPromised(o, x)
      BY <1>2, <2>2 DEF SetPromised, SetGives
    <3>. HIDE DEF o
    <3>. QED
      BY <3>1, <3>2, <3>3, SetAnsweredSo
  <2>3. CASE S # {}
    <3>1. PICK t \in S : e = Change(AsSet(S \ {t}), <<t>>, make_string(t))
      BY <1>2, <2>3 DEF SetEffects
    <3>2. e.object = AsSet(S \ {t}) /\ e.reply = make_string(t)
      BY <3>1, Changed
    <3>. DEFINE w == IF t \in DOMAIN deserialize_value
                     THEN Val(Element(Some(deserialize_value[t]))) ELSE Throw("deserialize")
                f(u) == Bind(Deserialized(u), LAMBDA v : Val(Element(Some(v))))
    <3>3. SetResults(o, e.reply) = {w} /\ ~is_error(e.reply)
      BY <3>2, ElementOfString, NoErrors DEF SetResults
    <3>4. f(t) = w
      BY DEF Deserialized, Bind, Once, Val, Throw
    <3>5. SetGives(S \ {t}, {f(t)}) \in SetPromised(o, x)
      <4>1. \A u \in S : [object |-> AsSet(S \ {u}), answers |-> {f(u)}] \in SetPromised(o, x)
        BY <1>2, <2>3 DEF SetPromised
      <4>. QED
        BY <3>1, <4>1 DEF SetGives
    <3>6. (\E v : w = Val(v)) \/ w = Throw("deserialize")
      OBVIOUS
    <3>. HIDE DEF o, w, f, S
    <3>. QED
      BY <3>2, <3>3, <3>4, <3>5, <3>6, SetAnsweredSo
  <2>. QED
    BY <2>2, <2>3
<1>. HIDE DEF o, m
<1>3. Means(m, o)
  BY <1>1, <1>2, SetMeans
<1>. QED
  BY <1>3 DEF o, m

\* A reply that lists the members of a set in some order.
LEMMA ListedRead ==
    ASSUME NEW S, S \subseteq Text, IsFiniteSet(S), NEW s \in SetToSeqs(S)
    PROVE  /\ elements_result(Array(s)) \in ListedValues(S)
           /\ \/ \E v : elements_result(Array(s)) = Val(v)
              \/ elements_result(Array(s)) = Throw("deserialize")
<1>1. s \in Seq(S) /\ \A t \in S : \E i \in DOMAIN s : s[i] = t
  BY Orders
<1>2. s \in Seq(Text)
  BY <1>1
<1>3. (\A i \in DOMAIN s : s[i] \in DOMAIN deserialize_value) <=> S \subseteq DOMAIN deserialize_value
  <2>1. \A i \in DOMAIN s : s[i] \in S
    BY <1>1
  <2>. QED
    BY <1>1, <2>1
<1>. DEFINE vs == [i \in DOMAIN s |-> deserialize_value[s[i]]]
<1>4. \/ /\ \A i \in DOMAIN s : s[i] \in DOMAIN deserialize_value
         /\ elements_result(Array(s)) = Val(Elements(vs))
      \/ /\ \E i \in DOMAIN s : s[i] \notin DOMAIN deserialize_value
         /\ elements_result(Array(s)) = Throw("deserialize")
  BY <1>2, ElementsOfArray
<1>5. S \subseteq DOMAIN deserialize_value => Val(Elements(vs)) \in ListedValues(S)
  BY DEF ListedValues
<1>6. ~(S \subseteq DOMAIN deserialize_value) => Throw("deserialize") \in ListedValues(S)
  BY DEF ListedValues
<1>. HIDE DEF vs
<1>. QED
  BY <1>3, <1>4, <1>5, <1>6

LEMMA MembersMeans == Means([cmd |-> "SMEMBERS"], [name |-> "smembers"])
<1>. DEFINE m == [cmd |-> "SMEMBERS"]
            o == [name |-> "smembers"]
<1>1. o.name \in SetNames /\ m.cmd \in SetCmds /\ Rejections(o) = {}
  BY NotRejected DEF SetNames, SetCmds
<1>2. ASSUME NEW x \in Objects, NEW e \in SetEffects(m, x), OfKind(x, "set")
      PROVE  SetAnswered(o, x, e)
  <2>. DEFINE S == SetOf(x)
  <2>1. AsSet(S) = x /\ S \subseteq Text /\ IsFiniteSet(S)
    BY <1>2, TypedSet
  <2>2. PICK s \in SetToSeqs(S) : e = Change(x, <<>>, Array(s))
    BY <1>2 DEF SetEffects
  <2>3. e.object = x /\ e.reply = Array(s)
    BY <2>2, Changed
  <2>4. SetGives(S, ListedValues(S)) \in SetPromised(o, x)
    BY <1>2 DEF SetPromised, SetGives
  <2>. DEFINE w == elements_result(e.reply)
  <2>5. SetResults(o, e.reply) = {w} /\ ~is_error(e.reply)
    BY <2>3, NoErrors DEF SetResults
  <2>6. w \in ListedValues(S) /\ ((\E v : w = Val(v)) \/ w = Throw("deserialize"))
    BY <2>1, <2>2, <2>3, ListedRead
  <2>. HIDE DEF o, w, S
  <2>. QED
    BY <2>1, <2>3, <2>4, <2>5, <2>6, SetAnsweredSo
<1>. HIDE DEF o, m
<1>3. Means(m, o)
  BY <1>1, <1>2, SetMeans
<1>. QED
  BY <1>3 DEF o, m

LEMMA InterMeans ==
    ASSUME NEW n
    PROVE  Means([cmd |-> "SINTER", keys |-> n], [name |-> "sinter", keys |-> n])
<1>. DEFINE m == [cmd |-> "SINTER", keys |-> n]
            o == [name |-> "sinter", keys |-> n]
<1>1. o.name \in SetNames /\ m.cmd \in SetCmds /\ Rejections(o) = {}
  BY NotRejected DEF SetNames, SetCmds
<1>2. ASSUME NEW x \in Objects, NEW e \in SetEffects(m, x), OfKind(x, "set")
      PROVE  SetAnswered(o, x, e)
  <2>. DEFINE S == SetOf(x)
              answers == UNION {ListedValues(I) : I \in Intersections(S, n)}
  <2>1. AsSet(S) = x /\ S \subseteq Text /\ IsFiniteSet(S)
    BY <1>2, TypedSet
  <2>2. PICK I \in Intersections(S, n) : e = Change(x, <<>>, Array(SetToSeq(I)))
    BY <1>2 DEF SetEffects
  <2>3. e.object = x /\ e.reply = Array(SetToSeq(I))
    BY <2>2, Changed
  <2>4. I \in SUBSET S
    BY <2>2 DEF Intersections
  <2>5. I \subseteq Text /\ IsFiniteSet(I)
    BY <2>1, <2>4, FS_Subset
  <2>6. SetGives(S, answers) \in SetPromised(o, x)
    BY <1>2 DEF SetPromised, SetGives
  <2>. DEFINE w == elements_result(e.reply)
  <2>7. SetResults(o, e.reply) = {w} /\ ~is_error(e.reply)
    BY <2>3, NoErrors DEF SetResults
  <2>8. SetToSeq(I) \in SetToSeqs(I)
    BY <2>5, Orders
  <2>9. w \in ListedValues(I) /\ ((\E v : w = Val(v)) \/ w = Throw("deserialize"))
    BY <2>3, <2>5, <2>8, ListedRead
  <2>10. w \in answers
    BY <2>2, <2>9
  <2>. HIDE DEF o, w, S, answers
  <2>. QED
    BY <2>1, <2>3, <2>6, <2>7, <2>9, <2>10, SetAnsweredSo
<1>. HIDE DEF o, m
<1>3. Means(m, o)
  BY <1>1, <1>2, SetMeans
<1>. QED
  BY <1>3 DEF o, m

LEMMA SetOpsAre ==
    ASSUME "set" \in Views
    PROVE  SetOps \subseteq Ops
BY DEF Ops

LEMMA SetCallProper ==
    ASSUME "set" \in Views, NEW c, SetCall(c)
    PROVE  ProperCall(c)
<1>1. ASSUME NEW values \in Batches, sadd(c, values) \/ srem(c, values)
      PROVE  ProperCall(c)
  <2>. SUFFICES ASSUME NEW name, NEW cmd,
                       <<name, cmd>> \in {<<"sadd", "SADD">>, <<"srem", "SREM">>},
                       Call(c, [name |-> name, values |-> values], Members(cmd, values))
                PROVE  ProperCall(c)
    BY <1>1 DEF sadd, srem
  <2>. DEFINE o == [name |-> name, values |-> values]
  <2>1. values \in Seq(Value) /\ name \in {"sadd", "srem"}
    BY TypedAssumption
  <2>2. o \in Ops
    BY <2>1, SetOpsAre DEF SetOps
  <2>3. CASE /\ \E i \in DOMAIN values : values[i] \notin DOMAIN serialize_value
             /\ SerializedAll(values) = Throw("serialize")
    <3>1. Members(cmd, values) = Throw("serialize")
      BY <2>3, Outcomes DEF Members, Bind, Once
    <3>2. Proper(o, Throw("serialize"))
      BY <2>2, <2>3, IsRejected
    <3>. QED
      BY <3>1, <3>2 DEF ProperCall
  <2>4. ASSUME \A i \in DOMAIN values : values[i] \in DOMAIN serialize_value,
               NEW texts \in Seq(Text), Len(texts) = Len(values),
               \A i \in DOMAIN values : texts[i] = serialize_value[values[i]],
               SerializedAll(values) = Val(texts)
        PROVE  ProperCall(c)
    <3>1. Members(cmd, values) = IF texts = <<>> THEN Done(Count(0))
                                 ELSE Val([cmd |-> cmd, texts |-> texts])
      BY <2>4, Outcomes DEF Members, Bind, Once
    <3>2. CASE texts = <<>>
      <4>1. values = <<>>
        BY <2>1, <2>4, <3>2, EmptySeq
      <4>2. Rejections(o) = {}
        BY <2>4, NotRejected
      <4>3. \A x : NothingToDo(o, x) = {[object |-> x, answers |-> {Val(Count(0))}]}
        BY <2>1, <4>1 DEF NothingToDo
      <4>. HIDE DEF o
      <4>4. Proper(o, Done(Count(0)))
        BY <2>2, <4>2, <4>3, NothingDone
      <4>. QED
        BY <3>1, <3>2, <4>4 DEF ProperCall, o
    <3>3. CASE texts # <<>>
      <4>0. Written(values, texts)
        BY <2>4 DEF Written
      <4>1. Means([cmd |-> cmd, texts |-> texts], o)
        BY <2>1, <4>0, AddRemoveMeans
      <4>2. Proper(o, Members(cmd, values))
        BY <2>2, <3>1, <3>3, <4>1, ProperCommand
      <4>. QED
        BY <4>2 DEF ProperCall
    <3>. QED
      BY <3>2, <3>3
  <2>. QED
    BY <2>1, <2>3, <2>4, SerializedAllResult
<1>2. ASSUME NEW name, NEW cmd, Call(c, [name |-> name], Val([cmd |-> cmd])),
             name \in {"spop", "smembers", "scard"},
             Means([cmd |-> cmd], [name |-> name])
      PROVE  ProperCall(c)
  <2>1. [name |-> name] \in Ops
    BY <1>2, SetOpsAre DEF SetOps
  <2>. QED
    BY <1>2, <2>1, ProperCommand DEF ProperCall
<1>3. CASE spop(c)
  BY <1>2, <1>3, PopMemberMeans DEF spop
<1>4. CASE smembers(c)
  BY <1>2, <1>4, MembersMeans DEF smembers
<1>5. CASE scard(c)
  BY <1>2, <1>5, SizeMeans DEF scard
<1>6. ASSUME NEW v \in Value, sismember(c, v)
      PROVE  ProperCall(c)
  <2>. DEFINE o == [name |-> "sismember", values |-> <<v>>]
              command == Bind(Serialized(v), LAMBDA t : Val([cmd |-> "SISMEMBER", text |-> t]))
  <2>0. Call(c, o, command)
    BY <1>6 DEF sismember
  <2>1. o \in Ops
    BY <1>6, SetOpsAre DEF SetOps
  <2>2. o.values = <<v>> /\ o.values[1] = v /\ DOMAIN o.values = {1} /\ "values" \in DOMAIN o
    OBVIOUS
  <2>3. CASE v \notin DOMAIN serialize_value /\ Serialized(v) = Throw("serialize")
    <3>1. command = Throw("serialize")
      BY <2>3, Outcomes DEF Bind, Once
    <3>. HIDE DEF o, command
    <3>2. Proper(o, Throw("serialize"))
      BY <2>1, <2>2, <2>3, IsRejected
    <3>. QED
      BY <2>0, <3>1, <3>2 DEF ProperCall
  <2>4. ASSUME v \in DOMAIN serialize_value, NEW t \in Text, t = serialize_value[v],
               Serialized(v) = Val(t)
        PROVE  ProperCall(c)
    <3>1. command = Val([cmd |-> "SISMEMBER", text |-> t])
      BY <2>4, Outcomes DEF Bind, Once
    <3>2. Means([cmd |-> "SISMEMBER", text |-> t], o)
      BY <2>4, IsMemberMeans
    <3>. HIDE DEF o, command
    <3>3. Proper(o, command)
      BY <2>1, <3>1, <3>2, ProperCommand
    <3>. QED
      BY <2>0, <3>3 DEF ProperCall
  <2>. QED
    BY <1>6, <2>3, <2>4, SerializedResult
<1>7. ASSUME NEW n \in KeyCounts, sinter(c, n)
      PROVE  ProperCall(c)
  <2>. DEFINE o == [name |-> "sinter", keys |-> n]
              m == [cmd |-> "SINTER", keys |-> n]
  <2>0. Call(c, o, IF n = 0 THEN Done(Elements(<<>>)) ELSE Val(m))
    BY <1>7 DEF sinter
  <2>1. o \in Ops
    BY <1>7, SetOpsAre DEF SetOps
  <2>2. Means(m, o)
    BY InterMeans
  <2>3. n = 0 => \A x : NothingToDo(o, x) = {[object |-> x, answers |-> {Val(Elements(<<>>))}]}
    BY DEF NothingToDo
  <2>4. Rejections(o) = {}
    BY NotRejected
  <2>. HIDE DEF o, m
  <2>5. CASE n = 0
    <3>1. Proper(o, Done(Elements(<<>>)))
      BY <2>1, <2>3, <2>4, <2>5, NothingDone
    <3>. QED
      BY <2>0, <2>5, <3>1 DEF ProperCall
  <2>6. CASE n # 0
    BY <2>0, <2>1, <2>2, <2>6, ProperCommand DEF ProperCall
  <2>. QED
    BY <2>5, <2>6
<1>. QED
  BY <1>1, <1>3, <1>4, <1>5, <1>6, <1>7 DEF SetCall
-----------------------------------------------------------------------------
(* Replies that hold pairs.                                                 *)

LEMMA Halves ==
    \A n \in Nat : /\ (2 * n) % 2 = 0 /\ (2 * n) \div 2 = n
                   /\ \A i \in 1 .. 2 * n : i % 2 = 1 => (i + 1) \div 2 \in 1 .. n
                   /\ \A i \in 1 .. 2 * n : i % 2 # 1 => i \div 2 \in 1 .. n /\ i % 2 = 0
                   /\ \A j \in 1 .. n :
                         /\ 2 * j - 1 \in 1 .. 2 * n /\ (2 * j - 1) % 2 = 1
                         /\ ((2 * j - 1) + 1) \div 2 = j
                         /\ 2 * j \in 1 .. 2 * n /\ (2 * j) % 2 = 0 /\ (2 * j) \div 2 = j
OBVIOUS

\* A flat array of a[1], b[1], a[2], b[2] ...
Alternating(a, b, n) ==
    [i \in 1 .. 2 * n |-> IF i % 2 = 1 THEN a[(i + 1) \div 2] ELSE b[i \div 2]]

LEMMA AlternatingIs ==
    ASSUME NEW n \in Nat, NEW a, NEW b, NEW flat, flat = Alternating(a, b, n)
    PROVE  /\ DOMAIN flat = 1 .. 2 * n /\ Len(flat) = 2 * n
           /\ \A j \in 1 .. n : flat[2 * j - 1] = a[j] /\ flat[2 * j] = b[j]
<1>1. DOMAIN flat = 1 .. 2 * n /\ 2 * n \in Nat
  BY DEF Alternating
<1>2. flat \in Seq({flat[i] : i \in 1 .. 2 * n}) /\ Len(flat) = 2 * n
  <2>. DEFINE S == {flat[i] : i \in 1 .. 2 * n}
              k == 2 * n
  <2>1. flat \in [1 .. k -> S] /\ k \in Nat
    BY DEF Alternating
  <2>. HIDE DEF S, k
  <2>2. flat \in Seq(S) /\ Len(flat) = k
    BY <2>1
  <2>. QED
    BY <2>2 DEF S, k
<1>3. \A i \in 1 .. 2 * n : flat[i] = IF i % 2 = 1 THEN a[(i + 1) \div 2] ELSE b[i \div 2]
  BY DEF Alternating
<1>4. \A j \in 1 .. n : flat[2 * j - 1] = a[j] /\ flat[2 * j] = b[j]
  <2>. TAKE j \in 1 .. n
  <2>1. flat[2 * j - 1] = a[((2 * j - 1) + 1) \div 2]
    BY <1>3, Halves
  <2>2. flat[2 * j] = b[(2 * j) \div 2]
    BY <1>3, Halves
  <2>. QED
    BY <2>1, <2>2, Halves
<1>. QED
  BY <1>1, <1>2, <1>4

\* Item i, which is x, belongs to pair j.
ItemOf(i, x, j, a, b) ==
    \/ i = 2 * j - 1 /\ i % 2 = 1 /\ x = a[j]
    \/ i = 2 * j /\ i % 2 = 0 /\ x = b[j]

LEMMA AlternatingEach ==
    ASSUME NEW n \in Nat, NEW a, NEW b, NEW flat, flat = Alternating(a, b, n),
           NEW i \in 1 .. 2 * n
    PROVE  \E j \in 1 .. n : ItemOf(i, flat[i], j, a, b)
<1>1. flat[i] = IF i % 2 = 1 THEN a[(i + 1) \div 2] ELSE b[i \div 2]
  BY DEF Alternating
<1>2. CASE i % 2 = 1
  <2>1. (i + 1) \div 2 \in 1 .. n /\ i = 2 * ((i + 1) \div 2) - 1
    BY <1>2
  <2>. QED
    BY <1>1, <1>2, <2>1 DEF ItemOf
<1>3. CASE i % 2 # 1
  <2>1. i \div 2 \in 1 .. n /\ i = 2 * (i \div 2) /\ i % 2 = 0
    BY <1>3
  <2>. QED
    BY <1>1, <1>3, <2>1 DEF ItemOf
<1>. QED
  BY <1>2, <1>3

\* The pairs of such an array, each item of which is decoded.
LEMMA PairsRead ==
    ASSUME NEW n \in Nat, NEW a, NEW b, NEW flat, flat = Alternating(a, b, n),
           NEW results, DOMAIN results = 1 .. 2 * n,
           \A i \in 1 .. 2 * n : results[i] = Val(flat[i])
    PROVE  Bind(Collected(results), Paired) = Val([j \in 1 .. n |-> <<a[j], b[j]>>])
<1>. DEFINE pairs == [j \in 1 .. n |-> <<a[j], b[j]>>]
<1>0. flat = Alternating(a, b, n) /\ n \in Nat
  OBVIOUS
<1>1. /\ DOMAIN flat = 1 .. 2 * n /\ Len(flat) = 2 * n
      /\ \A j \in 1 .. n : flat[2 * j - 1] = a[j] /\ flat[2 * j] = b[j]
  BY ONLY <1>0, AlternatingIs
<1>2. flat = [i \in 1 .. 2 * n |-> flat[i]]
  BY DEF Alternating
<1>4. \A i \in 1 .. 2 * n : results[i].ok /\ results[i].value = flat[i]
  <2>. TAKE i \in 1 .. 2 * n
  <2>1. results[i] = Val(flat[i])
    OBVIOUS
  <2>. QED
    BY <2>1, Outcomes
<1>5. Collected(results) = Val([i \in 1 .. 2 * n |-> results[i].value])
  <2>1. 2 * n \in Nat
    OBVIOUS
  <2>. QED
    BY <1>4, <2>1, CollectedResult
<1>6. [i \in 1 .. 2 * n |-> results[i].value] = flat
  BY <1>2, <1>4
<1>7. Paired(flat) = Val(pairs)
  <2>1. Len(flat) \div 2 = n
    BY <1>1, Halves
  <2>2. [i \in 1 .. Len(flat) \div 2 |-> <<flat[2 * i - 1], flat[2 * i]>>] = pairs
    BY <1>1, <2>1
  <2>. QED
    BY <2>2 DEF Paired
<1>. HIDE DEF pairs
<1>8. Bind(Val(flat), Paired) = Val(pairs)
  BY <1>7, Outcomes DEF Bind, Once
<1>. QED
  BY <1>5, <1>6, <1>8 DEF pairs

\* An array of strings is not nil, and holds them.
LEMMA ArrayHolds ==
    ASSUME NEW flat
    PROVE  /\ ~is_nil(Array(flat))
           /\ as_array(Array(flat)) = Val([i \in DOMAIN flat |-> make_string(flat[i])])
BY DEF Array, is_nil, as_array, make_array

LEMMA LenOf ==
    ASSUME NEW k \in Nat, NEW f, DOMAIN f = 1 .. k, f = [i \in 1 .. k |-> f[i]]
    PROVE  Len(f) = k /\ f \in Seq({f[i] : i \in 1 .. k})
<1>1. f \in [1 .. k -> {f[i] : i \in 1 .. k}]
  OBVIOUS
<1>. QED
  BY <1>1
-----------------------------------------------------------------------------
(* The operations on a sorted set.                                          *)

ZSetCmds == {"ZADD", "ZREM", "ZINCRBY", "ZSCORE", "ZRANGE", "ZREVRANGE",
             "ZRANGE WITHSCORES", "ZREVRANGE WITHSCORES"}
ZSetNames == {"zadd", "zrem", "zincrby", "zscore", "zrange", "zrevrange",
              "zrange_withscores", "zrevrange_withscores"}

LEMMA ZSetResultsOnly ==
    ASSUME NEW o, o.name \in ZSetNames, NEW r, ~is_error(r)
    PROVE  Results(o, r) = ZSetResults(o, r)
<1>1. KeyResults(o, r) = {} /\ HashResults(o, r) = {}
  BY DEF KeyResults, HashResults, ZSetNames
<1>2. ValueResults(o, r) = {} /\ SetResults(o, r) = {} /\ ListResults(o, r) = {}
  BY DEF ValueResults, SetResults, ListResults, ZSetNames
<1>. QED
  BY <1>1, <1>2, PlainResults

LEMMA ZSetEffectsOnly ==
    ASSUME NEW m, m.cmd \in ZSetCmds, NEW x
    PROVE  /\ KeyEffects(m, x) = {} /\ HashEffects(m, x) = {} /\ ValueEffects(m, x) = {}
           /\ SetEffects(m, x) = {} /\ ListEffects(m, x) = {}
<1>1. KeyEffects(m, x) = {}
  BY DEF KeyEffects, ZSetCmds
<1>2. HashEffects(m, x) = {}
  <2>1. m.cmd \notin {"HGET", "HMGET", "HGETALL", "HKEYS", "HVALS", "HSCAN", "HSET", "HDEL"}
    BY DEF ZSetCmds
  <2>. QED
    BY <2>1 DEF HashEffects
<1>3. ValueEffects(m, x) = {}
  BY DEF ValueEffects, ZSetCmds
<1>4. SetEffects(m, x) = {}
  BY DEF SetEffects, ZSetCmds
<1>5. ListEffects(m, x) = {}
  BY DEF ListEffects, ZSetCmds
<1>. QED
  BY <1>1, <1>2, <1>3, <1>4, <1>5

\* A score that has a text is read from it.
Scorable(n) == \E t \in DOMAIN ScoreOf : ScoreOf[t] = n

LEMMA ScoreRead ==
    /\ optional_score(make_nil) = Val(None)
    /\ \A n : Scorable(n) =>
          /\ ScoreText(n) \in DOMAIN ScoreOf /\ ScoreOf[ScoreText(n)] = n
          /\ optional_score(make_string(ScoreText(n))) = Val(Some(n))
<1>1. optional_score(make_nil) = Val(None)
  <2>1. optional_string(make_nil) = Val(None)
    BY DEF optional_string, is_nil, make_nil
  <2>. QED
    BY <2>1, Outcomes DEF optional_score, Bind, Once
<1>2. ASSUME NEW n, Scorable(n)
      PROVE  /\ ScoreText(n) \in DOMAIN ScoreOf /\ ScoreOf[ScoreText(n)] = n
             /\ optional_score(make_string(ScoreText(n))) = Val(Some(n))
  <2>. DEFINE t == ScoreText(n)
  <2>1. t \in DOMAIN ScoreOf /\ ScoreOf[t] = n
    BY <1>2 DEF Scorable, ScoreText
  <2>2. optional_string(make_string(t)) = Val(Some(t))
    <3>. HIDE DEF t
    <3>. QED
      BY DEF optional_string, is_nil, make_string, as_string, as_text, Bind, Once, Val
  <2>3. Some(t) # None /\ Some(t)[1] = t
    BY DEF Some, None
  <2>. HIDE DEF t
  <2>4. optional_score(make_string(t)) = Val(Some(n))
    BY <2>1, <2>2, <2>3, Outcomes DEF optional_score, Bind, Once
  <2>. QED
    BY <2>1, <2>4 DEF t
<1>. QED
  BY <1>1, <1>2

LEMMA ScoreResults ==
    ASSUME NEW n, Scorable(n), NEW r, r = make_string(ScoreText(n))
    PROVE  /\ optional_score_result(r) = Val(Score(Some(n)))
           /\ new_score_result(r) = Val(Score(Some(n)))
           /\ score_value(r) = Val(n)
<1>1. optional_score(r) = Val(Some(n))
  BY ScoreRead
<1>2. Some(n) # None /\ Some(n)[1] = n
  BY DEF Some, None
<1>3. optional_score_result(r) = Val(Score(Some(n)))
  BY <1>1, Outcomes DEF optional_score_result, Bind, Once
<1>4. zincrby_result(r) = Val(n)
  BY <1>1, <1>2, Outcomes DEF zincrby_result, Bind, Once
<1>5. new_score_result(r) = Val(Score(Some(n)))
  BY <1>4, Outcomes DEF new_score_result, Bind, Once
<1>6. score_value(r) = Val(n)
  BY <1>1, <1>2, Outcomes DEF score_value, Bind, Once
<1>. QED
  BY <1>3, <1>5, <1>6

LEMMA NoScore == optional_score_result(make_nil) = Val(Score(None))
BY ScoreRead, Outcomes DEF optional_score_result, Bind, Once

\* The sorted set of an object, as the program sees it too.
ZSetOf(x) == Content(x, "zset")

SortedSet(z) ==
    /\ DOMAIN z \subseteq Text /\ IsFiniteSet(DOMAIN z)
    /\ Cardinality(DOMAIN z) \in 0 .. HALF - 1
    /\ \A t \in DOMAIN z : Scorable(z[t])

LEMMA TypedZSet ==
    /\ \A z : Typed(AsZSet(z)) = AsZSet(z)
    /\ \A x \in Objects : OfKind(x, "zset") =>
          Typed(x) = x /\ AsZSet(ZSetOf(x)) = x /\ SortedSet(ZSetOf(x))
<1>1. \A z : Typed(AsZSet(z)) = AsZSet(z)
  BY TypedNothing DEF Typed, AsZSet
<1>2. ASSUME NEW x \in Objects, OfKind(x, "zset")
      PROVE  Typed(x) = x /\ AsZSet(ZSetOf(x)) = x /\ SortedSet(ZSetOf(x))
  <2>1. CASE x = NoObject
    <3>1. ZSetOf(x) = <<>> /\ DOMAIN ZSetOf(x) = {}
      BY <2>1 DEF ZSetOf, Content
    <3>2. AsZSet(ZSetOf(x)) = x /\ Typed(x) = x
      BY <2>1, <3>1, TypedNothing DEF AsZSet
    <3>3. Cardinality({}) \in 0 .. HALF - 1 /\ IsFiniteSet({})
      BY FS_EmptySet, TypedAssumption, HalfAssumption
    <3>4. SortedSet(ZSetOf(x))
      BY <3>1, <3>3 DEF SortedSet
    <3>. QED
      BY <3>2, <3>4
  <2>2. CASE x # NoObject
    <3>1. "zset" \in DOMAIN x /\ ZSetOf(x) = x.zset
      BY <1>2, <2>2 DEF OfKind, ZSetOf, Content
    <3>2. /\ x = [zset |-> x.zset] /\ DOMAIN x.zset \subseteq Text /\ DOMAIN x.zset # {}
          /\ IsFiniteSet(DOMAIN x.zset) /\ Cardinality(DOMAIN x.zset) < HALF
          /\ \A t \in DOMAIN x.zset : Scorable(x.zset[t])
      BY <3>1, ObjectsAssumption DEF Scorable
    <3>3. AsZSet(ZSetOf(x)) = x
      BY <3>1, <3>2 DEF AsZSet
    <3>4. Typed(x) = x
      BY <1>1, <3>3
    <3>5. Cardinality(DOMAIN x.zset) \in 0 .. HALF - 1
      BY <3>2, FS_CardinalityType, HalfAssumption
    <3>6. SortedSet(ZSetOf(x))
      BY <3>1, <3>2, <3>5 DEF SortedSet
    <3>. QED
      BY <3>3, <3>4, <3>6
  <2>. QED
    BY <2>1, <2>2
<1>. QED
  BY <1>1, <1>2

\* A sorted set that the server can keep.
LEMMA KeptZSet ==
    ASSUME NEW z, AsZSet(z) \in Objects
    PROVE  IsFiniteSet(DOMAIN z) /\ Cardinality(DOMAIN z) \in 0 .. HALF - 1
<1>1. CASE DOMAIN z = {}
  BY <1>1, FS_EmptySet, TypedAssumption, HalfAssumption
<1>2. CASE DOMAIN z # {}
  <2>1. AsZSet(z) = [zset |-> z] /\ AsZSet(z) # NoObject
    BY <1>2 DEF AsZSet, NoObject
  <2>2. OfKind(AsZSet(z), "zset") /\ ZSetOf(AsZSet(z)) = z
    BY <2>1 DEF OfKind, ZSetOf, Content
  <2>. QED
    BY <2>2, TypedZSet DEF SortedSet
<1>. QED
  BY <1>1, <1>2

ZSetGives(z, answers) == [object |-> AsZSet(z), answers |-> answers]

ZSetAnswered(o, x, e) ==
    \E z, w, answers :
        /\ ~is_error(e.reply) /\ ZSetResults(o, e.reply) = {w}
        /\ (\E v : w = Val(v)) \/ w = Throw("deserialize")
        /\ e.object = AsZSet(z) /\ w \in answers
        /\ ZSetGives(z, answers) \in ZSetPromised(o, x)

LEMMA ZSetMeans ==
    ASSUME NEW o, o.name \in ZSetNames, Rejections(o) = {},
           NEW m, m.cmd \in ZSetCmds,
           \A x \in Objects : \A e \in ZSetEffects(m, x) :
               OfKind(x, "zset") /\ e.object \in Objects => ZSetAnswered(o, x, e)
    PROVE  Means(m, o)
<1>. SUFFICES ASSUME NEW x \in Objects, NEW e \in ZSetEffects(m, x), e.object \in Objects
              PROVE  Answered(o, x, e)
  BY ZSetEffectsOnly, MeansIf, AnsweredAgrees
<1>1. OfKind(x, "zset")
  BY DEF ZSetEffects
<1>2. PICK z, w, answers :
               /\ ~is_error(e.reply) /\ ZSetResults(o, e.reply) = {w}
               /\ (\E v : w = Val(v)) \/ w = Throw("deserialize")
               /\ e.object = AsZSet(z) /\ w \in answers
               /\ ZSetGives(z, answers) \in ZSetPromised(o, x)
  BY <1>1 DEF ZSetAnswered
<1>3. Results(o, e.reply) = {w}
  BY <1>2, ZSetResultsOnly
<1>4. Typed(e.object) = AsZSet(z) /\ Typed(x) = x
  BY <1>1, <1>2, TypedZSet
<1>5. ZSetGives(z, answers).object = AsZSet(z) /\ ZSetGives(z, answers).answers = answers
  BY DEF ZSetGives
<1>6. \E f \in PromisedOf(o, Typed(x)) : f.object = Typed(e.object) /\ w \in f.answers
  BY <1>2, <1>4, <1>5 DEF PromisedOf
<1>. QED
  BY <1>2, <1>3, <1>6 DEF Answered

LEMMA ZSetAnsweredSo ==
    ASSUME NEW o, NEW x, NEW e, NEW z, NEW w, NEW answers,
           ~is_error(e.reply), ZSetResults(o, e.reply) = {w},
           (\E v : w = Val(v)) \/ w = Throw("deserialize"),
           e.object = AsZSet(z), w \in answers,
           ZSetGives(z, answers) \in ZSetPromised(o, x)
    PROVE  ZSetAnswered(o, x, e)
BY DEF ZSetAnswered

LEMMA ZSetCountAnswered ==
    ASSUME NEW o, o.name \in {"zadd", "zrem"}, NEW x, NEW e, NEW z, NEW n \in 0 .. HALF - 1,
           e.object = AsZSet(z), e.reply = make_integer(n),
           ZSetGives(z, {Val(Count(n))}) \in ZSetPromised(o, x)
    PROVE  ZSetAnswered(o, x, e)
<1>1. n \in Int64
  BY SmallIntegers
<1>2. count_result(e.reply) = Val(Count(n)) /\ ~is_error(e.reply)
  BY <1>1, IntegersRead
<1>3. ZSetResults(o, e.reply) = {Val(Count(n))}
  BY <1>2 DEF ZSetResults
<1>. QED
  BY <1>2, <1>3, ZSetAnsweredSo

LEMMA ZRemoveMeans ==
    ASSUME NEW values \in Seq(Value), NEW texts, Written(values, texts)
    PROVE  Means([cmd |-> "ZREM", texts |-> texts], [name |-> "zrem", values |-> values])
<1>. DEFINE m == [cmd |-> "ZREM", texts |-> texts]
            o == [name |-> "zrem", values |-> values]
            T == TextsOf(values)
<1>1. o.name \in ZSetNames /\ m.cmd \in ZSetCmds
  BY DEF ZSetNames, ZSetCmds
<1>2. Rejections(o) = {}
  BY NotRejected DEF Written
<1>3. {m.texts[i] : i \in DOMAIN m.texts} = T
  BY SameTexts
<1>4. {serialize_value[o.values[i]] : i \in DOMAIN o.values} = T
  BY DEF TextsOf
<1>. HIDE DEF T
<1>5. ASSUME NEW x \in Objects, NEW e \in ZSetEffects(m, x), OfKind(x, "zset")
      PROVE  ZSetAnswered(o, x, e)
  <2>. DEFINE z == ZSetOf(x)
              n == Cardinality(T \cap DOMAIN z)
              y == Minus(z, T)
  <2>1. IsFiniteSet(DOMAIN z) /\ Cardinality(DOMAIN z) \in 0 .. HALF - 1
    BY <1>5, TypedZSet DEF SortedSet
  <2>2. e = Change(AsZSet(y), <<>>, make_integer(n))
    BY <1>3, <1>5 DEF ZSetEffects, ZSetOf
  <2>3. n \in 0 .. HALF - 1
    <3>1. T \cap DOMAIN z \in SUBSET DOMAIN z
      OBVIOUS
    <3>2. IsFiniteSet(T \cap DOMAIN z) /\ n <= Cardinality(DOMAIN z)
      BY <2>1, <3>1, FS_Subset
    <3>3. n \in Nat
      BY <3>2, FS_CardinalityType
    <3>. QED
      BY <2>1, <3>2, <3>3, HalfAssumption
  <2>4. ZSetGives(y, {Val(Count(n))}) \in ZSetPromised(o, x)
    BY <1>4, <1>5 DEF ZSetPromised, ZSetGives, ZSetOf
  <2>5. e.object = AsZSet(y) /\ e.reply = make_integer(n)
    BY <2>2, Changed
  <2>6. o.name \in {"zadd", "zrem"}
    OBVIOUS
  <2>. HIDE DEF y, n, z, o
  <2>. QED
    BY <2>3, <2>4, <2>5, <2>6, ZSetCountAnswered
<1>. HIDE DEF o, m
<1>6. Means(m, o)
  BY <1>1, <1>2, <1>5, ZSetMeans
<1>. QED
  BY <1>6 DEF o, m

In(v, s) == \E i \in DOMAIN s : s[i] = v

\* The scores that arrive with the texts are those of the values.
LEMMA SameScores ==
    ASSUME RoundTrips, NEW added, NEW values \in Seq(DOMAIN added), DOMAIN added \subseteq Value,
           \A v \in DOMAIN added : Scorable(added[v]) /\ In(v, values),
           NEW texts, Written(values, texts), NEW written,
           \A i \in DOMAIN texts : written[i] = ScoreText(added[values[i]])
    PROVE  \A t \in TextsOf(values) :
              ScoreOf[written[CHOOSE i \in DOMAIN texts : texts[i] = t]] =
              added[CHOOSE v \in DOMAIN added : serialize_value[v] = t]
<1>. TAKE t \in TextsOf(values)
<1>. DEFINE i == CHOOSE k \in DOMAIN texts : texts[k] = t
            v == CHOOSE u \in DOMAIN added : serialize_value[u] = t
<1>1. DOMAIN texts = DOMAIN values
  <2>1. texts \in Seq(Text) /\ Len(texts) = Len(values)
    BY DEF Written
  <2>. QED
    BY <2>1
<1>2. PICK j \in DOMAIN values : serialize_value[values[j]] = t
  BY DEF TextsOf
<1>3. \A k \in DOMAIN values : /\ values[k] \in DOMAIN added
                               /\ values[k] \in DOMAIN serialize_value
                               /\ texts[k] = serialize_value[values[k]]
  BY DEF Written
<1>4. i \in DOMAIN texts /\ texts[i] = t
  BY <1>1, <1>2, <1>3
<1>5. v \in DOMAIN added /\ serialize_value[v] = t
  BY <1>2, <1>3
<1>. HIDE DEF i, v
<1>6. values[i] = deserialize_value[t] /\ values[i] \in DOMAIN added
  BY <1>1, <1>3, <1>4 DEF RoundTrips
<1>7. v = deserialize_value[t]
  <2>1. v \in DOMAIN serialize_value
    <3>1. PICK k \in DOMAIN values : values[k] = v
      BY <1>5 DEF In
    <3>. QED
      BY <1>3, <3>1
  <2>. QED
    BY <1>5, <2>1 DEF RoundTrips
<1>8. written[i] = ScoreText(added[v])
  BY <1>4, <1>6, <1>7
<1>9. ScoreOf[ScoreText(added[v])] = added[v]
  BY <1>5, ScoreRead
<1>. QED
  BY <1>8, <1>9 DEF i, v

LEMMA ZAddMeans ==
    ASSUME NEW values \in Seq(Value), NEW texts, Written(values, texts), NEW added,
           NEW written,
           \A t \in TextsOf(values) :
              ScoreOf[written[CHOOSE i \in DOMAIN texts : texts[i] = t]] =
              added[CHOOSE v \in DOMAIN added : serialize_value[v] = t]
    PROVE  Means([cmd |-> "ZADD", texts |-> texts, scores |-> written],
                 [name |-> "zadd", values |-> values, added |-> added])
<1>. DEFINE m == [cmd |-> "ZADD", texts |-> texts, scores |-> written]
            o == [name |-> "zadd", values |-> values, added |-> added]
            T == TextsOf(values)
            a == [t \in T |-> ScoreOf[written[CHOOSE i \in DOMAIN texts : texts[i] = t]]]
            b == [t \in T |-> added[CHOOSE v \in DOMAIN added : serialize_value[v] = t]]
<1>1. o.name \in ZSetNames /\ m.cmd \in ZSetCmds
  BY DEF ZSetNames, ZSetCmds
<1>2. Rejections(o) = {}
  BY NotRejected DEF Written
<1>3. {m.texts[i] : i \in DOMAIN m.texts} = T
  BY SameTexts
<1>4. {serialize_value[o.values[i]] : i \in DOMAIN o.values} = T
  BY DEF TextsOf
<1>5. a = b
  <2>. HIDE DEF T
  <2>1. \A t \in T : ScoreOf[written[CHOOSE i \in DOMAIN texts : texts[i] = t]] =
                     added[CHOOSE v \in DOMAIN added : serialize_value[v] = t]
    BY DEF T
  <2>. QED
    BY <2>1
<1>. HIDE DEF T
<1>6. ASSUME NEW x \in Objects, NEW e \in ZSetEffects(m, x), OfKind(x, "zset"),
             e.object \in Objects
      PROVE  ZSetAnswered(o, x, e)
  <2>. DEFINE z == ZSetOf(x)
              n == Cardinality(T \ DOMAIN z)
              y == Rescored(z, a)
  <2>1. e = Change(AsZSet(y), <<>>, make_integer(n))
    <3>. DEFINE U == {m.texts[i] : i \in DOMAIN m.texts}
                c == [t \in U |-> ScoreOf[m.scores[CHOOSE i \in DOMAIN m.texts : m.texts[i] = t]]]
    <3>1. U = T /\ c = a /\ m.cmd = "ZADD"
      BY <1>3
    <3>2. e = Change(AsZSet(Rescored(z, c)), <<>>, make_integer(Cardinality(U \ DOMAIN z)))
      <4>. HIDE DEF m
      <4>. QED
        BY <1>6, <3>1 DEF ZSetEffects, ZSetOf
    <3>. HIDE DEF U, c, a, m, z
    <3>. QED
      BY <3>1, <3>2
  <2>2. e.object = AsZSet(y) /\ e.reply = make_integer(n)
    BY <2>1, Changed
  <2>3. DOMAIN y = DOMAIN z \cup T
    BY DEF Rescored
  <2>4. IsFiniteSet(DOMAIN y) /\ Cardinality(DOMAIN y) \in 0 .. HALF - 1
    BY <1>6, <2>2, KeptZSet
  <2>5. n \in 0 .. HALF - 1
    <3>. HIDE DEF y
    <3>1. T \ DOMAIN z \in SUBSET DOMAIN y
      BY <2>3
    <3>2. IsFiniteSet(T \ DOMAIN z) /\ n <= Cardinality(DOMAIN y)
      BY <2>4, <3>1, FS_Subset
    <3>3. n \in Nat
      BY <3>2, FS_CardinalityType
    <3>. QED
      BY <2>4, <3>2, <3>3, HalfAssumption
  <2>6. ZSetGives(Rescored(z, b), {Val(Count(n))}) \in ZSetPromised(o, x)
    <3>. DEFINE U == {serialize_value[o.values[i]] : i \in DOMAIN o.values}
                c == [t \in U |-> o.added[CHOOSE v \in DOMAIN o.added : serialize_value[v] = t]]
    <3>1. U = T /\ c = b /\ o.name = "zadd"
      BY <1>4
    <3>2. ZSetGives(Rescored(z, c), {Val(Count(Cardinality(U \ DOMAIN z)))}) \in ZSetPromised(o, x)
      <4>. HIDE DEF o
      <4>. QED
        BY <1>6, <3>1 DEF ZSetPromised, ZSetGives, ZSetOf
    <3>. HIDE DEF U, c, b, o, z
    <3>. QED
      BY <3>1, <3>2
  <2>7. ZSetGives(y, {Val(Count(n))}) \in ZSetPromised(o, x)
    <3>1. y = Rescored(z, b)
      BY <1>5
    <3>. HIDE DEF y, n, o, a, b
    <3>. QED
      BY <2>6, <3>1
  <2>8. o.name \in {"zadd", "zrem"}
    OBVIOUS
  <2>. HIDE DEF y, n, z, o, a, b
  <2>. QED
    BY <2>2, <2>5, <2>7, <2>8, ZSetCountAnswered
<1>. HIDE DEF o, m
<1>7. Means(m, o)
  BY <1>1, <1>2, <1>6, ZSetMeans
<1>. QED
  BY <1>7 DEF o, m

LEMMA ZIncreaseMeans ==
    ASSUME NEW v, NEW t, t = serialize_value[v], v \in DOMAIN serialize_value,
           NEW d, Scorable(d)
    PROVE  Means([cmd |-> "ZINCRBY", text |-> t, by |-> ScoreText(d)],
                 [name |-> "zincrby", values |-> <<v>>, by |-> d])
<1>. DEFINE m == [cmd |-> "ZINCRBY", text |-> t, by |-> ScoreText(d)]
            o == [name |-> "zincrby", values |-> <<v>>, by |-> d]
<1>1. o.name \in ZSetNames /\ m.cmd \in ZSetCmds /\ Rejections(o) = {}
  BY NotRejected DEF ZSetNames, ZSetCmds
<1>2. ASSUME NEW x \in Objects, NEW e \in ZSetEffects(m, x), OfKind(x, "zset")
      PROVE  ZSetAnswered(o, x, e)
  <2>. DEFINE z == ZSetOf(x)
              sum == ScoreAt(z, t) + d
              y == Rescored(z, [u \in {t} |-> sum])
              w == Val(Score(Some(sum)))
  <2>1. ScoreOf[ScoreText(d)] = d
    BY ScoreRead
  <2>2. Scorable(sum) /\ e = Change(AsZSet(y), <<>>, make_string(ScoreText(sum)))
    BY <1>2, <2>1 DEF ZSetEffects, ZSetOf, Scorable
  <2>3. e.object = AsZSet(y) /\ e.reply = make_string(ScoreText(sum))
    BY <2>2, Changed
  <2>4. sum \in {ScoreOf[u] : u \in DOMAIN ScoreOf} \cap {ScoreAt(z, t) + o.by}
    BY <2>2 DEF Scorable
  <2>5. ZSetGives(y, {w}) \in ZSetPromised(o, x)
    <3>. DEFINE new(n) == [object |-> AsZSet(Rescored(z, [u \in {serialize_value[o.values[1]]} |-> n])),
                           answers |-> {Val(Score(Some(n)))}]
                N == {ScoreOf[u] : u \in DOMAIN ScoreOf} \cap {ScoreAt(z, t) + o.by}
    <3>1. ZSetPromised(o, x) = {new(n) : n \in N}
      BY <1>2 DEF ZSetPromised, ZSetOf
    <3>2. new(sum) = ZSetGives(y, {w})
      BY DEF ZSetGives
    <3>3. sum \in N
      BY <2>4
    <3>. HIDE DEF new, N
    <3>. QED
      BY <3>1, <3>2, <3>3
  <2>. HIDE DEF y, sum
  <2>6. new_score_result(e.reply) = w /\ ~is_error(e.reply)
    BY <2>2, <2>3, ScoreResults, NoErrors
  <2>7. ZSetResults(o, e.reply) = {w}
    BY <2>6 DEF ZSetResults
  <2>8. \E u : w = Val(u)
    OBVIOUS
  <2>. HIDE DEF w, o
  <2>. QED
    BY <2>3, <2>5, <2>6, <2>7, <2>8, ZSetAnsweredSo
<1>. HIDE DEF o, m
<1>3. Means(m, o)
  BY <1>1, <1>2, ZSetMeans
<1>. QED
  BY <1>3 DEF o, m

LEMMA ZScoreMeans ==
    ASSUME NEW v, NEW t, t = serialize_value[v], v \in DOMAIN serialize_value
    PROVE  Means([cmd |-> "ZSCORE", text |-> t], [name |-> "zscore", values |-> <<v>>])
<1>. DEFINE m == [cmd |-> "ZSCORE", text |-> t]
            o == [name |-> "zscore", values |-> <<v>>]
<1>1. o.name \in ZSetNames /\ m.cmd \in ZSetCmds /\ Rejections(o) = {}
  BY NotRejected DEF ZSetNames, ZSetCmds
<1>2. ASSUME NEW x \in Objects, NEW e \in ZSetEffects(m, x), OfKind(x, "zset")
      PROVE  ZSetAnswered(o, x, e)
  <2>. DEFINE z == ZSetOf(x)
              w == Val(Score(IF t \in DOMAIN z THEN Some(z[t]) ELSE None))
  <2>1. AsZSet(z) = x /\ SortedSet(z)
    BY <1>2, TypedZSet
  <2>2. e = Change(x, <<>>, IF t \in DOMAIN z THEN make_string(ScoreText(z[t])) ELSE make_nil)
    BY <1>2 DEF ZSetEffects, ZSetOf
  <2>3. /\ e.object = x
        /\ e.reply = IF t \in DOMAIN z THEN make_string(ScoreText(z[t])) ELSE make_nil
    BY <2>2, Changed
  <2>4. ZSetGives(z, {w}) \in ZSetPromised(o, x)
    BY <1>2 DEF ZSetPromised, ZSetGives, ZSetOf
  <2>. HIDE DEF z
  <2>5. optional_score_result(e.reply) = w /\ ~is_error(e.reply)
    <3>1. CASE t \in DOMAIN z
      <4>1. Scorable(z[t]) /\ e.reply = make_string(ScoreText(z[t]))
        BY <2>1, <2>3, <3>1 DEF SortedSet
      <4>. QED
        BY <3>1, <4>1, ScoreResults, NoErrors
    <3>2. CASE t \notin DOMAIN z
      BY <2>3, <3>2, NoScore, NoErrors
    <3>. QED
      BY <3>1, <3>2
  <2>6. ZSetResults(o, e.reply) = {w}
    BY <2>5 DEF ZSetResults
  <2>7. \E u : w = Val(u)
    OBVIOUS
  <2>. HIDE DEF w, o
  <2>. QED
    BY <2>1, <2>3, <2>4, <2>5, <2>6, <2>7, ZSetAnsweredSo
<1>. HIDE DEF o, m
<1>3. Means(m, o)
  BY <1>1, <1>2, ZSetMeans
<1>. QED
  BY <1>3 DEF o, m

\* The part of a ranking that is asked for.
LEMMA RankedTexts ==
    ASSUME NEW z, SortedSet(z), NEW s \in Ascending(z), NEW i \in Int, NEW j \in Int
    PROVE  Slice(s, i, j) \in Seq(DOMAIN z) /\ Slice(Reversed(s), i, j) \in Seq(DOMAIN z)
<1>1. s \in Seq(DOMAIN z)
  BY Orders DEF Ascending, SortedSet
<1>2. Reversed(s) \in Seq(DOMAIN z)
  BY <1>1, ReversedSeq
<1>3. ASSUME NEW t \in Seq(DOMAIN z)
      PROVE  Slice(t, i, j) \in Seq(DOMAIN z)
  <2>0. Len(t) \in Nat
    OBVIOUS
  <2>1. PICK k \in Nat \ {0}, n \in Int :
            n <= Len(t) /\ \A u : Len(u) = Len(t) => Slice(u, i, j) = SubSeq(u, k, n)
    BY <2>0, SlicePart
  <2>2. Slice(t, i, j) = SubSeq(t, k, n)
    BY <2>1
  <2>. QED
    BY <2>1, <2>2, Part
<1>. QED
  BY <1>1, <1>2, <1>3

Forward == {"zrange", "zrange_withscores"}
RankCmd(name) ==
    CASE name = "zrange" -> "ZRANGE" [] name = "zrevrange" -> "ZREVRANGE"
      [] name = "zrange_withscores" -> "ZRANGE WITHSCORES"
      [] OTHER -> "ZREVRANGE WITHSCORES"

\* What is promised of the texts p.
RanksRead(p) ==
    IF \A k \in DOMAIN p : p[k] \in DOMAIN deserialize_value
    THEN Val(Elements([k \in DOMAIN p |-> deserialize_value[p[k]]]))
    ELSE Throw("deserialize")

ScoresRead(z, p) ==
    IF \A k \in DOMAIN p : p[k] \in DOMAIN deserialize_value
    THEN Val(Scored([k \in DOMAIN p |-> <<deserialize_value[p[k]], z[p[k]]>>]))
    ELSE Throw("deserialize")

LEMMA RanksMean ==
    ASSUME NEW name \in {"zrange", "zrevrange"}, NEW i \in Int, NEW j \in Int
    PROVE  Means([cmd |-> RankCmd(name), start |-> i, stop |-> j],
                 [name |-> name, start |-> i, stop |-> j])
<1>. DEFINE m == [cmd |-> RankCmd(name), start |-> i, stop |-> j]
            o == [name |-> name, start |-> i, stop |-> j]
<1>1. o.name \in ZSetNames /\ m.cmd \in ZSetCmds /\ Rejections(o) = {}
  BY NotRejected DEF ZSetNames, ZSetCmds, RankCmd
<1>2. ASSUME NEW x \in Objects, NEW e \in ZSetEffects(m, x), OfKind(x, "zset")
      PROVE  ZSetAnswered(o, x, e)
  <2>. DEFINE z == ZSetOf(x)
              answers == {ReadRanks(s, Elements) : s \in RankSlices(o, z)}
  <2>1. AsZSet(z) = x /\ SortedSet(z)
    BY <1>2, TypedZSet
  <2>2. PICK s \in Ascending(z) :
            e = Change(x, <<>>, Array(Slice(IF name \in Forward THEN s ELSE Reversed(s), i, j)))
    BY <1>2 DEF ZSetEffects, ZSetOf, RankCmd, Forward
  <2>. DEFINE p == Slice(IF name \in Forward THEN s ELSE Reversed(s), i, j)
              w == RanksRead(p)
  <2>3. e.object = x /\ e.reply = Array(p)
    BY <2>2, Changed
  <2>4. ZSetGives(z, answers) \in ZSetPromised(o, x)
    BY <1>2 DEF ZSetPromised, ZSetGives, ZSetOf
  <2>5. p \in RankSlices(o, z)
    BY DEF RankSlices, Forward
  <2>6. p \in Seq(Text)
    <3>1. p \in Seq(DOMAIN z)
      BY <2>1, RankedTexts
    <3>2. DOMAIN z \subseteq Text
      BY <2>1 DEF SortedSet
    <3>. HIDE DEF p, z
    <3>. QED
      BY <3>1, <3>2
  <2>. HIDE DEF p, z
  <2>7. w \in answers
    <3>1. ReadRanks(p, Elements) = w
      BY DEF ReadRanks, RanksRead
    <3>. QED
      BY <2>5, <3>1
  <2>8. elements_result(e.reply) = w /\ ~is_error(e.reply)
    BY <2>3, <2>6, ElementsOfArray, NoErrors DEF RanksRead
  <2>9. ZSetResults(o, e.reply) = {w}
    BY <2>8 DEF ZSetResults
  <2>10. (\E u : w = Val(u)) \/ w = Throw("deserialize")
    BY DEF RanksRead
  <2>. HIDE DEF w, o, answers
  <2>. QED
    BY <2>1, <2>3, <2>4, <2>7, <2>8, <2>9, <2>10, ZSetAnsweredSo
<1>. HIDE DEF o, m
<1>3. Means(m, o)
  BY <1>1, <1>2, ZSetMeans
<1>. QED
  BY <1>3 DEF o, m

\* A reply with members and their scores.
LEMMA ScoresOfArray ==
    ASSUME NEW z, SortedSet(z), NEW p \in Seq(DOMAIN z)
    PROVE  scores(WithScores(z, p)) = Val([k \in 1 .. Len(p) |-> <<p[k], z[p[k]]>>])
<1>. DEFINE n == Len(p)
            b == [k \in 1 .. n |-> ScoreText(z[p[k]])]
            d == [k \in 1 .. n |-> z[p[k]]]
            sent == Alternating(p, b, n)
            flat == Alternating(p, d, n)
            items == [i \in DOMAIN sent |-> make_string(sent[i])]
            results == [i \in DOMAIN items |-> member_or_score(i % 2, items[i])]
<1>1. n \in Nat /\ DOMAIN p = 1 .. n /\ \A k \in 1 .. n : p[k] \in DOMAIN z /\ Scorable(z[p[k]])
  BY DEF SortedSet
<1>2. WithScores(z, p) = Array(sent)
  <2>. DEFINE c == [i \in 1 .. 2 * n |-> IF i % 2 = 1 THEN p[(i + 1) \div 2]
                                         ELSE ScoreText(z[p[i \div 2]])]
  <2>1. WithScores(z, p) = Array(c)
    BY DEF WithScores
  <2>2. ASSUME NEW i \in 1 .. 2 * n
        PROVE  c[i] = sent[i]
    <3>1. CASE i % 2 = 1
      BY <3>1 DEF Alternating
    <3>2. CASE i % 2 # 1
      <4>1. i \div 2 \in 1 .. n
        BY <1>1, <3>2, Halves
      <4>. QED
        BY <3>2, <4>1 DEF Alternating
    <3>. QED
      BY <3>1, <3>2
  <2>3. c = [i \in 1 .. 2 * n |-> c[i]] /\ sent = [i \in 1 .. 2 * n |-> sent[i]]
    BY DEF Alternating
  <2>. HIDE DEF c, sent
  <2>4. c = sent
    BY <2>2, <2>3
  <2>. QED
    BY <2>1, <2>4
<1>3. DOMAIN sent = 1 .. 2 * n
  BY DEF Alternating
<1>. HIDE DEF b, d
<1>4. ASSUME NEW i \in 1 .. 2 * n
      PROVE  results[i] = Val(flat[i])
  <2>0. results[i] = member_or_score(i % 2, make_string(sent[i]))
    BY <1>3
  <2>1. PICK k \in 1 .. n : ItemOf(i, sent[i], k, p, b)
    <3>1. sent = Alternating(p, b, n) /\ n \in Nat /\ i \in 1 .. 2 * n
      BY <1>1
    <3>. HIDE DEF sent, n, items, results, flat
    <3>. QED
      BY <3>1, AlternatingEach
  <2>2. flat[2 * k - 1] = p[k] /\ flat[2 * k] = d[k]
    BY <1>1, AlternatingIs
  <2>. HIDE DEF sent, flat, results, items
  <2>3. CASE i = 2 * k - 1 /\ i % 2 = 1 /\ sent[i] = p[k]
    BY <2>0, <2>2, <2>3 DEF member_or_score, as_string, as_text, make_string
  <2>4. CASE i = 2 * k /\ i % 2 = 0 /\ sent[i] = b[k]
    <3>1. sent[i] = ScoreText(z[p[k]]) /\ Scorable(z[p[k]]) /\ flat[i] = z[p[k]]
      BY <1>1, <2>2, <2>4 DEF b, d
    <3>2. results[i] = score_value(make_string(sent[i]))
      BY <2>0, <2>4 DEF member_or_score
    <3>. QED
      BY <3>1, <3>2, ScoreResults
  <2>. QED
    BY <2>1, <2>3, <2>4 DEF ItemOf
<1>5. as_array(Array(sent)) = Val(items) /\ ~is_nil(Array(sent))
  BY ArrayHolds
<1>6. DOMAIN results = 1 .. 2 * n /\ DOMAIN items = 1 .. 2 * n
  BY <1>3
<1>7. Len(items) = 2 * n
  <2>1. 2 * n \in Nat /\ items = [i \in 1 .. 2 * n |-> items[i]]
    BY <1>1, <1>3
  <2>. HIDE DEF items
  <2>. QED
    BY <1>6, <2>1, LenOf
<1>8. Pairs(items, member_or_score) = Bind(Collected(results), Paired)
  <2>1. Len(items) % 2 = 0
    BY <1>1, <1>7, Halves
  <2>2. Once(results, Collected) = Collected(results)
    BY DEF Once
  <2>. QED
    BY <2>1, <2>2 DEF Pairs
<1>9. Bind(Collected(results), Paired) = Val([k \in 1 .. n |-> <<p[k], d[k]>>])
  <2>1. flat = Alternating(p, d, n)
    OBVIOUS
  <2>. HIDE DEF results, flat, n
  <2>. QED
    BY <1>1, <1>4, <1>6, <2>1, PairsRead
<1>10. scores(Array(sent)) = Bind(Collected(results), Paired)
  <2>1. scores(Array(sent)) = ScoredMembers(items)
    <3>. HIDE DEF sent, items
    <3>. QED
      BY <1>5, Outcomes DEF scores, Bind, Once
  <2>. QED
    BY <1>8, <2>1 DEF ScoredMembers
<1>11. [k \in 1 .. n |-> <<p[k], d[k]>>] = [k \in 1 .. n |-> <<p[k], z[p[k]]>>]
  BY DEF d
<1>. QED
  BY <1>2, <1>9, <1>10, <1>11

LEMMA ScoredRead ==
    ASSUME NEW z, SortedSet(z), NEW p \in Seq(DOMAIN z)
    PROVE  scored_result(WithScores(z, p)) = ScoresRead(z, p)
<1>. DEFINE n == Len(p)
            pairs == [k \in 1 .. n |-> <<p[k], z[p[k]]>>]
            Decode(q) == Deserialized(q[1])
            results == [k \in DOMAIN pairs |-> Decode(pairs[k])]
            vs == [k \in DOMAIN p |-> deserialize_value[p[k]]]
            Made(us) == Val(Scored([k \in DOMAIN us |-> <<us[k], pairs[k][2]>>]))
<1>1. scores(WithScores(z, p)) = Val(pairs)
  BY ScoresOfArray
<1>2. p \in Seq(Text) /\ DOMAIN p = 1 .. n
  BY DEF SortedSet
<1>3. DOMAIN results = 1 .. n /\ \A k \in 1 .. n : results[k] = Deserialized(p[k])
  OBVIOUS
<1>4. \/ /\ \A k \in DOMAIN p : p[k] \in DOMAIN deserialize_value
         /\ Collected(results) = Val(vs)
      \/ /\ \E k \in DOMAIN p : p[k] \notin DOMAIN deserialize_value
         /\ Collected(results) = Throw("deserialize")
  <2>. HIDE DEF results
  <2>. QED
    BY <1>2, <1>3, DeserializedEach
<1>5. scored_result(WithScores(z, p)) = Bind(DecodeAll(pairs, Decode), Made)
  <2>. DEFINE r == WithScores(z, p)
              Rest(s) == Bind(DecodeAll(s, LAMBDA q : Deserialized(q[1])), LAMBDA us :
                             Val(Scored([i \in DOMAIN us |-> <<us[i], s[i][2]>>])))
  <2>1. scored_result(r) = Bind(scores(r), Rest)
    BY DEF scored_result
  <2>2. Rest(pairs) = Bind(DecodeAll(pairs, Decode), Made)
    OBVIOUS
  <2>. HIDE DEF pairs, Rest
  <2>3. Bind(Val(pairs), Rest) = Rest(pairs)
    BY Outcomes DEF Bind, Once
  <2>. QED
    BY <1>1, <2>1, <2>2, <2>3
<1>6. DecodeAll(pairs, Decode) = Collected(results)
  BY DEF DecodeAll, Once
<1>7. Made(vs) = Val(Scored([k \in DOMAIN p |-> <<deserialize_value[p[k]], z[p[k]]>>]))
  <2>1. [k \in DOMAIN vs |-> <<vs[k], pairs[k][2]>>] =
           [k \in DOMAIN p |-> <<deserialize_value[p[k]], z[p[k]]>>]
    BY <1>2
  <2>. QED
    BY <2>1
<1>. HIDE DEF results, vs, Made
<1>8. CASE /\ \A k \in DOMAIN p : p[k] \in DOMAIN deserialize_value
           /\ Collected(results) = Val(vs)
  <2>1. Bind(Val(vs), Made) = Made(vs)
    BY Outcomes DEF Bind, Once
  <2>. QED
    BY <1>5, <1>6, <1>7, <1>8, <2>1 DEF ScoresRead
<1>9. CASE /\ \E k \in DOMAIN p : p[k] \notin DOMAIN deserialize_value
           /\ Collected(results) = Throw("deserialize")
  <2>1. Bind(Throw("deserialize"), Made) = Throw("deserialize")
    BY Outcomes DEF Bind, Once
  <2>. QED
    BY <1>5, <1>6, <1>9, <2>1 DEF ScoresRead
<1>. QED
  BY <1>4, <1>8, <1>9

LEMMA ScoresMean ==
    ASSUME NEW name \in {"zrange_withscores", "zrevrange_withscores"},
           NEW i \in Int, NEW j \in Int
    PROVE  Means([cmd |-> RankCmd(name), start |-> i, stop |-> j],
                 [name |-> name, start |-> i, stop |-> j])
<1>. DEFINE m == [cmd |-> RankCmd(name), start |-> i, stop |-> j]
            o == [name |-> name, start |-> i, stop |-> j]
<1>1. o.name \in ZSetNames /\ m.cmd \in ZSetCmds /\ Rejections(o) = {}
  BY NotRejected DEF ZSetNames, ZSetCmds, RankCmd
<1>2. ASSUME NEW x \in Objects, NEW e \in ZSetEffects(m, x), OfKind(x, "zset")
      PROVE  ZSetAnswered(o, x, e)
  <2>. DEFINE z == ZSetOf(x)
              Rank(s) == ReadRanks(s, LAMBDA vs : Scored([k \in DOMAIN vs |-> <<vs[k], z[s[k]]>>]))
              answers == {Rank(s) : s \in RankSlices(o, z)}
  <2>1. AsZSet(z) = x /\ SortedSet(z)
    BY <1>2, TypedZSet
  <2>2. PICK s \in Ascending(z) :
            e = Change(x, <<>>, WithScores(z, Slice(IF name \in Forward THEN s ELSE Reversed(s), i, j)))
    BY <1>2 DEF ZSetEffects, ZSetOf, RankCmd, Forward
  <2>. DEFINE p == Slice(IF name \in Forward THEN s ELSE Reversed(s), i, j)
              w == ScoresRead(z, p)
  <2>3. e.object = x /\ e.reply = WithScores(z, p)
    BY <2>2, Changed
  <2>4. ZSetGives(z, answers) \in ZSetPromised(o, x)
    BY <1>2 DEF ZSetPromised, ZSetGives, ZSetOf
  <2>5. p \in RankSlices(o, z)
    BY DEF RankSlices, Forward
  <2>6. p \in Seq(DOMAIN z)
    BY <2>1, RankedTexts
  <2>7. Rank(p) = w
    <3>. HIDE DEF p, z
    <3>. DEFINE vs == [k \in DOMAIN p |-> deserialize_value[p[k]]]
    <3>1. [k \in DOMAIN vs |-> <<vs[k], z[p[k]]>>] =
             [k \in DOMAIN p |-> <<deserialize_value[p[k]], z[p[k]]>>]
      OBVIOUS
    <3>2. Rank(p) = IF \A k \in DOMAIN p : p[k] \in DOMAIN deserialize_value
                    THEN Val(Scored([k \in DOMAIN vs |-> <<vs[k], z[p[k]]>>]))
                    ELSE Throw("deserialize")
      BY DEF ReadRanks
    <3>. QED
      BY <3>1, <3>2 DEF ScoresRead
  <2>. HIDE DEF p, z, Rank
  <2>8. w \in answers
    BY <2>5, <2>7
  <2>9. scored_result(e.reply) = w /\ ~is_error(e.reply)
    BY <2>1, <2>3, <2>6, ScoredRead, NoErrors DEF WithScores
  <2>10. ZSetResults(o, e.reply) = {w}
    BY <2>9 DEF ZSetResults
  <2>11. (\E u : w = Val(u)) \/ w = Throw("deserialize")
    BY DEF ScoresRead
  <2>. HIDE DEF w, o, answers
  <2>. QED
    BY <2>1, <2>3, <2>4, <2>8, <2>9, <2>10, <2>11, ZSetAnsweredSo
<1>. HIDE DEF o, m
<1>3. Means(m, o)
  BY <1>1, <1>2, ZSetMeans
<1>. QED
  BY <1>3 DEF o, m

LEMMA ZSetOpsAre ==
    ASSUME "zset" \in Views
    PROVE  ZSetOps \subseteq Ops
BY DEF Ops

\* A call that takes one value, and sends its text.
LEMMA OneValueProper ==
    ASSUME NEW c, NEW o \in Ops, NEW v \in Value, "values" \in DOMAIN o, o.values = <<v>>,
           NEW command, Call(c, o, command),
           v \notin DOMAIN serialize_value /\ Serialized(v) = Throw("serialize") =>
              command = Throw("serialize"),
           \A t : Serialized(v) = Val(t) => \E m : command = Val(m) /\
              (v \in DOMAIN serialize_value /\ t = serialize_value[v] => Means(m, o))
    PROVE  ProperCall(c)
<1>1. CASE v \notin DOMAIN serialize_value /\ Serialized(v) = Throw("serialize")
  <2>1. DOMAIN o.values = {1} /\ o.values[1] = v
    OBVIOUS
  <2>2. Proper(o, Throw("serialize"))
    BY <1>1, <2>1, IsRejected
  <2>. QED
    BY <1>1, <2>2 DEF ProperCall
<1>2. ASSUME v \in DOMAIN serialize_value, NEW t \in Text, t = serialize_value[v],
             Serialized(v) = Val(t)
      PROVE  ProperCall(c)
  BY <1>2, ProperCommand DEF ProperCall
<1>. QED
  BY <1>1, <1>2, SerializedResult

LEMMA ZSetCallProper ==
    ASSUME RoundTrips, "zset" \in Views, NEW c, ZSetCall(c)
    PROVE  ProperCall(c)
<1>1. ASSUME NEW added \in ScoreMaps, zadd(c, added)
      PROVE  ProperCall(c)
  <2>. DEFINE members == SetToSeq(DOMAIN added)
              o == [name |-> "zadd", values |-> members, added |-> added]
              scored(texts) == [i \in DOMAIN texts |-> ScoreText(added[members[i]])]
              command == Bind(SerializedAll(members), LAMBDA texts :
                             IF texts = <<>> THEN Done(Count(0))
                             ELSE Val([cmd |-> "ZADD", texts |-> texts,
                                       scores |-> scored(texts)]))
  <2>0. Call(c, o, command)
    BY <1>1 DEF zadd
  <2>1. IsFiniteSet(DOMAIN added) /\ DOMAIN added \subseteq Value
        /\ \A v \in DOMAIN added : Scorable(added[v])
    BY ScoreMapsAssumption DEF Scorable
  <2>2. members \in Seq(DOMAIN added) /\ \A v \in DOMAIN added : \E i \in DOMAIN members : members[i] = v
    BY <2>1, Orders
  <2>3. members \in Seq(Value)
    <3>. HIDE DEF members
    <3>. QED
      BY <2>1, <2>2
  <2>4. o \in Ops
    BY ZSetOpsAre DEF ZSetOps
  <2>5. o.name = "zadd" /\ o.values = members /\ "values" \in DOMAIN o
    OBVIOUS
  <2>. HIDE DEF members
  <2>6. CASE /\ \E i \in DOMAIN members : members[i] \notin DOMAIN serialize_value
             /\ SerializedAll(members) = Throw("serialize")
    <3>1. command = Throw("serialize")
      BY <2>6, Outcomes DEF Bind, Once
    <3>. HIDE DEF command, o
    <3>2. Proper(o, Throw("serialize"))
      BY <2>4, <2>5, <2>6, IsRejected
    <3>. QED
      BY <2>0, <3>1, <3>2 DEF ProperCall
  <2>7. ASSUME \A i \in DOMAIN members : members[i] \in DOMAIN serialize_value,
               NEW texts \in Seq(Text), Len(texts) = Len(members),
               \A i \in DOMAIN members : texts[i] = serialize_value[members[i]],
               SerializedAll(members) = Val(texts)
        PROVE  ProperCall(c)
    <3>. DEFINE written == scored(texts)
                m == [cmd |-> "ZADD", texts |-> texts, scores |-> written]
    <3>1. command = IF texts = <<>> THEN Done(Count(0)) ELSE Val(m)
      BY <2>7, Outcomes DEF Bind, Once
    <3>2. CASE texts = <<>>
      <4>1. members = <<>>
        BY <2>3, <2>7, <3>2, EmptySeq
      <4>2. Rejections(o) = {}
        BY <2>7, NotRejected
      <4>. HIDE DEF o
      <4>3. \A x : NothingToDo(o, x) = {[object |-> x, answers |-> {Val(Count(0))}]}
        BY <2>5, <4>1 DEF NothingToDo
      <4>4. Proper(o, Done(Count(0)))
        BY <2>4, <4>2, <4>3, NothingDone
      <4>. HIDE DEF command
      <4>. QED
        BY <2>0, <3>1, <3>2, <4>4 DEF ProperCall
    <3>3. CASE texts # <<>>
      <4>1. Written(members, texts)
        BY <2>7 DEF Written
      <4>2. \A i \in DOMAIN texts : written[i] = ScoreText(added[members[i]])
        OBVIOUS
      <4>. HIDE DEF written
      <4>3. \A t \in TextsOf(members) :
               ScoreOf[written[CHOOSE i \in DOMAIN texts : texts[i] = t]] =
               added[CHOOSE v \in DOMAIN added : serialize_value[v] = t]
        <5>1. \A v \in DOMAIN added : Scorable(added[v]) /\ In(v, members)
          BY <2>1, <2>2 DEF In
        <5>. QED
          BY <2>1, <2>2, <4>1, <4>2, <5>1, SameScores
      <4>4. Means(m, o)
        BY <2>3, <4>1, <4>3, ZAddMeans
      <4>. HIDE DEF command, m, o
      <4>5. Proper(o, command)
        BY <2>4, <3>1, <3>3, <4>4, ProperCommand
      <4>. QED
        BY <2>0, <4>5 DEF ProperCall
    <3>. QED
      BY <3>2, <3>3
  <2>. HIDE DEF o, command
  <2>. QED
    BY <2>3, <2>6, <2>7, SerializedAllResult
<1>2. ASSUME NEW values \in Batches, zrem(c, values)
      PROVE  ProperCall(c)
  <2>. DEFINE o == [name |-> "zrem", values |-> values]
  <2>0. Call(c, o, ZMembers(values))
    BY <1>2 DEF zrem
  <2>1. values \in Seq(Value)
    BY TypedAssumption
  <2>2. o \in Ops
    BY <1>2, ZSetOpsAre DEF ZSetOps
  <2>3. CASE /\ \E i \in DOMAIN values : values[i] \notin DOMAIN serialize_value
             /\ SerializedAll(values) = Throw("serialize")
    <3>1. ZMembers(values) = Throw("serialize")
      BY <2>3, Outcomes DEF ZMembers, Bind, Once
    <3>2. Proper(o, Throw("serialize"))
      BY <2>2, <2>3, IsRejected
    <3>. QED
      BY <2>0, <3>1, <3>2 DEF ProperCall
  <2>4. ASSUME \A i \in DOMAIN values : values[i] \in DOMAIN serialize_value,
               NEW texts \in Seq(Text), Len(texts) = Len(values),
               \A i \in DOMAIN values : texts[i] = serialize_value[values[i]],
               SerializedAll(values) = Val(texts)
        PROVE  ProperCall(c)
    <3>1. ZMembers(values) = IF texts = <<>> THEN Done(Count(0))
                             ELSE Val([cmd |-> "ZREM", texts |-> texts])
      BY <2>4, Outcomes DEF ZMembers, Bind, Once
    <3>2. CASE texts = <<>>
      <4>1. values = <<>>
        BY <2>1, <2>4, <3>2, EmptySeq
      <4>2. Rejections(o) = {}
        BY <2>4, NotRejected
      <4>3. \A x : NothingToDo(o, x) = {[object |-> x, answers |-> {Val(Count(0))}]}
        BY <4>1 DEF NothingToDo
      <4>. HIDE DEF o
      <4>4. Proper(o, Done(Count(0)))
        BY <2>2, <4>2, <4>3, NothingDone
      <4>. QED
        BY <2>0, <3>1, <3>2, <4>4 DEF ProperCall
    <3>3. CASE texts # <<>>
      <4>0. Written(values, texts)
        BY <2>4 DEF Written
      <4>1. Means([cmd |-> "ZREM", texts |-> texts], o)
        BY <2>1, <4>0, ZRemoveMeans
      <4>2. Proper(o, ZMembers(values))
        BY <2>2, <3>1, <3>3, <4>1, ProperCommand
      <4>. QED
        BY <2>0, <4>2 DEF ProperCall
    <3>. QED
      BY <3>2, <3>3
  <2>. HIDE DEF o
  <2>. QED
    BY <2>1, <2>3, <2>4, SerializedAllResult
<1>3. ASSUME NEW v \in Value, zscore(c, v)
      PROVE  ProperCall(c)
  <2>. DEFINE o == [name |-> "zscore", values |-> <<v>>]
              command == Bind(Serialized(v), LAMBDA t : Val([cmd |-> "ZSCORE", text |-> t]))
  <2>1. Call(c, o, command)
    BY <1>3 DEF zscore
  <2>2. o \in Ops /\ "values" \in DOMAIN o /\ o.values = <<v>>
    BY <1>3, ZSetOpsAre DEF ZSetOps
  <2>3. Serialized(v) = Throw("serialize") => command = Throw("serialize")
    BY Outcomes DEF Bind, Once
  <2>4. ASSUME NEW t, Serialized(v) = Val(t)
        PROVE  \E m : command = Val(m) /\
                  (v \in DOMAIN serialize_value /\ t = serialize_value[v] => Means(m, o))
    <3>1. command = Val([cmd |-> "ZSCORE", text |-> t])
      BY <2>4, Outcomes DEF Bind, Once
    <3>. QED
      BY <3>1, ZScoreMeans
  <2>. HIDE DEF o, command
  <2>. QED
    BY <1>3, <2>1, <2>2, <2>3, <2>4, OneValueProper
<1>4. ASSUME NEW v \in Value, NEW d \in Increments, zincrby(c, d, v)
      PROVE  ProperCall(c)
  <2>. DEFINE o == [name |-> "zincrby", values |-> <<v>>, by |-> d]
              command == Bind(Serialized(v), LAMBDA t :
                            Val([cmd |-> "ZINCRBY", text |-> t, by |-> ScoreText(d)]))
  <2>1. Call(c, o, command)
    BY <1>4 DEF zincrby
  <2>2. o \in Ops /\ "values" \in DOMAIN o /\ o.values = <<v>>
    BY <1>4, ZSetOpsAre DEF ZSetOps
  <2>3. Serialized(v) = Throw("serialize") => command = Throw("serialize")
    BY Outcomes DEF Bind, Once
  <2>4. ASSUME NEW t, Serialized(v) = Val(t)
        PROVE  \E m : command = Val(m) /\
                  (v \in DOMAIN serialize_value /\ t = serialize_value[v] => Means(m, o))
    <3>1. command = Val([cmd |-> "ZINCRBY", text |-> t, by |-> ScoreText(d)])
      BY <2>4, Outcomes DEF Bind, Once
    <3>2. Scorable(d)
      BY <1>4, ScoreMapsAssumption DEF Scorable
    <3>. QED
      BY <3>1, <3>2, ZIncreaseMeans
  <2>. HIDE DEF o, command
  <2>. QED
    BY <1>4, <2>1, <2>2, <2>3, <2>4, OneValueProper
<1>5. ASSUME NEW i \in Indexes, NEW j \in Indexes,
             NEW name \in {"zrange", "zrevrange", "zrange_withscores", "zrevrange_withscores"},
             Ranged(c, name, RankCmd(name), i, j)
      PROVE  ProperCall(c)
  <2>. DEFINE o == [name |-> name, start |-> i, stop |-> j]
              m == [cmd |-> RankCmd(name), start |-> i, stop |-> j]
  <2>0. Call(c, o, Val(m))
    BY <1>5 DEF Ranged
  <2>1. o \in Ops
    BY <1>5, ZSetOpsAre DEF ZSetOps
  <2>2. i \in Int /\ j \in Int
    BY TypedAssumption
  <2>3. Means(m, o)
    <3>1. CASE name \in {"zrange", "zrevrange"}
      BY <2>2, <3>1, RanksMean
    <3>2. CASE name \in {"zrange_withscores", "zrevrange_withscores"}
      BY <2>2, <3>2, ScoresMean
    <3>. QED
      BY <1>5, <3>1, <3>2
  <2>. HIDE DEF o, m
  <2>. QED
    BY <2>0, <2>1, <2>3, ProperCommand DEF ProperCall
<1>6. ASSUME NEW i \in Indexes, NEW j \in Indexes,
             \/ zrange(c, i, j) \/ zrevrange(c, i, j)
             \/ zrange_withscores(c, i, j) \/ zrevrange_withscores(c, i, j)
      PROVE  ProperCall(c)
  BY <1>5, <1>6 DEF zrange, zrevrange, zrange_withscores, zrevrange_withscores, RankCmd
<1>. QED
  BY <1>1, <1>2, <1>3, <1>4, <1>6 DEF ZSetCall
-----------------------------------------------------------------------------
(* The operations on a hash.                                                *)

HashCmds == {"HGET", "HMGET", "HGETALL", "HKEYS", "HVALS", "HSCAN", "HSET", "HDEL"}
HashNames == {"hget", "hget_batch", "hgetall", "hkeys", "hvals", "hscan", "hset", "hdel"}

LEMMA HashResultsOnly ==
    ASSUME NEW o, o.name \in HashNames, NEW r, ~is_error(r)
    PROVE  Results(o, r) = HashResults(o, r)
<1>1. KeyResults(o, r) = {} /\ ZSetResults(o, r) = {}
  BY DEF KeyResults, ZSetResults, HashNames
<1>2. ValueResults(o, r) = {} /\ SetResults(o, r) = {} /\ ListResults(o, r) = {}
  BY DEF ValueResults, SetResults, ListResults, HashNames
<1>. QED
  BY <1>1, <1>2, PlainResults

LEMMA HashEffectsOnly ==
    ASSUME NEW m, m.cmd \in HashCmds, NEW x
    PROVE  /\ KeyEffects(m, x) = {} /\ ZSetEffects(m, x) = {} /\ ValueEffects(m, x) = {}
           /\ SetEffects(m, x) = {} /\ ListEffects(m, x) = {}
<1>1. KeyEffects(m, x) = {}
  BY DEF KeyEffects, HashCmds
<1>2. ZSetEffects(m, x) = {}
  BY DEF ZSetEffects, HashCmds
<1>3. ValueEffects(m, x) = {}
  BY DEF ValueEffects, HashCmds
<1>4. SetEffects(m, x) = {}
  BY DEF SetEffects, HashCmds
<1>5. ListEffects(m, x) = {}
  BY DEF ListEffects, HashCmds
<1>. QED
  BY <1>1, <1>2, <1>3, <1>4, <1>5

\* The hash of an object, as the program sees it too.
HashOf(x) == Content(x, "hash")

TextMap(h) ==
    /\ DOMAIN h \subseteq Text /\ IsFiniteSet(DOMAIN h)
    /\ Cardinality(DOMAIN h) \in 0 .. HALF - 1
    /\ \A f \in DOMAIN h : h[f] \in Text

LEMMA TypedHash ==
    /\ \A h : Typed(AsHash(h)) = AsHash(h)
    /\ \A x \in Objects : OfKind(x, "hash") =>
          Typed(x) = x /\ AsHash(HashOf(x)) = x /\ TextMap(HashOf(x))
<1>1. \A h : Typed(AsHash(h)) = AsHash(h)
  BY TypedNothing DEF Typed, AsHash
<1>2. ASSUME NEW x \in Objects, OfKind(x, "hash")
      PROVE  Typed(x) = x /\ AsHash(HashOf(x)) = x /\ TextMap(HashOf(x))
  <2>1. CASE x = NoObject
    <3>1. HashOf(x) = <<>> /\ DOMAIN HashOf(x) = {}
      BY <2>1 DEF HashOf, Content
    <3>2. AsHash(HashOf(x)) = x /\ Typed(x) = x
      BY <2>1, <3>1, TypedNothing DEF AsHash
    <3>3. Cardinality({}) \in 0 .. HALF - 1 /\ IsFiniteSet({})
      BY FS_EmptySet, TypedAssumption, HalfAssumption
    <3>4. TextMap(HashOf(x))
      BY <3>1, <3>3 DEF TextMap
    <3>. QED
      BY <3>2, <3>4
  <2>2. CASE x # NoObject
    <3>1. "hash" \in DOMAIN x /\ HashOf(x) = x.hash
      BY <1>2, <2>2 DEF OfKind, HashOf, Content
    <3>2. /\ x = [hash |-> x.hash] /\ DOMAIN x.hash \subseteq Text /\ DOMAIN x.hash # {}
          /\ IsFiniteSet(DOMAIN x.hash) /\ Cardinality(DOMAIN x.hash) < HALF
          /\ \A f \in DOMAIN x.hash : x.hash[f] \in Text
      BY <3>1, ObjectsAssumption
    <3>3. AsHash(HashOf(x)) = x
      BY <3>1, <3>2 DEF AsHash
    <3>4. Typed(x) = x
      BY <1>1, <3>3
    <3>5. Cardinality(DOMAIN x.hash) \in 0 .. HALF - 1
      BY <3>2, FS_CardinalityType, HalfAssumption
    <3>6. TextMap(HashOf(x))
      BY <3>1, <3>2, <3>5 DEF TextMap
    <3>. QED
      BY <3>3, <3>4, <3>6
  <2>. QED
    BY <2>1, <2>2
<1>. QED
  BY <1>1, <1>2

\* A hash that the server can keep.
LEMMA KeptHash ==
    ASSUME NEW h, AsHash(h) \in Objects
    PROVE  IsFiniteSet(DOMAIN h) /\ Cardinality(DOMAIN h) \in 0 .. HALF - 1
<1>1. CASE DOMAIN h = {}
  BY <1>1, FS_EmptySet, TypedAssumption, HalfAssumption
<1>2. CASE DOMAIN h # {}
  <2>1. AsHash(h) = [hash |-> h] /\ AsHash(h) # NoObject
    BY <1>2 DEF AsHash, NoObject
  <2>2. OfKind(AsHash(h), "hash") /\ HashOf(AsHash(h)) = h
    BY <2>1 DEF OfKind, HashOf, Content
  <2>. QED
    BY <2>2, TypedHash DEF TextMap
<1>. QED
  BY <1>1, <1>2

HashGives(h, answers) == [object |-> AsHash(h), answers |-> answers]

\* What a call may give: a value, or an exception of the decoders, perhaps with
\* a map that it leaves behind.
Result(w) == (\E v : w = Val(v)) \/ w = Throw("deserialize") \/ (\E m : w = Partly(m))

\* What the view may make of the reply is all promised.
HashAnswered(o, x, e) ==
    \E h, answers :
        /\ ~is_error(e.reply)
        /\ HashResults(o, e.reply) # {}
        /\ \A w \in HashResults(o, e.reply) : Result(w) /\ w \in answers
        /\ e.object = AsHash(h)
        /\ HashGives(h, answers) \in HashPromised(o, x)

LEMMA HashMeans ==
    ASSUME NEW o, o.name \in HashNames, Rejections(o) = {},
           NEW m, m.cmd \in HashCmds,
           \A x \in Objects : \A e \in HashEffects(m, x) :
               OfKind(x, "hash") /\ e.object \in Objects => HashAnswered(o, x, e)
    PROVE  Means(m, o)
<1>. SUFFICES ASSUME NEW x \in Objects, NEW e \in HashEffects(m, x), e.object \in Objects
              PROVE  Agrees(o, x, e)
  BY HashEffectsOnly, MeansIf
<1>1. OfKind(x, "hash")
  BY DEF HashEffects
<1>. DEFINE R == HashResults(o, e.reply)
<1>2. PICK h, answers :
               /\ ~is_error(e.reply) /\ R # {}
               /\ \A w \in R : Result(w) /\ w \in answers
               /\ e.object = AsHash(h)
               /\ HashGives(h, answers) \in HashPromised(o, x)
  BY <1>1 DEF HashAnswered
<1>3. Results(o, e.reply) = R
  BY <1>2, HashResultsOnly
<1>4. Typed(e.object) = AsHash(h) /\ Typed(x) = x
  BY <1>1, <1>2, TypedHash
<1>5. HashGives(h, answers).object = AsHash(h) /\ HashGives(h, answers).answers = answers
  BY DEF HashGives
<1>6. HashGives(h, answers) \in Apply(o, Typed(x))
  BY <1>2, <1>4, Promised DEF PromisedOf
<1>. HIDE DEF R
<1>7. Returnable(R)
  <2>1. ASSUME NEW w \in R
        PROVE  w \notin Markers
    <3>1. \A p : Partly(p) \notin Markers
      BY DEF Partly, Markers, Throw
    <3>. QED
      BY <1>2, <3>1, NoMarker DEF Result
  <2>. QED
    BY <1>2, <2>1 DEF Returnable
<1>. QED
  BY <1>2, <1>3, <1>4, <1>5, <1>6, <1>7 DEF Agrees

LEMMA HashAnsweredSo ==
    ASSUME NEW o, NEW x, NEW e, NEW h, NEW w, NEW answers,
           ~is_error(e.reply), HashResults(o, e.reply) = {w},
           (\E v : w = Val(v)) \/ w = Throw("deserialize"),
           e.object = AsHash(h), w \in answers,
           HashGives(h, answers) \in HashPromised(o, x)
    PROVE  HashAnswered(o, x, e)
BY DEF HashAnswered, Result

LEMMA HGetMeans ==
    ASSUME NEW name \in DOMAIN serialize_key, NEW f, f = serialize_key[name]
    PROVE  Means([cmd |-> "HGET", field |-> f], [name |-> "hget", field |-> name])
<1>. DEFINE m == [cmd |-> "HGET", field |-> f]
            o == [name |-> "hget", field |-> name]
<1>1. o.name \in HashNames /\ m.cmd \in HashCmds /\ Rejections(o) = {}
  <2>1. NamedFields(o) = {name}
    BY DEF NamedFields
  <2>. QED
    BY <2>1, FieldsNotRejected DEF HashNames, HashCmds
<1>2. ASSUME NEW x \in Objects, NEW e \in HashEffects(m, x), OfKind(x, "hash")
      PROVE  HashAnswered(o, x, e)
  <2>. DEFINE h == HashOf(x)
              w == Bind(ReadAt(h, f), LAMBDA v : Val(Element(v)))
  <2>1. AsHash(h) = x
    BY <1>2, TypedHash
  <2>2. e = Change(x, <<>>, StringOrNil(ValueAt(h, f)))
    BY <1>2 DEF HashEffects, HashOf
  <2>3. e.object = x /\ e.reply = StringOrNil(ValueAt(h, f))
    BY <2>2, Changed
  <2>4. HashGives(h, {w}) \in HashPromised(o, x)
    <3>1. [object |-> x, answers |-> {w}] \in HashPromised(o, x)
      BY <1>2 DEF HashPromised, HashOf
    <3>. HIDE DEF h, w, o
    <3>. QED
      BY <2>1, <3>1 DEF HashGives
  <2>. HIDE DEF h
  <2>5. element_result(e.reply) = w /\ ((\E v : w = Val(v)) \/ w = Throw("deserialize"))
    <3>1. CASE f \notin DOMAIN h
      <4>1. e.reply = make_nil
        BY <2>3, <3>1 DEF StringOrNil, ValueAt
      <4>2. w = Val(Element(None))
        <5>1. ReadAt(h, f) = Val(None)
          BY <3>1 DEF ReadAt
        <5>. QED
          BY <5>1, Outcomes DEF Bind, Once
      <4>. QED
        BY <4>1, <4>2, ElementOfNil
    <3>2. CASE f \in DOMAIN h
      <4>1. e.reply = make_string(h[f])
        BY <2>3, <3>2 DEF StringOrNil, ValueAt, Some, None
      <4>2. CASE h[f] \in DOMAIN deserialize_value
        <5>1. ReadAt(h, f) = Val(Some(deserialize_value[h[f]]))
          BY <3>2, <4>2 DEF ReadAt
        <5>2. w = Val(Element(Some(deserialize_value[h[f]])))
          BY <5>1, Outcomes DEF Bind, Once
        <5>. QED
          BY <4>1, <4>2, <5>2, ElementOfString
      <4>3. CASE h[f] \notin DOMAIN deserialize_value
        <5>1. ReadAt(h, f) = Throw("deserialize")
          BY <3>2, <4>3 DEF ReadAt
        <5>2. w = Throw("deserialize")
          BY <5>1, Outcomes DEF Bind, Once
        <5>. QED
          BY <4>1, <4>3, <5>2, ElementOfString
      <4>. QED
        BY <4>2, <4>3
    <3>. QED
      BY <3>1, <3>2
  <2>6. HashResults(o, e.reply) = {w} /\ ~is_error(e.reply)
    BY <2>3, <2>5, NoErrors DEF HashResults
  <2>. HIDE DEF w, o
  <2>. QED
    BY <2>1, <2>3, <2>4, <2>5, <2>6, HashAnsweredSo
<1>. HIDE DEF o, m
<1>3. Means(m, o)
  BY <1>1, <1>2, HashMeans
<1>. QED
  BY <1>3 DEF o, m

\* The fields that texts are read as.
FieldsFor(ts) == [i \in DOMAIN ts |-> deserialize_key[ts[i]]]

\* The names of fields are read, or the call throws.
LEMMA NamesRead ==
    ASSUME NEW ts \in Seq(Text)
    PROVE  hkeys_result(Array(ts)) =
             IF \A i \in DOMAIN ts : ts[i] \in DOMAIN deserialize_key
             THEN Val(Names(FieldsFor(ts)))
             ELSE Throw("deserialize")
<1>. DEFINE results == [i \in DOMAIN ts |-> DeserializedName(ts[i])]
            n == Len(ts)
            fs == FieldsFor(ts)
            bad == {i \in 1 .. n : ts[i] \notin DOMAIN deserialize_key}
            Named(ks) == Val(Names(ks))
            Rest(texts) == Bind(DecodeAll(texts, DeserializedName), Named)
<1>1. n \in Nat /\ DOMAIN ts = 1 .. n
  OBVIOUS
<1>2. hkeys_result(Array(ts)) = Rest(ts)
  <2>1. hkeys_result(Array(ts)) = Bind(strings(Array(ts)), Rest)
    BY DEF hkeys_result
  <2>. HIDE DEF Rest
  <2>. QED
    BY <2>1, StringsOfArray, Outcomes DEF Bind, Once
<1>3. DecodeAll(ts, DeserializedName) = Collected(results)
  BY DEF DecodeAll, Once
<1>4. EachGives(results, n, fs, bad, "deserialize")
  BY <1>1 DEF EachGives, DeserializedName, FieldsFor
<1>5. [i \in 1 .. n |-> fs[i]] = fs
  BY <1>1 DEF FieldsFor
<1>. HIDE DEF results, Named, fs
<1>6. Collected(results) = IF bad \cap (1 .. n) = {} THEN Val([i \in 1 .. n |-> fs[i]])
                           ELSE Throw("deserialize")
  BY <1>1, <1>4, CollectedAll
<1>7. bad \cap (1 .. n) = {} <=> \A i \in DOMAIN ts : ts[i] \in DOMAIN deserialize_key
  BY <1>1
<1>8. /\ Bind(Val(fs), Named) = Named(fs)
      /\ Bind(Throw("deserialize"), Named) = Throw("deserialize")
  BY Outcomes DEF Bind, Once
<1>. HIDE DEF bad, n
<1>9. CASE bad \cap (1 .. n) = {}
  <2>1. Rest(ts) = Named(fs)
    BY <1>3, <1>5, <1>6, <1>8, <1>9
  <2>. QED
    BY <1>2, <1>7, <1>9, <2>1 DEF Named, fs
<1>10. CASE bad \cap (1 .. n) # {}
  <2>1. Rest(ts) = Throw("deserialize")
    BY <1>3, <1>6, <1>8, <1>10
  <2>. QED
    BY <1>2, <1>7, <1>10, <2>1
<1>. QED
  BY <1>9, <1>10

LEMMA NamesMean == Means([cmd |-> "HKEYS"], [name |-> "hkeys"])
<1>. DEFINE m == [cmd |-> "HKEYS"]
            o == [name |-> "hkeys"]
<1>1. o.name \in HashNames /\ m.cmd \in HashCmds /\ Rejections(o) = {}
  BY NotRejected DEF HashNames, HashCmds
<1>2. ASSUME NEW x \in Objects, NEW e \in HashEffects(m, x), OfKind(x, "hash")
      PROVE  HashAnswered(o, x, e)
  <2>. DEFINE h == HashOf(x)
              answers == IF DOMAIN h \subseteq DOMAIN deserialize_key
                         THEN {Val(Names(FieldsFor(ks))) : ks \in SetToSeqs(DOMAIN h)}
                         ELSE {Throw("deserialize")}
  <2>1. AsHash(h) = x /\ TextMap(h)
    BY <1>2, TypedHash
  <2>2. PICK fs \in SetToSeqs(DOMAIN h) : e = Change(x, <<>>, Array(fs))
    BY <1>2 DEF HashEffects, HashOf
  <2>3. e.object = x /\ e.reply = Array(fs)
    BY <2>2, Changed
  <2>4. HashGives(h, answers) \in HashPromised(o, x)
    <3>1. [object |-> x, answers |-> answers] \in HashPromised(o, x)
      BY <1>2 DEF HashPromised, HashOf, FieldsFor
    <3>. HIDE DEF h, answers, o
    <3>. QED
      BY <2>1, <3>1 DEF HashGives
  <2>. DEFINE w == hkeys_result(e.reply)
  <2>. HIDE DEF h
  <2>5. fs \in Seq(DOMAIN h) /\ \A f \in DOMAIN h : \E i \in DOMAIN fs : fs[i] = f
    BY <2>1, <2>2, Orders DEF TextMap
  <2>6. fs \in Seq(Text)
    BY <2>1, <2>5 DEF TextMap
  <2>7. (\A i \in DOMAIN fs : fs[i] \in DOMAIN deserialize_key)
        <=> DOMAIN h \subseteq DOMAIN deserialize_key
    <3>1. \A i \in DOMAIN fs : fs[i] \in DOMAIN h
      BY <2>5
    <3>. QED
      BY <2>5, <3>1
  <2>8. w = IF DOMAIN h \subseteq DOMAIN deserialize_key THEN Val(Names(FieldsFor(fs)))
            ELSE Throw("deserialize")
    BY <2>3, <2>6, <2>7, NamesRead
  <2>9. w \in answers /\ ((\E v : w = Val(v)) \/ w = Throw("deserialize"))
    BY <2>2, <2>8
  <2>10. HashResults(o, e.reply) = {w} /\ ~is_error(e.reply)
    BY <2>3, NoErrors DEF HashResults
  <2>. HIDE DEF w, o, answers
  <2>. QED
    BY <2>1, <2>3, <2>4, <2>9, <2>10, HashAnsweredSo
<1>. HIDE DEF o, m
<1>3. Means(m, o)
  BY <1>1, <1>2, HashMeans
<1>. QED
  BY <1>3 DEF o, m

LEMMA ValuesMean == Means([cmd |-> "HVALS"], [name |-> "hvals"])
<1>. DEFINE m == [cmd |-> "HVALS"]
            o == [name |-> "hvals"]
<1>1. o.name \in HashNames /\ m.cmd \in HashCmds /\ Rejections(o) = {}
  BY NotRejected DEF HashNames, HashCmds
<1>2. ASSUME NEW x \in Objects, NEW e \in HashEffects(m, x), OfKind(x, "hash")
      PROVE  HashAnswered(o, x, e)
  <2>. DEFINE h == HashOf(x)
              answers == IF \A f \in DOMAIN h : ReadAt(h, f).ok
                         THEN {Val(Elements([i \in DOMAIN ks |-> ReadAt(h, ks[i]).value[1]])) :
                                  ks \in SetToSeqs(DOMAIN h)}
                         ELSE {Throw("deserialize")}
  <2>1. AsHash(h) = x /\ TextMap(h)
    BY <1>2, TypedHash
  <2>2. PICK fs \in SetToSeqs(DOMAIN h) :
            e = Change(x, <<>>, Array([i \in DOMAIN fs |-> h[fs[i]]]))
    BY <1>2 DEF HashEffects, HashOf
  <2>. DEFINE texts == [i \in DOMAIN fs |-> h[fs[i]]]
  <2>3. e.object = x /\ e.reply = Array(texts)
    BY <2>2, Changed
  <2>4. HashGives(h, answers) \in HashPromised(o, x)
    <3>1. [object |-> x, answers |-> answers] \in HashPromised(o, x)
      BY <1>2 DEF HashPromised, HashOf
    <3>. HIDE DEF h, answers, o
    <3>. QED
      BY <2>1, <3>1 DEF HashGives
  <2>. DEFINE w == elements_result(e.reply)
  <2>. HIDE DEF h
  <2>5. fs \in Seq(DOMAIN h) /\ \A f \in DOMAIN h : \E i \in DOMAIN fs : fs[i] = f
    BY <2>1, <2>2, Orders DEF TextMap
  <2>6. \A i \in DOMAIN fs : fs[i] \in DOMAIN h /\ texts[i] = h[fs[i]] /\ texts[i] \in Text
    BY <2>1, <2>5 DEF TextMap
  <2>7. texts \in Seq(Text) /\ DOMAIN texts = DOMAIN fs
    BY <2>5, <2>6
  <2>8. \A f \in DOMAIN h :
           /\ ReadAt(h, f).ok <=> h[f] \in DOMAIN deserialize_value
           /\ ReadAt(h, f).ok => ReadAt(h, f).value = Some(deserialize_value[h[f]])
    BY Outcomes DEF ReadAt
  <2>9. (\A i \in DOMAIN fs : texts[i] \in DOMAIN deserialize_value)
        <=> \A f \in DOMAIN h : ReadAt(h, f).ok
    BY <2>5, <2>6, <2>8
  <2>. HIDE DEF texts
  <2>10. ASSUME \A f \in DOMAIN h : ReadAt(h, f).ok
         PROVE  w \in answers
    <3>. DEFINE vs == [i \in DOMAIN texts |-> deserialize_value[texts[i]]]
                us == [i \in DOMAIN fs |-> ReadAt(h, fs[i]).value[1]]
    <3>1. w = Val(Elements(vs))
      BY <2>3, <2>7, <2>9, <2>10, ElementsOfArray
    <3>2. ASSUME NEW i \in DOMAIN fs
          PROVE  ReadAt(h, fs[i]).value[1] = deserialize_value[texts[i]]
      <4>1. ReadAt(h, fs[i]).value = Some(deserialize_value[texts[i]])
        BY <2>6, <2>8, <2>10
      <4>. QED
        BY <4>1 DEF Some
    <3>3. vs = us
      BY <2>7, <3>2
    <3>4. Val(Elements(us)) \in answers
      BY <2>2, <2>10
    <3>. HIDE DEF vs, us, answers
    <3>. QED
      BY <3>1, <3>3, <3>4
  <2>11. ASSUME ~ \A f \in DOMAIN h : ReadAt(h, f).ok
         PROVE  w \in answers
    <3>1. w = Throw("deserialize")
      BY <2>3, <2>7, <2>9, <2>11, ElementsOfArray
    <3>2. answers = {Throw("deserialize")}
      BY <2>11
    <3>. HIDE DEF answers
    <3>. QED
      BY <3>1, <3>2
  <2>12. w \in answers
    BY <2>10, <2>11
  <2>13. (\E v : w = Val(v)) \/ w = Throw("deserialize")
    BY <2>3, <2>7, ElementsOfArray
  <2>14. HashResults(o, e.reply) = {w} /\ ~is_error(e.reply)
    BY <2>3, NoErrors DEF HashResults
  <2>. HIDE DEF w, o, answers
  <2>. QED
    BY <2>1, <2>3, <2>4, <2>12, <2>13, <2>14, HashAnsweredSo
<1>. HIDE DEF o, m
<1>3. Means(m, o)
  BY <1>1, <1>2, HashMeans
<1>. QED
  BY <1>3 DEF o, m

LEMMA HRemoveMeans ==
    ASSUME NEW fs, \A i \in DOMAIN fs : fs[i] \in DOMAIN serialize_key
    PROVE  Means([cmd |-> "HDEL", fields |-> TextsFor(fs)], [name |-> "hdel", fields |-> fs])
<1>. DEFINE m == [cmd |-> "HDEL", fields |-> TextsFor(fs)]
            o == [name |-> "hdel", fields |-> fs]
            F == {serialize_key[fs[i]] : i \in DOMAIN fs}
<1>1. o.name \in HashNames /\ m.cmd \in HashCmds /\ Rejections(o) = {}
  <2>1. NamedFields(o) = {fs[i] : i \in DOMAIN fs}
    BY DEF NamedFields
  <2>2. NamedFields(o) \subseteq DOMAIN serialize_key
    BY <2>1
  <2>. QED
    BY <2>2, FieldsNotRejected DEF HashNames, HashCmds
<1>2. /\ {m.fields[i] : i \in DOMAIN m.fields} = F
      /\ {serialize_key[o.fields[i]] : i \in DOMAIN o.fields} = F
  BY DEF TextsFor
<1>. HIDE DEF F
<1>3. ASSUME NEW x \in Objects, NEW e \in HashEffects(m, x), OfKind(x, "hash")
      PROVE  HashAnswered(o, x, e)
  <2>. DEFINE h == HashOf(x)
              n == Cardinality(F \cap DOMAIN h)
              y == Without(h, F)
              w == Val(Count(n))
  <2>1. IsFiniteSet(DOMAIN h) /\ Cardinality(DOMAIN h) \in 0 .. HALF - 1
    BY <1>3, TypedHash DEF TextMap
  <2>2. e = Change(AsHash(y), <<>>, make_integer(n))
    <3>. DEFINE U == {m.fields[i] : i \in DOMAIN m.fields}
    <3>1. U = F /\ m.cmd = "HDEL"
      BY <1>2
    <3>2. e = Change(AsHash(Without(h, U)), <<>>, make_integer(Cardinality(U \cap DOMAIN h)))
      <4>. HIDE DEF m
      <4>. QED
        BY <1>3, <3>1 DEF HashEffects, HashOf
    <3>. HIDE DEF U, m, h
    <3>. QED
      BY <3>1, <3>2
  <2>3. n \in 0 .. HALF - 1
    <3>1. F \cap DOMAIN h \in SUBSET DOMAIN h
      OBVIOUS
    <3>2. IsFiniteSet(F \cap DOMAIN h) /\ n <= Cardinality(DOMAIN h)
      BY <2>1, <3>1, FS_Subset
    <3>3. n \in Nat
      BY <3>2, FS_CardinalityType
    <3>. QED
      BY <2>1, <3>2, <3>3, HalfAssumption
  <2>4. HashGives(y, {w}) \in HashPromised(o, x)
    <3>. DEFINE G == {serialize_key[o.fields[i]] : i \in DOMAIN o.fields}
    <3>1. G = F /\ o.name = "hdel"
      BY <1>2
    <3>2. HashPromised(o, x) =
             {[object |-> AsHash(Without(h, G)),
               answers |-> {Val(Count(Cardinality(G \cap DOMAIN h)))}]}
      <4>. HIDE DEF o
      <4>. QED
        BY <1>3, <3>1 DEF HashPromised, HashOf
    <3>. HIDE DEF G, o, h
    <3>3. HashPromised(o, x) = {[object |-> AsHash(y), answers |-> {w}]}
      BY <3>1, <3>2
    <3>. HIDE DEF y, w
    <3>. QED
      BY <3>3 DEF HashGives
  <2>5. e.object = AsHash(y) /\ e.reply = make_integer(n)
    BY <2>2, Changed
  <2>. HIDE DEF y, n, h
  <2>6. count_result(e.reply) = w /\ ~is_error(e.reply)
    BY <2>3, <2>5, SmallIntegers, IntegersRead
  <2>7. HashResults(o, e.reply) = {w}
    BY <2>6 DEF HashResults
  <2>8. \E v : w = Val(v)
    OBVIOUS
  <2>. HIDE DEF w, o
  <2>. QED
    BY <2>4, <2>5, <2>6, <2>7, <2>8, HashAnsweredSo
<1>. HIDE DEF o, m
<1>4. Means(m, o)
  BY <1>1, <1>3, HashMeans
<1>. QED
  BY <1>4 DEF o, m

LEMMA HSetMeans ==
    ASSUME NEW values, Serializable(values), DOMAIN values # {},
           NEW pick \in Picks(DOMAIN values, serialize_key)
    PROVE  Means([cmd |-> "HSET", map |-> WrittenMap(values, pick)],
                 [name |-> "hset", values |-> values])
<1>. DEFINE t == WrittenMap(values, pick)
            m == [cmd |-> "HSET", map |-> t]
            o == [name |-> "hset", values |-> values]
<1>1. o.name \in HashNames /\ m.cmd \in HashCmds /\ Rejections(o) = {}
  <2>1. NamedFields(o) = DOMAIN values
    BY DEF NamedFields
  <2>. QED
    BY <2>1, FieldsNotRejected DEF HashNames, HashCmds, Serializable
<1>3. ASSUME NEW x \in Objects, NEW e \in HashEffects(m, x), OfKind(x, "hash"),
             e.object \in Objects
      PROVE  HashAnswered(o, x, e)
  <2>. DEFINE h == HashOf(x)
              n == Cardinality(DOMAIN t \ DOMAIN h)
              y == Overridden(h, t)
              w == Val(Flag(TRUE))
  <2>1. e = Change(AsHash(y), <<>>, make_integer(n))
    <3>. HIDE DEF t
    <3>. QED
      BY <1>3 DEF HashEffects, HashOf
  <2>2. e.object = AsHash(y) /\ e.reply = make_integer(n)
    BY <2>1, Changed
  <2>3. DOMAIN y = DOMAIN h \cup DOMAIN t
    BY DEF Overridden
  <2>4. IsFiniteSet(DOMAIN y) /\ Cardinality(DOMAIN y) \in 0 .. HALF - 1
    BY <1>3, <2>2, KeptHash
  <2>5. n \in 0 .. HALF - 1
    <3>. HIDE DEF y
    <3>1. DOMAIN t \ DOMAIN h \in SUBSET DOMAIN y
      BY <2>3
    <3>2. IsFiniteSet(DOMAIN t \ DOMAIN h) /\ n <= Cardinality(DOMAIN y)
      BY <2>4, <3>1, FS_Subset
    <3>3. n \in Nat
      BY <3>2, FS_CardinalityType
    <3>. QED
      BY <2>4, <3>2, <3>3, HalfAssumption
  <2>6. HashGives(y, {w}) \in HashPromised(o, x)
    <3>1. o.name = "hset" /\ o.values = values
      OBVIOUS
    <3>2. HashPromised(o, x) =
             {[object |-> AsHash(Overridden(h, WrittenMap(values, p))),
               answers |-> {Val(Flag(DOMAIN values # {}))}] :
                 p \in Picks(DOMAIN values, serialize_key)}
      <4>. HIDE DEF o
      <4>. QED
        BY <1>3, <3>1 DEF HashPromised, HashOf
    <3>3. (DOMAIN values # {}) = TRUE
      OBVIOUS
    <3>. QED
      BY <3>2, <3>3 DEF HashGives
  <2>. HIDE DEF y, n, h, t
  <2>7. HashResults(o, e.reply) = {w} /\ ~is_error(e.reply)
    <3>1. n \in Int64 /\ n >= 0
      BY <2>5, SmallIntegers, HalfAssumption
    <3>2. as_integer(e.reply) = Val(n) /\ ~is_error(e.reply)
      BY <2>2, <3>1, IntegersRead
    <3>3. e.reply.type = "INTEGER"
      BY <2>2 DEF make_integer
    <3>4. hset_result(e.reply) = Val(TRUE)
      <4>. DEFINE is_count(k) == Val(k >= 0)
      <4>1. hset_result(e.reply) = Bind(Val(n), is_count)
        BY <3>2, <3>3 DEF hset_result
      <4>2. is_count(n) = Val(TRUE)
        <5>1. (n >= 0) = TRUE
          BY <3>1
        <5>. QED
          BY <5>1, Zenon
      <4>3. Bind(Val(n), is_count) = is_count(n)
        <5>. HIDE DEF is_count, n
        <5>. QED
          BY Outcomes DEF Bind, Once
      <4>. HIDE DEF is_count
      <4>. QED
        BY <4>1, <4>2, <4>3
    <3>. DEFINE flagged(b) == Val(Flag(b))
    <3>5. HashResults(o, e.reply) = {Bind(hset_result(e.reply), flagged)}
      <4>. HIDE DEF n
      <4>. QED
        BY DEF HashResults
    <3>6. Bind(Val(TRUE), flagged) = flagged(TRUE)
      <4>. HIDE DEF flagged
      <4>. QED
        BY Outcomes DEF Bind, Once
    <3>7. flagged(TRUE) = w
      OBVIOUS
    <3>. HIDE DEF flagged, w, o
    <3>. QED
      BY <3>2, <3>4, <3>5, <3>6, <3>7
  <2>8. \E v : w = Val(v)
    OBVIOUS
  <2>. HIDE DEF w, o
  <2>. QED
    BY <2>2, <2>6, <2>7, <2>8, HashAnsweredSo
<1>. HIDE DEF o, m
<1>4. Means(m, o)
  BY <1>1, <1>3, HashMeans
<1>. QED
  BY <1>4 DEF o, m

\* The fields of a map with their values.
FieldsOf(h, F) == [f \in F |-> h[f]]

LEMMA Emplaced ==
    ASSUME NEW h, NEW F, NEW fs \in Seq(F), \A f \in F : In(f, fs), NEW n, n = Len(fs),
           NEW b, \A k \in 1 .. n : b[k] = h[fs[k]]
    PROVE  EmplacedPairs([k \in 1 .. n |-> <<fs[k], b[k]>>]) = FieldsOf(h, F)
<1>. DEFINE pairs == [k \in 1 .. n |-> <<fs[k], b[k]>>]
            K == {pairs[i][1] : i \in DOMAIN pairs}
            First(f, i) == /\ pairs[i][1] = f
                           /\ \A j \in DOMAIN pairs : pairs[j][1] = f => i <= j
            at(f) == CHOOSE i \in DOMAIN pairs : First(f, i)
<1>1. n \in Nat /\ DOMAIN fs = 1 .. n /\ DOMAIN pairs = 1 .. n /\ \A k \in 1 .. n : fs[k] \in F
  OBVIOUS
<1>2. \A k \in 1 .. n : pairs[k][1] = fs[k] /\ pairs[k][2] = b[k]
  OBVIOUS
<1>3. EmplacedPairs(pairs) = [f \in K |-> pairs[at(f)][2]]
  BY DEF EmplacedPairs
<1>. HIDE DEF pairs
<1>4. K = F
  <2>1. \A f \in F : \E i \in 1 .. n : fs[i] = f
    BY <1>1 DEF In
  <2>. QED
    BY <1>1, <1>2, <2>1
<1>5. ASSUME NEW f \in F
      PROVE  pairs[at(f)][2] = h[f]
  <2>. DEFINE S == {i \in 1 .. n : fs[i] = f}
  <2>1. S # {} /\ S \subseteq Nat
    BY <1>1 DEF In
  <2>. HIDE DEF S
  <2>2. PICK i \in S : \A j \in S : i <= j
    BY <2>1, LeastOf
  <2>3. i \in DOMAIN pairs /\ First(f, i)
    BY <1>1, <1>2, <2>2 DEF S
  <2>4. at(f) \in DOMAIN pairs /\ First(f, at(f))
    BY <2>3
  <2>. HIDE DEF at
  <2>5. fs[at(f)] = f /\ at(f) \in 1 .. n
    BY <1>1, <1>2, <2>4
  <2>. QED
    BY <1>2, <2>5
<1>. HIDE DEF K, at
<1>6. [f \in K |-> pairs[at(f)][2]] = [f \in F |-> h[f]]
  BY <1>4, <1>5
<1>. QED
  BY <1>3, <1>6 DEF FieldsOf, pairs

LEMMA HashOfPairs ==
    ASSUME NEW h, TextMap(h), NEW F, NEW fs \in Seq(F), \A f \in F : In(f, fs)
    PROVE  hash(FlatPairs(h, fs)) = Val(FieldsOf(h, F))
<1>. DEFINE n == Len(fs)
            b == [k \in 1 .. n |-> h[fs[k]]]
            sent == Alternating(fs, b, n)
            items == [i \in DOMAIN sent |-> make_string(sent[i])]
            results == [i \in DOMAIN items |-> as_string(items[i])]
            pairs == [k \in 1 .. n |-> <<fs[k], b[k]>>]
            Made(ps) == Val(EmplacedPairs(ps))
            Rest(is) == Bind(StringPairs(is), Made)
<1>1. n \in Nat /\ DOMAIN fs = 1 .. n
  OBVIOUS
<1>2. FlatPairs(h, fs) = Array(sent)
  <2>. DEFINE c == [i \in 1 .. 2 * n |-> IF i % 2 = 1 THEN fs[(i + 1) \div 2]
                                         ELSE h[fs[i \div 2]]]
  <2>1. FlatPairs(h, fs) = Array(c)
    BY DEF FlatPairs
  <2>2. ASSUME NEW i \in 1 .. 2 * n
        PROVE  c[i] = sent[i]
    <3>1. CASE i % 2 = 1
      BY <3>1 DEF Alternating
    <3>2. CASE i % 2 # 1
      <4>1. i \div 2 \in 1 .. n
        BY <1>1, <3>2, Halves
      <4>. QED
        BY <3>2, <4>1 DEF Alternating
    <3>. QED
      BY <3>1, <3>2
  <2>3. c = [i \in 1 .. 2 * n |-> c[i]] /\ sent = [i \in 1 .. 2 * n |-> sent[i]]
    BY DEF Alternating
  <2>. HIDE DEF c, sent
  <2>4. c = sent
    BY <2>2, <2>3
  <2>. QED
    BY <2>1, <2>4
<1>3. DOMAIN sent = 1 .. 2 * n
  BY DEF Alternating
<1>4. \A k \in 1 .. n : b[k] = h[fs[k]]
  OBVIOUS
<1>5. sent = Alternating(fs, b, n)
  OBVIOUS
<1>. HIDE DEF b
<1>6. hash(Array(sent)) = Bind(Val(items), Rest)
  <2>1. as_array(Array(sent)) = Val(items)
    BY ArrayHolds
  <2>2. hash(Array(sent)) = Bind(as_array(Array(sent)), Rest)
    BY DEF hash
  <2>. QED
    BY <2>1, <2>2
<1>. HIDE DEF sent
<1>7. ASSUME NEW i \in 1 .. 2 * n
      PROVE  results[i] = Val(sent[i])
  BY <1>3, <1>7 DEF as_string, as_text, make_string
<1>8. DOMAIN results = 1 .. 2 * n /\ DOMAIN items = 1 .. 2 * n
  BY <1>3
<1>9. Len(items) = 2 * n
  <2>1. 2 * n \in Nat /\ items = [i \in 1 .. 2 * n |-> items[i]]
    BY <1>1, <1>3
  <2>. HIDE DEF items
  <2>. QED
    BY <1>8, <2>1, LenOf
<1>10. StringPairs(items) = Bind(Collected(results), Paired)
  <2>1. Len(items) % 2 = 0
    BY <1>1, <1>9, Halves
  <2>2. Once(results, Collected) = Collected(results)
    BY DEF Once
  <2>. QED
    BY <2>1, <2>2 DEF StringPairs, Pairs
<1>11. Bind(Collected(results), Paired) = Val(pairs)
  <2>. HIDE DEF results
  <2>1. \A i \in 1 .. 2 * n : results[i] = Val(sent[i])
    BY <1>7
  <2>. HIDE DEF n
  <2>. QED
    BY <1>1, <1>5, <1>8, <2>1, PairsRead
<1>12. EmplacedPairs(pairs) = FieldsOf(h, F)
  <2>1. n = Len(fs)
    OBVIOUS
  <2>. HIDE DEF n
  <2>. QED
    BY <1>4, <2>1, Emplaced
<1>. HIDE DEF pairs, items
<1>13. Rest(items) = Val(FieldsOf(h, F))
  <2>1. StringPairs(items) = Val(pairs)
    BY <1>10, <1>11
  <2>2. Bind(Val(pairs), Made) = Made(pairs)
    BY Outcomes DEF Bind, Once
  <2>. QED
    BY <1>12, <2>1, <2>2
<1>. HIDE DEF Rest
<1>14. Bind(Val(items), Rest) = Rest(items)
  BY Outcomes DEF Bind, Once
<1>. QED
  BY <1>2, <1>6, <1>13, <1>14

\* What may come of the fields that can be read is a map of theirs.
LEMMA FieldsRead ==
    ASSUME NEW h, TextMap(h), NEW F \in SUBSET DOMAIN h
    PROVE  /\ DOMAIN FieldsOf(h, F) = F
           /\ Readable(FieldsOf(h, F)) = Legible(h, F)
           /\ \A D \in SUBSET Legible(h, F) : /\ ReadMaps(FieldsOf(h, F), D) \subseteq MapsOf(h, D)
                                             /\ ReadMaps(FieldsOf(h, F), D) # {}
<1>. DEFINE raw == FieldsOf(h, F)
<1>1. DOMAIN raw = F /\ \A f \in F : raw[f] = h[f]
  BY DEF FieldsOf
<1>2. \A f \in F : ReadAt(h, f).ok <=> h[f] \in DOMAIN deserialize_value
  BY Outcomes DEF ReadAt
<1>. HIDE DEF raw
<1>3. Readable(raw) = Legible(h, F)
  BY <1>1, <1>2 DEF Readable, Legible
<1>4. ASSUME NEW D \in SUBSET Legible(h, F), NEW pick \in Picks(D, deserialize_key)
      PROVE  [f \in DOMAIN pick |-> deserialize_value[raw[pick[f]]]] \in MapsOf(h, D)
  <2>. DEFINE m == [f \in DOMAIN pick |-> deserialize_value[raw[pick[f]]]]
  <2>1. /\ DOMAIN pick = {deserialize_key[t] : t \in D}
        /\ \A f \in DOMAIN pick : pick[f] \in D /\ deserialize_key[pick[f]] = f
    BY PickedAre
  <2>2. \A t \in D : t \in F /\ h[t] \in DOMAIN deserialize_value
    BY <1>2 DEF Legible
  <2>3. \A f \in DOMAIN pick : m[f] = deserialize_value[h[pick[f]]] /\ m[f] \in Value
    BY <1>1, <2>1, <2>2, TypedAssumption
  <2>4. DOMAIN m = DOMAIN pick
    OBVIOUS
  <2>5. m \in [{deserialize_key[t] : t \in D} -> Value]
    BY <2>1, <2>3
  <2>. HIDE DEF m
  <2>6. \A f \in DOMAIN m : \E t \in D : /\ deserialize_key[t] = f
                                         /\ deserialize_value[h[t]] = m[f]
    BY <2>1, <2>3, <2>4
  <2>7. m \in MapsOf(h, D)
    BY <2>5, <2>6 DEF MapsOf
  <2>. QED
    BY <2>7 DEF m
<1>5. ASSUME NEW D \in SUBSET Legible(h, F)
      PROVE  ReadMaps(raw, D) \subseteq MapsOf(h, D) /\ ReadMaps(raw, D) # {}
  BY <1>4, PicksExist DEF ReadMaps
<1>. QED
  BY <1>1, <1>3, <1>5 DEF raw

LEMMA InTheirOrder ==
    ASSUME NEW h, TextMap(h), NEW F \in SUBSET DOMAIN h
    PROVE  hash(FlatPairs(h, InOrder(F))) = Val(FieldsOf(h, F))
<1>. DEFINE fs == InOrder(F)
<1>1. IsFiniteSet(F)
  BY FS_Subset DEF TextMap
<1>2. fs \in Seq(F) /\ \A f \in F : In(f, fs)
  BY <1>1, Orders DEF InOrder, In
<1>. HIDE DEF fs
<1>3. hash(FlatPairs(h, fs)) = Val(FieldsOf(h, F))
  BY <1>2, HashOfPairs
<1>. QED
  BY <1>3 DEF fs

LEMMA AllMean == Means([cmd |-> "HGETALL"], [name |-> "hgetall"])
<1>. DEFINE m == [cmd |-> "HGETALL"]
            o == [name |-> "hgetall"]
<1>1. o.name \in HashNames /\ m.cmd \in HashCmds /\ Rejections(o) = {}
  BY NotRejected DEF HashNames, HashCmds
<1>2. ASSUME NEW x \in Objects, NEW e \in HashEffects(m, x), OfKind(x, "hash")
      PROVE  HashAnswered(o, x, e)
  <2>. DEFINE h == HashOf(x)
              F == DOMAIN h
              raw == FieldsOf(h, F)
              good == Legible(h, F)
              answers == IF good = F THEN {Val(Entries(p)) : p \in MapsOf(h, F)}
                         ELSE {Throw("deserialize")}
              Made(g) == IF ~g.ok THEN {g}
                         ELSE IF Readable(g.value) = DOMAIN g.value
                         THEN {Val(Entries(p)) : p \in ReadMaps(g.value, DOMAIN g.value)}
                         ELSE {Throw("deserialize")}
              R == HashResults(o, e.reply)
  <2>1. AsHash(h) = x /\ TextMap(h)
    BY <1>2, TypedHash
  <2>2. e = Change(x, <<>>, FlatPairs(h, InOrder(F)))
    BY <1>2 DEF HashEffects, HashOf
  <2>3. e.object = x /\ e.reply = FlatPairs(h, InOrder(F))
    BY <2>2, Changed
  <2>4. HashGives(h, answers) \in HashPromised(o, x)
    <3>1. [object |-> x, answers |-> answers] \in HashPromised(o, x)
      BY <1>2 DEF HashPromised, HashOf
    <3>. HIDE DEF h, answers, o
    <3>. QED
      BY <2>1, <3>1 DEF HashGives
  <2>5. ~is_error(e.reply)
    BY <2>3, NoErrors DEF FlatPairs
  <2>6. R = hgetall_results(e.reply)
    BY DEF HashResults
  <2>. HIDE DEF h
  <2>7. hash(e.reply) = Val(raw)
    BY <2>1, <2>3, InTheirOrder
  <2>8. DOMAIN raw = F /\ Readable(raw) = good
    BY <2>1, FieldsRead
  <2>9. good = F => ReadMaps(raw, F) \subseteq MapsOf(h, F) /\ ReadMaps(raw, F) # {}
    BY <2>1, FieldsRead
  <2>. HIDE DEF raw, F, good, R
  <2>10. R = Made(Val(raw))
    <3>1. hgetall_results(e.reply) = Once(hash(e.reply), Made)
      BY DEF hgetall_results
    <3>. HIDE DEF Made
    <3>. QED
      BY <2>6, <2>7, <3>1 DEF Once
  <2>11. R = IF good = F THEN {Val(Entries(p)) : p \in ReadMaps(raw, F)}
             ELSE {Throw("deserialize")}
    BY <2>8, <2>10, Outcomes
  <2>. HIDE DEF Made
  <2>12. R # {} /\ \A w \in R : Result(w) /\ w \in answers
    BY <2>9, <2>11 DEF Result
  <2>. HIDE DEF answers, o
  <2>. QED
    BY <2>1, <2>3, <2>4, <2>5, <2>12 DEF HashAnswered, R
<1>. HIDE DEF o, m
<1>3. Means(m, o)
  BY <1>1, <1>2, HashMeans
<1>. QED
  BY <1>3 DEF o, m

LEMMA PageRead ==
    ASSUME NEW h, TextMap(h), NEW F \in SUBSET DOMAIN h, NEW t \in CursorTexts, NEW r,
           r = make_array(<<make_string(t), FlatPairs(h, InOrder(F))>>)
    PROVE  /\ hscan_results(r) \subseteq PageAnswers(h, t, F)
           /\ hscan_results(r) # {}
           /\ \A w \in hscan_results(r) : Result(w)
<1>. DEFINE raw == FieldsOf(h, F)
            pairs == FlatPairs(h, InOrder(F))
            parts == <<make_string(t), pairs>>
            got == Val([cursor |-> CursorOf[t], page |-> raw])
<1>1. hash(pairs) = Val(raw)
  BY InTheirOrder
<1>2. pairs.type = "ARRAY" /\ \E items : as_array(pairs) = Val(items)
  BY DEF FlatPairs, Array, make_array, as_array
<1>3. DOMAIN raw = F /\ Readable(raw) = Legible(h, F)
  BY FieldsRead
<1>4. \A D \in SUBSET Legible(h, F) : ReadMaps(raw, D) \subseteq MapsOf(h, D) /\ ReadMaps(raw, D) # {}
  BY FieldsRead
<1>. HIDE DEF pairs, raw
<1>5. /\ Len(parts) = 2 /\ parts[1] = make_string(t) /\ parts[2] = pairs
      /\ as_array(r) = Val(parts) /\ r.items = parts
  BY DEF pairs, make_array, as_array
<1>6. as_string(make_string(t)) = Val(t)
  BY DEF as_string, as_text, make_string
<1>. HIDE DEF parts
<1>7. scan_cursor(r) = Val(CursorOf[t])
  <2>. DEFINE Second(items) == Bind(as_string(parts[1]), to_cursor)
              First(ps) == IF Len(ps) # 2 THEN Malformed
                           ELSE Bind(as_array(ps[2]), LAMBDA results :
                                    Bind(as_string(ps[1]), to_cursor))
  <2>1. scan_cursor(r) = Bind(as_array(r), First)
    BY DEF scan_cursor
  <2>2. Bind(Val(t), to_cursor) = Val(CursorOf[t])
    <3>1. Bind(Val(t), to_cursor) = to_cursor(t)
      BY Outcomes DEF Bind, Once
    <3>. QED
      BY <3>1 DEF to_cursor
  <2>3. First(parts) = Bind(as_array(pairs), Second)
    BY <1>5
  <2>. HIDE DEF First
  <2>4. PICK items : as_array(pairs) = Val(items)
    BY <1>2
  <2>5. Second(items) = Val(CursorOf[t])
    BY <1>5, <1>6, <2>2
  <2>. HIDE DEF Second
  <2>6. Bind(Val(items), Second) = Second(items)
    BY Outcomes DEF Bind, Once
  <2>7. Bind(Val(parts), First) = First(parts)
    BY Outcomes DEF Bind, Once
  <2>. QED
    BY <1>5, <2>1, <2>3, <2>4, <2>5, <2>6, <2>7
<1>8. hscan_result(r) = got
  <2>. DEFINE c == CursorOf[t]
              Filled(page) == Val([cursor |-> c, page |-> page])
              Page2(results) == Bind(hash(results), Filled)
              Rest(cursor) == Bind(ItemAt(r.items, 1), LAMBDA results :
                                  Bind(hash(results), LAMBDA page :
                                      Val([cursor |-> cursor, page |-> page])))
  <2>1. hscan_result(r) = Bind(scan_cursor(r), Rest)
    BY DEF hscan_result, ScanPage
  <2>2. ItemAt(r.items, 1) = Val(pairs)
    BY <1>5 DEF ItemAt
  <2>3. Rest(c) = Bind(ItemAt(r.items, 1), Page2)
    OBVIOUS
  <2>. HIDE DEF Rest, c
  <2>4. Bind(Val(raw), Filled) = Filled(raw)
    BY Outcomes DEF Bind, Once
  <2>5. Page2(pairs) = Filled(raw)
    BY <1>1, <2>4
  <2>. HIDE DEF Page2
  <2>6. Bind(Val(pairs), Page2) = Page2(pairs)
    BY Outcomes DEF Bind, Once
  <2>7. Bind(Val(c), Rest) = Rest(c)
    BY Outcomes DEF Bind, Once
  <2>8. Filled(raw) = got
    BY DEF c
  <2>9. scan_cursor(r) = Val(c)
    BY <1>7 DEF c
  <2>. HIDE DEF Filled, got
  <2>. QED
    BY <2>1, <2>2, <2>3, <2>5, <2>6, <2>7, <2>8, <2>9
<1>. DEFINE Made(g) ==
                LET page == g.value.page
                    good == Readable(page)
                IN  IF ~g.ok THEN {g}
                    ELSE IF good = DOMAIN page
                    THEN {Val(Page(g.value.cursor, m)) : m \in ReadMaps(page, good)}
                    ELSE {Partly(m) : m \in UNION {ReadMaps(page, done) : done \in SUBSET good}}
<1>9. hscan_results(r) = Made(got)
  <2>1. hscan_results(r) = Once(got, Made)
    BY <1>8 DEF hscan_results
  <2>. HIDE DEF Made, got
  <2>. QED
    BY <2>1 DEF Once
<1>10. got.ok /\ got.value.cursor = CursorOf[t] /\ got.value.page = raw
  BY Outcomes
<1>. HIDE DEF got
<1>. DEFINE good == Legible(h, F)
<1>11. Made(got) =
          IF good = F THEN {Val(Page(CursorOf[t], m)) : m \in ReadMaps(raw, good)}
          ELSE {Partly(m) : m \in UNION {ReadMaps(raw, done) : done \in SUBSET good}}
  BY <1>3, <1>10
<1>. HIDE DEF Made
<1>12. PageAnswers(h, t, F) =
          IF good = F THEN {Val(Page(CursorOf[t], m)) : m \in MapsOf(h, F)}
          ELSE {Partly(m) : m \in UNION {MapsOf(h, done) : done \in SUBSET good}}
  BY DEF PageAnswers
<1>. HIDE DEF good
<1>13. CASE good = F
  <2>1. ReadMaps(raw, good) \subseteq MapsOf(h, F) /\ ReadMaps(raw, good) # {}
    BY <1>4, <1>13 DEF good
  <2>2. hscan_results(r) = {Val(Page(CursorOf[t], m)) : m \in ReadMaps(raw, good)}
    BY <1>9, <1>11, <1>13
  <2>. QED
    BY <1>12, <1>13, <2>1, <2>2 DEF Result
<1>14. CASE good # F
  <2>. DEFINE Ms == UNION {ReadMaps(raw, done) : done \in SUBSET good}
  <2>1. Ms \subseteq UNION {MapsOf(h, done) : done \in SUBSET good}
    BY <1>4 DEF good
  <2>2. Ms # {}
    <3>1. ReadMaps(raw, good) # {} /\ good \in SUBSET good
      BY <1>4 DEF good
    <3>. QED
      BY <3>1
  <2>3. hscan_results(r) = {Partly(m) : m \in Ms}
    BY <1>9, <1>11, <1>14
  <2>. HIDE DEF Ms
  <2>. QED
    BY <1>12, <1>14, <2>1, <2>2, <2>3 DEF Result
<1>. QED
  BY <1>13, <1>14

LEMMA ScanMeans == Means([cmd |-> "HSCAN"], [name |-> "hscan"])
<1>. DEFINE m == [cmd |-> "HSCAN"]
            o == [name |-> "hscan"]
<1>1. o.name \in HashNames /\ m.cmd \in HashCmds /\ Rejections(o) = {}
  BY NotRejected DEF HashNames, HashCmds
<1>2. ASSUME NEW x \in Objects, NEW e \in HashEffects(m, x), OfKind(x, "hash")
      PROVE  HashAnswered(o, x, e)
  <2>. DEFINE h == HashOf(x)
              answers == UNION {PageAnswers(h, t, F) : t \in CursorTexts, F \in SUBSET DOMAIN h}
              R == HashResults(o, e.reply)
  <2>1. AsHash(h) = x /\ TextMap(h)
    BY <1>2, TypedHash
  <2>2. PICK t \in CursorTexts, F \in SUBSET DOMAIN h :
            e = Change(x, <<>>, make_array(<<make_string(t), FlatPairs(h, InOrder(F))>>))
    BY <1>2 DEF HashEffects, HashOf
  <2>3. /\ e.object = x
        /\ e.reply = make_array(<<make_string(t), FlatPairs(h, InOrder(F))>>)
    BY <2>2, Changed
  <2>4. HashGives(h, answers) \in HashPromised(o, x)
    <3>1. [object |-> x, answers |-> answers] \in HashPromised(o, x)
      BY <1>2 DEF HashPromised, HashOf
    <3>. HIDE DEF h, answers, o
    <3>. QED
      BY <2>1, <3>1 DEF HashGives
  <2>. HIDE DEF h
  <2>5. R = hscan_results(e.reply)
    BY DEF HashResults
  <2>6. R \subseteq PageAnswers(h, t, F) /\ R # {} /\ \A w \in R : Result(w)
    BY <2>1, <2>3, <2>5, PageRead
  <2>. HIDE DEF R
  <2>7. R \subseteq answers
    BY <2>2, <2>6
  <2>8. ~is_error(e.reply)
    BY <2>3, NoErrors
  <2>. HIDE DEF answers, o
  <2>. QED
    BY <2>1, <2>3, <2>4, <2>6, <2>7, <2>8 DEF HashAnswered, R
<1>. HIDE DEF o, m
<1>3. Means(m, o)
  BY <1>1, <1>2, HashMeans
<1>. QED
  BY <1>3 DEF o, m

\* A caller's map after a call for the fields F, of which those in D were read.
ReadName(h, f) == ReadAt(h, serialize_key[f])
Kept(h, F, D) == [f \in F |-> IF f \in D THEN ReadName(h, f).value ELSE Stale]

LEMMA OptionalRead ==
    ASSUME NEW h, TextMap(h), NEW f
    PROVE  /\ optional_string(StringOrNil(ValueAt(h, f))) = Val(ValueAt(h, f))
           /\ OptionalValue(ValueAt(h, f)) = ReadAt(h, f)
<1>1. CASE f \notin DOMAIN h
  <2>1. ValueAt(h, f) = None
    BY <1>1 DEF ValueAt
  <2>2. optional_string(make_nil) = Val(None)
    BY DEF optional_string, is_nil, make_nil
  <2>. QED
    BY <1>1, <2>1, <2>2 DEF StringOrNil, OptionalValue, ReadAt
<1>2. CASE f \in DOMAIN h
  <2>. DEFINE t == h[f]
              There(v) == Val(Some(v))
  <2>1. ValueAt(h, f) = Some(t) /\ Some(t) # None /\ Some(t)[1] = t
    BY <1>2 DEF ValueAt, Some, None
  <2>2. optional_string(make_string(t)) = Val(Some(t))
    <3>1. as_string(make_string(t)) = Val(t) /\ ~is_nil(make_string(t))
      BY DEF as_string, as_text, make_string, is_nil
    <3>. HIDE DEF t
    <3>. QED
      BY <3>1, Outcomes DEF optional_string, Bind, Once
  <2>3. OptionalValue(Some(t)) = Bind(Deserialized(t), There)
    BY <2>1 DEF OptionalValue
  <2>4. ReadAt(h, f) = IF t \in DOMAIN deserialize_value
                       THEN Val(Some(deserialize_value[t])) ELSE Throw("deserialize")
    BY <1>2 DEF ReadAt
  <2>. HIDE DEF t
  <2>5. Bind(Deserialized(t), There) =
           IF t \in DOMAIN deserialize_value
           THEN Val(Some(deserialize_value[t])) ELSE Throw("deserialize")
    BY Outcomes DEF Deserialized, Bind, Once
  <2>. QED
    BY <2>1, <2>2, <2>3, <2>4, <2>5 DEF StringOrNil
<1>. QED
  BY <1>1, <1>2

LEMMA ValuesDecoded ==
    ASSUME NEW h, TextMap(h), NEW fs, NEW n \in Nat, DOMAIN fs = 1 .. n, NEW r,
           r = make_array([i \in DOMAIN fs |-> StringOrNil(ValueAt(h, fs[i]))])
    PROVE  hget_result(r, n) = Val([i \in 1 .. n |-> ValueAt(h, fs[i])])
<1>. DEFINE items == [i \in DOMAIN fs |-> StringOrNil(ValueAt(h, fs[i]))]
            results == [i \in DOMAIN items |-> optional_string(items[i])]
            values == [i \in 1 .. n |-> ValueAt(h, fs[i])]
            Decoded(is) == IF Len(is) # n THEN Malformed ELSE DecodeAll(is, optional_string)
<1>1. as_array(r) = Val(items)
  BY DEF as_array, make_array
<1>2. DOMAIN items = 1 .. n /\ DOMAIN results = 1 .. n
  OBVIOUS
<1>3. Len(items) = n
  <2>1. items = [i \in 1 .. n |-> items[i]]
    OBVIOUS
  <2>. HIDE DEF items
  <2>. QED
    BY <1>2, <2>1, LenOf
<1>4. \A i \in 1 .. n : results[i] = Val(ValueAt(h, fs[i]))
  BY OptionalRead
<1>5. DecodeAll(items, optional_string) = Collected(results)
  BY DEF DecodeAll, Once
<1>. HIDE DEF items, results
<1>6. \A i \in 1 .. n : results[i].ok /\ results[i].value = ValueAt(h, fs[i])
  BY <1>4, Outcomes
<1>7. Collected(results) = Val([i \in 1 .. n |-> results[i].value])
  BY <1>2, <1>6, CollectedResult
<1>8. [i \in 1 .. n |-> results[i].value] = values
  BY <1>6
<1>. HIDE DEF values
<1>9. Decoded(items) = Val(values)
  BY <1>3, <1>5, <1>7, <1>8
<1>10. hget_result(r, n) = Bind(Val(items), Decoded)
  BY <1>1 DEF hget_result
<1>. HIDE DEF Decoded
<1>11. Bind(Val(items), Decoded) = Decoded(items)
  BY Outcomes DEF Bind, Once
<1>. QED
  BY <1>9, <1>10, <1>11 DEF values

\* The fields that are asked for and their texts are one to one.
LEMMA FieldTextsRead ==
    ASSUME RoundTrips, NEW F, F \subseteq DOMAIN serialize_key
    PROVE  /\ \A f \in F : serialize_key[f] \in FieldTexts(F)
           /\ \A t \in FieldTexts(F) : /\ t \in DOMAIN deserialize_key
                                      /\ deserialize_key[t] \in F
                                      /\ serialize_key[deserialize_key[t]] = t
BY DEF RoundTrips, FieldTexts

LEMMA BatchPicks ==
    ASSUME RoundTrips, NEW F, F \subseteq DOMAIN serialize_key,
           NEW D \in SUBSET FieldTexts(F), NEW pick \in Picks(D, deserialize_key)
    PROVE  /\ DOMAIN pick \subseteq F
           /\ \A f \in DOMAIN pick : pick[f] = serialize_key[f] /\ pick[f] \in D
           /\ D = FieldTexts(F) => DOMAIN pick = F
<1>1. /\ DOMAIN pick = {deserialize_key[t] : t \in D}
      /\ \A f \in DOMAIN pick : pick[f] \in D /\ deserialize_key[pick[f]] = f
  BY PickedAre
<1>2. /\ \A f \in F : serialize_key[f] \in FieldTexts(F)
      /\ \A t \in FieldTexts(F) : /\ deserialize_key[t] \in F
                                 /\ serialize_key[deserialize_key[t]] = t
  BY FieldTextsRead
<1>3. \A f \in F : deserialize_key[serialize_key[f]] = f
  BY DEF RoundTrips
<1>. QED
  BY <1>1, <1>2, <1>3

\* The outcomes of the texts of F.
Outcome(h, F) == [t \in FieldTexts(F) |-> ReadAt(h, t)]

LEMMA MapsUpdated ==
    ASSUME RoundTrips, NEW h, NEW F, F \subseteq DOMAIN serialize_key
    PROVE  /\ UpdatedMaps(F, Outcome(h, F)) \subseteq BatchAnswers(h, F)
           /\ UpdatedMaps(F, Outcome(h, F)) # {}
           /\ \A w \in UpdatedMaps(F, Outcome(h, F)) : Result(w)
<1>. DEFINE T == FieldTexts(F)
            entry == Outcome(h, F)
            good == {t \in DOMAIN entry : /\ t \in DOMAIN deserialize_key
                                          /\ deserialize_key[t] \in F => entry[t].ok}
            updated(pick) ==
                [f \in F |-> IF f \in DOMAIN pick THEN entry[pick[f]].value ELSE Stale]
            Maps(done) == {updated(pick) : pick \in Picks(done, deserialize_key)}
            readable == {t \in T : ReadAt(h, t).ok}
            legible == {f \in F : ReadName(h, f).ok}
<1>1. UpdatedMaps(F, entry) =
         IF good = DOMAIN entry THEN {Val(Entries(m)) : m \in Maps(good)}
         ELSE {Partly(m) : m \in UNION {Maps(done) : done \in SUBSET good}}
  <2>. HIDE DEF entry
  <2>. QED
    BY DEF UpdatedMaps
<1>2. /\ \A f \in F : serialize_key[f] \in T
      /\ \A t \in T : /\ t \in DOMAIN deserialize_key
                      /\ deserialize_key[t] \in F
                      /\ serialize_key[deserialize_key[t]] = t
  BY FieldTextsRead
<1>3. DOMAIN entry = T /\ \A t \in T : entry[t] = ReadAt(h, t)
  BY DEF Outcome
<1>. HIDE DEF entry
<1>4. \A D \in SUBSET T : \A pick \in Picks(D, deserialize_key) :
          /\ DOMAIN pick \subseteq F
          /\ \A f \in DOMAIN pick : pick[f] = serialize_key[f] /\ pick[f] \in D
          /\ D = T => DOMAIN pick = F
  BY BatchPicks
<1>. HIDE DEF T
<1>5. good = readable
  <2>1. \A t \in T : t \in good <=> t \in readable
    BY <1>2, <1>3
  <2>. QED
    BY <1>3, <2>1
<1>6. ASSUME NEW D \in SUBSET T, NEW pick \in Picks(D, deserialize_key)
      PROVE  updated(pick) = Kept(h, F, DOMAIN pick)
  <2>1. \A f \in DOMAIN pick : pick[f] = serialize_key[f] /\ pick[f] \in T
    BY <1>4
  <2>. QED
    BY <1>3, <2>1 DEF Kept, ReadName
<1>7. readable = T <=> legible = F
  BY <1>2 DEF ReadName
<1>8. readable \in SUBSET T
  OBVIOUS
<1>9. \A D : \A m \in Maps(D) : \E pick \in Picks(D, deserialize_key) : m = updated(pick)
  OBVIOUS
<1>10. ASSUME NEW D
       PROVE  Maps(D) # {}
  <2>1. PICK pick \in Picks(D, deserialize_key) : TRUE
    BY PicksExist
  <2>. HIDE DEF updated
  <2>2. updated(pick) \in Maps(D)
    OBVIOUS
  <2>. QED
    BY <2>2
<1>11. UpdatedMaps(F, entry) =
          IF readable = T THEN {Val(Entries(m)) : m \in Maps(readable)}
          ELSE {Partly(m) : m \in UNION {Maps(done) : done \in SUBSET readable}}
  <2>. HIDE DEF Maps, good, readable
  <2>. QED
    BY <1>1, <1>3, <1>5
<1>12. BatchAnswers(h, F) =
          IF legible = F THEN {Val(Entries([f \in F |-> ReadName(h, f).value]))}
          ELSE {Partly(Kept(h, F, D)) : D \in SUBSET legible}
  BY DEF BatchAnswers, ReadName, Kept
<1>. HIDE DEF good, updated, Maps
<1>13. CASE readable = T
  <2>1. Kept(h, F, F) = [f \in F |-> ReadName(h, f).value]
    BY DEF Kept
  <2>2. ASSUME NEW m \in Maps(readable)
        PROVE  m = [f \in F |-> ReadName(h, f).value]
    <3>1. PICK pick \in Picks(readable, deserialize_key) : m = updated(pick)
      BY <1>9
    <3>2. DOMAIN pick = F
      BY <1>4, <1>13
    <3>. HIDE DEF readable
    <3>. QED
      BY <1>6, <1>8, <2>1, <3>1, <3>2
  <2>3. UpdatedMaps(F, entry) = {Val(Entries(m)) : m \in Maps(readable)}
    BY <1>11, <1>13
  <2>4. BatchAnswers(h, F) = {Val(Entries([f \in F |-> ReadName(h, f).value]))}
    BY <1>7, <1>12, <1>13
  <2>5. Maps(readable) # {}
    BY <1>10
  <2>. HIDE DEF readable, legible
  <2>. QED
    BY <2>2, <2>3, <2>4, <2>5 DEF Result, entry
<1>14. CASE readable # T
  <2>. DEFINE Ms == UNION {Maps(done) : done \in SUBSET readable}
  <2>1. BatchAnswers(h, F) = {Partly(Kept(h, F, D)) : D \in SUBSET legible}
    BY <1>7, <1>12, <1>14
  <2>2. UpdatedMaps(F, entry) = {Partly(m) : m \in Ms}
    BY <1>11, <1>14
  <2>3. ASSUME NEW done \in SUBSET readable, NEW m \in Maps(done)
        PROVE  \E D \in SUBSET legible : m = Kept(h, F, D)
    <3>1. PICK pick \in Picks(done, deserialize_key) : m = updated(pick)
      BY <1>9
    <3>2. done \in SUBSET T
      BY <1>8
    <3>3. DOMAIN pick \subseteq F /\ \A f \in DOMAIN pick : serialize_key[f] \in readable
      BY <1>4, <3>2
    <3>4. DOMAIN pick \in SUBSET legible
      BY <3>3 DEF ReadName
    <3>. HIDE DEF readable, legible
    <3>. QED
      BY <1>6, <3>1, <3>2, <3>4
  <2>. HIDE DEF legible
  <2>4. \A m \in Ms : Partly(m) \in BatchAnswers(h, F)
    <3>1. \A m \in Ms : \E done \in SUBSET readable : m \in Maps(done)
      OBVIOUS
    <3>. HIDE DEF Ms, readable
    <3>. QED
      BY <2>1, <2>3, <3>1
  <2>5. Ms # {}
    <3>1. Maps(readable) # {} /\ readable \in SUBSET readable
      BY <1>10
    <3>. HIDE DEF readable
    <3>. QED
      BY <3>1
  <2>. HIDE DEF Ms, readable
  <2>. QED
    BY <2>2, <2>4, <2>5 DEF Result, entry
<1>. QED
  BY <1>13, <1>14

LEMMA BatchRead ==
    ASSUME NEW h, TextMap(h), NEW F \in SUBSET Field,
           NEW r, r = make_array([i \in DOMAIN InOrder(FieldTexts(F)) |->
                                     StringOrNil(ValueAt(h, InOrder(FieldTexts(F))[i]))])
    PROVE  batch_results(F, r) = UpdatedMaps(F, Outcome(h, F))
<1>. DEFINE T == FieldTexts(F)
            ts == InOrder(T)
            n == Cardinality(T)
            at(t) == CHOOSE i \in DOMAIN ts : ts[i] = t
            values == [i \in 1 .. n |-> ValueAt(h, ts[i])]
            got == Val(values)
            entry(g) == [t \in T |-> OptionalValue(g.value[at(t)])]
            Made(g) == IF g.ok THEN UpdatedMaps(F, entry(g)) ELSE {g}
<1>1. IsFiniteSet(T)
  BY FieldTextsFinite
<1>2. ts \in Seq(T) /\ Len(ts) = n /\ \A t \in T : \E i \in DOMAIN ts : ts[i] = t
  BY <1>1, Orders DEF InOrder
<1>3. n \in Nat
  BY <1>1, FS_CardinalityType
<1>4. batch_results(F, r) = Once(hget_result(r, n), Made)
  BY DEF batch_results
<1>5. DOMAIN ts = 1 .. n
  BY <1>2, <1>3
<1>. HIDE DEF T, n, Made
<1>6. hget_result(r, n) = got
  <2>1. r = make_array([i \in DOMAIN ts |-> StringOrNil(ValueAt(h, ts[i]))])
    BY DEF T
  <2>. HIDE DEF ts
  <2>. QED
    BY <1>3, <1>5, <2>1, ValuesDecoded
<1>. HIDE DEF ts
<1>7. Once(got, Made) = Made(got)
  BY DEF Once
<1>8. got.ok /\ got.value = values
  BY Outcomes
<1>. HIDE DEF got
<1>9. ASSUME NEW t \in T
      PROVE  OptionalValue(got.value[at(t)]) = ReadAt(h, t)
  <2>1. at(t) \in 1 .. n /\ ts[at(t)] = t
    BY <1>2, <1>5
  <2>. HIDE DEF at
  <2>2. got.value[at(t)] = ValueAt(h, t)
    BY <1>8, <2>1
  <2>. QED
    BY <2>2, OptionalRead
<1>10. entry(got) = Outcome(h, F)
  <2>. HIDE DEF at
  <2>. QED
    BY <1>9 DEF Outcome, T
<1>. HIDE DEF entry
<1>11. Made(got) = UpdatedMaps(F, Outcome(h, F))
  BY <1>8, <1>10 DEF Made
<1>. QED
  BY <1>4, <1>6, <1>7, <1>11

LEMMA BatchMeans ==
    ASSUME RoundTrips, NEW F \in SUBSET Field, F \subseteq DOMAIN serialize_key
    PROVE  Means([cmd |-> "HMGET", fields |-> InOrder(FieldTexts(F))],
                 [name |-> "hget_batch", asked |-> F])
<1>. DEFINE ts == InOrder(FieldTexts(F))
            m == [cmd |-> "HMGET", fields |-> ts]
            o == [name |-> "hget_batch", asked |-> F]
<1>1. o.name \in HashNames /\ m.cmd \in HashCmds /\ Rejections(o) = {}
  <2>1. NamedFields(o) = F
    BY DEF NamedFields
  <2>. QED
    BY <2>1, FieldsNotRejected DEF HashNames, HashCmds
<1>2. ASSUME NEW x \in Objects, NEW e \in HashEffects(m, x), OfKind(x, "hash")
      PROVE  HashAnswered(o, x, e)
  <2>. DEFINE h == HashOf(x)
              answers == BatchAnswers(h, F)
              r == make_array([i \in DOMAIN ts |-> StringOrNil(ValueAt(h, ts[i]))])
              R == HashResults(o, e.reply)
  <2>1. AsHash(h) = x /\ TextMap(h)
    BY <1>2, TypedHash
  <2>2. e = Change(x, <<>>, r)
    <3>. HIDE DEF ts
    <3>. QED
      BY <1>2 DEF HashEffects, HashOf
  <2>3. e.object = x /\ e.reply = r
    BY <2>2, Changed
  <2>4. HashGives(h, answers) \in HashPromised(o, x)
    <3>1. [object |-> x, answers |-> answers] \in HashPromised(o, x)
      BY <1>2 DEF HashPromised, HashOf
    <3>. HIDE DEF h, answers, o
    <3>. QED
      BY <2>1, <3>1 DEF HashGives
  <2>. HIDE DEF h
  <2>5. R = batch_results(F, e.reply)
    BY DEF HashResults
  <2>6. R \subseteq answers /\ R # {} /\ \A w \in R : Result(w)
    BY <2>1, <2>3, <2>5, BatchRead, MapsUpdated
  <2>7. ~is_error(e.reply)
    BY <2>3, NoErrors
  <2>. HIDE DEF answers, o, R
  <2>. QED
    BY <2>1, <2>3, <2>4, <2>6, <2>7 DEF HashAnswered, R
<1>. HIDE DEF o, m
<1>3. Means(m, o)
  BY <1>1, <1>2, HashMeans
<1>. QED
  BY <1>3 DEF o, m

LEMMA HashOpsAre ==
    ASSUME "hash" \in Views
    PROVE  HashOps \subseteq Ops
BY DEF Ops

LEMMA HSetProper ==
    ASSUME NEW c, NEW m, hset_map(c, m), [name |-> "hset", values |-> m] \in Ops
    PROVE  ProperCall(c)
<1>. DEFINE o == [name |-> "hset", values |-> m]
<1>1. PICK command \in Hset(m) : Call(c, o, command)
  BY DEF hset_map
<1>2. o \in Ops /\ "values" \in DOMAIN o /\ o.values = m /\ NamedFields(o) = DOMAIN m
  BY DEF NamedFields
<1>3. CASE DOMAIN m = {}
  <2>1. command = Done(Flag(FALSE))
    BY <1>1, <1>3 DEF Hset
  <2>2. \A x : NothingToDo(o, x) = {[object |-> x, answers |-> {Val(Flag(FALSE))}]}
    BY <1>3 DEF NothingToDo
  <2>. HIDE DEF o
  <2>3. Rejections(o) = {}
    BY <1>2, <1>3, FieldsNotRejected
  <2>4. Proper(o, Done(Flag(FALSE)))
    BY <1>2, <2>2, <2>3, NothingDone
  <2>. QED
    BY <1>1, <1>2, <2>1, <2>4 DEF ProperCall
<1>4. CASE DOMAIN m # {} /\ Serializable(m)
  <2>1. PICK pick \in Picks(DOMAIN m, serialize_key) :
            command = Val([cmd |-> "HSET", map |-> WrittenMap(m, pick)])
    BY <1>1, <1>4 DEF Hset
  <2>. DEFINE sent == [cmd |-> "HSET", map |-> WrittenMap(m, pick)]
  <2>2. Means(sent, o) /\ command = Val(sent)
    BY <1>4, <2>1, HSetMeans
  <2>. HIDE DEF sent, o
  <2>3. Proper(o, command)
    BY <1>2, <2>2, ProperCommand
  <2>. QED
    BY <1>1, <1>2, <2>3 DEF ProperCall
<1>5. CASE DOMAIN m # {} /\ ~Serializable(m)
  <2>1. command = Throw("serialize")
    BY <1>1, <1>5 DEF Hset
  <2>. HIDE DEF o
  <2>2. CASE ~(DOMAIN m \subseteq DOMAIN serialize_key)
    <3>1. Proper(o, command)
      BY <1>2, <2>1, <2>2, FieldsRejected
    <3>. QED
      BY <1>1, <1>2, <3>1 DEF ProperCall
  <2>3. CASE \E f \in DOMAIN m : m[f] \notin DOMAIN serialize_value
    <3>1. Proper(o, command)
      BY <1>2, <2>1, <2>3, IsRejected
    <3>. QED
      BY <1>1, <1>2, <3>1 DEF ProperCall
  <2>. QED
    BY <1>5, <2>2, <2>3 DEF Serializable
<1>. QED
  BY <1>3, <1>4, <1>5

LEMMA HGetProper ==
    ASSUME NEW c, NEW f, hget(c, f), [name |-> "hget", field |-> f] \in Ops
    PROVE  ProperCall(c)
<1>. DEFINE o == [name |-> "hget", field |-> f]
            Asked(t) == Val([cmd |-> "HGET", field |-> t])
            command == Bind(SerializedName(f), Asked)
<1>1. Call(c, o, command) /\ o \in Ops /\ NamedFields(o) = {f}
  BY DEF hget, NamedFields
<1>2. CASE f \in DOMAIN serialize_key
  <2>. DEFINE t == serialize_key[f]
              m == [cmd |-> "HGET", field |-> t]
  <2>1. SerializedName(f) = Val(t)
    BY <1>2 DEF SerializedName
  <2>. HIDE DEF t
  <2>2. Bind(Val(t), Asked) = Asked(t)
    <3>. HIDE DEF Asked
    <3>. QED
      BY Outcomes DEF Bind, Once
  <2>3. command = Val(m)
    BY <2>1, <2>2
  <2>4. Means(m, o)
    BY <1>2, HGetMeans DEF t
  <2>. HIDE DEF m, o, command
  <2>5. Proper(o, command)
    BY <1>1, <2>3, <2>4, ProperCommand
  <2>. QED
    BY <1>1, <2>5 DEF ProperCall
<1>3. CASE f \notin DOMAIN serialize_key
  <2>1. SerializedName(f) = Throw("serialize")
    BY <1>3 DEF SerializedName
  <2>2. Bind(Throw("serialize"), Asked) = Throw("serialize")
    <3>. HIDE DEF Asked
    <3>. QED
      BY Outcomes DEF Bind, Once
  <2>3. command = Throw("serialize")
    BY <2>1, <2>2
  <2>. HIDE DEF o, command
  <2>4. Proper(o, command)
    BY <1>1, <1>3, <2>3, FieldsRejected
  <2>. QED
    BY <1>1, <2>4 DEF ProperCall
<1>. QED
  BY <1>2, <1>3

LEMMA TextsForNone ==
    ASSUME NEW fs \in Seq(Name)
    PROVE  TextsFor(fs) = <<>> <=> fs = <<>>
<1>. DEFINE n == Len(fs)
            ts == TextsFor(fs)
<1>1. n \in Nat /\ DOMAIN fs = 1 .. n /\ DOMAIN ts = 1 .. n
  BY DEF TextsFor
<1>2. fs = <<>> <=> n = 0
  OBVIOUS
<1>3. ts = [i \in 1 .. n |-> ts[i]]
  BY <1>1 DEF TextsFor
<1>. HIDE DEF ts, n
<1>4. Len(ts) = n /\ ts \in Seq({ts[i] : i \in 1 .. n})
  BY <1>1, <1>3, LenOf
<1>5. ts = <<>> <=> n = 0
  <2>1. Len(ts) = 0 <=> ts = <<>>
    BY <1>4, EmptySeq
  <2>. QED
    BY <1>4, <2>1
<1>. QED
  BY <1>2, <1>5 DEF ts

LEMMA HRemoveProper ==
    ASSUME NEW c, NEW fs \in Seq(Name), hdel_list(c, fs), [name |-> "hdel", fields |-> fs] \in Ops
    PROVE  ProperCall(c)
<1>. DEFINE o == [name |-> "hdel", fields |-> fs]
            ts == TextsFor(fs)
            m == [cmd |-> "HDEL", fields |-> ts]
            Deleted(us) == IF us = <<>> THEN Done(Count(0))
                           ELSE Val([cmd |-> "HDEL", fields |-> us])
            command == Bind(DecodeAll(fs, SerializedName), Deleted)
<1>1. Call(c, o, command) /\ o \in Ops /\ o.fields = fs
  BY DEF hdel_list
<1>2. NamedFields(o) = {fs[i] : i \in DOMAIN fs}
  BY DEF NamedFields
<1>3. CASE /\ \A i \in DOMAIN fs : fs[i] \in DOMAIN serialize_key
           /\ DecodeAll(fs, SerializedName) = Val(ts)
  <2>1. command = Deleted(ts)
    <3>. HIDE DEF Deleted, ts
    <3>. QED
      BY <1>3, Outcomes DEF Bind, Once
  <2>2. CASE fs = <<>>
    <3>1. command = Done(Count(0))
      BY <2>1, <2>2, TextsForNone
    <3>2. \A x : NothingToDo(o, x) = {[object |-> x, answers |-> {Val(Count(0))}]}
      BY <2>2 DEF NothingToDo
    <3>3. Rejections(o) = {}
      <4>1. NamedFields(o) \subseteq DOMAIN serialize_key
        BY <1>2, <1>3
      <4>. QED
        BY <4>1, FieldsNotRejected
    <3>. HIDE DEF o, command
    <3>4. Proper(o, Done(Count(0)))
      BY <1>1, <3>2, <3>3, NothingDone
    <3>. QED
      BY <1>1, <3>1, <3>4 DEF ProperCall
  <2>3. CASE fs # <<>>
    <3>1. command = Val(m)
      BY <2>1, <2>3, TextsForNone
    <3>2. Means(m, o)
      BY <1>3, HRemoveMeans
    <3>. HIDE DEF o, m, command
    <3>3. Proper(o, command)
      BY <1>1, <3>1, <3>2, ProperCommand
    <3>. QED
      BY <1>1, <3>3 DEF ProperCall
  <2>. QED
    BY <2>2, <2>3
<1>4. CASE /\ \E i \in DOMAIN fs : fs[i] \notin DOMAIN serialize_key
           /\ DecodeAll(fs, SerializedName) = Throw("serialize")
  <2>1. command = Throw("serialize")
    <3>. HIDE DEF Deleted
    <3>. QED
      BY <1>4, Outcomes DEF Bind, Once
  <2>2. ~(NamedFields(o) \subseteq DOMAIN serialize_key)
    BY <1>2, <1>4
  <2>. HIDE DEF o, command
  <2>3. Proper(o, command)
    BY <1>1, <2>1, <2>2, FieldsRejected
  <2>. QED
    BY <1>1, <2>3 DEF ProperCall
<1>. QED
  BY <1>3, <1>4, NamesSerialized

LEMMA HashCallProper ==
    ASSUME RoundTrips, "hash" \in Views, NEW c, HashCall(c)
    PROVE  ProperCall(c)
<1>1. ASSUME NEW f \in Field, hget(c, f)
      PROVE  ProperCall(c)
  <2>1. [name |-> "hget", field |-> f] \in Ops
    BY HashOpsAre DEF HashOps
  <2>. QED
    BY <1>1, <2>1, HGetProper
<1>2. ASSUME NEW F \in SUBSET Field, hget_batch(c, F)
      PROVE  ProperCall(c)
  <2>. DEFINE o == [name |-> "hget_batch", asked |-> F]
              m == [cmd |-> "HMGET", fields |-> InOrder(FieldTexts(F))]
              command == IF F = {} THEN Done(Entries(<<>>))
                         ELSE IF F \subseteq DOMAIN serialize_key THEN Val(m)
                         ELSE Throw("serialize")
  <2>0. Call(c, o, command)
    BY <1>2 DEF hget_batch
  <2>1. o \in Ops
    BY HashOpsAre DEF HashOps
  <2>2. CASE F = {}
    <3>1. \A x : NothingToDo(o, x) = {[object |-> x, answers |-> {Val(Entries(<<>>))}]}
      BY <2>2 DEF NothingToDo
    <3>2. Rejections(o) = {}
      <4>1. NamedFields(o) = {}
        BY <2>2 DEF NamedFields
      <4>. QED
        BY <4>1, FieldsNotRejected
    <3>3. command = Done(Entries(<<>>))
      BY <2>2
    <3>. HIDE DEF o, command
    <3>4. Proper(o, Done(Entries(<<>>)))
      BY <2>1, <3>1, <3>2, NothingDone
    <3>. QED
      BY <2>0, <3>3, <3>4 DEF ProperCall
  <2>3. CASE F # {} /\ F \subseteq DOMAIN serialize_key
    <3>1. Means(m, o) /\ command = Val(m)
      BY <2>3, BatchMeans
    <3>. HIDE DEF o, m, command
    <3>2. Proper(o, command)
      BY <2>1, <3>1, ProperCommand
    <3>. QED
      BY <2>0, <2>1, <3>2 DEF ProperCall
  <2>4. CASE F # {} /\ ~(F \subseteq DOMAIN serialize_key)
    <3>1. command = Throw("serialize") /\ NamedFields(o) = F
      BY <2>4 DEF NamedFields
    <3>. HIDE DEF o, command
    <3>2. Proper(o, command)
      BY <2>1, <2>4, <3>1, FieldsRejected
    <3>. QED
      BY <2>0, <2>1, <3>2 DEF ProperCall
  <2>. QED
    BY <2>2, <2>3, <2>4
<1>3. ASSUME hgetall(c) \/ hkeys(c) \/ hvals(c) \/ hscan(c)
      PROVE  ProperCall(c)
  <2>1. ASSUME NEW name \in {"hgetall", "hkeys", "hvals", "hscan"}, NEW cmd,
               Means([cmd |-> cmd], [name |-> name]), Call(c, [name |-> name], Val([cmd |-> cmd]))
        PROVE  ProperCall(c)
    <3>1. [name |-> name] \in Ops
      BY HashOpsAre DEF HashOps
    <3>2. Proper([name |-> name], Val([cmd |-> cmd]))
      BY <2>1, <3>1, ProperCommand
    <3>. QED
      BY <2>1, <3>2 DEF ProperCall
  <2>. QED
    BY <1>3, <2>1, AllMean, NamesMean, ValuesMean, ScanMeans DEF hgetall, hkeys, hvals, hscan
<1>4. ASSUME NEW f \in Field, NEW v \in Value, hset(c, f, v)
      PROVE  ProperCall(c)
  <2>. DEFINE m == Single(f, v)
  <2>1. [name |-> "hset", values |-> m] \in Ops
    <3>1. m \in [{f} -> Value]
      BY DEF Single
    <3>2. m \in UNION {[{g} -> Value] : g \in Field}
      BY <3>1
    <3>. HIDE DEF m
    <3>. QED
      BY <3>2, HashOpsAre DEF HashOps
  <2>2. hset_map(c, m)
    BY <1>4 DEF hset
  <2>. HIDE DEF m
  <2>. QED
    BY <2>1, <2>2, HSetProper
<1>5. ASSUME NEW m \in HashMaps, hset_map(c, m)
      PROVE  ProperCall(c)
  <2>1. [name |-> "hset", values |-> m] \in Ops
    BY HashOpsAre DEF HashOps
  <2>. QED
    BY <1>5, <2>1, HSetProper
<1>6. ASSUME NEW f \in Field, hdel(c, f)
      PROVE  ProperCall(c)
  <2>1. [name |-> "hdel", fields |-> <<f>>] \in Ops
    BY HashOpsAre DEF HashOps
  <2>2. <<f>> \in Seq(Name) /\ hdel_list(c, <<f>>)
    BY <1>6, HashAssumption DEF hdel
  <2>. QED
    BY <2>1, <2>2, HRemoveProper
<1>7. ASSUME NEW fs \in FieldVectors, hdel_list(c, fs)
      PROVE  ProperCall(c)
  <2>1. [name |-> "hdel", fields |-> fs] \in Ops
    BY HashOpsAre DEF HashOps
  <2>2. fs \in Seq(Name)
    BY HashAssumption
  <2>. QED
    BY <1>7, <2>1, <2>2, HRemoveProper
<1>. QED
  BY <1>1, <1>2, <1>3, <1>4, <1>5, <1>6, <1>7 DEF HashCall
-----------------------------------------------------------------------------
(* The views implement the linear object.                                   *)

LEMMA InitMapped == Init => MInv /\ Promise!Init
<1>. SUFFICES ASSUME Init PROVE MInv /\ Promise!Init
  OBVIOUS
<1>1. \A c \in Client : /\ req[c] = NoMsg /\ rep[c] = NoMsg /\ stray[c] = <<>>
                        /\ busy[c] = FALSE
  BY DEF Init
<1>2. MInv
  BY <1>1 DEF MInv, Meaningful
<1>3. Answers = [c \in Client |-> IdleAnswers]
  BY <1>1 DEF Answers, AnswersOf
<1>4. Lates = [c \in Client |-> <<>>]
  <2>1. ASSUME NEW c \in Client
        PROVE  LateOf(c) = <<>>
    <3>1. LateOf(c) = [i \in 1 .. 0 |-> stray[c][i].op]
      BY <1>1 DEF LateOf
    <3>2. LateOf(c) \in Seq({stray[c][1].op}) /\ Len(LateOf(c)) = 0
      BY <3>1
    <3>. QED
      BY <3>2, EmptySeq
  <2>. QED
    BY <2>1 DEF Lates
<1>5. Typed(object) = NoObject
  BY TypedNothing DEF Init
<1>6. op = [c \in Client |-> NoOp] /\ outcome = [c \in Client |-> Waiting]
  BY DEF Init
<1>. QED
  BY <1>2, <1>3, <1>4, <1>5, <1>6, Mapping DEF Promise!Init

LEMMA UnchangedMapped ==
    ASSUME MInv, UNCHANGED vars
    PROVE  MInv' /\ AbstractStep
<1>1. UNCHANGED <<object, req, rep, stray, busy, op, outcome>>
  BY DEF vars, netVars, callVars
<1>2. MInv'
  BY <1>1 DEF MInv, Meaningful
<1>3. Answers' = Answers /\ Lates' = Lates
  BY <1>1 DEF Answers, AnswersOf, Lates, LateOf
<1>. QED
  BY <1>1, <1>2, <1>3 DEF AbstractStep, Stutters

LEMMA OperationMapped ==
    ASSUME RoundTrips, NEW c \in Client, Operation(c)
    PROVE  ProperCall(c) /\ ~busy[c]
BY ValueCallProper, HashCallProper, ListCallProper, SetCallProper, ZSetCallProper,
   KeyCallProper DEF Operation

LEMMA NextMapped ==
    ASSUME RoundTrips
    PROVE  IInv /\ MInv /\ [Next]_vars =>
               IInv' /\ MInv' /\ [Promise!Next]_(Promise!vars)
<1>. SUFFICES ASSUME IInv, IInv', MInv, [Next]_vars PROVE MInv' /\ AbstractStep
  BY NextIInv, Mapped
<1>1. ASSUME NEW c \in Client, Operation(c)
      PROVE  MInv' /\ AbstractStep
  BY <1>1, OperationMapped, ProperCallStep
<1>2. CASE UNCHANGED vars
  BY <1>2, UnchangedMapped
<1>. QED
  BY <1>1, <1>2, ReturnStep, TransportErrorStep, ReconnectStep, ServeCommandStep,
     ServeLateStep, DropStep, OthersStep DEF Next

\* Calls of all the views (redis_operations.hpp, redis_template.hpp) take effect at
\* most once and at one moment, and give what that effect answers, if the program
\* reads back what it writes.
THEOREM ViewsAreLinear ==
    ASSUME RoundTrips
    PROVE  Spec => ImplementsLinearObject
<1>1. Spec => Promise!Init /\ [][Promise!Next]_(Promise!vars)
  BY InitIInv, InitMapped, NextMapped, PTL DEF Spec
<1>. QED
  BY <1>1 DEF ImplementsLinearObject, Promise!Spec
=============================================================================
