--------------------------- MODULE HashOperations ---------------------------
(***************************************************************************)
(* default_hash_operations: the hash operations of redis_template.         *)
(*                                                                         *)
(* hget for several fields and hscan change a map of the caller's in       *)
(* place, so an exception leaves a trace in it: Partly is an exception     *)
(* with the map it leaves behind.                                          *)
(*                                                                         *)
(* A field is a key of the program.  Two texts may be one field to it, and *)
(* a serializer that does not keep fields apart may write one text for     *)
(* two of them; then a map has room for one of the entries.                *)
(***************************************************************************)
EXTENDS TypedClient, SequencesExt

CONSTANTS
    Field,          \* the names a program uses for fields
    FieldVectors,   \* inputs: vectors of fields
    HashMaps        \* inputs: maps from fields to values

ASSUME HashAssumption ==
    /\ Field \subseteq Name /\ IsFiniteSet(Field)
    /\ FieldVectors \subseteq Seq(Field)
    /\ \A m \in HashMaps : /\ DOMAIN m \subseteq Field
                           /\ \A f \in DOMAIN m : m[f] \in Value

Single(f, v) == [g \in {f} |-> v]
Entries(m) == [entries |-> m]
Names(fs) == [names |-> fs]
Page(cursor, m) == [cursor |-> cursor, entries |-> m]

Stale == Some("stale")      \* an entry as it was before the call
Partly(m) == [ok |-> FALSE, error |-> "deserialize", map |-> m]

\* The order in which a map is iterated; it stays while the map does.
InOrder(F) == SetToSeq(F)

\* A map goes into another one under its keys to[x].  Which x it is for a key
\* that several of them have depends on the order of the first map, which is any.
Picks(S, to) ==
    {pick \in [{to[x] : x \in S} -> S] : \A y \in DOMAIN pick : to[pick[y]] = y}

FieldTexts(F) == {serialize_key[f] : f \in F}

hget(c, f) == Call(c, [name |-> "hget", field |-> f],
                   Bind(SerializedName(f), LAMBDA t : Val([cmd |-> "HGET", field |-> t])))

\* Without fields nothing is sent and the map stays empty.
hget_batch(c, F) ==
    Call(c, [name |-> "hget_batch", asked |-> F],
         IF F = {} THEN Done(Entries(<<>>))
         ELSE IF F \subseteq DOMAIN serialize_key
         THEN Val([cmd |-> "HMGET", fields |-> InOrder(FieldTexts(F))])
         ELSE Throw("serialize"))

hgetall(c) == Call(c, [name |-> "hgetall"], Val([cmd |-> "HGETALL"]))
hkeys(c) == Call(c, [name |-> "hkeys"], Val([cmd |-> "HKEYS"]))
hvals(c) == Call(c, [name |-> "hvals"], Val([cmd |-> "HVALS"]))
hscan(c) == Call(c, [name |-> "hscan"], Val([cmd |-> "HSCAN"]))

Serializable(m) ==
    DOMAIN m \subseteq DOMAIN serialize_key /\ \A f \in DOMAIN m : m[f] \in DOMAIN serialize_value

WrittenMap(m, pick) == [t \in DOMAIN pick |-> serialize_value[m[pick[t]]]]

\* A map without entries is FALSE at once.
Hset(m) ==
    IF DOMAIN m = {} THEN {Done(Flag(FALSE))}
    ELSE IF ~Serializable(m) THEN {Throw("serialize")}
    ELSE {Val([cmd |-> "HSET", map |-> WrittenMap(m, pick)]) :
             pick \in Picks(DOMAIN m, serialize_key)}

hset_map(c, m) ==
    \E command \in Hset(m) : Call(c, [name |-> "hset", values |-> m], command)
hset(c, f, v) == hset_map(c, Single(f, v))

hdel_list(c, fs) ==
    Call(c, [name |-> "hdel", fields |-> fs],
         Bind(DecodeAll(fs, SerializedName), LAMBDA ts :
             IF ts = <<>> THEN Done(Count(0)) ELSE Val([cmd |-> "HDEL", fields |-> ts])))
hdel(c, f) == hdel_list(c, <<f>>)

HashCall(c) ==
    \/ \E f \in Field : hget(c, f) \/ hdel(c, f)
    \/ \E F \in SUBSET Field : hget_batch(c, F)
    \/ hgetall(c) \/ hkeys(c) \/ hvals(c) \/ hscan(c)
    \/ \E f \in Field, v \in Value : hset(c, f, v)
    \/ \E m \in HashMaps : hset_map(c, m)
    \/ \E fs \in FieldVectors : hdel_list(c, fs)
-----------------------------------------------------------------------------
(* What the view may make of a reply that is no error.                      *)

OptionalValue(t) ==
    IF t = None THEN Val(None)
    ELSE Bind(Deserialized(t[1]), LAMBDA v : Val(Some(v)))

\* Every text that was asked for is read as a field again.  The entries of the
\* map are replaced one by one, in an order of the map's own, up to the first
\* that cannot be deserialised; a field that is not in the map is left out.
UpdatedMaps(F, entry) ==
    LET good == {t \in DOMAIN entry :
                    /\ t \in DOMAIN deserialize_key
                    /\ deserialize_key[t] \in F => entry[t].ok}
        updated(pick) ==
            [f \in F |-> IF f \in DOMAIN pick THEN entry[pick[f]].value ELSE Stale]
        Maps(done) == {updated(pick) : pick \in Picks(done, deserialize_key)}
    IN  IF good = DOMAIN entry THEN {Val(Entries(m)) : m \in Maps(good)}
        ELSE {Partly(m) : m \in UNION {Maps(done) : done \in SUBSET good}}

batch_results(F, r) ==
    Once(hget_result(r, Cardinality(FieldTexts(F))), LAMBDA got :
        LET ts == InOrder(FieldTexts(F))
            Read(t) == OptionalValue(got.value[CHOOSE i \in DOMAIN ts : ts[i] = t])
        IN  IF got.ok THEN UpdatedMaps(F, [t \in FieldTexts(F) |-> Read(t)]) ELSE {got})

\* The pairs of a raw map that both of whose texts can be deserialised.
Readable(raw) ==
    {t \in DOMAIN raw : t \in DOMAIN deserialize_key /\ raw[t] \in DOMAIN deserialize_value}

\* What may come of the pairs with the names F.
ReadMaps(raw, F) ==
    {[f \in DOMAIN pick |-> deserialize_value[raw[pick[f]]]] :
        pick \in Picks(F, deserialize_key)}

hgetall_results(r) ==
    Once(hash(r), LAMBDA got :
        IF ~got.ok THEN {got}
        ELSE IF Readable(got.value) = DOMAIN got.value
        THEN {Val(Entries(m)) : m \in ReadMaps(got.value, DOMAIN got.value)}
        ELSE {Throw("deserialize")})

hkeys_result(r) ==
    Bind(strings(r), LAMBDA texts :
        Bind(DecodeAll(texts, DeserializedName), LAMBDA fs : Val(Names(fs))))

\* The caller's map is cleared when the page is there, and filled from it.
hscan_results(r) ==
    Once(hscan_result(r), LAMBDA got :
        LET raw == got.value.page
            good == Readable(raw)
        IN  IF ~got.ok THEN {got}
            ELSE IF good = DOMAIN raw
            THEN {Val(Page(got.value.cursor, m)) : m \in ReadMaps(raw, good)}
            ELSE {Partly(m) : m \in UNION {ReadMaps(raw, done) : done \in SUBSET good}})

HashResults(o, r) ==
    CASE o.name = "hget" -> {element_result(r)}
      [] o.name = "hget_batch" -> batch_results(o.asked, r)
      [] o.name = "hgetall" -> hgetall_results(r)
      [] o.name = "hkeys" -> {hkeys_result(r)}
      [] o.name = "hvals" -> {elements_result(r)}
      [] o.name = "hscan" -> hscan_results(r)
      [] o.name = "hset" -> {Bind(hset_result(r), LAMBDA b : Val(Flag(b)))}
      [] o.name = "hdel" -> {count_result(r)}
      [] OTHER -> {}
-----------------------------------------------------------------------------
(* The server (outside the repository).  It lists fields in an order of its *)
(* own, and a page of a scan is any part of the hash.                       *)

AsHash(h) == IF DOMAIN h = {} THEN NoObject ELSE [hash |-> h]

ValueAt(h, f) == IF f \in DOMAIN h THEN Some(h[f]) ELSE None

FlatPairs(h, fs) ==
    Array([i \in 1 .. 2 * Len(fs) |-> IF i % 2 = 1 THEN fs[(i + 1) \div 2]
                                      ELSE h[fs[i \div 2]]])

Overridden(h, m) ==
    [f \in DOMAIN h \cup DOMAIN m |-> IF f \in DOMAIN m THEN m[f] ELSE h[f]]

Without(h, F) == [f \in DOMAIN h \ F |-> h[f]]

HashEffects(m, x) ==
    LET h == Content(x, "hash")
        Reply(r) == Change(x, <<>>, r)
    IN  IF ~OfKind(x, "hash") THEN {} ELSE
        CASE m.cmd = "HGET" -> {Reply(StringOrNil(ValueAt(h, m.field)))}
          [] m.cmd = "HMGET" ->
                 {Reply(make_array([i \in DOMAIN m.fields |->
                                       StringOrNil(ValueAt(h, m.fields[i]))]))}
          [] m.cmd = "HGETALL" -> {Reply(FlatPairs(h, InOrder(DOMAIN h)))}
          [] m.cmd = "HKEYS" -> {Reply(Array(fs)) : fs \in SetToSeqs(DOMAIN h)}
          [] m.cmd = "HVALS" ->
                 {Reply(Array([i \in DOMAIN fs |-> h[fs[i]]])) :
                     fs \in SetToSeqs(DOMAIN h)}
          [] m.cmd = "HSCAN" ->
                 {Reply(make_array(<<make_string(t), FlatPairs(h, InOrder(F))>>)) :
                     t \in CursorTexts, F \in SUBSET DOMAIN h}
          [] m.cmd = "HSET" ->
                 {Change(AsHash(Overridden(h, m.map)), <<>>,
                         make_integer(Cardinality(DOMAIN m.map \ DOMAIN h)))}
          [] m.cmd = "HDEL" ->
                 LET F == {m.fields[i] : i \in DOMAIN m.fields}
                 IN  {Change(AsHash(Without(h, F)), <<>>,
                             make_integer(Cardinality(F \cap DOMAIN h)))}
          [] OTHER -> {}
-----------------------------------------------------------------------------
(* What hash_operations promises.                                           *)

ReadAt(h, f) ==
    IF f \notin DOMAIN h THEN Val(None)
    ELSE IF h[f] \in DOMAIN deserialize_value THEN Val(Some(deserialize_value[h[f]]))
    ELSE Throw("deserialize")

\* The fields an operation names.
NamedFields(o) ==
    CASE o.name = "hget" -> {o.field}
      [] o.name = "hget_batch" -> o.asked
      [] o.name = "hset" -> DOMAIN o.values
      [] o.name = "hdel" -> {o.fields[i] : i \in DOMAIN o.fields}
      [] OTHER -> {}

\* The maps that have each field that a text in F is read as, with the value
\* at such a text.
MapsOf(h, F) ==
    {m \in [{deserialize_key[t] : t \in F} -> Value] :
        \A f \in DOMAIN m : \E t \in F : /\ deserialize_key[t] = f
                                       /\ deserialize_value[h[t]] = m[f]}

\* The entries in F that can be read.
Legible(h, F) == {t \in F : t \in DOMAIN deserialize_key /\ ReadAt(h, t).ok}

\* A page with the entries in F fills a map in place: when one cannot be read
\* the map has some of those that can.
PageAnswers(h, t, F) ==
    IF Legible(h, F) = F THEN {Val(Page(CursorOf[t], m)) : m \in MapsOf(h, F)}
    ELSE {Partly(m) : m \in UNION {MapsOf(h, done) : done \in SUBSET Legible(h, F)}}

\* The entries of a map are replaced by those of h; when one cannot be read, some
\* of the others are.
BatchAnswers(h, F) ==
    LET at(f) == ReadAt(h, serialize_key[f])
        good == {f \in F : at(f).ok}
    IN  IF good = F THEN {Val(Entries([f \in F |-> at(f).value]))}
        ELSE {Partly([f \in F |-> IF f \in done THEN at(f).value ELSE Stale]) :
                 done \in SUBSET good}

HashPromised(o, x) ==
    LET h == Content(x, "hash")
        Gives(answers) == {[object |-> x, answers |-> answers]}
    IN  IF ~OfKind(x, "hash") THEN {} ELSE
        CASE o.name = "hget" ->
                 Gives({Bind(ReadAt(h, serialize_key[o.field]), LAMBDA v : Val(Element(v)))})
          [] o.name = "hget_batch" -> Gives(BatchAnswers(h, o.asked))
          [] o.name = "hgetall" ->
                 Gives(IF Legible(h, DOMAIN h) = DOMAIN h
                       THEN {Val(Entries(m)) : m \in MapsOf(h, DOMAIN h)}
                       ELSE {Throw("deserialize")})
          [] o.name = "hkeys" ->
                 Gives(IF DOMAIN h \subseteq DOMAIN deserialize_key
                       THEN {Val(Names([i \in DOMAIN ts |-> deserialize_key[ts[i]]])) :
                                ts \in SetToSeqs(DOMAIN h)}
                       ELSE {Throw("deserialize")})
          [] o.name = "hvals" ->
                 Gives(IF \A t \in DOMAIN h : ReadAt(h, t).ok
                       THEN {Val(Elements([i \in DOMAIN ts |-> ReadAt(h, ts[i]).value[1]])) :
                                ts \in SetToSeqs(DOMAIN h)}
                       ELSE {Throw("deserialize")})
          [] o.name = "hscan" ->
                 Gives(UNION {PageAnswers(h, t, F) : t \in CursorTexts, F \in SUBSET DOMAIN h})
          [] o.name = "hset" ->
                 {[object |-> AsHash(Overridden(h, WrittenMap(o.values, pick))),
                   answers |-> {Val(Flag(DOMAIN o.values # {}))}] :
                     pick \in Picks(DOMAIN o.values, serialize_key)}
          [] o.name = "hdel" ->
                 LET F == {serialize_key[o.fields[i]] : i \in DOMAIN o.fields}
                 IN  {[object |-> AsHash(Without(h, F)),
                       answers |-> {Val(Count(Cardinality(F \cap DOMAIN h)))}]}
          [] OTHER -> {}

HashOps ==
         [name : {"hget"}, field : Field]
    \cup [name : {"hget_batch"}, asked : SUBSET Field]
    \cup [name : {"hgetall", "hkeys", "hvals", "hscan"}]
    \cup [name : {"hset"}, values : HashMaps \cup UNION {[{f} -> Value] : f \in Field}]
    \cup [name : {"hdel"}, fields : FieldVectors \cup {<<f>> : f \in Field}]
=============================================================================
