-------------------------- MODULE StreamOperations --------------------------
(***************************************************************************)
(* The stream view of redis_template on one stream, which one consumer     *)
(* group and other programs read: default_stream_operations, redis_client  *)
(* and the argument checks of redis_cmd_ops.                               *)
(*                                                                         *)
(* Entries are numbered in order.  An entry has fields in the order they   *)
(* were given: pairs of a name, which is of the type of the keys and has   *)
(* their serialiser, and a value.  A caller is the same consumer in every  *)
(* call.  Fields of a deleted entry that is still pending are none (NIL).  *)
(*                                                                         *)
(* A command with BLOCK is held by the server while there is nothing to    *)
(* read.  A command that arrives after its call has failed is left to the  *)
(* run of the list view.                                                   *)
(***************************************************************************)
EXTENDS TypedClient

CONSTANTS
    FieldVectors,   \* inputs: vectors of names with values, the fields of an entry
    AddOptions,     \* inputs: stream_add_options
    TrimOptions,    \* inputs: stream_trim_options
    ReadOptions,    \* inputs: stream_read_options and stream_read_group_options
    ReadRequests,   \* inputs: what to read: no stream, or one with an id
    RangeCounts,    \* inputs: the count of xrange and xrevrange
    IdVectors,      \* inputs: ids to delete or to acknowledge
    OtherFields,    \* inputs: the fields of the entries that other programs add
    StreamKey,      \* the text of the key
    MaxId           \* bound: the last entry

\* The types of the options.  The entries of a stream can be counted.
ASSUME StreamAssumption ==
    LET trims == TrimOptions \cup {add.trim[1] : add \in {a \in AddOptions : a.trim # None}}
        numbers == RangeCounts \cup {read.count : read \in ReadOptions}
                   \cup {read.block_ms : read \in ReadOptions} \cup {trim.limit : trim \in trims}
    IN  /\ \A fields \in FieldVectors : fields \in Seq(Name \X Value)
        /\ \A pairs \in OtherFields : pairs \in Seq(Text \X Text)
        /\ \A add \in AddOptions : /\ add.id \in Int
                                   /\ add.trim = None \/ add.trim = Some(add.trim[1])
        /\ \A n \in numbers : n = None \/ (n = Some(n[1]) /\ n[1] \in Int)
        /\ \A ids \in ReadRequests : ids = <<>> \/ ids = <<ids[1]>>
        /\ MaxId \in Nat /\ MaxId < HALF

\* A caller is a consumer of its own, and the stream shows what is pending for
\* one; the programs of other consumers are among the others.
ASSUME OneCaller == \A c, d \in Client : c = d

\* The ids that are no numbers: none, ">" and "*", and "$".
EMPTY_ID == -1
NEW_ID == -2
LAST_ID == -3

Lowest == 0
Highest == MaxId
-----------------------------------------------------------------------------
(* The calls: redis_cmd_ops rejects what the server would misunderstand.    *)

Checked(good, command) == IF good THEN Val(command) ELSE Throw("invalid_argument")

append_stream_count(count) == count = None \/ count[1] > 0
append_stream_block(block) == block = None \/ block[1] >= 0
append_stream_trim(trim) ==
    /\ trim.threshold # EMPTY_ID
    /\ trim.limit = None \/ (trim.limit[1] >= 0 /\ trim.approximate)
append_streams(ids) == ids # <<>> /\ \A i \in DOMAIN ids : ids[i] # EMPTY_ID

SerializedField(field) ==
    Bind(SerializedName(field[1]), LAMBDA name :
        Bind(Serialized(field[2]), LAMBDA value : Val(<<name, value>>)))

\* One text after the other, as they are sent.
Flat(pairs) ==
    [i \in 1 .. 2 * Len(pairs) |-> pairs[(i + 1) \div 2][IF i % 2 = 1 THEN 1 ELSE 2]]

xadd(c, fields, options) ==
    Call(c, [name |-> "xadd", fields |-> fields, options |-> options],
         Bind(DecodeAll(fields, SerializedField), LAMBDA pairs :
             Checked(/\ pairs # <<>> /\ options.id # EMPTY_ID
                     /\ options.trim # None => append_stream_trim(options.trim[1]),
                     [cmd |-> "XADD", texts |-> Flat(pairs), options |-> options])))

xlen(c) == Call(c, [name |-> "xlen"], Val([cmd |-> "XLEN"]))

Ranged(c, name, cmd, from, to, count) ==
    Call(c, [name |-> name, count |-> count],
         Checked(append_stream_count(count),
                 [cmd |-> cmd, from |-> from, to |-> to, count |-> count]))

\* The limits are given in the order of the reply.
xrange(c, count) == Ranged(c, "xrange", "XRANGE", Lowest, Highest, count)

\* Mutant: the limits are given in the order of XRANGE.
RevrangeForward(c, count) == Ranged(c, "xrevrange", "XREVRANGE", Lowest, Highest, count)

xrevrange(c, count) == Ranged(c, "xrevrange", "XREVRANGE", Highest, Lowest, count)

CheckedRead(ids, options, command) ==
    Checked(append_stream_count(options.count) /\ append_stream_block(options.block_ms)
                /\ append_streams(ids), command)

\* Mutant: a read that is not to wait waits for ever.
ReadsBlocking(cmd, ids, options) ==
    CheckedRead(ids, options, [cmd |-> cmd, ids |-> ids, noack |-> options.noack,
        count |-> options.count,
        block_ms |-> IF options.block_ms = None THEN Some(0) ELSE options.block_ms])

\* Mutant: the flag of NOACK is not looked at.
ReadsUnacknowledged(cmd, ids, options) ==
    CheckedRead(ids, options, [cmd |-> cmd, ids |-> ids, noack |-> TRUE,
        count |-> options.count, block_ms |-> options.block_ms])

ReadCommand(cmd, ids, options) ==
    CheckedRead(ids, options, [cmd |-> cmd, ids |-> ids, noack |-> options.noack,
        count |-> options.count, block_ms |-> options.block_ms])

xread(c, ids, options) ==
    Call(c, [name |-> "xread", ids |-> ids, options |-> options],
         ReadCommand("XREAD", ids, options))

xreadgroup(c, ids, options) ==
    Call(c, [name |-> "xreadgroup", ids |-> ids, options |-> options],
         ReadCommand("XREADGROUP", ids, options))

\* Without ids nothing is sent and the result is 0.
Listed(c, name, cmd, ids) ==
    Call(c, [name |-> name, ids |-> ids],
         IF ids = <<>> THEN Done(Count(0)) ELSE Val([cmd |-> cmd, ids |-> ids]))

xdel(c, ids) == Listed(c, "xdel", "XDEL", ids)
xack(c, ids) == Listed(c, "xack", "XACK", ids)

xtrim(c, trim) ==
    Call(c, [name |-> "xtrim", trim |-> trim],
         Checked(append_stream_trim(trim), [cmd |-> "XTRIM", trim |-> trim]))

xgroup_create(c, id, mkstream) ==
    Call(c, [name |-> "xgroup_create", id |-> id, mkstream |-> mkstream],
         Val([cmd |-> "CREATE", id |-> id, mkstream |-> mkstream]))

xgroup_setid(c, id) ==
    Call(c, [name |-> "xgroup_setid", id |-> id], Val([cmd |-> "SETID", id |-> id]))

Group(c, name, cmd) == Call(c, [name |-> name], Val([cmd |-> cmd]))

xgroup_destroy(c) == Group(c, "xgroup_destroy", "DESTROY")
xgroup_createconsumer(c) == Group(c, "xgroup_createconsumer", "CREATECONSUMER")
xgroup_delconsumer(c) == Group(c, "xgroup_delconsumer", "DELCONSUMER")

StreamCall(c) ==
    /\ ~busy[c]
    /\ \/ \E fields \in FieldVectors, options \in AddOptions : xadd(c, fields, options)
       \/ xlen(c)
       \/ \E count \in RangeCounts : xrange(c, count) \/ xrevrange(c, count)
       \/ \E ids \in ReadRequests, options \in ReadOptions :
             xread(c, ids, options) \/ xreadgroup(c, ids, options)
       \/ \E ids \in IdVectors : xdel(c, ids) \/ xack(c, ids)
       \/ \E trim \in TrimOptions : xtrim(c, trim)
       \/ \E id \in {Lowest, LAST_ID} :
             xgroup_setid(c, id) \/ \E mkstream \in BOOLEAN : xgroup_create(c, id, mkstream)
       \/ xgroup_destroy(c) \/ xgroup_createconsumer(c) \/ xgroup_delconsumer(c)
-----------------------------------------------------------------------------
(* What is made of a reply: the fields of an entry are typed one by one.    *)

EntryId(id) == [id |-> id]
TypedEntries(entries) == [entries |-> entries]

TypedField(field) ==
    Bind(DeserializedName(field[1]), LAMBDA name :
        Bind(Deserialized(field[2]), LAMBDA value : Val(<<name, value>>)))

deserialize_entry(entry) ==
    Bind(DecodeAll(entry.fields, TypedField), LAMBDA fields :
        Val([id |-> entry.id, fields |-> fields]))

deserialize_entries(entries) ==
    Bind(DecodeAll(entries, deserialize_entry), LAMBDA typed : Val(TypedEntries(typed)))

\* There is one stream, so that there is one batch or none.
deserialize_batches(batches) ==
    IF batches = <<>> THEN Val(TypedEntries(<<>>))
    ELSE Bind(DeserializedName(batches[1].key), LAMBDA key :
             deserialize_entries(batches[1].entries))

StreamResult(o, r) ==
    CASE o.name = "xadd" -> Bind(optional_string(r), LAMBDA id : Val(EntryId(id)))
      [] o.name \in {"xlen", "xdel", "xtrim", "xgroup_delconsumer", "xack"} -> count_result(r)
      [] o.name \in {"xrange", "xrevrange"} -> Bind(stream_entries(r), deserialize_entries)
      [] o.name \in {"xread", "xreadgroup"} -> Bind(stream_batches(r), deserialize_batches)
      [] o.name \in {"xgroup_create", "xgroup_setid"} ->
             Bind(status_is_ok(r), LAMBDA b : Val(Flag(b)))
      [] o.name \in {"xgroup_destroy", "xgroup_createconsumer"} -> flag_result(r)

Results(o, reply) == {Bind(or_throw(reply), LAMBDA r : StreamResult(o, r))}

Return(c) ==
    /\ rep[c] # NoMsg
    /\ \E result \in Results(op[c], rep[c]) : Finish(c, result)
-----------------------------------------------------------------------------
(* Streams (outside the repository).  A stream has its entries, the last id *)
(* it gave, and a group or none; the group has the last id it delivered and *)
(* what is pending for the caller.                                          *)

EmptyStream == [entries |-> <<>>, last |-> 0, group |-> None]
StreamOf(x) == IF x = NoObject THEN EmptyStream ELSE x.stream

Elems(ids) == {ids[i] : i \in DOMAIN ids}
Ascending(S) ==
    [i \in 1 .. Cardinality(S) |-> CHOOSE n \in S : Cardinality({m \in S : m < n}) = i - 1]
FirstOf(ids, count) == IF count = None THEN ids ELSE SubSeq(ids, 1, Least(Len(ids), count[1]))

Without(s, ids) == [s EXCEPT !.entries = [n \in DOMAIN @ \ ids |-> @[n]]]

\* Approximate trimming may leave some of what it could remove.
Trimmings(s, trim) ==
    LET old(n) == IF trim.strategy = "MAXLEN"
                  THEN Cardinality({m \in DOMAIN s.entries : m > n}) >= trim.threshold
                  ELSE n < trim.threshold
    IN  {Without(s, {n \in DOMAIN s.entries : old(n)})}
        \cup IF trim.approximate THEN {s} ELSE {}

Longer(entries, n, pairs) ==
    [m \in DOMAIN entries \cup {n} |-> IF m = n THEN pairs ELSE entries[m]]

\* The streams a new entry may lead to; none, if its id is not a later one.
Additions(s, pairs, options) ==
    LET n == IF options.id = NEW_ID THEN s.last + 1 ELSE options.id
        longer == [s EXCEPT !.last = n, !.entries = Longer(@, n, pairs)]
    IN  IF n <= s.last \/ n > MaxId THEN {}
        ELSE IF options.trim = None THEN {longer} ELSE Trimmings(longer, options.trim[1])

NewerThan(s, n) == Ascending({m \in DOMAIN s.entries : m > n})

\* What a group gives a consumer: what nobody was given yet, or what is still
\* pending for it.
Owed(s, n) == IF n = NEW_ID THEN NewerThan(s, s.group[1].delivered)
                            ELSE Ascending({m \in s.group[1].pending : m > n})

\* Nothing is there that a read would wait for.
NothingNew(x, grouped, n) ==
    LET s == StreamOf(x)
    IN  IF grouped THEN s.group # None /\ n = NEW_ID /\ Owed(s, NEW_ID) = <<>>
                   ELSE n # NEW_ID /\ NewerThan(s, n) = <<>>

\* What an operation leaves, what it delivers, and what it shows.
Does(x, ids, shown) == [object |-> x, taken |-> ids, shown |-> shown]
Counting(x, n) == Does(x, <<>>, [count |-> n])

\* Entries, each with its fields or, if it was deleted, none.
Showing(s, ids) ==
    [list |-> [i \in DOMAIN ids |-> [id |-> ids[i],
        fields |-> IF ids[i] \in DOMAIN s.entries THEN Some(s.entries[ids[i]]) ELSE None]]]

\* The stream, its group moved to an id.
Grouped(s, id, pending) ==
    [stream |-> [s EXCEPT !.group = Some([delivered |-> id, pending |-> pending])]]

Adding(x, pairs, options) ==
    IF x = NoObject /\ options.nomkstream THEN {Does(x, <<>>, [id |-> None])}
    ELSE {Does([stream |-> s], <<>>, [id |-> Some(s.last)]) :
             s \in Additions(StreamOf(x), pairs, options)}

Ranging(x, low, high, reversed, count) ==
    LET ids == Ascending({n \in DOMAIN StreamOf(x).entries : low <= n /\ n <= high})
    IN  {Does(x, <<>>, Showing(StreamOf(x), FirstOf(IF reversed THEN Reversed(ids) ELSE ids, count)))}

\* A read that may wait waits while nothing is new; for ever, if for 0.
Reading(x, n, options) ==
    IF n = NEW_ID THEN {}
    ELSE IF NothingNew(x, FALSE, n)
    THEN IF options.block_ms = Some(0) THEN {} ELSE {Does(x, <<>>, [list |-> <<>>])}
    ELSE {Does(x, <<>>, Showing(StreamOf(x), FirstOf(NewerThan(StreamOf(x), n), options.count)))}

ReadingGroup(x, n, options) ==
    LET s == StreamOf(x)
        ids == FirstOf(Owed(s, n), options.count)
        pending == s.group[1].pending \cup IF options.noack THEN {} ELSE Elems(ids)
    IN  IF s.group = None THEN {}
        ELSE IF NothingNew(x, TRUE, n)
        THEN IF options.block_ms = Some(0) THEN {} ELSE {Does(x, <<>>, [list |-> <<>>])}
        ELSE {IF n = NEW_ID THEN Does(Grouped(s, ids[Len(ids)], pending), ids, Showing(s, ids))
                            ELSE Does(x, <<>>, Showing(s, ids))}

Deleting(x, ids) ==
    LET there == ids \cap DOMAIN StreamOf(x).entries
    IN  {Counting(IF there = {} THEN x ELSE [stream |-> Without(x.stream, there)], Cardinality(there))}

Trimming(x, trim) ==
    IF x = NoObject THEN {Counting(x, 0)}
    ELSE {Counting([stream |-> s], Cardinality(DOMAIN x.stream.entries \ DOMAIN s.entries)) :
             s \in Trimmings(x.stream, trim)}

\* A group is created, moved or destroyed.
Position(s, id) == IF id = LAST_ID THEN s.last ELSE id
Creating(x, id, mkstream) ==
    LET s == StreamOf(x)
    IN  IF (x = NoObject /\ ~mkstream) \/ s.group # None THEN {}
        ELSE {Does(Grouped(s, Position(s, id), {}), <<>>, [done |-> TRUE])}

Destroying(x) ==
    IF x = NoObject THEN {}
    ELSE {Counting([stream |-> [x.stream EXCEPT !.group = None]], Len(x.stream.group))}

WithGroup(x, Then(_, _)) ==
    IF StreamOf(x).group = None THEN {} ELSE Then(x.stream, x.stream.group[1])

Setting(x, id) ==
    WithGroup(x, LAMBDA s, g :
        {Does(Grouped(s, Position(s, id), g.pending), <<>>, [done |-> TRUE])})

CreatingConsumer(x) == WithGroup(x, LAMBDA s, g : {Counting(x, n) : n \in 0 .. 1})

DeletingConsumer(x) ==
    WithGroup(x, LAMBDA s, g :
        {Counting(Grouped(s, g.delivered, {}), Cardinality(g.pending))})

Acknowledging(x, ids) ==
    IF StreamOf(x).group = None THEN {Counting(x, 0)}
    ELSE WithGroup(x, LAMBDA s, g :
             {Counting(Grouped(s, g.delivered, g.pending \ ids),
                       Cardinality(ids \cap g.pending))})
-----------------------------------------------------------------------------
(* The server, and other programs (outside the repository). *)

EntryArray(list) ==
    make_array([i \in DOMAIN list |-> make_array(<<make_string(list[i].id),
        IF list[i].fields = None THEN make_nil ELSE Array(Flat(list[i].fields[1]))>>)])

Reply(m, shown) ==
    CASE "count" \in DOMAIN shown -> make_integer(shown.count)
      [] "id" \in DOMAIN shown -> StringOrNil(shown.id)
      [] "done" \in DOMAIN shown -> make_status("OK")
      [] "list" \in DOMAIN shown ->
             IF m.cmd \notin {"XREAD", "XREADGROUP"} THEN EntryArray(shown.list)
             ELSE IF NothingNew(object, m.cmd = "XREADGROUP", m.ids[1]) THEN make_nil
             ELSE make_array(<<make_array(<<make_string(StreamKey), EntryArray(shown.list)>>)>>)

Execute(m, x) ==
    CASE m.cmd = "XADD" -> Adding(x, Paired(m.texts).value, m.options)
      [] m.cmd = "XLEN" -> {Counting(x, Cardinality(DOMAIN StreamOf(x).entries))}
      [] m.cmd = "XRANGE" -> Ranging(x, m.from, m.to, FALSE, m.count)
      [] m.cmd = "XREVRANGE" -> Ranging(x, m.to, m.from, TRUE, m.count)
      [] m.cmd = "XREAD" -> Reading(x, m.ids[1], m)
      [] m.cmd = "XREADGROUP" -> ReadingGroup(x, m.ids[1], m)
      [] m.cmd = "XDEL" -> Deleting(x, Elems(m.ids))
      [] m.cmd = "XTRIM" -> Trimming(x, m.trim)
      [] m.cmd = "XACK" -> Acknowledging(x, Elems(m.ids))
      [] m.cmd = "CREATE" -> Creating(x, m.id, m.mkstream)
      [] m.cmd = "SETID" -> Setting(x, m.id)
      [] m.cmd = "DESTROY" -> Destroying(x)
      [] m.cmd = "CREATECONSUMER" -> CreatingConsumer(x)
      [] m.cmd = "DELCONSUMER" -> DeletingConsumer(x)

\* A command may be refused, but not while it is held.
Held(m, x) ==
    /\ m.cmd \in {"XREAD", "XREADGROUP"}
    /\ m.block_ms # None
    /\ NothingNew(x, m.cmd = "XREADGROUP", m.ids[1])

Effects(m) ==
    {Change(e.object, e.taken, Reply(m, e.shown)) : e \in Execute(m, object)}
    \cup IF Held(m, object) THEN {} ELSE {Refused(object)}

ServeCommand(c) == Serve(c, Effects)

\* Other programs add entries, delete them, and read and acknowledge what the
\* group has to deliver.  They delete neither the stream nor the group.
OthersDo(x) ==
    LET s == StreamOf(x)
    IN  {[stream |-> y] : y \in UNION {Additions(s, pairs, [id |-> NEW_ID, trim |-> None]) :
                                          pairs \in OtherFields}}
        \cup {e.object : e \in UNION {Deleting(x, {n}) : n \in DOMAIN s.entries}}
        \cup WithGroup(x, LAMBDA y, g :
                {Grouped(y, n, g.pending) : n \in Elems(FirstOf(Owed(y, NEW_ID), Some(1)))})

OthersStep ==
    /\ object' \in OthersDo(object)
    /\ UNCHANGED <<netVars, callVars, taken>>

Next ==
    \/ \E c \in Client :
          \/ StreamCall(c) \/ Return(c) \/ TransportError(c) \/ Reconnect(c)
          \/ ServeCommand(c) \/ Drop(c)
    \/ OthersStep

Spec == Init /\ [][Next]_vars

\* The server answers what it can, and a call that can end does.
FairSpec ==
    /\ Spec
    /\ \A c \in Client :
          WF_vars(ServeCommand(c)) /\ WF_vars(Return(c)) /\ WF_vars(TransportError(c))
-----------------------------------------------------------------------------
(* Properties. *)

\* What a group delivers to an xreadgroup is what the call gives, in order and
\* with its values; or, if the call throws, it is because the connection failed
\* or a text is no value, and unless NOACK was asked for every entry is pending
\* for the caller, who can ask for it again from id 0.
DeliveredOrOwed ==
    \A c \in Client : ~busy[c] /\ op[c].name = "xreadgroup" /\ taken[c] # <<>> =>
        IF outcome[c].ok
        THEN LET given == outcome[c].value.entries
             IN  [i \in DOMAIN given |-> given[i].id] = taken[c]
        ELSE /\ outcome[c].error \in {"transport", "deserialize"}
             /\ ~op[c].options.noack => Elems(taken[c]) \subseteq object.stream.group[1].pending

\* A read with BLOCK 0 and nothing to read, on a connection that is up.
WaitsForEntries(c) ==
    /\ busy[c]
    /\ link[c] = "up"
    /\ op[c].name \in {"xread", "xreadgroup"}
    /\ op[c].options.block_ms = Some(0)
    /\ NothingNew(object, op[c].name = "xreadgroup", op[c].ids[1])

\* A call of the stream view that never ends is a read with BLOCK 0 that finds
\* again and again that there is nothing to read.  Every other call ends, also
\* a read without BLOCK or with a time.
OnlyBlockedReadsWait ==
    \A c \in Client : <>[]busy[c] => []<>WaitsForEntries(c)

(***************************************************************************)
(* What the stream view promises: a stream that is linearizable.           *)
(***************************************************************************)
ShownFields(e) == IF e.fields = None THEN <<>> ELSE e.fields[1]

TypedPair(pair) == <<deserialize_key[pair[1]], deserialize_value[pair[2]]>>
TypedEntry(e) ==
    [id |-> e.id, fields |-> [i \in DOMAIN ShownFields(e) |-> TypedPair(ShownFields(e)[i])]]

ReadablePair(pair) ==
    pair[1] \in DOMAIN deserialize_key /\ pair[2] \in DOMAIN deserialize_value
Readable(e) == \A i \in DOMAIN ShownFields(e) : ReadablePair(ShownFields(e)[i])

Answer(o, shown) ==
    CASE "count" \in DOMAIN shown ->
             Val(IF o.name \in {"xgroup_destroy", "xgroup_createconsumer"}
                 THEN Flag(shown.count = 1) ELSE Count(shown.count))
      [] "id" \in DOMAIN shown -> Val(EntryId(shown.id))
      [] "done" \in DOMAIN shown -> Val(Flag(TRUE))
      [] "list" \in DOMAIN shown ->
             IF \A i \in DOMAIN shown.list : Readable(shown.list[i])
             THEN Val(TypedEntries([i \in DOMAIN shown.list |-> TypedEntry(shown.list[i])]))
             ELSE Throw("deserialize")

Writable(field) ==
    field[1] \in DOMAIN serialize_key /\ field[2] \in DOMAIN serialize_value
WrittenField(field) == <<serialize_key[field[1]], serialize_value[field[2]]>>
WrittenFields(fields) == [i \in DOMAIN fields |-> WrittenField(fields[i])]

StreamPromised(o, x) ==
    CASE o.name = "xadd" -> Adding(x, WrittenFields(o.fields), o.options)
      [] o.name = "xlen" -> {Counting(x, Cardinality(DOMAIN StreamOf(x).entries))}
      [] o.name \in {"xrange", "xrevrange"} ->
             Ranging(x, Lowest, Highest, o.name = "xrevrange", o.count)
      [] o.name = "xread" -> Reading(x, o.ids[1], o.options)
      [] o.name = "xreadgroup" -> ReadingGroup(x, o.ids[1], o.options)
      [] o.name = "xdel" -> Deleting(x, Elems(o.ids))
      [] o.name = "xtrim" -> Trimming(x, o.trim)
      [] o.name = "xack" -> Acknowledging(x, Elems(o.ids))
      [] o.name = "xgroup_create" -> Creating(x, o.id, o.mkstream)
      [] o.name = "xgroup_setid" -> Setting(x, o.id)
      [] o.name = "xgroup_destroy" -> Destroying(x)
      [] o.name = "xgroup_createconsumer" -> CreatingConsumer(x)
      [] o.name = "xgroup_delconsumer" -> DeletingConsumer(x)

\* What the server would take for something else is rejected: a count of none,
\* a negative time, an id that is empty, a limit it would not accept.
WrongTrim(trim) ==
    trim.threshold = EMPTY_ID \/ (trim.limit # None /\ (trim.limit[1] < 0 \/ ~trim.approximate))
WrongNumber(n, least) == n # None /\ n[1] < least

Rejections(o) ==
    LET wrong == CASE o.name = "xadd" ->
                          \/ o.fields = <<>> \/ o.options.id = EMPTY_ID
                          \/ \E i \in DOMAIN o.options.trim : WrongTrim(o.options.trim[i])
                   [] o.name \in {"xrange", "xrevrange"} -> WrongNumber(o.count, 1)
                   [] o.name \in {"xread", "xreadgroup"} ->
                          \/ WrongNumber(o.options.count, 1) \/ WrongNumber(o.options.block_ms, 0)
                          \/ o.ids \in {<<>>, <<EMPTY_ID>>}
                   [] o.name = "xtrim" -> WrongTrim(o.trim)
                   [] OTHER -> FALSE
        unwritable == o.name = "xadd" /\ \E i \in DOMAIN o.fields : ~Writable(o.fields[i])
    IN  (IF wrong THEN {Throw("invalid_argument")} ELSE {})
        \cup (IF unwritable THEN {Throw("serialize")} ELSE {})

\* The server may refuse any operation; one that is rejected has no effect.
Apply(o, x) ==
    {[object |-> x, answers |-> {Throw("redis_error")}]} \cup
    IF Rejections(o) # {} THEN {}
    ELSE {[object |-> e.object, answers |-> {Answer(o, e.shown)}] : e \in StreamPromised(o, x)}

StreamOps ==
         [name : {"xadd"}, fields : FieldVectors, options : AddOptions]
    \cup [name : {"xlen", "xgroup_destroy", "xgroup_createconsumer", "xgroup_delconsumer"}]
    \cup [name : {"xrange", "xrevrange"}, count : RangeCounts]
    \cup [name : {"xread", "xreadgroup"}, ids : ReadRequests, options : ReadOptions]
    \cup [name : {"xdel", "xack"}, ids : IdVectors]
    \cup [name : {"xtrim"}, trim : TrimOptions]
    \cup [name : {"xgroup_create"}, id : {Lowest, LAST_ID}, mkstream : BOOLEAN]
    \cup [name : {"xgroup_setid"}, id : {Lowest, LAST_ID}]

IdleAnswers == {Throw("idle")}
PendingAnswers == {Throw("pending")}
LostAnswers == {Throw("lost")}

Promise == INSTANCE LinearObject WITH
    Op <- StreamOps, InitObject <- NoObject, Apply <- Apply, Rejections <- Rejections,
    TransportFailure <- Throw("transport"), Foreign <- OthersDo, NoOutcome <- Waiting,
    Idle <- IdleAnswers, Pending <- PendingAnswers, Lost <- LostAnswers,
    answers <- [c \in Client |->
                   CASE ~busy[c] -> IdleAnswers
                     [] busy[c] /\ rep[c] # NoMsg -> Results(op[c], rep[c])
                     [] busy[c] /\ rep[c] = NoMsg /\ req[c] # NoMsg -> PendingAnswers
                     [] OTHER -> LostAnswers],
    late <- stray

\* Every call of the stream view takes effect at most once and at one moment,
\* and gives what that effect answers with every entry, field and order kept; a
\* call the server would misread is rejected instead of sent, and an entry that
\* cannot be read makes the call throw, not leave it out.
ImplementsStream == Promise!Spec
=============================================================================
