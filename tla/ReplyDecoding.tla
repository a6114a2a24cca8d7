--------------------------- MODULE ReplyDecoding ---------------------------
(***************************************************************************)
(* One reply from the socket to the caller: hiredis delivers a tree of     *)
(* redisReply, convert_reply makes a cmd_reply of it, or_throw throws an   *)
(* ERROR, and the decoder of the command takes what it expects.            *)
(*                                                                         *)
(* A server that speaks RESP2 sends what the commands promise.  The code   *)
(* also takes what it cannot trust: replies of another type (a raw HELLO 3 *)
(* switches to RESP3, and a reply may belong to another command), of       *)
(* another length, with errors inside, and broken trees.  Replies holds    *)
(* those the server may send to a command, with what they mean.            *)
(***************************************************************************)
EXTENDS CmdReply, FiniteSets

CONSTANTS
    Replies,    \* Replies[d]: the well-formed replies, [raw, value]
    Corrupted,  \* Corrupted[d]: other trees that decoder d may be given
    Parts(_)    \* the tree and the trees it is made of

Decoders == {"integer", "flag", "text", "status", "status_is_ok", "set", "hset",
             "optional_string", "strings", "hash", "hget_batch",
             "optional_score", "zincrby", "scores", "scan", "hscan",
             "stream_entries", "stream_batches"}

Delivered == UNION {{m.raw : m \in Replies[d]} \cup Corrupted[d] : d \in Decoders}

\* hiredis builds finite trees without cycles.
ASSUME PartsAssumption ==
    \A tree \in Delivered :
        /\ IsFiniteSet(Parts(tree)) /\ tree \in Parts(tree)
        /\ \A r \in Parts(tree) :
              /\ r \in Parts(r) /\ Parts(r) \subseteq Parts(tree)
              /\ r.type = "ARRAY" /\ "items" \in DOMAIN r =>
                    /\ r.items \in Seq(Parts(r))
                    /\ \A i \in DOMAIN r.items : Parts(r.items[i]) \subseteq Parts(r) \ {r}

BatchSize == 2      \* how many fields the HMGET asked for

\* The integer of a reply is a long long.
ASSUME LongLongAssumption ==
    \A tree \in Delivered : \A r \in Parts(tree) : r.type = "INTEGER" => r.int \in Int64

VARIABLES
    decoder,    \* the decoder of the command that was sent
    raw,        \* the reply hiredis delivers
    meant,      \* None, or what a well-formed reply means
    outcome     \* None, or what the caller has

vars == <<decoder, raw, meant, outcome>>

Init ==
    /\ decoder \in Decoders
    /\ \/ \E r \in Replies[decoder] : raw = r.raw /\ meant = Some(r.value)
       \/ raw \in Corrupted[decoder] /\ meant = None
    /\ outcome = None

\* A text of a null pointer and a length, and an array without its elements,
\* are rejected; a type that is not known becomes an ERROR.  What the elements
\* of an array are converted to is in converted.
Conversion(converted, r) ==
    CASE r.type \in {"STRING", "STATUS", "ERROR"} ->
             IF "str" \in DOMAIN r THEN Val(r) ELSE Malformed
      [] r.type = "INTEGER" -> Val(make_integer(r.int))
      [] r.type = "NIL" -> Val(make_nil)
      [] r.type = "ARRAY" ->
             IF "items" \notin DOMAIN r THEN Malformed
             ELSE Bind(DecodeAll(r.items, LAMBDA e :
                           IF e.type = "NULL" THEN Malformed ELSE converted[e]),
                       LAMBDA items : Val(make_array(items)))
      [] OTHER -> Val(make_error("Unknown reply type"))

convert_reply(tree) ==
    LET converted[r \in Parts(tree)] == Conversion(converted, r)
    IN  converted[tree]

Decode(d, r) ==
    CASE d = "integer" -> as_integer(r)
      [] d = "flag" -> Bind(as_integer(r), LAMBDA n : Val(n = 1))
      [] d = "text" -> as_text(r)
      [] d = "status" -> as_status(r)
      [] d = "status_is_ok" -> status_is_ok(r)
      [] d = "set" -> set_result(r)
      [] d = "hset" -> hset_result(r)
      [] d = "optional_string" -> optional_string(r)
      [] d = "hget_batch" -> hget_result(r, BatchSize)
      [] d = "optional_score" -> optional_score(r)
      [] d = "zincrby" -> zincrby_result(r)
      [] d = "strings" -> strings(r)
      [] d = "hash" -> hash(r)
      [] d = "scores" -> scores(r)
      [] d = "scan" -> scan_result(r)
      [] d = "hscan" -> hscan_result(r)
      [] d = "stream_entries" -> stream_entries(r)
      [] d = "stream_batches" -> stream_batches(r)

Receive ==
    /\ outcome = None
    /\ outcome' = Some(Bind(convert_reply(raw), LAMBDA r :
                           Bind(or_throw(r), LAMBDA s : Decode(decoder, s))))
    /\ UNCHANGED <<decoder, raw, meant>>

-----------------------------------------------------------------------------
(* Properties. *)

Errors == {"redis_error", "unexpected_reply_type_error", "runtime_error",
           "invalid_argument", "out_of_range", "bad_optional_access"}

Got == outcome # None /\ outcome[1].ok

\* Whatever tree arrives, no decoder reads a member that is not there or past
\* the end of an array: it gives a value or throws.
NoUndefinedBehaviour ==
    outcome # None => outcome[1].ok \/ outcome[1].error \in Errors

\* A well-formed reply gives the caller what it means, for each of the ways
\* to read a reply; also a negative integer, an empty array, and NIL.
WellFormedRepliesDecode ==
    outcome # None /\ meant # None => outcome[1] = Val(meant[1])

\* A reply and the value it stands for.  NIL in the place of an array is an
\* empty array.
IsText(r, type, t) == r.type = type /\ "str" \in DOMAIN r /\ r.str = t
IsString(r, t) == IsText(r, "STRING", t)
IsStatus(r, t) == IsText(r, "STATUS", t)
IsOptional(r, v) == IF v = None THEN is_nil(r) ELSE IsString(r, v[1])
IsScore(r, v) == \E t \in DOMAIN ScoreOf : IsString(r, t) /\ ScoreOf[t] = v
IsCursor(r, v) == \E t \in CursorTexts : IsString(r, t) /\ CursorOf[t] = v
IsInteger(r, n) == r.type = "INTEGER" /\ r.int = n

IsArray(r) == r.type = "ARRAY" /\ "items" \in DOMAIN r
IsArrayOrNil(r) == is_nil(r) \/ IsArray(r)
ItemsOf(r) == IF is_nil(r) THEN <<>> ELSE r.items

\* All the elements, in order.
Each(items, values, Is(_, _)) ==
    /\ Len(items) = Len(values)
    /\ \A i \in DOMAIN values : Is(items[i], values[i])

\* Pairs, laid out flat.
Flattened(items, pairs, Is(_, _)) ==
    /\ Len(items) = 2 * Len(pairs)
    /\ \A i \in DOMAIN pairs : /\ IsString(items[2 * i - 1], pairs[i][1])
                               /\ Is(items[2 * i], pairs[i][2])

IsStrings(r, v) == IsArrayOrNil(r) /\ Each(ItemsOf(r), v, IsString)
IsScores(r, v) == IsArrayOrNil(r) /\ Flattened(ItemsOf(r), v, IsScore)

\* A two-element array, as pages, entries and batches are.
IsTwo(r) == IsArray(r) /\ Len(r.items) = 2

IsPage(r, page) ==
    IsTwo(r) /\ IsCursor(r.items[1], page.cursor) /\ IsArray(r.items[2])

IsEntry(r, entry) ==
    /\ IsTwo(r) /\ IsString(r.items[1], entry.id)
    /\ IsArrayOrNil(r.items[2]) /\ Flattened(ItemsOf(r.items[2]), entry.fields, IsString)

IsEntries(r, v) == IsArrayOrNil(r) /\ Each(ItemsOf(r), v, IsEntry)

IsBatch(r, batch) ==
    IsTwo(r) /\ IsString(r.items[1], batch.key) /\ IsEntries(r.items[2], batch.entries)

IsBatches(r, v) == IsArrayOrNil(r) /\ Each(ItemsOf(r), v, IsBatch)

\* The fields and values in a flat array are those of the map, where the
\* first value of a field that is repeated counts.
IsHash(r, map) ==
    LET field(i) == r.items[2 * i - 1].str
        pairs == 1 .. Len(r.items) \div 2
    IN  /\ IsArray(r) /\ Len(r.items) % 2 = 0
        /\ \A i \in DOMAIN r.items : IsString(r.items[i], r.items[i].str)
        /\ {field(i) : i \in pairs} = DOMAIN map
        /\ \A i \in pairs : (\A j \in 1 .. i - 1 : field(j) # field(i))
                               => r.items[2 * i].str = map[field(i)]

\* The reply r accounts for the value v that decoder d takes from it.
StandsFor(d, r, v) ==
    CASE d = "integer" -> IsInteger(r, v)
      [] d = "flag" -> r.type = "INTEGER" /\ (v <=> r.int = 1)
      [] d = "text" -> IsString(r, v) \/ IsStatus(r, v)
      [] d = "status" -> IsStatus(r, v)
      [] d = "status_is_ok" -> r.type = "STATUS" /\ (v <=> IsStatus(r, "OK"))
      [] d = "set" -> v <=> IsStatus(r, "OK")
      [] d = "hset" -> v <=> r.type = "INTEGER" /\ r.int >= 0
      [] d = "optional_string" -> IsOptional(r, v)
      [] d = "hget_batch" ->
             IsArray(r) /\ Len(v) = BatchSize /\ Each(r.items, v, IsOptional)
      [] d = "optional_score" -> IF v = None THEN is_nil(r) ELSE IsScore(r, v[1])
      [] d = "zincrby" -> IsScore(r, v)
      [] d = "strings" -> IsStrings(r, v)
      [] d = "hash" -> IsHash(r, v)
      [] d = "scores" -> IsScores(r, v)
      [] d = "scan" -> IsPage(r, v) /\ IsStrings(r.items[2], v.page)
      [] d = "hscan" -> IsPage(r, v) /\ IsHash(r.items[2], v.page)
      [] d = "stream_entries" -> IsEntries(r, v)
      [] d = "stream_batches" -> IsBatches(r, v)

\* What the decoders give, for replies whose texts are in Text.
Scores == {ScoreOf[t] : t \in DOMAIN ScoreOf}
Maps == UNION {[fields -> Text] : fields \in SUBSET Text}
EntryList == Seq([id : Text, fields : Seq(Text \X Text)])

ValuesOf(d) ==
    CASE d = "integer" -> Int64
      [] d \in {"flag", "status_is_ok", "set", "hset"} -> BOOLEAN
      [] d \in {"text", "status"} -> Text
      [] d = "optional_string" -> {None} \cup {Some(t) : t \in Text}
      [] d = "hget_batch" -> Seq({None} \cup {Some(t) : t \in Text})
      [] d = "optional_score" -> {None} \cup {Some(x) : x \in Scores}
      [] d = "zincrby" -> Scores
      [] d = "strings" -> Seq(Text)
      [] d = "hash" -> Maps
      [] d = "scores" -> Seq(Text \X Scores)
      [] d = "scan" -> [cursor : Int, page : Seq(Text)]
      [] d = "hscan" -> [cursor : Int, page : Maps]
      [] d = "stream_entries" -> EntryList
      [] d = "stream_batches" -> Seq([key : Text, entries : EntryList])

\* A reply is well-formed if it stands for a value of the decoder and has no
\* error in it, no type that is not known, and no member missing.
IsSound(r) ==
    \/ r.type \in {"STRING", "STATUS"} /\ "str" \in DOMAIN r
    \/ r.type \in {"INTEGER", "NIL"}
    \/ IsArray(r)

ASSUME WellFormedAssumption ==
    \A d \in Decoders : \A m \in Replies[d] :
        /\ \A r \in Parts(m.raw) : IsSound(r)
        /\ m.value \in ValuesOf(d) /\ StandsFor(d, m.raw, m.value)

\* A value accounts for every element of the reply it was read from, and for
\* nothing else: no element is skipped, truncated, shifted between fields and
\* values, or made up, and no ERROR inside a reply is taken for data.  A TRUE stands for
\* the one reply that says so.
NothingDroppedOrInvented == Got => StandsFor(decoder, raw, outcome[1].value)
=============================================================================
