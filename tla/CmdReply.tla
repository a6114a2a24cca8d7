------------------------------ MODULE CmdReply ------------------------------
(***************************************************************************)
(* src/cmd_reply.cpp: the decoders that redis_client applies to a reply.   *)
(*                                                                         *)
(* A cmd_reply is a record with its type and the one optional member that  *)
(* goes with the type: str, int or items.  A decoder returns a value or    *)
(* throws; Val and Throw tell the two apart.  Reading a member that is not *)
(* there, or an element past the end of an array, is undefined in C++ and  *)
(* is Undefined here.                                                      *)
(*                                                                         *)
(* Texts are members of a set; ScoreOf and CursorOf say which of them      *)
(* string_serializable converts to a double, and which are a number for a  *)
(* uint64_t, if it is not too large.                                       *)
(***************************************************************************)
EXTENDS SignedInteger, Sequences

CONSTANTS
    Text,       \* the texts that replies carry
    ScoreOf,    \* a partial function: the texts that convert to a double
    CursorOf    \* a partial function: the texts that are an unsigned number

Val(v) == [ok |-> TRUE, value |-> v]
Throw(e) == [ok |-> FALSE, error |-> e]
Undefined == Throw("undefined")

None == <<>>            \* std::nullopt
Some(v) == <<v>>

make_nil == [type |-> "NIL"]
make_string(t) == [type |-> "STRING", str |-> t]
make_status(t) == [type |-> "STATUS", str |-> t]
make_error(t) == [type |-> "ERROR", str |-> t]
make_integer(n) == [type |-> "INTEGER", int |-> make_signed_integer(n)]
make_array(items) == [type |-> "ARRAY", items |-> items]

is_nil(r) == r.type = "NIL"
is_error(r) == r.type = "ERROR"

\* Step applied to x; x is bound so that TLC evaluates it once.
Once(x, Step(_)) == CHOOSE y \in {Step(z) : z \in {x}} : TRUE

\* The next step of a decoder, if the last one did not throw.
Bind(x, Step(_)) == Once(x, LAMBDA y : IF y.ok THEN Step(y.value) ELSE y)

\* What the steps of a loop come to: all their values, or the first that throws.
Collected(results) ==
    LET failed == {i \in DOMAIN results : ~results[i].ok}
    IN  IF failed = {} THEN Val([i \in DOMAIN results |-> results[i].value])
        ELSE results[CHOOSE i \in failed : \A j \in failed : i <= j]

\* Decode every element in order; the first one that throws ends it.
DecodeAll(items, Decode(_)) ==
    Once([i \in DOMAIN items |-> Decode(items[i])], Collected)

\* items[i], counted from 0 as in the source.
ItemAt(items, i) ==
    IF i < Len(items) THEN Val(items[i + 1]) ELSE Undefined

Unexpected == Throw("unexpected_reply_type_error")
Malformed == Throw("runtime_error")
-----------------------------------------------------------------------------
as_text(r) == IF "str" \in DOMAIN r THEN Val(r.str) ELSE Unexpected

as_string(r) == IF r.type = "STRING" THEN as_text(r) ELSE Unexpected

as_status(r) == IF r.type = "STATUS" THEN as_text(r) ELSE Unexpected

as_array(r) ==
    IF r.type # "ARRAY" THEN Unexpected
    ELSE IF "items" \in DOMAIN r THEN Val(r.items) ELSE Undefined

as_integer(r) ==
    IF r.type # "INTEGER" THEN Unexpected
    ELSE IF "int" \in DOMAIN r THEN Val(get_signed_integer(r.int))
                               ELSE Undefined

status_is_ok(r) == Bind(as_status(r), LAMBDA t : Val(t = "OK"))

optional_string(r) ==
    IF is_nil(r) THEN Val(None)
                 ELSE Bind(as_string(r), LAMBDA t : Val(Some(t)))

\* Mutant: an element that is no string is skipped.
StringsSkipping(r) ==
    IF is_nil(r) THEN Val(<<>>)
    ELSE Bind(as_array(r),
              LAMBDA items :
                  DecodeAll(SelectSeq(items, LAMBDA e : e.type = "STRING"),
                            as_string))

strings(r) ==
    IF is_nil(r) THEN Val(<<>>)
    ELSE Bind(as_array(r), LAMBDA items : DecodeAll(items, as_string))

\* A flat array of pairs, of which Decode takes each item at its position.
Paired(flat) == Val([i \in 1 .. Len(flat) \div 2 |-> <<flat[2 * i - 1], flat[2 * i]>>])

Pairs(items, Decode(_, _)) ==
    IF Len(items) % 2 # 0 THEN Malformed
    ELSE Bind(Once([i \in DOMAIN items |-> Decode(i % 2, items[i])], Collected), Paired)

StringPairs(items) == Pairs(items, LAMBDA side, e : as_string(e))

\* unordered_map::emplace: the first pair with a key stays.
EmplacedPairs(pairs) ==
    [f \in {pairs[i][1] : i \in DOMAIN pairs} |->
        pairs[CHOOSE i \in DOMAIN pairs :
                 /\ pairs[i][1] = f
                 /\ \A j \in DOMAIN pairs : pairs[j][1] = f => i <= j][2]]

hash(r) ==
    Bind(as_array(r), LAMBDA items :
        Bind(StringPairs(items), LAMBDA pairs : Val(EmplacedPairs(pairs))))

optional_score(r) ==
    Bind(optional_string(r), LAMBDA t :
        IF t = None THEN Val(None)
        ELSE IF t[1] \in DOMAIN ScoreOf THEN Val(Some(ScoreOf[t[1]]))
                                        ELSE Malformed)

\* optional_score(...).value(): a score that is NIL throws.
score_value(r) ==
    Bind(optional_score(r), LAMBDA s :
        IF s = None THEN Throw("bad_optional_access") ELSE Val(s[1]))

member_or_score(side, e) == IF side = 1 THEN as_string(e) ELSE score_value(e)

ScoredMembers(items) == Pairs(items, member_or_score)

scores(r) ==
    IF is_nil(r) THEN Val(<<>>) ELSE Bind(as_array(r), ScoredMembers)

\* string_serializable<uint64_t>::from_string
CursorTexts == {t \in DOMAIN CursorOf : CursorOf[t] <= UINT64_MAX}

to_cursor(t) ==
    IF t \in CursorTexts THEN Val(CursorOf[t])
    ELSE Throw(IF t \in DOMAIN CursorOf THEN "out_of_range" ELSE "invalid_argument")

\* Mutant: only the cursor is looked at.
ScanCursorOnly(r) ==
    Bind(as_array(r), LAMBDA parts :
        IF parts = <<>> THEN Malformed
        ELSE Bind(as_string(parts[1]), to_cursor))

scan_cursor(r) ==
    Bind(as_array(r), LAMBDA parts :
        IF Len(parts) # 2 THEN Malformed
        ELSE Bind(as_array(parts[2]), LAMBDA results :
                 Bind(as_string(parts[1]), to_cursor)))

stream_entry(r) ==
    Bind(as_array(r), LAMBDA parts :
        IF Len(parts) # 2 THEN Malformed
        ELSE Bind(as_string(parts[1]), LAMBDA id :
                 Bind(IF is_nil(parts[2]) THEN Val(<<>>)
                      ELSE Bind(as_array(parts[2]), StringPairs),
                      LAMBDA fields : Val([id |-> id, fields |-> fields]))))

stream_entries(r) ==
    IF is_nil(r) THEN Val(<<>>)
    ELSE Bind(as_array(r), LAMBDA entries : DecodeAll(entries, stream_entry))

stream_batch(r) ==
    Bind(as_array(r), LAMBDA parts :
        IF Len(parts) # 2 THEN Malformed
        ELSE Bind(as_string(parts[1]), LAMBDA key :
                 Bind(stream_entries(parts[2]), LAMBDA entries :
                     Val([key |-> key, entries |-> entries]))))

stream_batches(r) ==
    IF is_nil(r) THEN Val(<<>>)
    ELSE Bind(as_array(r), LAMBDA batches : DecodeAll(batches, stream_batch))

or_throw(r) ==
    IF is_error(r) THEN Bind(as_text(r), LAMBDA t : Throw("redis_error"))
                   ELSE Val(r)
-----------------------------------------------------------------------------
(* redis_client: the operations that read a reply in more than one way.     *)

\* SCAN and HSCAN: the cursor is decoded first, which checks the shape that
\* the access to the second element relies on.
ScanPage(r, Decode(_)) ==
    Bind(scan_cursor(r), LAMBDA cursor :
        Bind(ItemAt(r.items, 1), LAMBDA results :
            Bind(Decode(results), LAMBDA page :
                Val([cursor |-> cursor, page |-> page]))))

scan_result(r) == ScanPage(r, strings)
hscan_result(r) == ScanPage(r, hash)

\* HMGET: as many values as fields, all decoded before any is stored.
hget_result(r, fields) ==
    Bind(as_array(r), LAMBDA values :
        IF Len(values) # fields THEN Malformed
        ELSE DecodeAll(values, optional_string))

\* SET and HSET: any reply that is no success and no ERROR is a plain FALSE.
set_result(r) == IF r.type = "STATUS" THEN status_is_ok(r) ELSE Val(FALSE)

hset_result(r) ==
    IF r.type = "INTEGER" THEN Bind(as_integer(r), LAMBDA n : Val(n >= 0))
                          ELSE Val(FALSE)

\* ZINCRBY always answers a score.
zincrby_result(r) ==
    Bind(optional_score(r), LAMBDA s : IF s = None THEN Unexpected ELSE Val(s[1]))
=============================================================================
