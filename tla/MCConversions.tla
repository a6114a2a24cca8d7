--------------------------- MODULE MCConversions ---------------------------
(***************************************************************************)
(* Replies of up to two elements per level, every one of them as it is and *)
(* with one node replaced, dropped or repeated; numbers of types of one to *)
(* three bits with every combination of up to two signs; URLs.             *)
(***************************************************************************)
EXTENDS Conversions, FiniteSets, SequencesExt

\* "a" is a text like any other; "7" is also a number, "0" a cursor, and "9" a
\* number one above the largest that 64 bits hold.
MCText == {"a", "7"}
MCScoreOf == [t \in {"7"} |-> 7]
MCCursorOf == [t \in {"7", "0", "9"} |->
    CASE t = "0" -> 0 [] t = "7" -> 7 [] OTHER -> UINT64_MAX + 1]

UpTo(n, S) == UNION {[1 .. k -> S] : k \in 0 .. n}

Field == MCText \X MCText
FieldLists == UpTo(2, Field)
Hashes == {p \in FieldLists : \A i, j \in DOMAIN p : p[i][1] = p[j][1] => i = j}
MapOf(p) == [f \in {p[i][1] : i \in DOMAIN p} |->
                p[CHOOSE i \in DOMAIN p : p[i][1] = f][2]]

Entry == [id : {"7"}, fields : UpTo(1, Field)]
EntryLists == UpTo(2, Entry)
BatchLists == UpTo(1, [key : {"a"}, entries : UpTo(1, Entry)])

\* The reply that a server sends for a value.
Optional(v) == IF v = None THEN make_nil ELSE make_string(v[1])

Strings(v) == make_array([i \in DOMAIN v |-> make_string(v[i])])

Flat(pairs) == make_array([i \in 1 .. 2 * Len(pairs) |->
    make_string(pairs[(i + 1) \div 2][IF i % 2 = 1 THEN 1 ELSE 2])])

ScoreText(v) == CHOOSE t \in DOMAIN ScoreOf : ScoreOf[t] = v
CursorText(v) == CHOOSE t \in DOMAIN CursorOf : CursorOf[t] = v

ScorePairs(pairs) ==
    Flat([i \in DOMAIN pairs |-> <<pairs[i][1], ScoreText(pairs[i][2])>>])

Entries(v) == make_array([i \in DOMAIN v |->
    make_array(<<make_string(v[i].id), Flat(v[i].fields)>>)])

Batches(v) == make_array([i \in DOMAIN v |->
    make_array(<<make_string(v[i].key), Entries(v[i].entries)>>)])

Page(v, results) == make_array(<<make_string(CursorText(v.cursor)), results>>)

Reply(r, v) == [raw |-> r, value |-> v]

MCReplies == [d \in Decoders |->
    CASE d = "integer" -> {Reply([type |-> "INTEGER", int |-> n], n) : n \in Int64}
      [] d = "flag" -> {Reply([type |-> "INTEGER", int |-> n], n = 1) : n \in {0, 1}}
      [] d = "text" -> {Reply(make_string(t), t) : t \in MCText}
                 \cup {Reply(make_status(t), t) : t \in MCText}
      [] d = "status" -> {Reply(make_status(t), t) : t \in MCText}
      [] d \in {"status_is_ok", "set"} -> {Reply(make_status("OK"), TRUE)}
      [] d = "hset" -> {Reply([type |-> "INTEGER", int |-> n], TRUE) : n \in 0 .. 3}
      [] d = "hget_batch" ->
             {Reply(make_array([i \in 1 .. 2 |-> Optional(v[i])]), v) :
                 v \in [1 .. 2 -> {None} \cup {Some(t) : t \in MCText}]}
      [] d = "optional_score" ->
             {Reply(make_nil, None), Reply(make_string("7"), Some(7))}
      [] d = "zincrby" -> {Reply(make_string("7"), 7)}
      [] d = "optional_string" ->
             {Reply(make_nil, None)}
                 \cup {Reply(make_string(t), Some(t)) : t \in MCText}
      [] d = "strings" -> {Reply(make_nil, <<>>)}
                 \cup {Reply(Strings(v), v) : v \in UpTo(2, MCText)}
      [] d = "hash" -> {Reply(Flat(p), MapOf(p)) : p \in Hashes}
      [] d = "scores" -> {Reply(ScorePairs(p), p) : p \in UpTo(2, MCText \X {7})}
      [] d = "scan" -> {LET v == [cursor |-> c, page |-> p]
                        IN  Reply(Page(v, Strings(p)), v) :
                           c \in {0, 7}, p \in UpTo(2, MCText)}
      [] d = "hscan" -> {LET v == [cursor |-> c, page |-> MapOf(p)]
                         IN  Reply(Page(v, Flat(p)), v) :
                            c \in {0, 7}, p \in Hashes}
      [] d = "stream_entries" -> {Reply(make_nil, <<>>)}
                 \cup {Reply(Entries(v), v) : v \in EntryLists}
      [] d = "stream_batches" -> {Reply(make_nil, <<>>)}
                 \cup {Reply(Batches(v), v) : v \in BatchLists}]

\* What may stand in the place of any node.  "MAP" is a type of RESP3; the
\* last three are trees that hiredis could not complete.
Leaves == {make_nil, make_string("a"), make_string("9"), make_error("a"), make_status("OK"),
           [type |-> "INTEGER", int |-> -1], make_array(<<>>),
           [type |-> "MAP"], [type |-> "STRING"], [type |-> "ARRAY"]}

\* The trees that differ from r in one node.
RECURSIVE OneOff(_)
OneOff(r) ==
    Leaves \cup
    IF r.type # "ARRAY" THEN {}
    ELSE {make_array([r.items EXCEPT ![i] = [type |-> "NULL"]]) : i \in DOMAIN r.items}
         \cup {make_array(RemoveAt(r.items, i)) : i \in DOMAIN r.items}
         \cup {make_array(r.items \o <<r.items[i]>>) : i \in DOMAIN r.items}
         \cup UNION {{make_array([r.items EXCEPT ![i] = e]) : e \in OneOff(r.items[i])}
                        : i \in DOMAIN r.items}

MCCorrupted == [d \in Decoders |->
    UNION {OneOff(m.raw) : m \in MCReplies[d]} \ {m.raw : m \in MCReplies[d]}]

RECURSIVE MCParts(_)
MCParts(r) ==
    {r} \cup IF r.type = "ARRAY" /\ "items" \in DOMAIN r
             THEN UNION {MCParts(r.items[i]) : i \in DOMAIN r.items} ELSE {}
-----------------------------------------------------------------------------
\* Integer types of one bit to as many as the widest, and one wider number.
MCTypes == [signed : BOOLEAN, half : {1, 2, WIDEST}]
MCNumbers == [type : MCTypes,
              text : [signs : UpTo(2, {"+", "-"}), trailing : BOOLEAN,
                      digits : {NoDigits} \cup {<<n>> : n \in 0 .. 2 * WIDEST}]]

\* Words: names, the numbers of ports and indices, the keys of parameters.  A
\* number may be followed by letters, be too large for a port or for a long, or
\* be negative, which std::stoul takes modulo 2^64.
MCWords == {"0", "5", "1234", "1234x", "70000", "huge", "-1", "a", "b", "host", "user", "pass",
            "secret", "other", "index", "db", "username", "password", "auth", "timeout"}
MCIndexOf == [w \in {"0", "5", "1234", "70000"} |->
                 CASE w = "0" -> 0 [] w = "5" -> 5 [] w = "1234" -> 1234 [] OTHER -> 70000]
MCLeadingNumber == MCIndexOf @@ ("1234x" :> 1234) @@ ("huge" :> LONGS) @@ ("-1" :> LONGS - 1)

Optionally(S) == {None} \cup {Some(s) : s \in S}

Users == {[user |-> None, pass |-> None]} \cup
         [user : {Some(<<"user">>), Some(<<>>)},
          pass : Optionally({<<>>, <<"secret">>, <<"pass", ":", "/">>})]

Parameters == [key : {"index"}, value : {<<"5">>, <<"0">>, <<"5", "=">>, <<>>}]
         \cup [key : {"username", "password", "auth"}, value : {<<"other">>, <<"a", "=", "b">>}]
         \cup [key : {"db", "timeout"}, value : {<<"5">>}]

\* Addresses: "host", "host/a", "a@b", nothing, "[" that is not closed; "[::5]",
\* "[]", "[::5]a:5"; with a port or none.
Names == {<<"host">>, <<"host", "/", "a">>, <<"a", "@", "b">>, <<>>, <<"[", "a">>}
Ports == Optionally({<<"0">>, <<"1234">>, <<"1234x">>, <<"1234", "/", "0">>, <<"70000">>,
                     <<"huge">>, <<"-1">>, <<"a">>, <<":", "5">>, <<"]">>, <<>>})
Addresses ==
    [ipv6 : {FALSE}, host : Names, trailing : {<<>>}, port : Ports]
    \cup [ipv6 : {TRUE}, host : {<<":", ":", "5">>, <<>>}, trailing : {<<>>}, port : Ports]
    \cup [ipv6 : {TRUE}, host : {<<":", ":", "5">>}, trailing : {<<"a", ":", "5">>}, port : {None}]

UsualAddresses == {a \in Addresses : /\ a.host \in {<<"host">>, <<":", ":", "5">>}
                                     /\ a.port \in {None, Some(<<"0">>), Some(<<"1234">>)}}

TcpUrl(scheme, u, a, params) ==
    [scheme |-> scheme, user |-> u.user, pass |-> u.pass, ipv6 |-> a.ipv6, host |-> a.host,
     trailing |-> a.trailing, port |-> a.port, params |-> params]

TcpUrls == {TcpUrl(scheme, u, a, params) : scheme \in {"tcp", "redis", "http"},
               u \in Users, a \in UsualAddresses, params \in UpTo(2, Parameters)}

OddUrls == {url \in {TcpUrl(scheme, u, a, params) :
                        scheme \in {"tcp", "redis", "http"}, u \in Users, a \in Addresses,
                        params \in UpTo(1, Parameters)} : Spellable(url)}

UnixUrls == [scheme : {"unix"}, path : {<<>>, <<"/">>, <<"/", "a", "@", "b">>, <<"a", "/", "b">>},
             params : UpTo(2, Parameters)]

MCUrls == [url : UNION {TcpUrls, OddUrls, UnixUrls}]

\* URLs that differ in nothing but their address.
AddressUrls == [url : {url \in {TcpUrl("tcp", [user |-> None, pass |-> None], a, <<>>) :
                                   a \in Addresses} : Spellable(url)}]
=============================================================================
