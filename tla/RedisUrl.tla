------------------------------ MODULE RedisUrl ------------------------------
(***************************************************************************)
(* parse_redis_url (src/redis_config.cpp).                                 *)
(*                                                                         *)
(* A text is a sequence of tokens: the delimiters the parser looks for,    *)
(* and words, which are runs of other characters.  A URL is its scheme and *)
(* the text after "://".                                                   *)
(***************************************************************************)
EXTENDS Integers, Sequences, FiniteSetsExt

CONSTANTS
    Words,          \* the runs of other characters
    LeadingNumber,  \* a partial function: the words that begin with a number
    IndexOf,        \* a partial function: the words that are an unsigned int
    DEFAULT_PORT,   \* 6379
    PORTS,          \* 2^16, the values of an unsigned short
    LONGS           \* 2^64, the values of an unsigned long

Delimiters == {":", "@", "?", "&", "=", "[", "]", "/"}
Tokens == Delimiters \cup Words

ASSUME UrlAssumption ==
    /\ Words \cap Delimiters = {} /\ DOMAIN LeadingNumber \subseteq Words
    /\ \A w \in DOMAIN LeadingNumber : LeadingNumber[w] \in Nat
    /\ \A w \in DOMAIN IndexOf :
          /\ w \in DOMAIN LeadingNumber
          /\ IndexOf[w] \in Nat /\ LeadingNumber[w] = IndexOf[w]
    /\ "0" \in DOMAIN IndexOf /\ IndexOf["0"] = 0
    /\ PORTS \in Nat /\ LONGS \in Nat /\ PORTS <= LONGS /\ DEFAULT_PORT \in 0 .. PORTS - 1

Config(c) == [ok |-> TRUE, config |-> c]
Rejected(e) == [ok |-> FALSE, error |-> e]
Invalid == Rejected("invalid_argument")

\* The positions of a delimiter, the text before the first of them and the
\* text after it.
At(d, s) == {i \in DOMAIN s : s[i] = d}
Before(d, s) == SubSeq(s, 1, Min(At(d, s)) - 1)
After(d, s) == SubSeq(s, Min(At(d, s)) + 1, Len(s))

\* What the regular expression makes of the text between two "&": a key runs
\* up to the first "=" that does not begin it, the rest is the value.
Parameter(s) ==
    LET named == {i \in DOMAIN s : s[i] # "="}
        text == IF named = {} THEN <<>> ELSE SubSeq(s, Min(named), Len(s))
    IN  IF At("=", text) = {} THEN [key |-> <<>>, value |-> <<>>]
        ELSE [key |-> Before("=", text), value |-> After("=", text)]

Starts(q) == {1} \cup {i + 1 : i \in At("&", q)}

ParameterAt(q, i) ==
    LET ends == {j \in At("&", q) : j >= i}
    IN  Parameter(SubSeq(q, i, IF ends = {} THEN Len(q) ELSE Min(ends) - 1))

IsIndex(text) == Len(text) = 1 /\ text[1] \in DOMAIN IndexOf

LastOf(q, keys, default) ==
    LET found == {i \in Starts(q) : ParameterAt(q, i).key \in keys}
    IN  IF found = {} THEN default ELSE ParameterAt(q, Max(found)).value

parse_query_params(q) ==
    LET index == LastOf(q, {<<"index">>}, <<>>)
    IN  IF \E i \in Starts(q) : LET p == ParameterAt(q, i)
                                IN  \/ p.key = <<"db">>
                                    \/ p.key = <<"index">> /\ ~IsIndex(p.value)
        THEN Invalid
        ELSE Config([username |-> LastOf(q, {<<"username">>}, <<>>),
                     password |-> LastOf(q, {<<"password">>, <<"auth">>}, <<>>),
                     index |-> IF index = <<>> THEN 0 ELSE IndexOf[index[1]]])

\* std::stoul reads the number a text begins with, and a port keeps its lowest bits.
Port(text) ==
    IF text = <<>> \/ text[1] \notin DOMAIN LeadingNumber THEN Invalid
    ELSE IF LeadingNumber[text[1]] >= LONGS THEN Rejected("out_of_range")
    ELSE Config(LeadingNumber[text[1]] % PORTS)

\* The user and the password before the "@" win over those of the query.
\* Mutant: a user without a password takes the password away.
UserResets(c, text) ==
    IF At("@", text) = {} THEN c
    ELSE LET user == Before("@", text)
         IN  IF At(":", user) = {} THEN [c EXCEPT !.username = user, !.password = <<>>]
             ELSE [c EXCEPT !.username = Before(":", user),
                            !.password = After(":", user)]

WithUser(c, text) ==
    IF At("@", text) = {} THEN c
    ELSE LET user == Before("@", text)
         IN  IF At(":", user) = {} THEN [c EXCEPT !.username = user]
             ELSE [c EXCEPT !.username = Before(":", user),
                            !.password = After(":", user)]

WithPort(c, text) ==
    IF Port(text).ok THEN Config([c EXCEPT !.port = Port(text).config]) ELSE Port(text)

WithAddress(c, text) ==
    IF text = <<>> THEN Invalid
    ELSE IF text[1] = "["
    THEN IF At("]", text) = {} THEN Invalid
         ELSE LET host == [c EXCEPT !.host = Tail(Before("]", text))]
                  rest == After("]", text)
              IN  IF rest # <<>> /\ rest[1] = ":" THEN WithPort(host, Tail(rest))
                                                  ELSE Config(host)
    ELSE IF At(":", text) = {} THEN Config([c EXCEPT !.host = text])
    ELSE WithPort([c EXCEPT !.host = Before(":", text)], After(":", text))

redis_config(scheme, info) ==
    [scheme |-> scheme, host |-> <<"127.0.0.1">>,
     port |-> IF scheme = "unix" THEN 0 ELSE DEFAULT_PORT,
     username |-> info.username, password |-> info.password, index |-> info.index]

parse_redis_url(url) ==
    LET split == At("?", url.text) # {}
        text == IF split THEN Before("?", url.text) ELSE url.text
        info == parse_query_params(IF split THEN After("?", url.text) ELSE <<>>)
    IN  IF url.scheme \notin {"tcp", "redis", "unix"} \/ ~info.ok THEN Invalid
        ELSE LET c == redis_config(url.scheme, info.config)
             IN  IF url.scheme = "unix"
                 THEN IF text = <<>> \/ text[1] # "/" THEN Invalid
                      ELSE Config([c EXCEPT !.host = text])
                 ELSE WithAddress(WithUser(c, text),
                                  IF At("@", text) = {} THEN text ELSE After("@", text))
-----------------------------------------------------------------------------
(* URLs and what they say.  A URL has a scheme, a user and a password or     *)
(* none, a host, in brackets or not, what follows the brackets, a port or    *)
(* none; or a path; and parameters in order.                                 *)

Spell(given, prefix) == IF given = <<>> THEN <<>> ELSE prefix \o given[1]

SpelledUser(u) ==
    IF u.user = <<>> THEN <<>>
    ELSE u.user[1] \o Spell(u.pass, <<":">>) \o <<"@">>

SpelledHost(u) == IF u.ipv6 THEN (<<"[">> \o u.host \o <<"]">>) \o u.trailing ELSE u.host

SpelledParameter(p) == <<p.key, "=">> \o p.value

\* At most two parameters.
SpelledQuery(params) ==
    IF params = <<>> THEN <<>>
    ELSE <<"?">> \o SpelledParameter(params[1])
         \o IF Len(params) = 1 THEN <<>> ELSE <<"&">> \o SpelledParameter(params[2])

Spelled(u) ==
    [scheme |-> u.scheme,
     text |-> (IF u.scheme = "unix" THEN u.path
               ELSE SpelledUser(u) \o SpelledHost(u) \o Spell(u.port, <<":">>))
              \o SpelledQuery(u.params)]

\* The parts of a URL: none has the delimiter in it that ends it.  Every text
\* in front of a "?" has such parts, however odd; of queries, those with at
\* most two parameters are spelled.
Plain(s, delimiters) == s \in Seq(Tokens) /\ \A d \in delimiters : At(d, s) = {}
PlainIfGiven(part, delimiters) ==
    part = <<>> \/ (part = <<part[1]>> /\ Plain(part[1], delimiters))

UserGiven(u) ==
    /\ PlainIfGiven(u.user, {":", "@", "?"})
    /\ PlainIfGiven(u.pass, {"@", "?"}) /\ (u.user = <<>> => u.pass = <<>>)

\* A bracket that is not closed is part of the host.
AddressGiven(u) ==
    LET ended == IF u.user = <<>> THEN {"@", "?"} ELSE {"?"}
        opened == ~u.ipv6 /\ u.host # <<>> /\ u.host[1] = "["
    IN  /\ Plain(u.host, ended \cup (IF u.ipv6 THEN {"]"} ELSE {":"})
                               \cup (IF opened THEN {"]"} ELSE {}))
        /\ Plain(u.trailing, ended)
        /\ u.trailing # <<>> => u.ipv6 /\ u.trailing[1] # ":" /\ u.port = <<>>
        /\ PlainIfGiven(u.port, ended \cup (IF opened THEN {"]"} ELSE {}))

Spellable(u) ==
    /\ u.params \in Seq([key : Words, value : Seq(Tokens)])
    /\ Len(u.params) <= 2
    /\ \A i \in DOMAIN u.params : At("&", u.params[i].value) = {}
    /\ IF u.scheme = "unix" THEN Plain(u.path, {"?"}) ELSE UserGiven(u) /\ AddressGiven(u)

Says(u, keys, default) ==
    LET found == {i \in DOMAIN u.params : u.params[i].key \in keys}
    IN  IF found = {} THEN default ELSE u.params[Max(found)].value

Prefer(given, text) == IF given # <<>> THEN given[1] ELSE text

\* No configuration can be read: an unknown scheme, the old name of the index
\* or an index that is no number, a relative path, nothing where the host and
\* the port should be, a bracket that is not closed.
Unreadable(u) ==
    \/ u.scheme \notin {"tcp", "redis", "unix"}
    \/ \E i \in DOMAIN u.params :
          \/ u.params[i].key = "db"
          \/ u.params[i].key = "index" /\ ~IsIndex(u.params[i].value)
    \/ u.scheme = "unix" /\ (u.path = <<>> \/ u.path[1] # "/")
    \/ u.scheme # "unix" /\ ~u.ipv6 /\ \/ u.host = <<>> /\ u.port = <<>>
                                       \/ u.host # <<>> /\ u.host[1] = "["

\* The forms redis_config.hpp lists: a host is a name or the address in the
\* brackets, and a port is a number of its type.
Documented(u) ==
    /\ ~Unreadable(u)
    /\ u.scheme = "unix" \/
          /\ u.host # <<>> /\ u.trailing = <<>>
          /\ u.host \in Seq(Words \cup IF u.ipv6 THEN {":"} ELSE {})
          /\ \/ u.port = <<>>
             \/ \E w \in DOMAIN IndexOf : u.port = << <<w>> >> /\ IndexOf[w] < PORTS

\* The configuration a URL spells out, but for the port.
Meant(u, port) ==
    LET unix == u.scheme = "unix"
        username == Says(u, {"username"}, <<>>)
        password == Says(u, {"password", "auth"}, <<>>)
    IN  [scheme |-> u.scheme,
         host |-> IF unix THEN u.path ELSE u.host,
         port |-> port,
         username |-> IF unix THEN username ELSE Prefer(u.user, username),
         password |-> IF unix THEN password ELSE Prefer(u.pass, password),
         index |-> IndexOf[Says(u, {"index"}, <<"0">>)[1]]]

MeantPort(u) ==
    IF u.scheme = "unix" THEN 0
    ELSE IF u.port = <<>> THEN DEFAULT_PORT ELSE IndexOf[u.port[1][1]]

\* What may be made of a URL: of one in a documented form what it means; in
\* any other one the host and the port may be odd, and the port be another
\* number than it says.
MayBeRead(u, result) ==
    IF Unreadable(u) THEN result = Invalid
    ELSE IF Documented(u) THEN result = Config(Meant(u, MeantPort(u)))
    ELSE \/ result \in {Invalid, Rejected("out_of_range")}
         \/ \E port \in {result.config.port} :
               port \in 0 .. PORTS - 1 /\ result = Config(Meant(u, port))
=============================================================================
