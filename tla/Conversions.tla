---------------------------- MODULE Conversions ----------------------------
(***************************************************************************)
(* What redisdal reads: replies (ReplyDecoding), numbers in texts          *)
(* (NumericText) and URLs (RedisUrl).  A behaviour is one conversion.      *)
(***************************************************************************)
EXTENDS ReplyDecoding, NumericText, RedisUrl

CONSTANTS
    Numbers,    \* inputs: [type, text], a text to be read as an integer
    Urls        \* inputs: [url], a URL by its parts

ASSUME InputsAssumption ==
    /\ \A n \in Numbers : /\ DOMAIN n = {"type", "text"}
                         /\ n.type \in IntegerTypes /\ n.text \in Texts
    /\ \A u \in Urls : DOMAIN u = {"url"} /\ Spellable(u.url)

VARIABLES
    input,      \* None, or the text that is converted instead of a reply
    output      \* None, or what it was converted to

allVars == <<vars, input, output>>

ConvertsReply == Init /\ input = None /\ output = None

ConvertsText ==
    /\ input \in Numbers \cup Urls
    /\ output = None
    /\ decoder = "none" /\ raw = make_nil /\ meant = None /\ outcome = None

ReceiveReply ==
    /\ input = None
    /\ Receive
    /\ UNCHANGED <<input, output>>

ReadNumber ==
    /\ input \in Numbers /\ output = None
    /\ output' = from_string(input.type, input.text)
    /\ UNCHANGED <<vars, input>>

ReadUrl ==
    /\ input \in Urls /\ output = None
    /\ output' = parse_redis_url(Spelled(input.url))
    /\ UNCHANGED <<vars, input>>

ConversionSpec ==
    /\ ConvertsReply \/ ConvertsText
    /\ [][ReceiveReply \/ ReadNumber \/ ReadUrl]_allVars
-----------------------------------------------------------------------------
(* Properties. *)

\* A text is read as the number it denotes, in the type that was asked for;
\* a text that denotes none is an invalid_argument and a number that does not
\* fit is out_of_range, neither is a number of another value.
NumbersMeanWhatTheySay ==
    input \in Numbers /\ output # None => output = MeansOf(input.type, input.text)

\* A URL of a documented form gives the configuration it spells out, with the
\* defaults of what it leaves out.  One with an unknown scheme, neither host nor
\* port, a bracket that is not closed, a relative path, an index that is no
\* number, or the old name of the index is an invalid_argument.  In all others,
\* such as one with an empty host, or a port that is no number or too large, the
\* oddity stays where it is: they are rejected, or everything but the port is
\* as spelled.
UrlMeansWhatItSays ==
    input \in Urls /\ output # None => MayBeRead(input.url, output)

\* redis_config.hpp promises an invalid_argument for every URL that is in none
\* of the forms it lists.
InvalidFormatRejected ==
    input \in Urls /\ output # None /\ ~Documented(input.url) => output = Invalid
=============================================================================
