---------------------------- MODULE TypedClient ----------------------------
(***************************************************************************)
(* How an operation view of redis_template makes a call on the object at a *)
(* key: it serialises its arguments, sends one command through             *)
(* redis_client and redis_cmd_ops, takes one reply, decodes it and         *)
(* deserialises what it holds.  Serialising throws before anything is      *)
(* sent; decoding and deserialising throw after the command has had its    *)
(* effect.                                                                 *)
(*                                                                         *)
(* The connection is used as SyncConnection shows it may be: one command,  *)
(* one reply, and nothing more once it has failed.  A command that was on  *)
(* its way when the connection failed may still reach the server, also     *)
(* after the program has connected again; it is a stray then.              *)
(*                                                                         *)
(* The modules of the views extend this one with their operations, the     *)
(* results they make of a reply, and the commands of the server.           *)
(***************************************************************************)
EXTENDS CmdReply, FiniteSets

CONSTANTS
    Client,             \* facades with a connection each, used by one thread
    Value,              \* the values of the program
    serialize_value,    \* a partial function from Value to Text
    deserialize_value,  \* a partial function from Text to Value
    Name,               \* the keys of the program, which also name fields
    serialize_key,      \* a partial function from Name to Text
    deserialize_key,    \* a partial function from Text to Name
    Batches,            \* inputs: vectors of values
    Indexes,            \* inputs: indexes into lists and sorted sets
    Objects,            \* bound: what the server has memory for at the key
    MaxStray            \* bound: strays of a client at a time

ASSUME TypedAssumption ==
    /\ DOMAIN serialize_value \subseteq Value
    /\ \A v \in DOMAIN serialize_value : serialize_value[v] \in Text
    /\ DOMAIN deserialize_value \subseteq Text
    /\ \A t \in DOMAIN deserialize_value : deserialize_value[t] \in Value
    /\ DOMAIN serialize_key \subseteq Name
    /\ \A name \in DOMAIN serialize_key : serialize_key[name] \in Text
    /\ DOMAIN deserialize_key \subseteq Text
    /\ \A t \in DOMAIN deserialize_key : deserialize_key[t] \in Name
    /\ \A values \in Batches : values \in Seq(Value)
    /\ Indexes \subseteq Int
    /\ MaxStray \in Nat
    /\ HALF > 1

VARIABLES
    object,     \* the object at the key, as the server has it
    link,       \* link[c]: whether the connection of c is up
    req,        \* req[c]: the command of c the server has yet to act on
    rep,        \* rep[c]: the reply c has yet to take
    stray,      \* stray[c]: commands of connections c has given up
    busy,       \* busy[c]: whether c is in a call
    op,         \* op[c]: the last operation c called
    outcome,    \* outcome[c]: what it gave, Waiting before that
    taken       \* taken[c]: the texts the server removed for it

netVars == <<link, req, rep, stray>>
callVars == <<busy, op, outcome>>
vars == <<object, netVars, callVars, taken>>

Waiting == Throw("waiting")
NoMsg == [none |-> TRUE]        \* no message in flight
NoObject == [none |-> TRUE]
NoOp == [name |-> "none"]

Init ==
    /\ object = NoObject
    /\ link = [c \in Client |-> "up"]
    /\ req = [c \in Client |-> NoMsg]
    /\ rep = [c \in Client |-> NoMsg]
    /\ stray = [c \in Client |-> <<>>]
    /\ busy = [c \in Client |-> FALSE]
    /\ op = [c \in Client |-> NoOp]
    /\ outcome = [c \in Client |-> Waiting]
    /\ taken = [c \in Client |-> <<>>]

Serialized(v) == IF v \in DOMAIN serialize_value THEN Val(serialize_value[v])
                                                 ELSE Throw("serialize")
Deserialized(t) ==
    IF t \in DOMAIN deserialize_value THEN Val(deserialize_value[t])
                                      ELSE Throw("deserialize")

SerializedName(name) ==
    IF name \in DOMAIN serialize_key THEN Val(serialize_key[name]) ELSE Throw("serialize")

DeserializedName(t) ==
    IF t \in DOMAIN deserialize_key THEN Val(deserialize_key[t]) ELSE Throw("deserialize")

\* What a call comes to before a reply: a command to send, as a Val; an
\* exception; or a result that needs no command.
Done(v) == [ok |-> FALSE, value |-> v]

SerializedAll(values) == DecodeAll(values, Serialized)

OutcomeOf(command) ==
    IF command.ok THEN Waiting
    ELSE IF "value" \in DOMAIN command THEN Val(command.value) ELSE command

\* A client that is in no call makes one.  What is sent on a broken connection
\* arrives nowhere.
Call(c, o, command) ==
    /\ op' = [op EXCEPT ![c] = o]
    /\ busy' = [busy EXCEPT ![c] = command.ok]
    /\ outcome' = [outcome EXCEPT ![c] = OutcomeOf(command)]
    /\ req' = IF command.ok /\ link[c] = "up"
              THEN [req EXCEPT ![c] = command.value] ELSE req
    /\ taken' = [taken EXCEPT ![c] = <<>>]
    /\ UNCHANGED <<object, link, rep, stray>>

\* The reply is there; result is what the view makes of it.
Finish(c, result) ==
    /\ busy[c]
    /\ rep[c] # NoMsg
    /\ rep' = [rep EXCEPT ![c] = NoMsg]
    /\ busy' = [busy EXCEPT ![c] = FALSE]
    /\ outcome' = [outcome EXCEPT ![c] = result]
    /\ UNCHANGED <<object, link, req, stray, op, taken>>

\* Commands that change nothing: to arrive late is the same as to be lost.
Inquiries == {"LRANGE", "LLEN", "LINDEX", "GET", "HGET", "HMGET", "HGETALL", "HKEYS",
              "HVALS", "HSCAN"}

\* The connection throws; no layer catches it and nothing is sent again.  A
\* command that is still on its way is a stray from here on, or is lost.
TransportError(c) ==
    /\ busy[c]
    /\ link[c] = "down"
    /\ rep[c] = NoMsg
    /\ busy' = [busy EXCEPT ![c] = FALSE]
    /\ outcome' = [outcome EXCEPT ![c] = Throw("transport")]
    /\ req' = [req EXCEPT ![c] = NoMsg]
    /\ \/ UNCHANGED stray
       \/ /\ req[c] # NoMsg
          /\ req[c].cmd \notin Inquiries
          /\ Len(stray[c]) < MaxStray
          /\ stray' = [stray EXCEPT ![c] =
                          Append(@, [op |-> op[c], command |-> req[c]])]
    /\ UNCHANGED <<object, link, rep, op, taken>>

\* The program replaces the connection.
Reconnect(c) ==
    /\ ~busy[c]
    /\ link[c] = "down"
    /\ link' = [link EXCEPT ![c] = "up"]
    /\ UNCHANGED <<object, req, rep, stray, callVars, taken>>
-----------------------------------------------------------------------------
(* The results that several views share.  The kinds of result are told      *)
(* apart by a field of their own.                                           *)

Count(n) == [count |-> n]
Flag(b) == [flag |-> b]
Element(v) == [element |-> v]
Elements(vs) == [elements |-> vs]

count_result(r) == Bind(as_integer(r), LAMBDA n : Val(Count(n)))
flag_result(r) == Bind(as_integer(r), LAMBDA n : Val(Flag(n = 1)))

\* Mutant: an element that cannot be deserialised counts as not there.
ElementUnlessBad(r) ==
    Bind(optional_string(r), LAMBDA t :
        IF t = None \/ t[1] \notin DOMAIN deserialize_value THEN Val(Element(None))
        ELSE Bind(Deserialized(t[1]), LAMBDA v : Val(Element(Some(v)))))

element_result(r) ==
    Bind(optional_string(r), LAMBDA t :
        IF t = None THEN Val(Element(None))
        ELSE Bind(Deserialized(t[1]), LAMBDA v : Val(Element(Some(v)))))

\* Mutant: an element that cannot be deserialised is left out.
ElementsSkipping(r) ==
    Bind(strings(r), LAMBDA texts :
        LET good == SelectSeq(texts, LAMBDA t : t \in DOMAIN deserialize_value)
        IN  Val(Elements([i \in DOMAIN good |-> deserialize_value[good[i]]])))

DeserializedAll(texts) ==
    Bind(DecodeAll(texts, Deserialized), LAMBDA vs : Val(Elements(vs)))

elements_result(r) == Bind(strings(r), DeserializedAll)
-----------------------------------------------------------------------------
(* The server and the network (outside the repository).                     *)

\* An object is a record with one field, named for its kind.  The server keeps
\* no empty one.
OfKind(x, kind) == x = NoObject \/ kind \in DOMAIN x
Content(x, kind) == IF x = NoObject THEN <<>> ELSE x[kind]

\* What a command leaves, what it takes away, and its reply.
Change(x, gone, reply) == [object |-> x, taken |-> gone, reply |-> reply]

Refused(x) == Change(x, <<>>, make_error("error"))

Array(texts) == make_array([i \in DOMAIN texts |-> make_string(texts[i])])
StringOrNil(t) == IF t = None THEN make_nil ELSE make_string(t[1])

Reversed(s) == [i \in DOMAIN s |-> s[Len(s) + 1 - i]]
Least(a, b) == IF a < b THEN a ELSE b

\* The elements of s from one index to another; -1 is the last.
Slice(s, from, to) ==
    LET At(i) == IF i < 0 THEN Len(s) + i ELSE i
        first == IF At(from) < 0 THEN 0 ELSE At(from)
    IN  SubSeq(s, first + 1, Least(At(to), Len(s) - 1) + 1)

\* The server takes the command of c and answers, if the connection is up.
Serve(c, Effects(_)) ==
    /\ req[c] # NoMsg
    /\ \E e \in Effects(req[c]) :
          /\ object' = e.object
          /\ taken' = [taken EXCEPT ![c] = e.taken]
          /\ rep' = IF link[c] = "up" THEN [rep EXCEPT ![c] = e.reply] ELSE rep
    /\ req' = [req EXCEPT ![c] = NoMsg]
    /\ UNCHANGED <<link, stray, callVars>>

\* A stray arrives after all, or never.
ServeStray(c, Effects(_)) ==
    \E i \in DOMAIN stray[c] :
        /\ object' \in {object} \cup {e.object : e \in Effects(stray[c][i].command)}
        /\ stray' = [stray EXCEPT ![c] =
                        SubSeq(@, 1, i - 1) \o SubSeq(@, i + 1, Len(@))]
        /\ UNCHANGED <<link, req, rep, callVars, taken>>

\* The connection fails; a command or a reply on its way may be lost with it.
Drop(c) ==
    /\ link[c] = "up"
    /\ link' = [link EXCEPT ![c] = "down"]
    /\ \E lost \in BOOLEAN :
          /\ rep' = IF lost THEN [rep EXCEPT ![c] = NoMsg] ELSE rep
          /\ req' = IF lost THEN [req EXCEPT ![c] = NoMsg] ELSE req
    /\ UNCHANGED <<object, stray, callVars, taken>>

\* Other programs do what they like with the key.
Others ==
    /\ object' \in Objects
    /\ UNCHANGED <<netVars, callVars, taken>>
=============================================================================
