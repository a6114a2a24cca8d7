----------------------------- MODULE ObjectMoves -----------------------------
(***************************************************************************)
(* Lifetimes: a redis_client owns its connection, and a redis_template     *)
(* refers to a client, to a serializer and, from its operation views, back *)
(* to itself.  A client can be moved and assigned.  A template has a move  *)
(* constructor because it declares none, and no assignment because it has  *)
(* references.                                                             *)
(*                                                                         *)
(* An object is built once and has a name of its own for ever.  The views  *)
(* of a template are made and moved together; they are named after the     *)
(* template they were made for, which is the one they refer to.            *)
(***************************************************************************)
EXTENDS Naturals

CONSTANTS Connection, Client, Template, None

ASSUME NamesAssumption ==
    None \notin Connection \cup Client \cup Template

VARIABLES
    connection,     \* connection[x]: "new", "open" or "closed"
    closes,         \* closes[x]: how often x was closed
    client,         \* client[c]: [life, holds], which connection it owns
    template,       \* template[t]: [life, uses, serializer, views]
    first,          \* history: first[t]: the template t was moved from, or that
                    \* one was moved from, and so on, that was built as such
    moved           \* history: the templates that were moved from, or built by
                    \* moving from one of these

clientVars == <<connection, closes, client>>
templateVars == <<template, first, moved>>
vars == <<clientVars, templateVars>>

Clients == [life : {"unborn", "alive", "dead"}, holds : Connection \cup {None}]

\* serializer is the template that has it as a member, or None for one that
\* the program passed in and keeps.
Templates == [life : {"unborn", "alive", "dead"}, uses : Client \cup {None},
              serializer : Template \cup {None}, views : Template \cup {None}]

Unborn == [life |-> "unborn", holds |-> None]
UnbornTemplate == [life |-> "unborn", uses |-> None, serializer |-> None, views |-> None]

Init ==
    /\ connection = [x \in Connection |-> "new"]
    /\ closes = [x \in Connection |-> 0]
    /\ client = [c \in Client |-> Unborn]
    /\ template = [t \in Template |-> UnbornTemplate]
    /\ first = [t \in Template |-> None]
    /\ moved = {}

Alive(objects, o) == objects[o].life = "alive"
-----------------------------------------------------------------------------
(* redis_client. *)

\* The unique_ptr that held x lets it go.
Close(x) ==
    IF x = None THEN UNCHANGED <<connection, closes>>
    ELSE /\ connection' = [connection EXCEPT ![x] = "closed"]
         /\ closes' = [closes EXCEPT ![x] = @ + 1]

\* With a connection; without one the constructor throws and leaves no object.
redis_client(c) ==
    /\ client[c].life = "unborn"
    /\ \E x \in Connection :
          /\ connection[x] = "new"
          /\ connection' = [connection EXCEPT ![x] = "open"]
          /\ client' = [client EXCEPT ![c] = [life |-> "alive", holds |-> x]]
    /\ UNCHANGED <<closes, templateVars>>

client_moved(c, from) ==
    /\ client[c].life = "unborn" /\ Alive(client, from)
    /\ client' = [client EXCEPT ![c] = client[from], ![from].holds = None]
    /\ UNCHANGED <<connection, closes, templateVars>>

\* Mutant: the connection of the object that is assigned to is not closed.
AssignedLeaking(c, from) ==
    /\ Alive(client, c) /\ Alive(client, from)
    /\ client' = [client EXCEPT ![from].holds = None, ![c].holds = client[from].holds]
    /\ UNCHANGED <<connection, closes, templateVars>>

\* An object assigned to itself keeps its connection.
client_assigned(c, from) ==
    /\ Alive(client, c) /\ Alive(client, from)
    /\ IF c = from THEN UNCHANGED <<connection, closes>> ELSE Close(client[c].holds)
    /\ client' = [client EXCEPT ![from].holds = None, ![c].holds = client[from].holds]
    /\ UNCHANGED templateVars

client_destroyed(c) ==
    /\ Alive(client, c)
    /\ Close(client[c].holds)
    /\ client' = [client EXCEPT ![c] = [life |-> "dead", holds |-> None]]
    /\ UNCHANGED templateVars
-----------------------------------------------------------------------------
(* redis_template and string_redis_template. *)

\* With the serializers of the program.
redis_template(t, c) ==
    /\ template[t].life = "unborn" /\ Alive(client, c)
    /\ template' = [template EXCEPT ![t] =
           [life |-> "alive", uses |-> c, serializer |-> None, views |-> t]]
    /\ first' = [first EXCEPT ![t] = t]
    /\ UNCHANGED <<clientVars, moved>>

\* With its own serializer.
string_redis_template(t, c) ==
    /\ template[t].life = "unborn" /\ Alive(client, c)
    /\ template' = [template EXCEPT ![t] =
           [life |-> "alive", uses |-> c, serializer |-> t, views |-> t]]
    /\ first' = [first EXCEPT ![t] = t]
    /\ UNCHANGED <<clientVars, moved>>

\* Mutant: the views stay with the object that was moved from.
MovedWithoutViews(t, from) ==
    /\ template[t].life = "unborn" /\ Alive(template, from)
    /\ template' = [template EXCEPT ![t] = [template[from] EXCEPT !.views = from]]
    /\ first' = [first EXCEPT ![t] = first[from]]
    /\ moved' = moved \cup {from} \cup IF from \in moved THEN {t} ELSE {}
    /\ UNCHANGED clientVars

\* References are copied: t refers to the serializer that from refers to, and
\* the views it takes over refer to the template they were made for.
template_moved(t, from) ==
    /\ template[t].life = "unborn" /\ Alive(template, from)
    /\ template' = [template EXCEPT ![t] = template[from], ![from].views = None]
    /\ first' = [first EXCEPT ![t] = first[from]]
    /\ moved' = moved \cup {from} \cup IF from \in moved THEN {t} ELSE {}
    /\ UNCHANGED clientVars

template_destroyed(t) ==
    /\ Alive(template, t)
    /\ template' = [template EXCEPT ![t].life = "dead", ![t].views = None]
    /\ UNCHANGED <<clientVars, first, moved>>

Next ==
    \/ \E c \in Client :
          \/ redis_client(c) \/ client_destroyed(c)
          \/ \E from \in Client : client_moved(c, from) \/ client_assigned(c, from)
    \/ \E t \in Template :
          \/ \E c \in Client : redis_template(t, c) \/ string_redis_template(t, c)
          \/ \E from \in Template : template_moved(t, from)
          \/ template_destroyed(t)

Spec == Init /\ [][Next]_vars
-----------------------------------------------------------------------------
(* Calls. *)

\* No call of a redis_client looks whether there is a connection.
ClientCallDefined(c) == Alive(client, c) /\ client[c].holds # None

SerializerAlive(t) ==
    template[t].serializer # None => Alive(template, template[t].serializer)

\* serialize_key and get_connection of a template, which its calls and its
\* views use, on an object that lives.
UseDefined(t) ==
    Alive(template, t) /\ SerializerAlive(t) /\ ClientCallDefined(template[t].uses)

ViewCallDefined(t) ==
    Alive(template, t) /\ template[t].views # None /\ UseDefined(template[t].views)
-----------------------------------------------------------------------------
(* Properties. *)

Holders(x) == {c \in Client : client[c].holds = x}

\* However clients are moved, assigned and destroyed, a connection that is open
\* has one owner, which lives, and one that was let go is closed once and has
\* none: nothing is leaked, closed twice or used by two.
ConnectionsHaveOneOwner ==
    \A x \in Connection :
        /\ connection[x] = "open" =>
              /\ closes[x] = 0
              /\ \E c \in Client : Alive(client, c) /\ Holders(x) = {c}
        /\ connection[x] # "open" => Holders(x) = {}
        /\ connection[x] = "closed" => closes[x] = 1

\* A call on a template that lives is undefined for these reasons only: its
\* client has no connection or is gone; the call is one of its views and the
\* template has been moved from; or the template came about by moves, the first
\* of the templates that were moved is gone, and the call is one of the views or
\* needs the serializer that one had as a member.  The templates in between do
\* not matter, and one that nobody moved works as long as its client does.
UndefinedOnlyAfterMoves ==
    \A t \in Template : Alive(template, t) /\ ClientCallDefined(template[t].uses) =>
        /\ UseDefined(t) <=> template[t].serializer = None \/ Alive(template, first[t])
        /\ ViewCallDefined(t) <=> Alive(template, first[t]) /\ t \notin moved
=============================================================================
