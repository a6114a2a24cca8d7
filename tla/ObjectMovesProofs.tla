------------------------- MODULE ObjectMovesProofs -------------------------
(***************************************************************************)
(* Proofs about ObjectMoves, for any connections, clients and templates.   *)
(* What clients own and what templates refer to are independent, so the    *)
(* inductive invariant has a part for each.                                *)
(***************************************************************************)
EXTENDS ObjectMoves, TLAPS

TypeOK ==
    /\ connection \in [Connection -> {"new", "open", "closed"}]
    /\ closes \in [Connection -> Nat]
    /\ client \in [Client -> Clients]
    /\ template \in [Template -> Templates]
    /\ first \in [Template -> Template \cup {None}]
    /\ moved \subseteq Template

\* What is held is open and held once, by a client that lives; what is open is
\* held; and only what is closed was closed.
Owned ==
    /\ \A c \in Client : client[c].holds # None =>
          connection[client[c].holds] = "open" /\ client[c].life = "alive"
    /\ \A c, d \in Client :
          client[c].holds # None /\ client[c].holds = client[d].holds => c = d
    /\ \A x \in Connection :
          /\ connection[x] = "open" => \E c \in Client : client[c].holds = x
          /\ closes[x] = IF connection[x] = "closed" THEN 1 ELSE 0

\* A template that was built has the client and the serializer of its first
\* one, which was built as such; the serializer is a member of that or of none.
RefersToFirst(t) ==
    LET f == first[t]
    IN  /\ f \in Template
        /\ template[f].life # "unborn"
        /\ first[f] = f
        /\ template[f].uses = template[t].uses
        /\ template[f].serializer = template[t].serializer
        /\ template[t].serializer \in {None, f}

\* While it lives it has views of its first one, unless it was moved from.
Referring ==
    \A t \in Template :
        /\ template[t].life = "unborn" => t \notin moved
        /\ template[t].life # "unborn" => RefersToFirst(t)
        /\ template[t].life = "alive" =>
               template[t].views = IF t \in moved THEN None ELSE first[t]

Inv == TypeOK /\ Owned /\ Referring
-----------------------------------------------------------------------------
\* Nothing is owned and nothing refers to anything at first.
LEMMA InitInv == Init => Inv
<1> SUFFICES ASSUME Init PROVE Inv
  OBVIOUS
<1>1. TypeOK
  <2>1. Unborn \in Clients /\ UnbornTemplate \in Templates
    BY DEF Unborn, UnbornTemplate, Clients, Templates
  <2>. QED
    BY <2>1 DEF Init, TypeOK
<1>2. Owned
  BY DEF Init, Owned, Unborn
<1>3. Referring
  BY DEF Init, Referring, UnbornTemplate
<1>. QED
  BY <1>1, <1>2, <1>3 DEF Inv

-----------------------------------------------------------------------------
(* Clients. *)

\* A connection is let go by whoever held it; letting go of none is nothing.
LEMMA CloseType ==
    ASSUME TypeOK, NEW x \in Connection \cup {None}, Close(x)
    PROVE  /\ connection' \in [Connection -> {"new", "open", "closed"}]
           /\ closes' \in [Connection -> Nat]
           /\ \A y \in Connection : y # x => connection'[y] = connection[y] /\ closes'[y] = closes[y]
           /\ x # None => connection'[x] = "closed" /\ closes'[x] = closes[x] + 1
BY NamesAssumption DEF TypeOK, Close

\* A new client owns a connection that nobody had.
LEMMA BuildClient ==
    ASSUME TypeOK, Owned, NEW c \in Client, redis_client(c)
    PROVE  TypeOK' /\ Owned'
<1>1. PICK x \in Connection :
          /\ connection[x] = "new"
          /\ connection' = [connection EXCEPT ![x] = "open"]
          /\ client' = [client EXCEPT ![c] = [life |-> "alive", holds |-> x]]
  BY DEF redis_client
<1>2. closes' = closes /\ UNCHANGED templateVars
  BY DEF redis_client
<1>3. TypeOK'
  BY <1>1, <1>2 DEF TypeOK, Clients, templateVars
<1>4. client[c].life = "unborn" /\ client[c].holds = None
  BY DEF redis_client, Owned
<1>5. client'[c].holds = x /\ client'[c].life = "alive"
  BY <1>1 DEF TypeOK
<1>6. \A d \in Client : d # c => client'[d] = client[d]
  BY <1>1 DEF TypeOK
<1>7. connection'[x] = "open" /\ \A y \in Connection : y # x => connection'[y] = connection[y]
  BY <1>1 DEF TypeOK
<1>8. \A d \in Client : client[d].holds # x
  BY <1>1, NamesAssumption DEF Owned
<1>9. \A d \in Client : client[d].holds \in Connection \cup {None}
  BY DEF TypeOK, Clients
<1>10. Owned'
  <2>1. \A d \in Client : client'[d].holds # None =>
            connection'[client'[d].holds] = "open" /\ client'[d].life = "alive"
    BY <1>5, <1>6, <1>7, <1>8, <1>9 DEF Owned
  <2>2. \A d, e \in Client : client'[d].holds # None /\ client'[d].holds = client'[e].holds => d = e
    BY <1>5, <1>6, <1>8 DEF Owned
  <2>3. \A y \in Connection : connection'[y] = "open" => \E d \in Client : client'[d].holds = y
    <3> SUFFICES ASSUME NEW y \in Connection, connection'[y] = "open"
                 PROVE  \E d \in Client : client'[d].holds = y
      OBVIOUS
    <3>1. CASE y = x
      BY <3>1, <1>5
    <3>2. CASE y # x
      <4>1. PICK d \in Client : client[d].holds = y
        BY <3>2, <1>7 DEF Owned
      <4>2. d # c
        BY <4>1, <1>4, NamesAssumption
      <4>. QED
        BY <4>1, <4>2, <1>6
    <3>. QED
      BY <3>1, <3>2
  <2>4. \A y \in Connection : closes'[y] = IF connection'[y] = "closed" THEN 1 ELSE 0
    BY <1>1, <1>2, <1>7 DEF Owned
  <2>. QED
    BY <2>1, <2>2, <2>3, <2>4 DEF Owned
<1>. QED
  BY <1>3, <1>10

\* What happens when one client hands its connection to another: from then on
\* gone has none, and nobody but taker has another one than before.
LEMMA HandOver ==
    ASSUME TypeOK, Owned, TypeOK',
           NEW taker \in Client, NEW gone \in Client, taker # gone,
           client[taker].holds = None \/ connection'[client[taker].holds] = "closed",
           client'[taker].holds = client[gone].holds,
           client'[taker].holds # None => client'[taker].life = "alive",
           client'[gone].holds = None,
           \A d \in Client : d \notin {taker, gone} => client'[d] = client[d],
           \A y \in Connection : IF y = client[taker].holds
                                 THEN connection'[y] = "closed" /\ closes'[y] = closes[y] + 1
                                 ELSE connection'[y] = connection[y] /\ closes'[y] = closes[y]
    PROVE  Owned'
<1>1. \A d \in Client : client[d].holds \in Connection \cup {None}
  BY DEF TypeOK, Clients
<1>2. \A d \in Client : client[d].holds # None /\ d # taker => client[d].holds # client[taker].holds
  BY DEF Owned
<1>3. \A d \in Client : client'[d].holds # None =>
          connection'[client'[d].holds] = "open" /\ client'[d].life = "alive"
  <2> SUFFICES ASSUME NEW d \in Client, client'[d].holds # None
               PROVE  connection'[client'[d].holds] = "open" /\ client'[d].life = "alive"
    OBVIOUS
  <2>1. CASE d = taker
    BY <2>1, <1>1, <1>2 DEF Owned
  <2>2. CASE d \notin {taker, gone}
    BY <2>2, <1>1, <1>2 DEF Owned
  <2>. QED
    BY <2>1, <2>2
<1>4. \A d, e \in Client : client'[d].holds # None /\ client'[d].holds = client'[e].holds => d = e
  <2> SUFFICES ASSUME NEW d \in Client, NEW e \in Client,
                      client'[d].holds # None, client'[d].holds = client'[e].holds
               PROVE  d = e
    OBVIOUS
  <2>1. d # gone /\ e # gone
    OBVIOUS
  <2>2. PICK b \in Client : client'[d].holds = client[b].holds /\ b = IF d = taker THEN gone ELSE d
    BY <2>1
  <2>3. PICK a \in Client : client'[e].holds = client[a].holds /\ a = IF e = taker THEN gone ELSE e
    BY <2>1
  <2>4. client[b].holds # None /\ client[b].holds = client[a].holds
    BY <2>2, <2>3
  <2>5. b = a
    BY <2>4 DEF Owned
  <2>. QED
    BY <2>1, <2>2, <2>3, <2>5
<1>5. \A y \in Connection : connection'[y] = "open" => \E d \in Client : client'[d].holds = y
  <2> SUFFICES ASSUME NEW y \in Connection, connection'[y] = "open"
               PROVE  \E d \in Client : client'[d].holds = y
    OBVIOUS
  <2>1. y # client[taker].holds /\ connection[y] = "open"
    OBVIOUS
  <2>2. PICK d \in Client : client[d].holds = y
    BY <2>1 DEF Owned
  <2>3. CASE d = gone
    BY <2>2, <2>3
  <2>4. CASE d # gone
    BY <2>1, <2>2, <2>4
  <2>. QED
    BY <2>3, <2>4
<1>6. \A y \in Connection : closes'[y] = IF connection'[y] = "closed" THEN 1 ELSE 0
  <2> SUFFICES ASSUME NEW y \in Connection
               PROVE  closes'[y] = IF connection'[y] = "closed" THEN 1 ELSE 0
    OBVIOUS
  <2>1. CASE y = client[taker].holds
    <3>1. client[taker].holds # None
      BY <2>1, NamesAssumption
    <3>2. connection[y] = "open"
      BY <2>1, <3>1 DEF Owned
    <3>3. closes[y] = 0
      BY <3>2 DEF Owned
    <3>. QED
      BY <2>1, <3>3
  <2>2. CASE y # client[taker].holds
    BY <2>2 DEF Owned
  <2>. QED
    BY <2>1, <2>2
<1>. QED
  BY <1>3, <1>4, <1>5, <1>6 DEF Owned

\* Move construction hands the connection to a client that had none.
LEMMA MoveClient ==
    ASSUME TypeOK, Owned, NEW c \in Client, NEW from \in Client, client_moved(c, from)
    PROVE  TypeOK' /\ Owned'
<1>1. /\ client[c].life = "unborn" /\ client[from].life = "alive"
      /\ client' = [client EXCEPT ![c] = client[from], ![from].holds = None]
      /\ UNCHANGED <<connection, closes, templateVars>>
  BY DEF client_moved, Alive
<1>2. c # from /\ client[c].holds = None
  BY <1>1 DEF Owned
<1>3. /\ client'[c] = client[from]
      /\ client'[from].holds = None
      /\ \A d \in Client : d \notin {c, from} => client'[d] = client[d]
  BY <1>1, <1>2 DEF TypeOK, Clients
<1>4. TypeOK'
  <2>1. client' \in [Client -> Clients]
    BY <1>1 DEF TypeOK, Clients
  <2>. QED
    BY <1>1, <2>1 DEF TypeOK, templateVars
<1>5. \A y \in Connection : connection'[y] = connection[y] /\ closes'[y] = closes[y] /\ y # None
  BY <1>1, NamesAssumption
<1>6. Owned'
  <2>1. client'[c].holds = client[from].holds
    BY <1>3
  <2>2. client'[c].holds # None => client'[c].life = "alive"
    BY <1>1, <1>3
  <2>3. \A y \in Connection : IF y = client[c].holds
                             THEN connection'[y] = "closed" /\ closes'[y] = closes[y] + 1
                             ELSE connection'[y] = connection[y] /\ closes'[y] = closes[y]
    BY <1>2, <1>5
  <2>. QED
    BY <1>2, <1>3, <1>4, <2>1, <2>2, <2>3, HandOver
<1>. QED
  BY <1>4, <1>6

\* Assignment closes what the target had; to itself it changes nothing.
LEMMA AssignClient ==
    ASSUME TypeOK, Owned, NEW c \in Client, NEW from \in Client, client_assigned(c, from)
    PROVE  TypeOK' /\ Owned'
<1>1. /\ client[c].life = "alive" /\ client[from].life = "alive"
      /\ client' = [client EXCEPT ![from].holds = None, ![c].holds = client[from].holds]
      /\ UNCHANGED templateVars
  BY DEF client_assigned, Alive
<1>2. client' \in [Client -> Clients]
  BY <1>1 DEF TypeOK, Clients
<1>3. CASE c = from
  <2>1. client' = client
    BY <1>1, <1>3 DEF TypeOK, Clients
  <2>2. connection' = connection /\ closes' = closes
    BY <1>3 DEF client_assigned
  <2>3. template' = template /\ first' = first /\ moved' = moved
    BY <1>1 DEF templateVars
  <2>4. TypeOK'
    BY <2>1, <2>2, <2>3 DEF TypeOK
  <2>5. Owned'
    BY <2>1, <2>2 DEF Owned
  <2>. QED
    BY <2>4, <2>5
<1>4. CASE c # from
  <2>1. Close(client[c].holds)
    BY <1>4 DEF client_assigned
  <2>2. client[c].holds \in Connection \cup {None}
    BY DEF TypeOK, Clients
  <2>3. TypeOK'
    BY <1>1, <1>2, <2>1, <2>2, CloseType DEF TypeOK, templateVars
  <2>4. /\ client'[c].holds = client[from].holds
        /\ client'[c].life = "alive"
        /\ client'[from].holds = None
        /\ \A d \in Client : d \notin {c, from} => client'[d] = client[d]
    BY <1>1, <1>4 DEF TypeOK, Clients
  <2>5. \A y \in Connection : IF y = client[c].holds
                              THEN connection'[y] = "closed" /\ closes'[y] = closes[y] + 1
                              ELSE connection'[y] = connection[y] /\ closes'[y] = closes[y]
    BY <2>1, <2>2, CloseType, NamesAssumption
  <2>6. client[c].holds = None \/ connection'[client[c].holds] = "closed"
    BY <2>1, <2>2, CloseType
  <2>7. Owned'
    BY <1>4, <2>3, <2>4, <2>5, <2>6, HandOver
  <2>. QED
    BY <2>3, <2>7
<1>. QED
  BY <1>3, <1>4

\* A client that goes takes its connection with it.
LEMMA DestroyClient ==
    ASSUME TypeOK, Owned, NEW c \in Client, client_destroyed(c)
    PROVE  TypeOK' /\ Owned'
<1>1. /\ Close(client[c].holds)
      /\ client' = [client EXCEPT ![c] = [life |-> "dead", holds |-> None]]
      /\ UNCHANGED templateVars
  BY DEF client_destroyed
<1>2. client[c].holds \in Connection \cup {None}
  BY DEF TypeOK, Clients
<1>3. client' \in [Client -> Clients]
  BY <1>1 DEF TypeOK, Clients
<1>4. TypeOK'
  BY <1>1, <1>2, <1>3, CloseType DEF TypeOK, templateVars
<1>5. client'[c].holds = None /\ \A d \in Client : d # c => client'[d] = client[d]
  BY <1>1 DEF TypeOK
<1>6. \A y \in Connection : IF y = client[c].holds
                            THEN connection'[y] = "closed" /\ closes'[y] = closes[y] + 1
                            ELSE connection'[y] = connection[y] /\ closes'[y] = closes[y]
  BY <1>1, <1>2, CloseType, NamesAssumption
<1>7. \A d \in Client : client[d].holds \in Connection \cup {None}
  BY DEF TypeOK, Clients
<1>8. \A d \in Client : client'[d].holds # None =>
          connection'[client'[d].holds] = "open" /\ client'[d].life = "alive"
  <2> SUFFICES ASSUME NEW d \in Client, client'[d].holds # None
               PROVE  connection'[client'[d].holds] = "open" /\ client'[d].life = "alive"
    OBVIOUS
  <2>1. d # c /\ client'[d] = client[d]
    BY <1>5
  <2>2. client[d].holds # client[c].holds /\ client[d].holds \in Connection
    BY <2>1, <1>7 DEF Owned
  <2>. QED
    BY <2>1, <2>2, <1>6 DEF Owned
<1>9. \A d, e \in Client : client'[d].holds # None /\ client'[d].holds = client'[e].holds => d = e
  BY <1>5 DEF Owned
<1>10. \A y \in Connection : connection'[y] = "open" => \E d \in Client : client'[d].holds = y
  <2> SUFFICES ASSUME NEW y \in Connection, connection'[y] = "open"
               PROVE  \E d \in Client : client'[d].holds = y
    OBVIOUS
  <2>1. y # client[c].holds /\ connection[y] = "open"
    BY <1>6
  <2>2. PICK d \in Client : client[d].holds = y
    BY <2>1 DEF Owned
  <2>. QED
    BY <2>1, <2>2, <1>5
<1>11. \A y \in Connection : closes'[y] = IF connection'[y] = "closed" THEN 1 ELSE 0
  <2> SUFFICES ASSUME NEW y \in Connection
               PROVE  closes'[y] = IF connection'[y] = "closed" THEN 1 ELSE 0
    OBVIOUS
  <2>1. CASE y = client[c].holds
    <3>1. client[c].holds # None
      BY <2>1, NamesAssumption
    <3>2. connection[y] = "open"
      BY <2>1, <3>1 DEF Owned
    <3>3. closes[y] = 0
      BY <3>2 DEF Owned
    <3>. QED
      BY <2>1, <3>3, <1>6
  <2>2. CASE y # client[c].holds
    BY <2>2, <1>6 DEF Owned
  <2>. QED
    BY <2>1, <2>2
<1>. QED
  BY <1>4, <1>8, <1>9, <1>10, <1>11 DEF Owned

-----------------------------------------------------------------------------
(* Templates. *)

\* A template that is built as such, with or without a serializer of its own,
\* is its own first one.
LEMMA BuildTemplate ==
    ASSUME TypeOK, Referring, NEW t \in Template, NEW c \in Client,
           redis_template(t, c) \/ string_redis_template(t, c)
    PROVE  TypeOK' /\ Referring'
<1>1. PICK s \in {None, t} : template' = [template EXCEPT ![t] =
          [life |-> "alive", uses |-> c, serializer |-> s, views |-> t]]
  BY DEF redis_template, string_redis_template
<1>2. /\ template[t].life = "unborn"
      /\ first' = [first EXCEPT ![t] = t]
      /\ moved' = moved
      /\ connection' = connection /\ closes' = closes /\ client' = client
  BY DEF redis_template, string_redis_template, clientVars
<1>3. TypeOK'
  <2>1. template' \in [Template -> Templates]
    BY <1>1 DEF TypeOK, Templates
  <2>. QED
    BY <1>2, <2>1 DEF TypeOK
<1>4. /\ template'[t] = [life |-> "alive", uses |-> c, serializer |-> s, views |-> t]
      /\ first'[t] = t
      /\ \A u \in Template : u # t => template'[u] = template[u] /\ first'[u] = first[u]
  BY <1>1, <1>2 DEF TypeOK
<1>5. Referring'
  <2> SUFFICES ASSUME NEW u \in Template
               PROVE  /\ template'[u].life = "unborn" => u \notin moved'
                      /\ template'[u].life # "unborn" => RefersToFirst(u)'
                      /\ template'[u].life = "alive" =>
                             template'[u].views = IF u \in moved' THEN None ELSE first'[u]
    BY DEF Referring
  <2>1. CASE u = t
    <3>1. t \notin moved'
      BY <1>2 DEF Referring
    <3>2. RefersToFirst(t)'
      BY <1>4 DEF RefersToFirst
    <3>. QED
      BY <2>1, <1>4, <3>1, <3>2
  <2>2. CASE u # t
    <3>1. template[u].life # "unborn" => RefersToFirst(u)'
      <4> SUFFICES ASSUME template[u].life # "unborn" PROVE RefersToFirst(u)'
        OBVIOUS
      <4>1. RefersToFirst(u)
        BY DEF Referring
      <4>2. first[u] # t
        BY <4>1, <1>2 DEF RefersToFirst
      <4>. QED
        BY <2>2, <1>4, <4>1, <4>2 DEF RefersToFirst
    <3>. QED
      BY <2>2, <1>2, <1>4, <3>1 DEF Referring
  <2>. QED
    BY <2>1, <2>2
<1>. QED
  BY <1>3, <1>5

\* A template that was moved into being refers to what the other one refers to,
\* so its first one is the other's.
LEMMA MoveTemplate ==
    ASSUME TypeOK, Referring, NEW t \in Template, NEW from \in Template, template_moved(t, from)
    PROVE  TypeOK' /\ Referring'
<1>1. /\ template[t].life = "unborn" /\ template[from].life = "alive"
      /\ template' = [template EXCEPT ![t] = template[from], ![from].views = None]
      /\ first' = [first EXCEPT ![t] = first[from]]
      /\ moved' = moved \cup {from} \cup IF from \in moved THEN {t} ELSE {}
      /\ connection' = connection /\ closes' = closes /\ client' = client
  BY DEF template_moved, Alive, clientVars
<1>2. t # from /\ t \notin moved
  BY <1>1 DEF Referring
<1>3. TypeOK'
  <2>1. template' \in [Template -> Templates]
    BY <1>1 DEF TypeOK, Templates
  <2>2. first' \in [Template -> Template \cup {None}]
    BY <1>1 DEF TypeOK
  <2>3. moved' \subseteq Template
    BY <1>1 DEF TypeOK
  <2>. QED
    BY <1>1, <2>1, <2>2, <2>3 DEF TypeOK
<1>4. /\ template'[t] = template[from]
      /\ template'[from] = [template[from] EXCEPT !.views = None]
      /\ \A u \in Template : u \notin {t, from} => template'[u] = template[u]
  BY <1>1, <1>2 DEF TypeOK
<1>5. /\ template'[from].life = template[from].life
      /\ template'[from].uses = template[from].uses
      /\ template'[from].serializer = template[from].serializer
      /\ template'[from].views = None
  BY <1>4 DEF TypeOK, Templates
<1>6. first'[t] = first[from] /\ \A u \in Template : u # t => first'[u] = first[u]
  BY <1>1 DEF TypeOK
<1>7. \A u \in Template : u # t => /\ template'[u].life = template[u].life
                                   /\ template'[u].uses = template[u].uses
                                   /\ template'[u].serializer = template[u].serializer
  BY <1>4, <1>5
<1>8. \A u \in Template : u # t /\ template[u].life # "unborn" => RefersToFirst(u)'
  <2> SUFFICES ASSUME NEW u \in Template, u # t, template[u].life # "unborn"
               PROVE  RefersToFirst(u)'
    OBVIOUS
  <2>1. RefersToFirst(u)
    BY DEF Referring
  <2>2. first[u] # t
    BY <1>1, <2>1 DEF RefersToFirst
  <2>. QED
    BY <1>6, <1>7, <2>1, <2>2 DEF RefersToFirst
<1>9. RefersToFirst(t)'
  <2>1. RefersToFirst(from)
    BY <1>1 DEF Referring
  <2>2. first[from] # t
    BY <1>1, <2>1 DEF RefersToFirst
  <2>. QED
    BY <1>4, <1>6, <1>7, <2>1, <2>2 DEF RefersToFirst
<1>10. Referring'
  <2> SUFFICES ASSUME NEW u \in Template
               PROVE  /\ template'[u].life = "unborn" => u \notin moved'
                      /\ template'[u].life # "unborn" => RefersToFirst(u)'
                      /\ template'[u].life = "alive" =>
                             template'[u].views = IF u \in moved' THEN None ELSE first'[u]
    BY DEF Referring
  <2>1. CASE u = t
    <3>1. t \in moved' <=> from \in moved
      BY <1>1, <1>2
    <3>2. template[from].views = IF from \in moved THEN None ELSE first[from]
      BY <1>1 DEF Referring
    <3>. QED
      BY <2>1, <1>1, <1>4, <1>6, <1>9, <3>1, <3>2
  <2>2. CASE u = from
    <3>1. from \in moved'
      BY <1>1
    <3>. QED
      BY <2>2, <3>1, <1>1, <1>2, <1>5, <1>8
  <2>3. CASE u \notin {t, from}
    <3>1. u \in moved' <=> u \in moved
      BY <2>3, <1>1
    <3>. QED
      BY <2>3, <3>1, <1>4, <1>6, <1>8 DEF Referring
  <2>. QED
    BY <2>1, <2>2, <2>3
<1>. QED
  BY <1>3, <1>10

\* A template that is gone is still the first of those that came from it.
LEMMA DestroyTemplate ==
    ASSUME TypeOK, Referring, NEW t \in Template, template_destroyed(t)
    PROVE  TypeOK' /\ Referring'
<1>1. /\ template[t].life = "alive"
      /\ template' = [template EXCEPT ![t].life = "dead", ![t].views = None]
      /\ first' = first /\ moved' = moved
      /\ connection' = connection /\ closes' = closes /\ client' = client
  BY DEF template_destroyed, Alive, clientVars
<1>2. TypeOK'
  <2>1. template' = [u \in Template |-> IF u = t
                        THEN [template[t] EXCEPT !.life = "dead", !.views = None]
                        ELSE template[u]]
    BY <1>1 DEF TypeOK
  <2>2. [template[t] EXCEPT !.life = "dead", !.views = None] \in Templates
    BY DEF TypeOK, Templates
  <2>3. template' \in [Template -> Templates]
    BY <2>1, <2>2 DEF TypeOK
  <2>. QED
    BY <1>1, <2>3 DEF TypeOK
<1>3. /\ template'[t].life = "dead"
      /\ template'[t].uses = template[t].uses
      /\ template'[t].serializer = template[t].serializer
      /\ \A u \in Template : u # t => template'[u] = template[u]
  BY <1>1 DEF TypeOK, Templates
<1>4. \A u \in Template : template[u].life # "unborn" => RefersToFirst(u)'
  <2> SUFFICES ASSUME NEW u \in Template, template[u].life # "unborn"
               PROVE  RefersToFirst(u)'
    OBVIOUS
  <2>1. RefersToFirst(u)
    BY DEF Referring
  <2>. QED
    BY <2>1, <1>1, <1>3 DEF RefersToFirst
<1>5. Referring'
  BY <1>1, <1>3, <1>4 DEF Referring
<1>. QED
  BY <1>2, <1>5

-----------------------------------------------------------------------------
(* The invariant. *)

\* Every step of a client or of a template keeps the invariant, and so does a
\* step of something else.
LEMMA StepInv == Inv /\ [Next]_vars => Inv'
<1> SUFFICES ASSUME TypeOK, Owned, Referring, [Next]_vars
             PROVE  Inv'
  BY DEF Inv
<1>1. ASSUME UNCHANGED templateVars
      PROVE  Referring'
  <2>1. template' = template /\ first' = first /\ moved' = moved
    BY <1>1 DEF templateVars
  <2>. QED
    BY <2>1 DEF Referring, RefersToFirst
<1>2. ASSUME UNCHANGED clientVars
      PROVE  Owned'
  <2>1. connection' = connection /\ closes' = closes /\ client' = client
    BY <1>2 DEF clientVars
  <2>. QED
    BY <2>1 DEF Owned
<1>3. ASSUME NEW c \in Client, redis_client(c)
      PROVE  Inv'
  BY <1>1, <1>3, BuildClient DEF redis_client, Inv
<1>4. ASSUME NEW c \in Client, client_destroyed(c)
      PROVE  Inv'
  BY <1>1, <1>4, DestroyClient DEF client_destroyed, Inv
<1>5. ASSUME NEW c \in Client, NEW from \in Client, client_moved(c, from)
      PROVE  Inv'
  BY <1>1, <1>5, MoveClient DEF client_moved, Inv
<1>6. ASSUME NEW c \in Client, NEW from \in Client, client_assigned(c, from)
      PROVE  Inv'
  BY <1>1, <1>6, AssignClient DEF client_assigned, Inv
<1>7. ASSUME NEW t \in Template, NEW c \in Client,
             redis_template(t, c) \/ string_redis_template(t, c)
      PROVE  Inv'
  BY <1>2, <1>7, BuildTemplate DEF redis_template, string_redis_template, Inv
<1>8. ASSUME NEW t \in Template, NEW from \in Template, template_moved(t, from)
      PROVE  Inv'
  BY <1>2, <1>8, MoveTemplate DEF template_moved, Inv
<1>9. ASSUME NEW t \in Template, template_destroyed(t)
      PROVE  Inv'
  BY <1>2, <1>9, DestroyTemplate DEF template_destroyed, Inv
<1>10. CASE UNCHANGED vars
  <2>1. UNCHANGED <<clientVars, templateVars>>
    BY <1>10 DEF vars
  <2>2. TypeOK'
    BY <2>1 DEF TypeOK, clientVars, templateVars
  <2>. QED
    BY <1>1, <1>2, <2>1, <2>2 DEF Inv
<1>. QED
  BY <1>3, <1>4, <1>5, <1>6, <1>7, <1>8, <1>9, <1>10 DEF Next

\* However clients and templates are moved, assigned and destroyed, what is held
\* is open and held once, and every template has the references of its first.
THEOREM Invariance == Spec => []Inv
<1>1. Init => Inv
  BY InitInv
<1>2. Inv /\ [Next]_vars => Inv'
  BY StepInv
<1>. QED
  BY <1>1, <1>2, PTL DEF Spec

\* redis_client's moves, assignments and destructions never leak a connection,
\* close it twice or leave it with two owners: ConnectionsHaveOneOwner for any
\* number of connections and clients.
THEOREM OneOwner == Spec => []ConnectionsHaveOneOwner
<1>1. Inv => ConnectionsHaveOneOwner
  <2> SUFFICES ASSUME TypeOK, Owned, NEW x \in Connection
               PROVE  /\ connection[x] = "open" =>
                            /\ closes[x] = 0
                            /\ \E c \in Client : Alive(client, c) /\ Holders(x) = {c}
                      /\ connection[x] # "open" => Holders(x) = {}
                      /\ connection[x] = "closed" => closes[x] = 1
    BY DEF Inv, ConnectionsHaveOneOwner
  <2>1. x # None
    BY NamesAssumption
  <2>2. CASE connection[x] = "open"
    <3>1. PICK c \in Client : client[c].holds = x
      BY <2>2 DEF Owned
    <3>2. client[c].life = "alive" /\ \A d \in Client : client[d].holds = x => d = c
      BY <2>1, <3>1 DEF Owned
    <3>3. Holders(x) = {c}
      BY <3>1, <3>2 DEF Holders
    <3>4. closes[x] = 0
      BY <2>2 DEF Owned
    <3>. QED
      BY <2>2, <3>2, <3>3, <3>4 DEF Alive
  <2>3. CASE connection[x] # "open"
    <3>1. Holders(x) = {}
      BY <2>1, <2>3 DEF Owned, Holders
    <3>2. connection[x] = "closed" => closes[x] = 1
      BY DEF Owned
    <3>. QED
      BY <2>3, <3>1, <3>2
  <2>. QED
    BY <2>2, <2>3
<1>. QED
  BY <1>1, Invariance, PTL

\* Calls on a redis_template that lives, and on its views, are undefined exactly
\* when its client has no connection or is gone, or when the moves that made it
\* left it with a serializer or views of a template that is gone:
\* UndefinedOnlyAfterMoves for chains of moves of any length.
THEOREM UndefinedAfterMoves == Spec => []UndefinedOnlyAfterMoves
<1>1. Inv => UndefinedOnlyAfterMoves
  <2> SUFFICES ASSUME Referring, NEW t \in Template,
                      template[t].life = "alive", ClientCallDefined(template[t].uses)
               PROVE  /\ UseDefined(t) <=> template[t].serializer = None \/ Alive(template, first[t])
                      /\ ViewCallDefined(t) <=> Alive(template, first[t]) /\ t \notin moved
    BY DEF Inv, UndefinedOnlyAfterMoves, Alive
  <2> DEFINE f == first[t]
  <2>1. /\ f \in Template /\ f # None
        /\ template[f].uses = template[t].uses
        /\ template[f].serializer = template[t].serializer
        /\ template[t].serializer \in {None, f}
    BY NamesAssumption DEF Referring, RefersToFirst
  <2>2. template[t].views = IF t \in moved THEN None ELSE f
    BY DEF Referring
  <2>3. UseDefined(t) <=> template[t].serializer = None \/ Alive(template, f)
    BY <2>1 DEF UseDefined, SerializerAlive, Alive
  <2>4. UseDefined(f) <=> Alive(template, f)
    BY <2>1 DEF UseDefined, SerializerAlive, Alive
  <2>5. ViewCallDefined(t) <=> t \notin moved /\ UseDefined(f)
    BY <2>1, <2>2 DEF ViewCallDefined, Alive
  <2>. QED
    BY <2>3, <2>4, <2>5
<1>. QED
  BY <1>1, Invariance, PTL
=============================================================================
