--------------------------- MODULE SyncConnection ---------------------------
(***************************************************************************)
(* src/sync_connection.cpp: a synchronous connection to a Redis server.    *)
(*                                                                         *)
(* A sync_connection object owns a hiredis context through a unique_ptr.   *)
(* Its constructor connects, sends AUTH when the URL has a password and    *)
(* SELECT when the URL names a database other than 0, and throws when any  *)
(* of these fails.  After that every call sends one command and takes one  *)
(* reply.  An object can be moved and destroyed, and is used by one thread *)
(* at a time; different objects are used concurrently.                     *)
(*                                                                         *)
(* hiredis, the socket and the server are not in the repository.  They are *)
(* modelled by what the code relies on: a context queues the commands it   *)
(* is given (obuf), writes them to the socket in order (net), and hands    *)
(* out replies in the order the server sends them (inbox, then reader);    *)
(* redisCommandArgv returns a reply that is already in the reader without  *)
(* writing anything; once a context has seen an I/O error it stays in      *)
(* error and does no more I/O.                                             *)
(***************************************************************************)
EXTENDS Naturals, Sequences, FiniteSets

CONSTANTS
    Object,         \* the program's sync_connection variables
    Context,        \* hiredis contexts, each allocated at most once
    NoContext,      \* a null context pointer
    Call,           \* calls of cmd_exec or cmd_execv, each made at most once
    NoCall,         \* the "call" of the constructor's own AUTH and SELECT
    Commands,       \* the kinds of command the callers send
    Configs,        \* the configurations the URLs of the program give
    Databases,      \* the server's number of databases
    RequirePass     \* whether the server wants AUTH

(***************************************************************************)
(* Kinds of command, told apart by what the server does with them:         *)
(*   "plain"    is executed and answered                                   *)
(*   "failing"  is answered with an ERROR and has no effect                *)
(*   "select"   is a raw SELECT of another database                        *)
(*   "double"   is a raw command answered twice (SUBSCRIBE a b)            *)
(*   "resp3"    is executed and answered with a type of RESP3 (HELLO 3)    *)
(***************************************************************************)
Kinds == {"plain", "failing", "select", "double", "resp3"}

\* The fields of redis_config that the constructor acts on.  An index of
\* Databases is one that the server does not have.
RedisConfig == [password : {"none", "good", "bad"}, index : 0 .. Databases]

ASSUME ConstantsAssumption ==
    /\ NoContext \notin Context
    /\ NoCall \notin Call
    /\ Commands \subseteq Kinds
    /\ Configs \subseteq RedisConfig
    /\ Databases \in Nat \ {0}
    /\ RequirePass \in BOOLEAN

Request == [cmd : Kinds \cup {"AUTH", "SELECT"}, call : Call \cup {NoCall}]
Reply == [type : {"ok", "value", "error", "unknown"}, call : Call \cup {NoCall}]

VARIABLES
    phase,      \* phase[o]: where object o is in its life
    context,    \* context[o]: what the unique_ptr of o holds
    current,    \* current[o]: the call o is busy with
    life,       \* life[x]: whether context x is fresh, open or freed
    config,     \* config[x]: the configuration x was opened for
    err,        \* err[x]: hiredis's sticky error flag of x
    obuf,       \* obuf[x]: commands appended to x and not yet written
    reader,     \* reader[x]: replies read from the socket of x, not yet taken
    link,       \* link[x]: whether the socket of x is connected
    net,        \* net[x]: commands written and not yet acted on by the server
    inbox,      \* inbox[x]: replies sent by the server and not yet read
    session,    \* session[x]: the server's session for x
    outcome,    \* outcome[k]: what call k gave its caller
    issuedOn,   \* issuedOn[k]: the context call k used
    effects,    \* effects[k]: how often the server executed call k
    ranIn,      \* ranIn[k]: the database call k was executed in
    answer      \* answer[k]: the reply that was given to k

objVars == <<phase, context, current>>
ctxVars == <<life, config>>
bufVars == <<err, obuf, reader>>
srvVars == <<link, net, inbox, session>>
callVars == <<outcome, issuedOn>>
ghostVars == <<effects, ranIn>>
vars == <<objVars, ctxVars, bufVars, srvVars, callVars, ghostVars, answer>>

Handshake == {"auth", "select"}
Phases == {"none", "live", "busy"} \cup Handshake
Outcomes == {"none", "pending", "value", "error", "threw", "logic_error"}

\* multi: the session was sent a command with two replies.
\* moved: a raw SELECT changed the database behind the object's back.
Session == [authed : BOOLEAN, db : 0 .. Databases - 1, multi : BOOLEAN,
            moved : BOOLEAN]

NoConfig == [password |-> "none", index |-> 0]
NoReply == [type |-> "ok", call |-> NoCall]
NewSession == [authed |-> FALSE, db |-> 0, multi |-> FALSE, moved |-> FALSE]

Init ==
    /\ phase = [o \in Object |-> "none"]
    /\ context = [o \in Object |-> NoContext]
    /\ current = [o \in Object |-> NoCall]
    /\ life = [x \in Context |-> "fresh"]
    /\ config = [x \in Context |-> NoConfig]
    /\ err = [x \in Context |-> FALSE]
    /\ obuf = [x \in Context |-> <<>>]
    /\ reader = [x \in Context |-> <<>>]
    /\ link = [x \in Context |-> "down"]
    /\ net = [x \in Context |-> <<>>]
    /\ inbox = [x \in Context |-> <<>>]
    /\ session = [x \in Context |-> NewSession]
    /\ outcome = [k \in Call |-> "none"]
    /\ issuedOn = [k \in Call |-> NoContext]
    /\ effects = [k \in Call |-> 0]
    /\ ranIn = [k \in Call |-> 0]
    /\ answer = [k \in Call |-> NoReply]

Waiting(o) == phase[o] \in Handshake \cup {"busy"}
-----------------------------------------------------------------------------
(* The constructor. *)

\* Mutant: the database of the URL is ignored.
PendingAuthOnly(cfg, from) ==
    IF from = "auth" /\ cfg.password # "none" THEN <<"auth">> ELSE <<>>

\* The handshake steps that remain once those before "from" are done.
Pending(cfg, from) ==
    (IF from = "auth" /\ cfg.password # "none" THEN <<"auth">> ELSE <<>>)
        \o (IF cfg.index # 0 THEN <<"select">> ELSE <<>>)

HandshakeRequest(p) ==
    [cmd |-> IF p = "auth" THEN "AUTH" ELSE "SELECT", call |-> NoCall]

\* Append the command of the next step, or finish the constructor.
Proceed(o, x, steps) ==
    IF steps = <<>>
    THEN /\ phase' = [phase EXCEPT ![o] = "live"]
         /\ UNCHANGED obuf
    ELSE /\ phase' = [phase EXCEPT ![o] = Head(steps)]
         /\ obuf' = [obuf EXCEPT ![x] = Append(@, HandshakeRequest(Head(steps)))]

\* redisConnect or redisConnectUnix gives a connected context.
Connect(o, x, cfg) ==
    /\ phase[o] = "none"
    /\ life[x] = "fresh"
    /\ life' = [life EXCEPT ![x] = "open"]
    /\ config' = [config EXCEPT ![x] = cfg]
    /\ link' = [link EXCEPT ![x] = "up"]
    /\ context' = [context EXCEPT ![o] = x]
    /\ Proceed(o, x, Pending(cfg, "auth"))
    /\ UNCHANGED <<current, err, reader, net, inbox, session, callVars,
                   ghostVars, answer>>

\* The connection is refused: the constructor throws and frees the context.
ConnectFails(o, x) ==
    /\ phase[o] = "none"
    /\ life[x] = "fresh"
    /\ life' = [life EXCEPT ![x] = "freed"]
    /\ err' = [err EXCEPT ![x] = TRUE]
    /\ UNCHANGED <<objVars, config, obuf, reader, srvVars, callVars, ghostVars,
                   answer>>

\* redisFree: the socket is closed and what was queued in the client is gone.
FreeContext(x) ==
    /\ life' = [life EXCEPT ![x] = "freed"]
    /\ link' = [link EXCEPT ![x] = "down"]
    /\ obuf' = [obuf EXCEPT ![x] = <<>>]
    /\ reader' = [reader EXCEPT ![x] = <<>>]
    /\ inbox' = [inbox EXCEPT ![x] = <<>>]

\* Mutant: the reply to AUTH or SELECT is not looked at.
HandshakeUnchecked(o) ==
    LET x == context[o] IN
    /\ phase[o] \in Handshake
    /\ reader[x] # <<>>
    /\ reader' = [reader EXCEPT ![x] = Tail(@)]
    /\ Proceed(o, x, IF phase[o] = "auth" THEN Pending(config[x], "select")
                                          ELSE <<>>)
    /\ UNCHANGED <<context, current, ctxVars, err, srvVars, callVars,
                   ghostVars, answer>>

\* The reply to AUTH or SELECT is OK: go on.
HandshakeOk(o) ==
    LET x == context[o] IN
    /\ phase[o] \in Handshake
    /\ reader[x] # <<>>
    /\ Head(reader[x]).type = "ok"
    /\ reader' = [reader EXCEPT ![x] = Tail(@)]
    /\ Proceed(o, x, IF phase[o] = "auth" THEN Pending(config[x], "select")
                                          ELSE <<>>)
    /\ UNCHANGED <<context, current, ctxVars, err, srvVars, callVars,
                   ghostVars, answer>>

\* Anything else makes the constructor throw; its context is freed with it.
HandshakeRefused(o) ==
    LET x == context[o] IN
    /\ phase[o] \in Handshake
    /\ reader[x] # <<>>
    /\ Head(reader[x]).type # "ok"
    /\ phase' = [phase EXCEPT ![o] = "none"]
    /\ context' = [context EXCEPT ![o] = NoContext]
    /\ FreeContext(x)
    /\ UNCHANGED <<current, config, err, net, session, callVars, ghostVars,
                   answer>>
-----------------------------------------------------------------------------
(* Calls. *)

\* Mutant: a new command clears the error flag of the context.
ExecClearingError(o, k, c) ==
    LET x == context[o] IN
    /\ phase[o] = "live"
    /\ x # NoContext
    /\ outcome[k] = "none"
    /\ phase' = [phase EXCEPT ![o] = "busy"]
    /\ current' = [current EXCEPT ![o] = k]
    /\ outcome' = [outcome EXCEPT ![k] = "pending"]
    /\ issuedOn' = [issuedOn EXCEPT ![k] = x]
    /\ obuf' = [obuf EXCEPT ![x] = Append(@, [cmd |-> c, call |-> k])]
    /\ err' = [err EXCEPT ![x] = FALSE]
    /\ UNCHANGED <<context, ctxVars, reader, srvVars, ghostVars, answer>>

\* cmd_exec and cmd_execv append one command to the context ...
Exec(o, k, c) ==
    LET x == context[o] IN
    /\ phase[o] = "live"
    /\ x # NoContext
    /\ outcome[k] = "none"
    /\ phase' = [phase EXCEPT ![o] = "busy"]
    /\ current' = [current EXCEPT ![o] = k]
    /\ outcome' = [outcome EXCEPT ![k] = "pending"]
    /\ issuedOn' = [issuedOn EXCEPT ![k] = x]
    /\ obuf' = [obuf EXCEPT ![x] = Append(@, [cmd |-> c, call |-> k])]
    /\ UNCHANGED <<context, ctxVars, err, reader, srvVars, ghostVars,
                   answer>>

\* ... and throw logic_error when the object was moved from.
ExecWithoutContext(o, k) ==
    /\ phase[o] = "live"
    /\ context[o] = NoContext
    /\ outcome[k] = "none"
    /\ outcome' = [outcome EXCEPT ![k] = "logic_error"]
    /\ UNCHANGED <<objVars, ctxVars, bufVars, srvVars, issuedOn, ghostVars,
                   answer>>

\* redisGetReply writes the queue first, unless a reply is already there.  A
\* write to a connection the peer has left may succeed and go nowhere.
Write(o) ==
    LET x == context[o] IN
    /\ Waiting(o)
    /\ ~err[x]
    /\ reader[x] = <<>>
    /\ obuf[x] # <<>>
    /\ obuf' = [obuf EXCEPT ![x] = Tail(@)]
    /\ net' = IF link[x] = "up"
              THEN [net EXCEPT ![x] = Append(@, Head(obuf[x]))]
              ELSE net
    /\ UNCHANGED <<objVars, ctxVars, err, reader, link, inbox, session,
                   callVars, ghostVars, answer>>

\* Once everything is written, replies are read from the socket; one read may
\* bring several.
Read(o) ==
    LET x == context[o] IN
    /\ Waiting(o)
    /\ ~err[x]
    /\ obuf[x] = <<>>
    /\ inbox[x] # <<>>
    /\ reader' = [reader EXCEPT ![x] = Append(@, Head(inbox[x]))]
    /\ inbox' = [inbox EXCEPT ![x] = Tail(@)]
    /\ UNCHANGED <<objVars, ctxVars, err, obuf, link, net, session, callVars,
                   ghostVars, answer>>

\* Mutants: the type is passed on as it is; an ERROR reply is not told from a
\* value; everything that is not a STATUS is an ERROR.
ConvertedRaw(type) == type
ConvertedNoError(type) == IF type = "unknown" THEN "error" ELSE "value"
ConvertedStatusOnly(type) == IF type = "ok" THEN "value" ELSE "error"

\* What convert_reply makes of a reply: a type it does not know becomes an
\* ERROR value.  exec_args throws an ERROR reply as redis_error and cmd_execv
\* turns it back into a value.
Converted(type) == IF type \in {"error", "unknown"} THEN "error" ELSE "value"

\* Mutant: the reply stays in the reader.
ReturnKeepingReply(o) ==
    LET x == context[o]
        k == current[o] IN
    /\ phase[o] = "busy"
    /\ reader[x] # <<>>
    /\ phase' = [phase EXCEPT ![o] = "live"]
    /\ current' = [current EXCEPT ![o] = NoCall]
    /\ outcome' = [outcome EXCEPT ![k] = Converted(Head(reader[x]).type)]
    /\ answer' = [answer EXCEPT ![k] = Head(reader[x])]
    /\ UNCHANGED <<context, ctxVars, bufVars, srvVars, issuedOn, ghostVars>>

\* The first reply in the reader ends the call.
Return(o) ==
    LET x == context[o]
        k == current[o] IN
    /\ phase[o] = "busy"
    /\ reader[x] # <<>>
    /\ phase' = [phase EXCEPT ![o] = "live"]
    /\ current' = [current EXCEPT ![o] = NoCall]
    /\ outcome' = [outcome EXCEPT ![k] = Converted(Head(reader[x]).type)]
    /\ answer' = [answer EXCEPT ![k] = Head(reader[x])]
    /\ reader' = [reader EXCEPT ![x] = Tail(@)]
    /\ UNCHANGED <<context, ctxVars, err, obuf, srvVars, issuedOn, ghostVars>>

\* redisCommandArgv returns no reply: the context is in error, or its socket
\* fails while there is something left to write or nothing left to read.
TransportFails(o) ==
    LET x == context[o] IN
    /\ Waiting(o)
    /\ reader[x] = <<>>
    /\ \/ err[x]
       \/ link[x] = "down" /\ (obuf[x] # <<>> \/ inbox[x] = <<>>)

\* Mutant: the call reconnects and sends its command once more.
CallRetries(o) ==
    LET x == context[o] IN
    /\ phase[o] = "busy"
    /\ TransportFails(o)
    /\ link' = [link EXCEPT ![x] = "up"]
    /\ obuf' = [obuf EXCEPT ![x] = <<[cmd |-> "plain", call |-> current[o]]>>]
    /\ UNCHANGED <<objVars, ctxVars, err, reader, net, inbox, session,
                   callVars, ghostVars, answer>>

\* Mutant: a transport failure is reported as an ERROR value.
CallThrowsAsError(o) ==
    LET x == context[o] IN
    /\ phase[o] = "busy"
    /\ TransportFails(o)
    /\ err' = [err EXCEPT ![x] = TRUE]
    /\ phase' = [phase EXCEPT ![o] = "live"]
    /\ current' = [current EXCEPT ![o] = NoCall]
    /\ outcome' = [outcome EXCEPT ![current[o]] = "error"]
    /\ UNCHANGED <<context, ctxVars, obuf, reader, srvVars, issuedOn,
                   ghostVars, answer>>

\* Mutant: the call asks for its reply until there is one.
CallAsksAgain(o) ==
    LET x == context[o] IN
    /\ phase[o] = "busy"
    /\ TransportFails(o)
    /\ err' = [err EXCEPT ![x] = TRUE]
    /\ UNCHANGED <<objVars, ctxVars, obuf, reader, srvVars, callVars,
                   ghostVars, answer>>

\* A call throws runtime_error; the context stays, in error.
CallThrows(o) ==
    LET x == context[o] IN
    /\ phase[o] = "busy"
    /\ TransportFails(o)
    /\ err' = [err EXCEPT ![x] = TRUE]
    /\ phase' = [phase EXCEPT ![o] = "live"]
    /\ current' = [current EXCEPT ![o] = NoCall]
    /\ outcome' = [outcome EXCEPT ![current[o]] = "threw"]
    /\ UNCHANGED <<context, ctxVars, obuf, reader, srvVars, issuedOn,
                   ghostVars, answer>>

\* The constructor throws, and its context is freed.
ConstructorThrows(o) ==
    LET x == context[o] IN
    /\ phase[o] \in Handshake
    /\ TransportFails(o)
    /\ err' = [err EXCEPT ![x] = TRUE]
    /\ phase' = [phase EXCEPT ![o] = "none"]
    /\ context' = [context EXCEPT ![o] = NoContext]
    /\ FreeContext(x)
    /\ UNCHANGED <<current, config, net, session, callVars, ghostVars,
                   answer>>
-----------------------------------------------------------------------------
(* Ownership. *)

\* The destructor frees the context, if the object still has one.
Destroy(o) ==
    /\ phase[o] = "live"
    /\ phase' = [phase EXCEPT ![o] = "none"]
    /\ context' = [context EXCEPT ![o] = NoContext]
    /\ IF context[o] = NoContext
       THEN UNCHANGED <<life, link, obuf, reader, inbox>>
       ELSE FreeContext(context[o])
    /\ UNCHANGED <<current, config, err, net, session, callVars, ghostVars,
                   answer>>

\* Mutant: the pointer is copied, and the source keeps it.
MoveByCopy(o, p) ==
    /\ o # p
    /\ phase[o] = "live"
    /\ phase[p] \in {"none", "live"}
    /\ phase' = [phase EXCEPT ![p] = "live"]
    /\ context' = [context EXCEPT ![p] = context[o]]
    /\ IF context[p] = NoContext
       THEN UNCHANGED <<life, link, obuf, reader, inbox>>
       ELSE FreeContext(context[p])
    /\ UNCHANGED <<current, config, err, net, session, callVars, ghostVars,
                   answer>>

\* Move construction into a new object, or move assignment to a live one,
\* which frees the context that one had.
Move(o, p) ==
    /\ o # p
    /\ phase[o] = "live"
    /\ phase[p] \in {"none", "live"}
    /\ phase' = [phase EXCEPT ![p] = "live"]
    /\ context' = [context EXCEPT ![p] = context[o], ![o] = NoContext]
    /\ IF context[p] = NoContext
       THEN UNCHANGED <<life, link, obuf, reader, inbox>>
       ELSE FreeContext(context[p])
    /\ UNCHANGED <<current, config, err, net, session, callVars, ghostVars,
                   answer>>
-----------------------------------------------------------------------------
(* The server and the network (outside the repository). *)

Answer(x, replies) ==
    inbox' = IF link[x] = "up" THEN [inbox EXCEPT ![x] = @ \o replies]
                               ELSE inbox

Take(x, r) ==
    /\ net[x] # <<>>
    /\ r = Head(net[x])
    /\ net' = [net EXCEPT ![x] = Tail(@)]

Unauthenticated(x) == RequirePass /\ ~session[x].authed

\* A server without a password refuses AUTH.
ServeAuth(x) ==
    LET good == RequirePass /\ config[x].password = "good" IN
    \E r \in Request :
        /\ Take(x, r)
        /\ r.cmd = "AUTH"
        /\ session' = [session EXCEPT ![x].authed = good]
        /\ Answer(x, <<[type |-> IF good THEN "ok" ELSE "error",
                        call |-> r.call]>>)
        /\ UNCHANGED <<objVars, ctxVars, bufVars, link, callVars, ghostVars,
                       answer>>

\* The constructor's SELECT.
ServeSelect(x) ==
    LET good == ~Unauthenticated(x) /\ config[x].index < Databases IN
    \E r \in Request :
        /\ Take(x, r)
        /\ r.cmd = "SELECT"
        /\ session' = IF good
                      THEN [session EXCEPT ![x].db = config[x].index]
                      ELSE session
        /\ Answer(x, <<[type |-> IF good THEN "ok" ELSE "error",
                        call |-> r.call]>>)
        /\ UNCHANGED <<objVars, ctxVars, bufVars, link, callVars, ghostVars,
                       answer>>

\* A caller's command that the server refuses; after SUBSCRIBE it refuses
\* most commands.
ServeRefusal(x) ==
    \E r \in Request :
        /\ Take(x, r)
        /\ r.call \in Call
        /\ r.cmd = "failing" \/ Unauthenticated(x) \/ session[x].multi
        /\ Answer(x, <<[type |-> "error", call |-> r.call]>>)
        /\ UNCHANGED <<objVars, ctxVars, bufVars, link, session, callVars,
                       ghostVars, answer>>

RepliesTo(r) ==
    CASE r.cmd = "double" -> <<[type |-> "value", call |-> r.call],
                               [type |-> "value", call |-> r.call]>>
      [] r.cmd = "resp3" -> <<[type |-> "unknown", call |-> r.call]>>
      [] OTHER -> <<[type |-> "value", call |-> r.call]>>

SessionAfter(x, r) ==
    CASE r.cmd = "double" -> [session[x] EXCEPT !.multi = TRUE]
      [] r.cmd = "select" -> [session[x] EXCEPT !.moved = TRUE,
                              !.db = (@ + 1) % Databases]
      [] OTHER -> session[x]

\* A caller's command that the server executes.
ServeCommand(x) ==
    \E r \in Request :
        /\ Take(x, r)
        /\ r.call \in Call
        /\ r.cmd # "failing"
        /\ ~Unauthenticated(x)
        /\ effects' = [effects EXCEPT ![r.call] = @ + 1]
        /\ ranIn' = [ranIn EXCEPT ![r.call] = session[x].db]
        /\ session' = [session EXCEPT ![x] = SessionAfter(x, r)]
        /\ Answer(x, RepliesTo(r))
        /\ UNCHANGED <<objVars, ctxVars, bufVars, link, callVars, answer>>

\* The connection breaks; replies on their way may be lost with it.
Drop(x) ==
    /\ link[x] = "up"
    /\ link' = [link EXCEPT ![x] = "down"]
    /\ inbox' \in {inbox, [inbox EXCEPT ![x] = <<>>]}
    /\ UNCHANGED <<objVars, ctxVars, bufVars, net, session, callVars,
                   ghostVars, answer>>

\* Commands that reached a broken connection may never be executed.
LoseCommands(x) ==
    /\ link[x] = "down"
    /\ net[x] # <<>>
    /\ net' = [net EXCEPT ![x] = <<>>]
    /\ UNCHANGED <<objVars, ctxVars, bufVars, link, inbox, session, callVars,
                   ghostVars, answer>>
-----------------------------------------------------------------------------
ClientStep(o) ==
    \/ HandshakeOk(o) \/ HandshakeRefused(o)
    \/ Write(o) \/ Read(o) \/ Return(o)
    \/ CallThrows(o) \/ ConstructorThrows(o)

ServerStep(x) ==
    ServeAuth(x) \/ ServeSelect(x) \/ ServeRefusal(x) \/ ServeCommand(x)

Next ==
    \/ \E o \in Object :
          \/ ClientStep(o)
          \/ Destroy(o)
          \/ \E p \in Object : Move(o, p)
          \/ \E x \in Context :
                ConnectFails(o, x) \/ \E cfg \in Configs : Connect(o, x, cfg)
          \/ \E k \in Call :
                ExecWithoutContext(o, k) \/ \E c \in Commands : Exec(o, k, c)
    \/ \E x \in Context : ServerStep(x) \/ Drop(x) \/ LoseCommands(x)

\* A thread inside a call keeps running, and a server whose connection is up
\* answers what it is sent.  Nobody has to make a call, and connections may
\* break or not.
Fairness ==
    /\ \A o \in Object : WF_vars(ClientStep(o))
    /\ \A x \in Context : WF_vars(ServerStep(x))

Spec == Init /\ [][Next]_vars
FairSpec == Spec /\ Fairness
-----------------------------------------------------------------------------
(* Properties. *)

TypeOK ==
    /\ phase \in [Object -> Phases]
    /\ context \in [Object -> Context \cup {NoContext}]
    /\ current \in [Object -> Call \cup {NoCall}]
    /\ life \in [Context -> {"fresh", "open", "freed"}]
    /\ config \in [Context -> RedisConfig]
    /\ err \in [Context -> BOOLEAN]
    /\ obuf \in [Context -> Seq(Request)]
    /\ reader \in [Context -> Seq(Reply)]
    /\ link \in [Context -> {"up", "down"}]
    /\ net \in [Context -> Seq(Request)]
    /\ inbox \in [Context -> Seq(Reply)]
    /\ session \in [Context -> Session]
    /\ outcome \in [Call -> Outcomes]
    /\ issuedOn \in [Call -> Context \cup {NoContext}]
    /\ effects \in [Call -> Nat]
    /\ ranIn \in [Call -> 0 .. Databases - 1]
    /\ answer \in [Call -> Reply]

\* Every open context is owned by exactly one object, also while objects are
\* built, moved, assigned over and destroyed; no object owns a freed context,
\* so none is leaked, used after it is freed, or freed twice.
Owners(x) == {o \in Object : context[o] = x}

Ownership ==
    \A x \in Context :
        /\ life[x] = "open" => \E o \in Object : Owners(x) = {o}
        /\ life[x] # "open" => Owners(x) = {}

\* Whatever is dropped, moved or answered out of turn, and also after the
\* caller was told that the call failed, the server executes a call at most
\* once: nothing in the connection sends a command again.
AtMostOnceExecuted == \A k \in Call : effects[k] <= 1

\* A constructor that returned left the session authenticated, when the URL
\* has a password, and in the database of the URL; it stays there until a
\* caller sends SELECT itself.
SessionAsConfigured ==
    \A o \in Object :
        LET x == context[o] IN
        phase[o] \in {"live", "busy"} /\ x # NoContext =>
            /\ config[x].password # "none" => session[x].authed
            /\ ~session[x].moved => session[x].db = config[x].index

\* Commands of callers are executed in the database of the URL, unless a
\* caller selected another one: none overtakes the handshake.
RunsInConfiguredDatabase ==
    \A k \in Call :
        effects[k] > 0 =>
            LET x == issuedOn[k] IN
            ranIn[k] = config[x].index \/ session[x].moved

\* A call is given the reply to its own command as long as no command with
\* two replies was sent on its connection.
OwnReply ==
    \A k \in Call :
        outcome[k] \in {"value", "error"} =>
            answer[k].call = k \/ session[issuedOn[k]].multi

\* A value tells the caller that the command was executed: never for a
\* command that is still queued, was refused, or was lost.
ValueMeansExecuted ==
    \A k \in Call :
        outcome[k] = "value" => effects[k] = 1 \/ session[issuedOn[k]].multi

\* An ERROR value tells the caller that the server refused the command; no
\* command that was executed is reported so, unless the server answered it with
\* a type that convert_reply does not know.
ErrorMeansNotExecuted ==
    \A k \in Call :
        outcome[k] = "error" =>
            effects[k] = 0 \/ session[issuedOn[k]].multi \/ answer[k].type = "unknown"

\* After an I/O error the connection is stopped for good: the error stays,
\* nothing more reaches the server and no reply is taken, so that a reply
\* that was cut off can never be given to a later call.
StoppedFor(x) == /\ err'[x]
                 /\ Len(net'[x]) <= Len(net[x])
                 /\ reader'[x] = <<>>

FailStop == [][\A x \in Context : err[x] => StoppedFor(x)]_vars

\* Nobody stays inside a call or a constructor for ever, provided the server
\* answers or the connection breaks.
EveryCallEnds == \A o \in Object : Waiting(o) ~> ~Waiting(o)

\* The contract of AtMostOnce, when every command has one reply of a type
\* that convert_reply knows.
Contract == INSTANCE AtMostOnce WITH
    effects <- effects,
    status <- [k \in Call |->
        CASE outcome[k] = "none" -> "idle"
          [] outcome[k] = "pending" -> "pending"
          [] outcome[k] = "value" -> "returned"
          [] outcome[k] = "threw" -> "failed"
          [] OTHER -> "refused"]

ImplementsContract == Contract!Spec
=============================================================================
