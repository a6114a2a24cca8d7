------------------------ MODULE SyncConnectionProofs ------------------------
(***************************************************************************)
(* Proofs about SyncConnection, for any number of objects, contexts and    *)
(* calls and every configuration, in three parts whose invariants build on *)
(* each other: who owns what, what a call means, and the session that a    *)
(* constructor sets up.                                                    *)
(***************************************************************************)
EXTENDS SyncConnection, SequenceTheorems, TLAPS

(***************************************************************************)
(* Ownership: TypeOK, Ownership and FailStop.  None of them is inductive   *)
(* alone: a call is typed only because an object that waits has a context, *)
(* and a context in error has no reply left.                               *)
(***************************************************************************)
\* An object that waits has a context, and it is no one else's; a context is
\* open as long as it is owned.
Owned ==
    /\ \A o \in Object : phase[o] = "none" => context[o] = NoContext
    /\ \A o \in Object : Waiting(o) => context[o] # NoContext
    /\ \A o \in Object : phase[o] = "busy" => current[o] \in Call
    /\ \A o, p \in Object : context[o] # NoContext /\ context[o] = context[p] => o = p
    /\ \A o \in Object : context[o] # NoContext => life[context[o]] = "open"
    /\ \A x \in Context : life[x] = "open" => \E o \in Object : context[o] = x

\* A context in error has no reply to give, and neither has one that was never
\* connected, through which nothing has gone.
Quiet ==
    \A x \in Context :
        /\ err[x] => reader[x] = <<>>
        /\ life[x] = "fresh" =>
              /\ link[x] = "down" /\ session[x] = NewSession
              /\ obuf[x] = <<>> /\ net[x] = <<>> /\ inbox[x] = <<>> /\ reader[x] = <<>>

IInv == TypeOK /\ Owned /\ Quiet
-----------------------------------------------------------------------------
(* Operators. *)

\* The steps of the handshake that remain are AUTH and SELECT, or less.
LEMMA PendingType ==
    ASSUME NEW cfg, NEW from
    PROVE  Pending(cfg, from) \in Seq(Handshake)
<1> DEFINE a == IF from = "auth" /\ cfg.password # "none" THEN <<"auth">> ELSE <<>>
           b == IF cfg.index # 0 THEN <<"select">> ELSE <<>>
<1>1. <<"auth">> \in Seq(Handshake) /\ <<"select">> \in Seq(Handshake) /\ <<>> \in Seq(Handshake)
  BY DEF Handshake
<1> HIDE DEF a, b
<1>2. a \o b \in Seq(Handshake)
  <2>1. a \in Seq(Handshake) /\ b \in Seq(Handshake)
    BY <1>1 DEF a, b
  <2>. QED
    BY <2>1, ConcatProperties
<1>. QED
  BY <1>2 DEF Pending, a, b

\* The constructor appends the command of its next step or is done.
LEMMA ProceedType ==
    ASSUME TypeOK, NEW o \in Object, NEW x \in Context, NEW steps \in Seq(Handshake),
           Proceed(o, x, steps)
    PROVE  /\ phase' \in [Object -> Phases] /\ phase'[o] \in Handshake \cup {"live"}
           /\ \A p \in Object : p # o => phase'[p] = phase[p]
           /\ obuf' \in [Context -> Seq(Request)]
           /\ \A y \in Context : y # x => obuf'[y] = obuf[y]
           /\ obuf'[x] = IF phase'[o] = "live" THEN obuf[x]
                         ELSE Append(obuf[x], HandshakeRequest(phase'[o]))
<1>1. CASE steps = <<>>
  BY <1>1 DEF Proceed, TypeOK, Phases, Handshake
<1>2. CASE steps # <<>>
  <2>1. Head(steps) \in Handshake
    BY <1>2, HeadTailProperties
  <2>2. HandshakeRequest(Head(steps)) \in Request
    BY DEF HandshakeRequest, Request
  <2>3. obuf[x] \in Seq(Request)
    BY DEF TypeOK
  <2>4. Append(obuf[x], HandshakeRequest(Head(steps))) \in Seq(Request)
    BY <2>2, <2>3
  <2>5. /\ phase' = [phase EXCEPT ![o] = Head(steps)]
        /\ obuf' = [obuf EXCEPT ![x] = Append(obuf[x], HandshakeRequest(Head(steps)))]
    BY <1>2 DEF Proceed
  <2>6. phase' \in [Object -> Phases] /\ phase'[o] = Head(steps)
    BY <2>1, <2>5 DEF TypeOK, Phases, Handshake
  <2>. QED
    BY <2>1, <2>4, <2>5, <2>6 DEF TypeOK, Handshake
<1>. QED
  BY <1>1, <1>2

\* redisFree leaves nothing of a context but what the server has.
LEMMA FreeType ==
    ASSUME TypeOK, NEW x \in Context, FreeContext(x)
    PROVE  /\ life' \in [Context -> {"fresh", "open", "freed"}] /\ life'[x] = "freed"
           /\ link' \in [Context -> {"up", "down"}] /\ link'[x] = "down"
           /\ obuf' \in [Context -> Seq(Request)] /\ obuf'[x] = <<>>
           /\ reader' \in [Context -> Seq(Reply)] /\ reader'[x] = <<>>
           /\ inbox' \in [Context -> Seq(Reply)] /\ inbox'[x] = <<>>
           /\ \A y \in Context : y # x =>
                 /\ life'[y] = life[y] /\ link'[y] = link[y] /\ obuf'[y] = obuf[y]
                 /\ reader'[y] = reader[y] /\ inbox'[y] = inbox[y]
<1>1. <<>> \in Seq(Request) /\ <<>> \in Seq(Reply)
  OBVIOUS
<1>. QED
  BY <1>1 DEF FreeContext, TypeOK

\* An object that waits has a context, and the one that is busy a call.
LEMMA WaitingType ==
    ASSUME TypeOK, Owned, NEW o \in Object, Waiting(o)
    PROVE  context[o] \in Context /\ (phase[o] = "busy" => current[o] \in Call)
BY DEF TypeOK, Owned

\* What the server takes is a command, and its queue gets shorter.
LEMMA TakeType ==
    ASSUME TypeOK, NEW x \in Context, NEW r, Take(x, r)
    PROVE  /\ r \in Request /\ net' \in [Context -> Seq(Request)]
           /\ net'[x] = Tail(net[x]) /\ Len(net'[x]) + 1 = Len(net[x]) /\ net[x] # <<>>
           /\ \A y \in Context : y # x => net'[y] = net[y]
<1>1. net[x] \in Seq(Request) /\ net[x] # <<>> /\ r = Head(net[x])
  BY DEF TypeOK, Take
<1>2. r \in Request /\ Tail(net[x]) \in Seq(Request) /\ Len(Tail(net[x])) = Len(net[x]) - 1
  BY <1>1, HeadTailProperties
<1>3. Len(net[x]) \in Nat
  BY <1>1
<1>4. net' = [net EXCEPT ![x] = Tail(net[x])]
  BY DEF Take
<1>. QED
  BY <1>1, <1>2, <1>3, <1>4 DEF TypeOK

\* Answers come after what is on its way, or are lost with the connection.
LEMMA AnswerType ==
    ASSUME TypeOK, NEW x \in Context, NEW replies \in Seq(Reply), Answer(x, replies)
    PROVE  /\ inbox' \in [Context -> Seq(Reply)]
           /\ inbox'[x] = IF link[x] = "up" THEN inbox[x] \o replies ELSE inbox[x]
           /\ \A y \in Context : y # x => inbox'[y] = inbox[y]
<1>1. inbox[x] \in Seq(Reply)
  BY DEF TypeOK
<1>2. inbox[x] \o replies \in Seq(Reply)
  BY <1>1, ConcatProperties
<1>. QED
  BY <1>2 DEF Answer, TypeOK

LEMMA RepliesType ==
    ASSUME NEW r \in Request
    PROVE  RepliesTo(r) \in Seq(Reply)
<1>1. /\ [type |-> "value", call |-> r.call] \in Reply
      /\ [type |-> "unknown", call |-> r.call] \in Reply
  BY DEF Request, Reply
<1>. QED
  BY <1>1 DEF RepliesTo

LEMMA SessionType ==
    ASSUME TypeOK, NEW x \in Context, NEW r
    PROVE  SessionAfter(x, r) \in Session
<1>1. session[x] \in Session
  BY DEF TypeOK
<1>2. session[x].db \in 0 .. Databases - 1 /\ Databases \in Nat \ {0}
  BY <1>1, ConstantsAssumption DEF Session
<1>3. (session[x].db + 1) % Databases \in 0 .. Databases - 1
  BY <1>2
<1>4. CASE r.cmd = "select"
  BY <1>1, <1>3, <1>4 DEF SessionAfter, Session
<1>5. CASE r.cmd # "select"
  BY <1>1, <1>5 DEF SessionAfter, Session
<1>. QED
  BY <1>4, <1>5
-----------------------------------------------------------------------------
(* Types. *)

LEMMA ConstructorTypes ==
    ASSUME TypeOK, Owned, NEW o \in Object,
           \/ \E x \in Context, cfg \in Configs : Connect(o, x, cfg)
           \/ \E x \in Context : ConnectFails(o, x)
           \/ HandshakeOk(o) \/ HandshakeRefused(o) \/ ConstructorThrows(o)
    PROVE  TypeOK'
<1>1. ASSUME NEW x \in Context, NEW cfg \in Configs, Connect(o, x, cfg)
      PROVE  TypeOK'
  <2>1. phase' \in [Object -> Phases] /\ obuf' \in [Context -> Seq(Request)]
    BY <1>1, PendingType, ProceedType DEF Connect
  <2>2. cfg \in RedisConfig
    BY ConstantsAssumption
  <2>. QED
    BY <1>1, <2>1, <2>2 DEF Connect, TypeOK, callVars, ghostVars
<1>2. ASSUME NEW x \in Context, ConnectFails(o, x)
      PROVE  TypeOK'
  BY <1>2 DEF ConnectFails, TypeOK, objVars, srvVars, callVars, ghostVars
<1>3. CASE HandshakeOk(o)
  <2> DEFINE x == context[o]
             steps == IF phase[o] = "auth" THEN Pending(config[x], "select") ELSE <<>>
  <2>1. x \in Context
    BY <1>3, WaitingType DEF HandshakeOk, Waiting
  <2>2. <<>> \in Seq(Handshake) /\ Proceed(o, x, steps)
    BY <1>3 DEF HandshakeOk
  <2>3. steps \in Seq(Handshake)
    BY <2>2, PendingType
  <2>4. phase' \in [Object -> Phases] /\ obuf' \in [Context -> Seq(Request)]
    <3> HIDE DEF x, steps
    <3>. QED
      BY <2>1, <2>2, <2>3, ProceedType
  <2>5. reader[x] \in Seq(Reply) /\ reader[x] # <<>>
    BY <1>3, <2>1 DEF HandshakeOk, TypeOK
  <2>6. Tail(reader[x]) \in Seq(Reply)
    BY <2>5, HeadTailProperties
  <2>. QED
    BY <1>3, <2>4, <2>6 DEF HandshakeOk, TypeOK, ctxVars, srvVars, callVars, ghostVars
<1>4. CASE HandshakeRefused(o) \/ ConstructorThrows(o)
  <2> DEFINE x == context[o]
  <2>1. x \in Context
    BY <1>4, WaitingType DEF HandshakeRefused, ConstructorThrows, Waiting
  <2>2. FreeContext(x)
    BY <1>4 DEF HandshakeRefused, ConstructorThrows
  <2>3. /\ life' \in [Context -> {"fresh", "open", "freed"}]
        /\ link' \in [Context -> {"up", "down"}]
        /\ obuf' \in [Context -> Seq(Request)]
        /\ reader' \in [Context -> Seq(Reply)]
        /\ inbox' \in [Context -> Seq(Reply)]
    <3> HIDE DEF x
    <3>. QED
      BY <2>1, <2>2, FreeType
  <2>4. /\ phase' = [phase EXCEPT ![o] = "none"]
        /\ context' = [context EXCEPT ![o] = NoContext]
        /\ err' = err \/ err' = [err EXCEPT ![x] = TRUE]
        /\ UNCHANGED <<current, config, net, session, callVars, ghostVars, answer>>
    BY <1>4 DEF HandshakeRefused, ConstructorThrows
  <2>. QED
    BY <2>3, <2>4 DEF TypeOK, Phases, callVars, ghostVars
<1>. QED
  BY <1>1, <1>2, <1>3, <1>4

LEMMA CallTypes ==
    ASSUME TypeOK, Owned, NEW o \in Object,
           \/ \E k \in Call, c \in Commands : Exec(o, k, c)
           \/ \E k \in Call : ExecWithoutContext(o, k)
           \/ Write(o) \/ Read(o) \/ Return(o) \/ CallThrows(o)
    PROVE  TypeOK'
<1>1. ASSUME NEW k \in Call, NEW c \in Commands, Exec(o, k, c)
      PROVE  TypeOK'
  <2> DEFINE x == context[o]
  <2>1. x \in Context
    BY <1>1 DEF Exec, TypeOK
  <2>2. [cmd |-> c, call |-> k] \in Request
    BY ConstantsAssumption DEF Request
  <2>3. Append(obuf[x], [cmd |-> c, call |-> k]) \in Seq(Request)
    BY <2>1, <2>2 DEF TypeOK
  <2>. QED
    BY <1>1, <2>1, <2>3 DEF Exec, TypeOK, Phases, Outcomes, ctxVars, srvVars, ghostVars
<1>2. ASSUME NEW k \in Call, ExecWithoutContext(o, k)
      PROVE  TypeOK'
  BY <1>2 DEF ExecWithoutContext, TypeOK, Outcomes, objVars, ctxVars, bufVars, srvVars, ghostVars
<1>3. CASE Write(o)
  <2> DEFINE x == context[o]
  <2>1. x \in Context /\ obuf[x] # <<>>
    BY <1>3, WaitingType DEF Write
  <2>2. obuf[x] \in Seq(Request) /\ net[x] \in Seq(Request)
    BY <2>1 DEF TypeOK
  <2>3. Tail(obuf[x]) \in Seq(Request) /\ Head(obuf[x]) \in Request
    BY <2>1, <2>2, HeadTailProperties
  <2>4. Append(net[x], Head(obuf[x])) \in Seq(Request)
    BY <2>2, <2>3
  <2>5. net' \in [Context -> Seq(Request)]
    BY <1>3, <2>1, <2>4 DEF Write, TypeOK
  <2>. QED
    BY <1>3, <2>3, <2>5 DEF Write, TypeOK, objVars, ctxVars, callVars, ghostVars
<1>4. CASE Read(o)
  <2> DEFINE x == context[o]
  <2>1. x \in Context /\ inbox[x] # <<>>
    BY <1>4, WaitingType DEF Read
  <2>2. inbox[x] \in Seq(Reply) /\ reader[x] \in Seq(Reply)
    BY <2>1 DEF TypeOK
  <2>3. Tail(inbox[x]) \in Seq(Reply) /\ Head(inbox[x]) \in Reply
    BY <2>1, <2>2, HeadTailProperties
  <2>4. Append(reader[x], Head(inbox[x])) \in Seq(Reply)
    BY <2>2, <2>3
  <2>. QED
    BY <1>4, <2>3, <2>4 DEF Read, TypeOK, objVars, ctxVars, callVars, ghostVars
<1>5. CASE Return(o)
  <2> DEFINE x == context[o]
  <2>1. x \in Context /\ reader[x] # <<>>
    BY <1>5, WaitingType DEF Return, Waiting
  <2>2. reader[x] \in Seq(Reply)
    BY <2>1 DEF TypeOK
  <2>3. Tail(reader[x]) \in Seq(Reply) /\ Head(reader[x]) \in Reply
    BY <2>1, <2>2, HeadTailProperties
  <2>4. Converted(Head(reader[x]).type) \in Outcomes
    BY DEF Converted, Outcomes
  <2>. QED
    BY <1>5, <2>3, <2>4 DEF Return, TypeOK, Phases, ctxVars, srvVars, ghostVars
<1>6. CASE CallThrows(o)
  BY <1>6 DEF CallThrows, TypeOK, Phases, Outcomes, ctxVars, srvVars, ghostVars
<1>. QED
  BY <1>1, <1>2, <1>3, <1>4, <1>5, <1>6

\* Destruction and moves free a context or none.
LEMMA FreedTypes ==
    ASSUME TypeOK, NEW o \in Object,
           IF context[o] = NoContext THEN UNCHANGED <<life, link, obuf, reader, inbox>>
           ELSE FreeContext(context[o])
    PROVE  /\ life' \in [Context -> {"fresh", "open", "freed"}]
           /\ link' \in [Context -> {"up", "down"}]
           /\ obuf' \in [Context -> Seq(Request)]
           /\ reader' \in [Context -> Seq(Reply)]
           /\ inbox' \in [Context -> Seq(Reply)]
<1>1. CASE context[o] = NoContext
  BY <1>1 DEF TypeOK
<1>2. CASE context[o] # NoContext
  <2>1. context[o] \in Context /\ FreeContext(context[o])
    BY <1>2 DEF TypeOK
  <2>. QED
    BY <2>1, FreeType
<1>. QED
  BY <1>1, <1>2

LEMMA MoveTypes ==
    ASSUME TypeOK, NEW o \in Object, Destroy(o) \/ \E p \in Object : Move(o, p)
    PROVE  TypeOK'
<1>1. CASE Destroy(o)
  <2>1. /\ life' \in [Context -> {"fresh", "open", "freed"}]
        /\ link' \in [Context -> {"up", "down"}]
        /\ obuf' \in [Context -> Seq(Request)]
        /\ reader' \in [Context -> Seq(Reply)]
        /\ inbox' \in [Context -> Seq(Reply)]
    BY <1>1, FreedTypes DEF Destroy
  <2>. QED
    BY <1>1, <2>1 DEF Destroy, TypeOK, Phases, callVars, ghostVars
<1>2. ASSUME NEW p \in Object, Move(o, p)
      PROVE  TypeOK'
  <2>1. /\ life' \in [Context -> {"fresh", "open", "freed"}]
        /\ link' \in [Context -> {"up", "down"}]
        /\ obuf' \in [Context -> Seq(Request)]
        /\ reader' \in [Context -> Seq(Reply)]
        /\ inbox' \in [Context -> Seq(Reply)]
    BY <1>2, FreedTypes DEF Move
  <2>. QED
    BY <1>2, <2>1 DEF Move, TypeOK, Phases, callVars, ghostVars
<1>. QED
  BY <1>1, <1>2

LEMMA ServerTypes ==
    ASSUME TypeOK, NEW x \in Context, ServerStep(x) \/ Drop(x) \/ LoseCommands(x)
    PROVE  TypeOK'
<1>1. CASE ServeAuth(x)
  <2> DEFINE good == RequirePass /\ config[x].password = "good"
  <2>1. PICK r \in Request :
            /\ Take(x, r)
            /\ session' = [session EXCEPT ![x].authed = good]
            /\ Answer(x, <<[type |-> IF good THEN "ok" ELSE "error", call |-> r.call]>>)
    BY <1>1 DEF ServeAuth
  <2>2. <<[type |-> IF good THEN "ok" ELSE "error", call |-> r.call]>> \in Seq(Reply)
    BY DEF Request, Reply
  <2>3. inbox' \in [Context -> Seq(Reply)] /\ net' \in [Context -> Seq(Request)]
    BY <2>1, <2>2, TakeType, AnswerType
  <2>4. good \in BOOLEAN
    BY ConstantsAssumption
  <2>5. session' \in [Context -> Session]
    <3> HIDE DEF good
    <3>1. [session[x] EXCEPT !.authed = good] \in Session
      BY <2>4 DEF TypeOK, Session
    <3>2. session' = [session EXCEPT ![x] = [session[x] EXCEPT !.authed = good]]
      BY <2>1 DEF TypeOK
    <3>. QED
      BY <3>1, <3>2 DEF TypeOK
  <2>6. UNCHANGED <<objVars, ctxVars, bufVars, link, callVars, ghostVars, answer>>
    BY <1>1 DEF ServeAuth
  <2>. QED
    BY <2>3, <2>5, <2>6 DEF TypeOK, objVars, ctxVars, bufVars, callVars, ghostVars
<1>2. CASE ServeSelect(x)
  <2> DEFINE good == ~Unauthenticated(x) /\ config[x].index < Databases
  <2>1. PICK r \in Request :
            /\ Take(x, r)
            /\ session' = IF good THEN [session EXCEPT ![x].db = config[x].index] ELSE session
            /\ Answer(x, <<[type |-> IF good THEN "ok" ELSE "error", call |-> r.call]>>)
    BY <1>2 DEF ServeSelect
  <2>2. <<[type |-> IF good THEN "ok" ELSE "error", call |-> r.call]>> \in Seq(Reply)
    BY DEF Request, Reply
  <2>3. inbox' \in [Context -> Seq(Reply)] /\ net' \in [Context -> Seq(Request)]
    BY <2>1, <2>2, TakeType, AnswerType
  <2>4. config[x].index \in 0 .. Databases /\ Databases \in Nat
    BY ConstantsAssumption DEF TypeOK, RedisConfig
  <2>5. session' \in [Context -> Session]
    <3>1. CASE good
      <4>1. config[x].index \in 0 .. Databases - 1
        BY <2>4, <3>1
      <4>. QED
        BY <2>1, <3>1, <4>1 DEF TypeOK, Session
    <3>2. CASE ~good
      BY <2>1, <3>2 DEF TypeOK
    <3>. QED
      BY <3>1, <3>2
  <2>6. UNCHANGED <<objVars, ctxVars, bufVars, link, callVars, ghostVars, answer>>
    BY <1>2 DEF ServeSelect
  <2>. QED
    BY <2>3, <2>5, <2>6 DEF TypeOK, objVars, ctxVars, bufVars, callVars, ghostVars
<1>3. CASE ServeRefusal(x)
  <2>1. PICK r \in Request : Take(x, r) /\ Answer(x, <<[type |-> "error", call |-> r.call]>>)
    BY <1>3 DEF ServeRefusal
  <2>2. <<[type |-> "error", call |-> r.call]>> \in Seq(Reply)
    BY DEF Request, Reply
  <2>3. inbox' \in [Context -> Seq(Reply)] /\ net' \in [Context -> Seq(Request)]
    BY <2>1, <2>2, TakeType, AnswerType
  <2>4. UNCHANGED <<objVars, ctxVars, bufVars, link, session, callVars, ghostVars, answer>>
    BY <1>3 DEF ServeRefusal
  <2>. QED
    BY <2>3, <2>4 DEF TypeOK, objVars, ctxVars, bufVars, callVars, ghostVars
<1>4. CASE ServeCommand(x)
  <2>1. PICK r \in Request :
            /\ Take(x, r) /\ r.call \in Call
            /\ effects' = [effects EXCEPT ![r.call] = @ + 1]
            /\ ranIn' = [ranIn EXCEPT ![r.call] = session[x].db]
            /\ session' = [session EXCEPT ![x] = SessionAfter(x, r)]
            /\ Answer(x, RepliesTo(r))
    BY <1>4 DEF ServeCommand
  <2>2. inbox' \in [Context -> Seq(Reply)] /\ net' \in [Context -> Seq(Request)]
    BY <2>1, RepliesType, TakeType, AnswerType
  <2>3. session' \in [Context -> Session]
    BY <2>1, SessionType DEF TypeOK
  <2>4. effects' \in [Call -> Nat]
    BY <2>1 DEF TypeOK
  <2>5. ranIn' \in [Call -> 0 .. Databases - 1]
    BY <2>1 DEF TypeOK, Session
  <2>6. UNCHANGED <<objVars, ctxVars, bufVars, link, callVars, answer>>
    BY <1>4 DEF ServeCommand
  <2>. QED
    BY <2>2, <2>3, <2>4, <2>5, <2>6 DEF TypeOK, objVars, ctxVars, bufVars, callVars
<1>5. CASE Drop(x)
  <2>1. <<>> \in Seq(Reply)
    OBVIOUS
  <2>2. inbox' \in [Context -> Seq(Reply)]
    BY <1>5, <2>1 DEF Drop, TypeOK
  <2>. QED
    BY <1>5, <2>2 DEF Drop, TypeOK, objVars, ctxVars, bufVars, callVars, ghostVars
<1>6. CASE LoseCommands(x)
  <2>1. <<>> \in Seq(Request)
    OBVIOUS
  <2>. QED
    BY <1>6, <2>1 DEF LoseCommands, TypeOK, objVars, ctxVars, bufVars, callVars, ghostVars
<1>. QED
  BY <1>1, <1>2, <1>3, <1>4, <1>5, <1>6 DEF ServerStep
-----------------------------------------------------------------------------
(* Ownership. *)

\* What an object does with the context it has keeps it; a call begins and ends
\* on an object that has one.
LEMMA SameContexts ==
    ASSUME TypeOK, Owned, context' = context, life' = life,
           NEW o \in Object, context[o] # NoContext,
           \A p \in Object : p # o => phase'[p] = phase[p] /\ current'[p] = current[p],
           phase'[o] \in {"live"} \cup Handshake \/ (phase'[o] = "busy" /\ current'[o] \in Call)
    PROVE  Owned'
<1>1. \A p \in Object : phase'[p] = "none" => context'[p] = NoContext
  BY DEF Owned, Handshake
<1>2. \A p \in Object : Waiting(p)' => context'[p] # NoContext
  BY DEF Owned, Waiting
<1>3. \A p \in Object : phase'[p] = "busy" => current'[p] \in Call
  BY DEF Owned, Handshake
<1>. QED
  BY <1>1, <1>2, <1>3 DEF Owned

\* An object that gives its context up leaves nothing to anybody.
LEMMA GivenUp ==
    ASSUME TypeOK, Owned, NEW o \in Object,
           phase' = [phase EXCEPT ![o] = "none"],
           context' = [context EXCEPT ![o] = NoContext],
           current' = current,
           IF context[o] = NoContext THEN UNCHANGED <<life, link, obuf, reader, inbox>>
           ELSE FreeContext(context[o])
    PROVE  Owned'
<1>1. /\ phase'[o] = "none" /\ context'[o] = NoContext
      /\ \A p \in Object : p # o => phase'[p] = phase[p] /\ context'[p] = context[p]
  BY DEF TypeOK
<1>2. \A y \in Context : IF y = context[o] THEN life'[y] = "freed" ELSE life'[y] = life[y]
  <2>1. CASE context[o] = NoContext
    BY <2>1, ConstantsAssumption
  <2>2. CASE context[o] # NoContext
    <3>1. context[o] \in Context /\ FreeContext(context[o])
      BY <2>2 DEF TypeOK
    <3>. QED
      BY <3>1, FreeType
  <2>. QED
    BY <2>1, <2>2
<1>3. \A p \in Object : Waiting(p)' => context'[p] # NoContext
  BY <1>1 DEF Owned, Waiting, Handshake
<1>4. \A p \in Object : context'[p] # NoContext => life'[context'[p]] = "open"
  <2> SUFFICES ASSUME NEW p \in Object, context'[p] # NoContext
               PROVE  life'[context'[p]] = "open"
    OBVIOUS
  <2>1. p # o /\ context'[p] = context[p] /\ context[p] \in Context
    BY <1>1 DEF TypeOK
  <2>2. context[p] # context[o]
    BY <2>1 DEF Owned
  <2>. QED
    BY <1>2, <2>1, <2>2 DEF Owned
<1>5. \A y \in Context : life'[y] = "open" => \E p \in Object : context'[p] = y
  BY <1>1, <1>2 DEF Owned
<1>. QED
  BY <1>1, <1>3, <1>4, <1>5 DEF Owned

LEMMA ConnectOwned ==
    ASSUME TypeOK, Owned, NEW o \in Object, NEW x \in Context, NEW cfg \in Configs,
           Connect(o, x, cfg)
    PROVE  Owned'
<1>1. /\ phase[o] = "none" /\ life[x] = "fresh" /\ current' = current
      /\ life' = [life EXCEPT ![x] = "open"]
      /\ context' = [context EXCEPT ![o] = x]
  BY DEF Connect
<1>2. /\ phase'[o] \in Handshake \cup {"live"}
      /\ \A p \in Object : p # o => phase'[p] = phase[p]
  BY PendingType, ProceedType DEF Connect
<1>3. /\ context'[o] = x /\ x # NoContext
      /\ \A p \in Object : p # o => context'[p] = context[p]
      /\ life'[x] = "open" /\ \A y \in Context : y # x => life'[y] = life[y]
  BY <1>1, ConstantsAssumption DEF TypeOK
<1>4. context[o] = NoContext /\ \A p \in Object : context[p] # x
  BY <1>1, <1>3 DEF Owned
<1>5. \A p \in Object : phase'[p] = "none" => context'[p] = NoContext
  BY <1>2, <1>3 DEF Owned, Handshake
<1>6. \A p \in Object : Waiting(p)' => context'[p] # NoContext
  BY <1>2, <1>3 DEF Owned, Waiting
<1>7. \A p \in Object : phase'[p] = "busy" => current'[p] \in Call
  BY <1>1, <1>2 DEF Owned, Handshake
<1>8. \A p, q \in Object : context'[p] # NoContext /\ context'[p] = context'[q] => p = q
  BY <1>3, <1>4 DEF Owned
<1>9. \A p \in Object : context'[p] # NoContext => life'[context'[p]] = "open"
  <2> SUFFICES ASSUME NEW p \in Object, context'[p] # NoContext, p # o
               PROVE  life'[context'[p]] = "open"
    BY <1>3
  <2>1. context'[p] = context[p] /\ context[p] # x /\ context[p] \in Context
    BY <1>3, <1>4 DEF TypeOK
  <2>. QED
    BY <1>3, <2>1 DEF Owned
<1>10. \A y \in Context : life'[y] = "open" => \E p \in Object : context'[p] = y
  BY <1>3, <1>4, ConstantsAssumption DEF Owned
<1>. QED
  BY <1>5, <1>6, <1>7, <1>8, <1>9, <1>10 DEF Owned

LEMMA MoveOwned ==
    ASSUME TypeOK, Owned, NEW o \in Object, NEW p \in Object, Move(o, p)
    PROVE  Owned'
<1>1. /\ o # p /\ phase[o] = "live" /\ phase[p] \in {"none", "live"} /\ current' = current
      /\ phase' = [phase EXCEPT ![p] = "live"]
      /\ context' = [context EXCEPT ![p] = context[o], ![o] = NoContext]
  BY DEF Move
<1>2. /\ phase'[p] = "live" /\ phase'[o] = "live"
      /\ \A q \in Object : q # p => phase'[q] = phase[q]
      /\ context'[p] = context[o] /\ context'[o] = NoContext
      /\ \A q \in Object : q \notin {o, p} => context'[q] = context[q]
  BY <1>1 DEF TypeOK
<1>3. \A y \in Context : IF y = context[p] THEN life'[y] = "freed" ELSE life'[y] = life[y]
  <2>1. CASE context[p] = NoContext
    BY <2>1, ConstantsAssumption DEF Move
  <2>2. CASE context[p] # NoContext
    <3>1. context[p] \in Context /\ FreeContext(context[p])
      BY <2>2 DEF TypeOK, Move
    <3>. QED
      BY <3>1, FreeType
  <2>. QED
    BY <2>1, <2>2
<1>4. \A q \in Object : phase'[q] = "none" => context'[q] = NoContext
  BY <1>2 DEF Owned
<1>5. \A q \in Object : Waiting(q)' => context'[q] # NoContext
  BY <1>2 DEF Owned, Waiting, Handshake
<1>6. \A q \in Object : phase'[q] = "busy" => current'[q] \in Call
  BY <1>1, <1>2 DEF Owned
<1>7. \A q, s \in Object : context'[q] # NoContext /\ context'[q] = context'[s] => q = s
  <2> SUFFICES ASSUME NEW q \in Object, NEW s \in Object,
                      context'[q] # NoContext, context'[q] = context'[s]
               PROVE  q = s
    OBVIOUS
  <2> DEFINE before(z) == IF z = p THEN o ELSE z
  <2>1. q # o /\ s # o
    BY <1>2
  <2>2. context'[q] = context[before(q)] /\ context'[s] = context[before(s)]
    BY <1>2, <2>1
  <2>3. before(q) = before(s)
    BY <2>2 DEF Owned
  <2>. QED
    BY <2>1, <2>3
<1>8. \A q \in Object : context'[q] # NoContext => life'[context'[q]] = "open"
  <2> SUFFICES ASSUME NEW q \in Object, context'[q] # NoContext
               PROVE  life'[context'[q]] = "open"
    OBVIOUS
  <2>1. PICK s \in Object : context'[q] = context[s] /\ s # p
    BY <1>1, <1>2
  <2>2. context[s] # context[p] /\ context[s] \in Context
    BY <2>1 DEF Owned, TypeOK
  <2>. QED
    BY <1>3, <2>1, <2>2 DEF Owned
<1>9. \A y \in Context : life'[y] = "open" => \E q \in Object : context'[q] = y
  <2> SUFFICES ASSUME NEW y \in Context, life'[y] = "open"
               PROVE  \E q \in Object : context'[q] = y
    OBVIOUS
  <2>1. y # context[p] /\ life[y] = "open"
    BY <1>3
  <2>2. PICK s \in Object : context[s] = y
    BY <2>1 DEF Owned
  <2>3. s # p
    BY <2>1, <2>2
  <2>. QED
    BY <1>2, <2>2, <2>3
<1>. QED
  BY <1>4, <1>5, <1>6, <1>7, <1>8, <1>9 DEF Owned

LEMMA OwnedStep ==
    ASSUME TypeOK, Owned, Next
    PROVE  Owned'
<1>1. ASSUME context' = context, phase' = phase, current' = current, life' = life
      PROVE  Owned'
  BY <1>1 DEF Owned, Waiting
<1>2. ASSUME NEW x \in Context, ServerStep(x) \/ Drop(x) \/ LoseCommands(x)
      PROVE  Owned'
  BY <1>1, <1>2 DEF ServerStep, ServeAuth, ServeSelect, ServeRefusal, ServeCommand,
                    Drop, LoseCommands, objVars, ctxVars
<1>3. ASSUME NEW o \in Object, Write(o) \/ Read(o) \/ \E k \in Call : ExecWithoutContext(o, k)
      PROVE  Owned'
  BY <1>1, <1>3 DEF Write, Read, ExecWithoutContext, objVars, ctxVars
<1>4. ASSUME NEW o \in Object, NEW x \in Context, NEW cfg \in Configs, Connect(o, x, cfg)
      PROVE  Owned'
  BY <1>4, ConnectOwned
<1>5. ASSUME NEW o \in Object, NEW x \in Context, ConnectFails(o, x)
      PROVE  Owned'
  <2>1. /\ context' = context /\ phase' = phase /\ current' = current
        /\ life[x] = "fresh" /\ life' = [life EXCEPT ![x] = "freed"]
    BY <1>5 DEF ConnectFails, objVars
  <2>2. \A p \in Object : context[p] # x
    BY <2>1, ConstantsAssumption DEF Owned
  <2>3. life'[x] = "freed" /\ \A y \in Context : y # x => life'[y] = life[y]
    BY <2>1 DEF TypeOK
  <2>. QED
    BY <2>1, <2>2, <2>3 DEF Owned, Waiting, TypeOK
<1>6. ASSUME NEW o \in Object, HandshakeOk(o)
      PROVE  Owned'
  <2> DEFINE x == context[o]
             steps == IF phase[o] = "auth" THEN Pending(config[x], "select") ELSE <<>>
  <2>1. x \in Context
    BY <1>6, WaitingType DEF HandshakeOk, Waiting
  <2>2. <<>> \in Seq(Handshake) /\ Proceed(o, x, steps)
    BY <1>6 DEF HandshakeOk
  <2>3. steps \in Seq(Handshake)
    BY <2>2, PendingType
  <2>4. phase'[o] \in Handshake \cup {"live"} /\ \A p \in Object : p # o => phase'[p] = phase[p]
    <3> HIDE DEF x, steps
    <3>. QED
      BY <2>1, <2>2, <2>3, ProceedType
  <2>. QED
    BY <1>6, <2>1, <2>4, SameContexts, ConstantsAssumption DEF HandshakeOk, ctxVars
<1>7. ASSUME NEW o \in Object, NEW k \in Call, NEW c \in Commands, Exec(o, k, c)
      PROVE  Owned'
  <2>1. /\ context[o] # NoContext /\ context' = context /\ life' = life
        /\ phase' = [phase EXCEPT ![o] = "busy"] /\ current' = [current EXCEPT ![o] = k]
    BY <1>7 DEF Exec, ctxVars
  <2>2. /\ phase'[o] = "busy" /\ current'[o] = k
        /\ \A p \in Object : p # o => phase'[p] = phase[p] /\ current'[p] = current[p]
    BY <2>1 DEF TypeOK
  <2>. QED
    BY <2>1, <2>2, SameContexts
<1>8. ASSUME NEW o \in Object, Return(o) \/ CallThrows(o)
      PROVE  Owned'
  <2>1. /\ phase[o] = "busy" /\ context' = context /\ life' = life
        /\ phase' = [phase EXCEPT ![o] = "live"] /\ current' = [current EXCEPT ![o] = NoCall]
    BY <1>8 DEF Return, CallThrows, ctxVars
  <2>2. /\ phase'[o] = "live"
        /\ \A p \in Object : p # o => phase'[p] = phase[p] /\ current'[p] = current[p]
    BY <2>1 DEF TypeOK
  <2>3. context[o] # NoContext
    BY <2>1 DEF Owned, Waiting
  <2>. QED
    BY <2>1, <2>2, <2>3, SameContexts
<1>9. ASSUME NEW o \in Object, HandshakeRefused(o) \/ ConstructorThrows(o)
      PROVE  Owned'
  <2>1. /\ phase' = [phase EXCEPT ![o] = "none"] /\ context' = [context EXCEPT ![o] = NoContext]
        /\ current' = current /\ FreeContext(context[o])
    BY <1>9 DEF HandshakeRefused, ConstructorThrows
  <2>2. context[o] # NoContext
    BY <1>9 DEF HandshakeRefused, ConstructorThrows, Owned, Waiting
  <2>. QED
    BY <2>1, <2>2, GivenUp
<1>10. ASSUME NEW o \in Object, Destroy(o)
       PROVE  Owned'
  BY <1>10, GivenUp DEF Destroy
<1>11. ASSUME NEW o \in Object, NEW p \in Object, Move(o, p)
       PROVE  Owned'
  BY <1>11, MoveOwned
<1>. QED
  BY <1>2, <1>3, <1>4, <1>5, <1>6, <1>7, <1>8, <1>9, <1>10, <1>11 DEF Next, ClientStep
-----------------------------------------------------------------------------
(* Errors. *)

\* What steps through another context leave as it is.
Untouched(y) ==
    /\ err'[y] = err[y] /\ reader'[y] = reader[y] /\ life'[y] = life[y]
    /\ link'[y] = link[y] /\ session'[y] = session[y]
    /\ obuf'[y] = obuf[y] /\ net'[y] = net[y] /\ inbox'[y] = inbox[y]

\* What a step may do to a context in use: an error stays and stops it, and one
\* comes up only when there is no reply left.
Orderly(x) ==
    /\ life'[x] # "fresh"
    /\ err[x] => StoppedFor(x)
    /\ err'[x] => reader'[x] = <<>>

\* A context that nothing happens to stays stopped, if it was.
LEMMA UntouchedStopped ==
    ASSUME TypeOK, Quiet, NEW y \in Context, Untouched(y)
    PROVE  err[y] => StoppedFor(y)
<1>1. Len(net[y]) \in Nat
  BY DEF TypeOK
<1>. QED
  BY <1>1 DEF Quiet, Untouched, StoppedFor

\* A step through one context changes nothing else.
LEMMA QuietFor ==
    ASSUME TypeOK, Quiet, NEW x \in Context, Orderly(x),
           \A y \in Context : y # x => Untouched(y)
    PROVE  Quiet' /\ \A y \in Context : err[y] => StoppedFor(y)
<1>1. Quiet'
  BY DEF Quiet, Orderly, Untouched
<1>2. \A y \in Context : err[y] => StoppedFor(y)
  BY UntouchedStopped DEF Orderly
<1>. QED
  BY <1>1, <1>2

\* Freeing a context takes its replies; the error flag is not taken back.
LEMMA FreedQuiet ==
    ASSUME TypeOK, Quiet, NEW x \in Context, FreeContext(x),
           err' = err \/ err' = [err EXCEPT ![x] = TRUE],
           net' = net, session' = session
    PROVE  Orderly(x) /\ \A y \in Context : y # x => Untouched(y)
<1>1. /\ life'[x] = "freed" /\ reader'[x] = <<>>
      /\ \A y \in Context : y # x =>
            /\ life'[y] = life[y] /\ link'[y] = link[y] /\ obuf'[y] = obuf[y]
            /\ reader'[y] = reader[y] /\ inbox'[y] = inbox[y]
  BY FreeType
<1>2. (err[x] => err'[x]) /\ \A y \in Context : y # x => err'[y] = err[y]
  BY DEF TypeOK
<1>3. Len(net'[x]) <= Len(net[x])
  <2>1. Len(net[x]) \in Nat
    BY DEF TypeOK
  <2>. QED
    BY <2>1
<1>. QED
  BY <1>1, <1>2, <1>3 DEF Orderly, Untouched, StoppedFor

\* An object has a context that is open when it uses one.
LEMMA UsesOwn ==
    ASSUME TypeOK, Owned, NEW o \in Object,
           \/ ClientStep(o)
           \/ \E k \in Call, c \in Commands : Exec(o, k, c)
    PROVE  context[o] \in Context /\ life[context[o]] = "open"
<1>1. Waiting(o) \/ \E k \in Call, c \in Commands : Exec(o, k, c)
  BY DEF ClientStep, HandshakeOk, HandshakeRefused, Write, Read, Return,
         CallThrows, ConstructorThrows, Waiting
<1>2. context[o] # NoContext
  BY <1>1 DEF Owned, Exec
<1>. QED
  BY <1>2 DEF Owned, TypeOK

\* Its steps through that context are orderly.
LEMMA ObjectQuiet ==
    ASSUME TypeOK, Owned, Quiet, NEW o \in Object,
           \/ ClientStep(o)
           \/ \E k \in Call, c \in Commands : Exec(o, k, c)
    PROVE  Orderly(context[o]) /\ \A y \in Context : y # context[o] => Untouched(y)
<1> DEFINE x == context[o]
<1>1. x \in Context /\ life[x] = "open"
  BY UsesOwn
<1>2. Len(net[x]) \in Nat
  BY <1>1 DEF TypeOK
<1>3. CASE HandshakeRefused(o) \/ ConstructorThrows(o)
  <2>1. /\ FreeContext(x) /\ net' = net /\ session' = session
        /\ err' = err \/ err' = [err EXCEPT ![x] = TRUE]
    BY <1>3 DEF HandshakeRefused, ConstructorThrows
  <2> HIDE DEF x
  <2>2. Orderly(x) /\ \A y \in Context : y # x => Untouched(y)
    BY <1>1, <2>1, FreedQuiet
  <2>. QED
    BY <2>2 DEF x
<1>4. CASE HandshakeOk(o)
  <2> DEFINE steps == IF phase[o] = "auth" THEN Pending(config[x], "select") ELSE <<>>
  <2>1. <<>> \in Seq(Handshake) /\ Proceed(o, x, steps)
    BY <1>4 DEF HandshakeOk
  <2>2. steps \in Seq(Handshake)
    BY <2>1, PendingType
  <2>3. \A y \in Context : y # x => obuf'[y] = obuf[y]
    <3> HIDE DEF x, steps
    <3>. QED
      BY <1>1, <2>1, <2>2, ProceedType
  <2>4. /\ reader[x] # <<>> /\ reader' = [reader EXCEPT ![x] = Tail(reader[x])]
        /\ UNCHANGED <<ctxVars, err, srvVars>>
    BY <1>4 DEF HandshakeOk
  <2>5. ~err[x]
    BY <1>1, <2>4 DEF Quiet
  <2>. QED
    BY <1>1, <2>3, <2>4, <2>5 DEF Orderly, Untouched, TypeOK, ctxVars, srvVars
<1>5. ASSUME NEW k \in Call, NEW c \in Commands, Exec(o, k, c)
      PROVE  Orderly(x) /\ \A y \in Context : y # x => Untouched(y)
  <2>1. /\ obuf' = [obuf EXCEPT ![x] = Append(obuf[x], [cmd |-> c, call |-> k])]
        /\ UNCHANGED <<ctxVars, err, reader, srvVars>>
    BY <1>5 DEF Exec
  <2>2. \A y \in Context : y # x => obuf'[y] = obuf[y]
    BY <2>1 DEF TypeOK
  <2>. QED
    BY <1>1, <1>2, <2>1, <2>2 DEF Orderly, Untouched, StoppedFor, Quiet, ctxVars, srvVars
<1>6. CASE Write(o)
  <2>1. /\ ~err[x] /\ err' = err /\ reader' = reader /\ life' = life
        /\ link' = link /\ session' = session /\ inbox' = inbox
        /\ obuf' = [obuf EXCEPT ![x] = Tail(obuf[x])]
        /\ net' = [net EXCEPT ![x] = Append(net[x], Head(obuf[x]))] \/ net' = net
    BY <1>6 DEF Write, ctxVars
  <2>2. \A y \in Context : y # x => obuf'[y] = obuf[y] /\ net'[y] = net[y]
    BY <2>1 DEF TypeOK
  <2>. QED
    BY <1>1, <2>1, <2>2 DEF Orderly, Untouched
<1>7. CASE Read(o)
  <2>1. /\ ~err[x] /\ err' = err /\ obuf' = obuf /\ life' = life
        /\ link' = link /\ session' = session /\ net' = net
        /\ reader' = [reader EXCEPT ![x] = Append(reader[x], Head(inbox[x]))]
        /\ inbox' = [inbox EXCEPT ![x] = Tail(inbox[x])]
    BY <1>7 DEF Read, ctxVars
  <2>2. \A y \in Context : y # x => reader'[y] = reader[y] /\ inbox'[y] = inbox[y]
    BY <2>1 DEF TypeOK
  <2>. QED
    BY <1>1, <2>1, <2>2 DEF Orderly, Untouched
<1>8. CASE Return(o)
  <2>1. /\ reader[x] # <<>> /\ reader' = [reader EXCEPT ![x] = Tail(reader[x])]
        /\ UNCHANGED <<ctxVars, err, obuf, srvVars>>
    BY <1>8 DEF Return
  <2>2. ~err[x]
    BY <1>1, <2>1 DEF Quiet
  <2>. QED
    BY <1>1, <2>1, <2>2 DEF Orderly, Untouched, TypeOK, ctxVars, srvVars
<1>9. CASE CallThrows(o)
  <2>1. /\ reader[x] = <<>> /\ err' = [err EXCEPT ![x] = TRUE]
        /\ UNCHANGED <<ctxVars, obuf, reader, srvVars>>
    BY <1>9 DEF CallThrows, TransportFails
  <2>2. err'[x] = TRUE /\ \A y \in Context : y # x => err'[y] = err[y]
    BY <1>1, <2>1 DEF TypeOK
  <2>. QED
    BY <1>1, <1>2, <2>1, <2>2 DEF Orderly, Untouched, StoppedFor, ctxVars, srvVars
<1>. QED
  BY <1>3, <1>4, <1>5, <1>6, <1>7, <1>8, <1>9 DEF ClientStep

\* A constructor takes a context that nothing has gone through.
LEMMA ConnectQuiet ==
    ASSUME TypeOK, Quiet, NEW o \in Object, NEW x \in Context,
           ConnectFails(o, x) \/ \E cfg \in Configs : Connect(o, x, cfg)
    PROVE  Orderly(x) /\ \A y \in Context : y # x => Untouched(y)
<1>1. Len(net[x]) \in Nat
  BY DEF TypeOK
<1>2. ASSUME NEW cfg \in Configs, Connect(o, x, cfg)
      PROVE  Orderly(x) /\ \A y \in Context : y # x => Untouched(y)
  <2>1. /\ life[x] = "fresh" /\ life' = [life EXCEPT ![x] = "open"]
        /\ link' = [link EXCEPT ![x] = "up"]
        /\ UNCHANGED <<err, reader, net, inbox, session>>
    BY <1>2 DEF Connect
  <2>2. \A y \in Context : y # x => obuf'[y] = obuf[y]
    BY <1>2, PendingType, ProceedType DEF Connect
  <2>3. Orderly(x)
    BY <1>1, <2>1 DEF Orderly, StoppedFor, Quiet, TypeOK
  <2>4. \A y \in Context : y # x => Untouched(y)
    BY <2>1, <2>2 DEF Untouched, TypeOK
  <2>. QED
    BY <2>3, <2>4
<1>3. ASSUME ConnectFails(o, x)
      PROVE  Orderly(x) /\ \A y \in Context : y # x => Untouched(y)
  <2>1. /\ life[x] = "fresh" /\ life' = [life EXCEPT ![x] = "freed"]
        /\ err' = [err EXCEPT ![x] = TRUE]
        /\ UNCHANGED <<obuf, reader, link, net, inbox, session>>
    BY <1>3 DEF ConnectFails, srvVars
  <2>2. Orderly(x)
    BY <1>1, <2>1 DEF Orderly, StoppedFor, Quiet, TypeOK
  <2>3. \A y \in Context : y # x => Untouched(y)
    BY <2>1 DEF Untouched, TypeOK
  <2>. QED
    BY <2>2, <2>3
<1>. QED
  BY <1>2, <1>3

\* The server and the network act on a context that was connected.
LEMMA ServerQuiet ==
    ASSUME TypeOK, Quiet, NEW x \in Context, ServerStep(x) \/ Drop(x) \/ LoseCommands(x)
    PROVE  Orderly(x) /\ \A y \in Context : y # x => Untouched(y)
<1>1. UNCHANGED <<ctxVars, bufVars>>
  BY DEF ServerStep, ServeAuth, ServeSelect, ServeRefusal, ServeCommand, Drop, LoseCommands
<1>2. life[x] # "fresh"
  BY DEF ServerStep, ServeAuth, ServeSelect, ServeRefusal, ServeCommand, Take, Drop,
         LoseCommands, Quiet
<1>3. Len(net[x]) \in Nat
  BY DEF TypeOK
<1>4. CASE ServerStep(x)
  <2>1. PICK r \in Request, replies \in Seq(Reply) : Take(x, r) /\ Answer(x, replies)
    <3>1. \A r \in Request : /\ <<[type |-> "ok", call |-> r.call]>> \in Seq(Reply)
                             /\ <<[type |-> "error", call |-> r.call]>> \in Seq(Reply)
                             /\ RepliesTo(r) \in Seq(Reply)
      <4> SUFFICES ASSUME NEW r \in Request
                   PROVE  /\ <<[type |-> "ok", call |-> r.call]>> \in Seq(Reply)
                          /\ <<[type |-> "error", call |-> r.call]>> \in Seq(Reply)
                          /\ RepliesTo(r) \in Seq(Reply)
        OBVIOUS
      <4>1. [type |-> "ok", call |-> r.call] \in Reply /\ [type |-> "error", call |-> r.call] \in Reply
        BY DEF Request, Reply
      <4>. QED
        BY <4>1, RepliesType
    <3>2. PICK r \in Request :
              /\ Take(x, r)
              /\ \/ Answer(x, <<[type |-> "ok", call |-> r.call]>>)
                 \/ Answer(x, <<[type |-> "error", call |-> r.call]>>)
                 \/ Answer(x, RepliesTo(r))
      <4>1. CASE ServeAuth(x)
        BY <4>1 DEF ServeAuth
      <4>2. CASE ServeSelect(x)
        BY <4>2 DEF ServeSelect
      <4>3. CASE ServeRefusal(x)
        BY <4>3 DEF ServeRefusal
      <4>4. CASE ServeCommand(x)
        BY <4>4 DEF ServeCommand
      <4>. QED
        BY <1>4, <4>1, <4>2, <4>3, <4>4 DEF ServerStep
    <3>. QED
      BY <3>1, <3>2
  <2>2. /\ Len(net'[x]) + 1 = Len(net[x])
        /\ \A y \in Context : y # x => net'[y] = net[y]
        /\ Len(net'[x]) \in Nat
    BY <2>1, TakeType
  <2>3. \A y \in Context : y # x => inbox'[y] = inbox[y]
    BY <2>1, AnswerType
  <2>4. link' = link /\ \A y \in Context : y # x => session'[y] = session[y]
    BY <1>4 DEF TypeOK, ServerStep, ServeAuth, ServeSelect, ServeRefusal, ServeCommand
  <2>5. \A y \in Context : y # x => Untouched(y)
    BY <1>1, <2>2, <2>3, <2>4 DEF Untouched, ctxVars, bufVars
  <2>6. Orderly(x)
    BY <1>1, <1>2, <1>3, <2>2 DEF Orderly, StoppedFor, Quiet, ctxVars, bufVars
  <2>. QED
    BY <2>5, <2>6
<1>5. CASE Drop(x)
  <2>1. /\ net' = net /\ session' = session /\ link' = [link EXCEPT ![x] = "down"]
        /\ inbox' = inbox \/ inbox' = [inbox EXCEPT ![x] = <<>>]
    BY <1>5 DEF Drop
  <2>2. \A y \in Context : y # x => link'[y] = link[y] /\ inbox'[y] = inbox[y]
    BY <2>1 DEF TypeOK
  <2>3. \A y \in Context : y # x => Untouched(y)
    BY <1>1, <2>1, <2>2 DEF Untouched, ctxVars, bufVars
  <2>4. Orderly(x)
    BY <1>1, <1>2, <1>3, <2>1 DEF Orderly, StoppedFor, Quiet, ctxVars, bufVars
  <2>. QED
    BY <2>3, <2>4
<1>6. CASE LoseCommands(x)
  <2>1. /\ link' = link /\ session' = session /\ inbox' = inbox
        /\ net' = [net EXCEPT ![x] = <<>>]
    BY <1>6 DEF LoseCommands
  <2>2. net'[x] = <<>> /\ \A y \in Context : y # x => net'[y] = net[y]
    BY <2>1 DEF TypeOK
  <2>3. \A y \in Context : y # x => Untouched(y)
    BY <1>1, <2>1, <2>2 DEF Untouched, ctxVars, bufVars
  <2>4. Orderly(x)
    BY <1>1, <1>2, <1>3, <2>2 DEF Orderly, StoppedFor, Quiet, ctxVars, bufVars
  <2>. QED
    BY <2>3, <2>4
<1>. QED
  BY <1>4, <1>5, <1>6

-----------------------------------------------------------------------------
(* The invariant. *)

\* Every step keeps errors and fresh contexts in order, and leaves a context in
\* error stopped.
LEMMA QuietStep ==
    ASSUME TypeOK, Owned, Quiet, Next
    PROVE  Quiet' /\ \A x \in Context : err[x] => StoppedFor(x)
<1>1. ASSUME NEW x \in Context, Orderly(x), \A y \in Context : y # x => Untouched(y)
      PROVE  Quiet' /\ \A y \in Context : err[y] => StoppedFor(y)
  BY <1>1, QuietFor
<1>2. ASSUME UNCHANGED <<bufVars, srvVars, life>>
      PROVE  Quiet' /\ \A y \in Context : err[y] => StoppedFor(y)
  <2>1. \A y \in Context : Untouched(y)
    BY <1>2 DEF Untouched, bufVars, srvVars
  <2>2. Quiet'
    BY <2>1 DEF Quiet, Untouched
  <2>. QED
    BY <2>1, <2>2, UntouchedStopped
<1>3. ASSUME NEW x \in Context, ServerStep(x) \/ Drop(x) \/ LoseCommands(x)
      PROVE  Quiet' /\ \A y \in Context : err[y] => StoppedFor(y)
  BY <1>1, <1>3, ServerQuiet
<1>4. ASSUME NEW o \in Object,
             ClientStep(o) \/ \E k \in Call, c \in Commands : Exec(o, k, c)
      PROVE  Quiet' /\ \A y \in Context : err[y] => StoppedFor(y)
  <2>1. Orderly(context[o]) /\ \A y \in Context : y # context[o] => Untouched(y)
    BY <1>4, ObjectQuiet
  <2>2. context[o] \in Context
    BY <1>4, UsesOwn
  <2>. QED
    BY <1>1, <2>1, <2>2
<1>5. ASSUME NEW o \in Object, NEW k \in Call, ExecWithoutContext(o, k)
      PROVE  Quiet' /\ \A y \in Context : err[y] => StoppedFor(y)
  BY <1>2, <1>5 DEF ExecWithoutContext, ctxVars
<1>6. ASSUME NEW o \in Object, NEW x \in Context,
             ConnectFails(o, x) \/ \E cfg \in Configs : Connect(o, x, cfg)
      PROVE  Quiet' /\ \A y \in Context : err[y] => StoppedFor(y)
  BY <1>1, <1>6, ConnectQuiet
<1>8. ASSUME NEW p \in Object,
             err' = err, net' = net, session' = session,
             IF context[p] = NoContext THEN UNCHANGED <<life, link, obuf, reader, inbox>>
             ELSE FreeContext(context[p])
      PROVE  Quiet' /\ \A y \in Context : err[y] => StoppedFor(y)
  <2>1. CASE context[p] = NoContext
    BY <1>2, <1>8, <2>1 DEF bufVars, srvVars
  <2>2. CASE context[p] # NoContext
    <3>1. context[p] \in Context /\ FreeContext(context[p])
      BY <1>8, <2>2 DEF TypeOK
    <3>. QED
      BY <1>1, <1>8, <3>1, FreedQuiet
  <2>. QED
    BY <2>1, <2>2
<1>9. ASSUME NEW o \in Object, Destroy(o) \/ \E p \in Object : Move(o, p)
      PROVE  Quiet' /\ \A y \in Context : err[y] => StoppedFor(y)
  BY <1>8, <1>9 DEF Destroy, Move
<1>. QED
  BY <1>3, <1>4, <1>5, <1>6, <1>9 DEF Next

LEMMA TypeStep ==
    ASSUME TypeOK, Owned, Next
    PROVE  TypeOK'
BY ConstructorTypes, CallTypes, MoveTypes, ServerTypes DEF Next, ClientStep

LEMMA InitIInv == Init => IInv
<1> SUFFICES ASSUME Init PROVE IInv
  OBVIOUS
<1>1. TypeOK
  <2>1. NoConfig \in RedisConfig /\ 0 \in 0 .. Databases - 1
    BY ConstantsAssumption DEF NoConfig, RedisConfig
  <2>2. NewSession \in Session /\ NoReply \in Reply
    BY <2>1 DEF NewSession, Session, NoReply, Reply
  <2>3. <<>> \in Seq(Request) /\ <<>> \in Seq(Reply)
    OBVIOUS
  <2>. QED
    BY <2>1, <2>2, <2>3 DEF Init, TypeOK, Phases, Outcomes
<1>2. Owned
  BY ConstantsAssumption DEF Init, Owned, Waiting, Handshake
<1>3. Quiet
  BY DEF Init, Quiet
<1>. QED
  BY <1>1, <1>2, <1>3 DEF IInv

LEMMA StepIInv == IInv /\ [Next]_vars => IInv' /\ \A x \in Context : err[x] => StoppedFor(x)
<1> SUFFICES ASSUME TypeOK, Owned, Quiet, [Next]_vars
             PROVE  IInv' /\ \A x \in Context : err[x] => StoppedFor(x)
  BY DEF IInv
<1>1. CASE Next
  BY <1>1, TypeStep, OwnedStep, QuietStep DEF IInv
<1>2. CASE UNCHANGED vars
  <2>1. UNCHANGED <<objVars, ctxVars, bufVars, srvVars, callVars, ghostVars, answer>>
    BY <1>2 DEF vars
  <2>2. TypeOK'
    BY <2>1 DEF TypeOK, objVars, ctxVars, bufVars, srvVars, callVars, ghostVars
  <2>3. Owned'
    BY <2>1 DEF Owned, Waiting, objVars, ctxVars
  <2>4. \A y \in Context : Untouched(y)
    BY <2>1 DEF Untouched, ctxVars, bufVars, srvVars
  <2>5. Quiet'
    BY <2>4 DEF Quiet, Untouched
  <2>. QED
    BY <2>2, <2>3, <2>4, <2>5, UntouchedStopped DEF IInv
<1>. QED
  BY <1>1, <1>2

\* What objects own and what contexts hold stays in order.
THEOREM Invariance == Spec => []IInv
<1>1. Init => IInv
  BY InitIInv
<1>2. IInv /\ [Next]_vars => IInv'
  BY StepIInv
<1>. QED
  BY <1>1, <1>2, PTL DEF Spec

\* Every reachable state of the connections is well typed.
THEOREM TypeCorrect == Spec => []TypeOK
<1>1. IInv => TypeOK
  BY DEF IInv
<1>. QED
  BY <1>1, Invariance, PTL

\* However sync_connection objects are built, moved, assigned over and destroyed,
\* and whatever their constructors throw, no hiredis context is leaked, shared or
\* used after it was freed: Ownership.
THEOREM OneOwner == Spec => []Ownership
<1>1. IInv => Ownership
  <2> SUFFICES ASSUME TypeOK, Owned, NEW x \in Context
               PROVE  /\ life[x] = "open" => \E o \in Object : Owners(x) = {o}
                      /\ life[x] # "open" => Owners(x) = {}
    BY DEF IInv, Ownership
  <2>1. x # NoContext
    BY ConstantsAssumption
  <2>2. CASE life[x] = "open"
    <3>1. PICK o \in Object : context[o] = x
      BY <2>2 DEF Owned
    <3>2. Owners(x) = {o}
      BY <2>1, <3>1 DEF Owned, Owners
    <3>. QED
      BY <2>2, <3>2
  <2>3. CASE life[x] # "open"
    BY <2>1, <2>3 DEF Owned, Owners
  <2>. QED
    BY <2>2, <2>3
<1>. QED
  BY <1>1, Invariance, PTL

\* After an I/O error nothing more of a context reaches the server and no reply
\* is taken from it: FailStop.
THEOREM ErrorsStop == Spec => FailStop
<1>1. IInv /\ [Next]_vars => [\A x \in Context : err[x] => StoppedFor(x)]_vars
  BY StepIInv
<1>. QED
  BY <1>1, Invariance, PTL DEF Spec, FailStop
-----------------------------------------------------------------------------
(***************************************************************************)
(* What a call means: AtMostOnceExecuted, OwnReply, ValueMeansExecuted and *)
(* ErrorMeansNotExecuted, and that SyncConnection implements AtMostOnce.   *)
(* The invariant follows a command from the queue of its context to the    *)
(* server, and its reply back to the caller.                               *)
(***************************************************************************)
Requests(x) == Range(obuf[x]) \cup Range(net[x])
Replies(x) == Range(inbox[x]) \cup Range(reader[x])

\* No call is twice in a queue.
Distinct(q) ==
    \A i, j \in 1 .. Len(q) : q[i].call \in Call /\ q[i].call = q[j].call => i = j

Apart(q, s) == \A r \in Range(q), t \in Range(s) : r.call \in Call => r.call # t.call

\* What is queued or answered on a context is for a call that was made on it;
\* a call is queued once, and not any more when it was executed.
Accounted ==
    /\ \A x \in Context : \A r \in Requests(x) \cup Replies(x) : r.call \in Call =>
          issuedOn[r.call] = x /\ outcome[r.call] \notin {"none", "logic_error"}
    /\ \A x \in Context : \A r \in Requests(x) : r.call \in Call =>
          r.cmd \in Kinds /\ effects[r.call] = 0
    /\ \A x \in Context : Distinct(obuf[x]) /\ Distinct(net[x]) /\ Apart(obuf[x], net[x])
    /\ \A k \in Call : effects[k] <= 1
    /\ \A k \in Call : outcome[k] \in {"none", "logic_error"} => effects[k] = 0

\* A reply tells what became of its call: an ERROR that it was not executed and
\* will not be, the others that it was.
Truthful(a) ==
    a.call \in Call =>
        /\ a.type # "ok"
        /\ a.type = "error" =>
              /\ effects[a.call] = 0
              /\ \A x \in Context : \A r \in Requests(x) : r.call # a.call
        /\ a.type # "error" => effects[a.call] = 1

\* Nothing but the command and the reply of its present call is under way on a
\* context without an error, until a command with two replies was sent.
Load(x) == Len(obuf[x]) + Len(net[x]) + Len(inbox[x]) + Len(reader[x])

OneAtATime(o) ==
    LET x == context[o]
    IN  x # NoContext /\ ~err[x] /\ ~session[x].multi =>
            /\ Load(x) <= IF Waiting(o) THEN 1 ELSE 0
            /\ \A r \in Requests(x) \cup Replies(x) : r.call = current[o]

\* The call an object is busy with was made on its context and is pending.
Busy(o) ==
    /\ phase[o] # "busy" => current[o] = NoCall
    /\ phase[o] = "busy" =>
           issuedOn[current[o]] = context[o] /\ outcome[current[o]] = "pending"

\* What a call was given was its own reply, and true.
Answered(k) ==
    outcome[k] \in {"value", "error"} =>
        /\ issuedOn[k] \in Context
        /\ ~session[issuedOn[k]].multi =>
              /\ answer[k].call = k /\ Truthful(answer[k])
              /\ outcome[k] = Converted(answer[k].type)

Truths == \A x \in Context : \A a \in Replies(x) : Truthful(a)

CInv ==
    /\ IInv
    /\ Accounted /\ Truths
    /\ \A o \in Object : OneAtATime(o) /\ Busy(o)
    /\ \A k \in Call : Answered(k)
-----------------------------------------------------------------------------
(* Queues. *)

LEMMA EmptyRange == Range(<<>>) = {} /\ Distinct(<<>>)
BY DEF Range, Distinct

LEMMA RangeSeq ==
    ASSUME NEW S, NEW q \in Seq(S)
    PROVE  /\ Range(q) = {q[i] : i \in 1 .. Len(q)} /\ Range(q) \subseteq S
           /\ Len(q) \in Nat /\ (Len(q) = 0 <=> q = <<>>)
<1>1. DOMAIN q = 1 .. Len(q) /\ Len(q) \in Nat /\ \A i \in 1 .. Len(q) : q[i] \in S
  BY LenProperties, ElementOfSeq
<1>2. Len(q) = 0 <=> q = <<>>
  BY EmptySeq
<1>. QED
  BY <1>1, <1>2 DEF Range

\* The first entry of a queue is taken.
LEMMA TailRange ==
    ASSUME NEW S, NEW q \in Seq(S), q # <<>>
    PROVE  /\ Head(q) \in Range(q) /\ Range(q) = Range(Tail(q)) \cup {Head(q)}
           /\ Len(Tail(q)) = Len(q) - 1
           /\ Distinct(q) => /\ Distinct(Tail(q))
                             /\ \A r \in Range(Tail(q)) : r.call \in Call => r.call # Head(q).call
<1>1. /\ Tail(q) \in Seq(S) /\ Len(Tail(q)) = Len(q) - 1
      /\ \A i \in 1 .. Len(q) - 1 : Tail(q)[i] = q[i + 1]
      /\ Head(q) = q[1] /\ Len(q) \in Nat \ {0}
  <2>1. Len(q) \in Nat \ {0}
    BY EmptySeq
  <2>. QED
    BY <2>1, HeadTailProperties
<1>2. Range(q) = {q[i] : i \in 1 .. Len(q)}
  BY RangeSeq
<1>3. Range(Tail(q)) = {q[i + 1] : i \in 1 .. Len(q) - 1}
  <2>1. Range(Tail(q)) = {Tail(q)[i] : i \in 1 .. Len(Tail(q))}
    BY <1>1, RangeSeq
  <2>. QED
    BY <1>1, <2>1
<1>4. Range(q) = Range(Tail(q)) \cup {Head(q)}
  <2>1. ASSUME NEW i \in 1 .. Len(q), i # 1
        PROVE  q[i] \in Range(Tail(q))
    <3>1. i - 1 \in 1 .. Len(q) - 1 /\ (i - 1) + 1 = i
      BY <1>1, <2>1
    <3>. QED
      BY <1>3, <3>1
  <2>2. ASSUME NEW i \in 1 .. Len(q) - 1
        PROVE  q[i + 1] \in Range(q)
    <3>1. i + 1 \in 1 .. Len(q)
      BY <1>1
    <3>. QED
      BY <1>2, <3>1
  <2>3. Head(q) \in Range(q)
    <3>1. 1 \in 1 .. Len(q)
      BY <1>1
    <3>. QED
      BY <1>1, <1>2, <3>1
  <2>4. Range(q) \subseteq Range(Tail(q)) \cup {Head(q)}
    BY <1>1, <1>2, <2>1
  <2>5. Range(Tail(q)) \subseteq Range(q)
    BY <1>3, <2>2
  <2>. QED
    BY <2>3, <2>4, <2>5
<1>5. ASSUME Distinct(q)
      PROVE  /\ Distinct(Tail(q))
             /\ \A r \in Range(Tail(q)) : r.call \in Call => r.call # Head(q).call
  <2>1. Distinct(Tail(q))
    <3> SUFFICES ASSUME NEW i \in 1 .. Len(q) - 1, NEW j \in 1 .. Len(q) - 1,
                        Tail(q)[i].call \in Call, Tail(q)[i].call = Tail(q)[j].call
                 PROVE  i = j
      BY <1>1 DEF Distinct
    <3>1. i + 1 \in 1 .. Len(q) /\ j + 1 \in 1 .. Len(q)
      BY <1>1
    <3>2. q[i + 1].call \in Call /\ q[i + 1].call = q[j + 1].call
      BY <1>1
    <3>3. i + 1 = j + 1
      BY <1>5, <3>1, <3>2 DEF Distinct
    <3>. QED
      BY <3>3
  <2>2. ASSUME NEW i \in 1 .. Len(q) - 1, q[i + 1].call \in Call
        PROVE  q[i + 1].call # Head(q).call
    <3>1. i + 1 \in 1 .. Len(q) /\ 1 \in 1 .. Len(q) /\ i + 1 # 1
      BY <1>1
    <3>. QED
      BY <1>1, <1>5, <2>2, <3>1 DEF Distinct
  <2>. QED
    BY <1>3, <2>1, <2>2
<1>. QED
  BY <1>1, <1>4, <1>5

\* An entry is appended to a queue.
LEMMA AppendRange ==
    ASSUME NEW S, NEW q \in Seq(S), NEW e \in S
    PROVE  /\ Range(Append(q, e)) = Range(q) \cup {e} /\ Len(Append(q, e)) = Len(q) + 1
           /\ Distinct(q) /\ (e.call \in Call => \A r \in Range(q) : r.call # e.call)
                 => Distinct(Append(q, e))
<1>1. /\ Append(q, e) \in Seq(S) /\ Len(Append(q, e)) = Len(q) + 1 /\ Len(q) \in Nat
      /\ \A i \in 1 .. Len(q) : Append(q, e)[i] = q[i]
      /\ Append(q, e)[Len(q) + 1] = e
  OBVIOUS
<1>2. Range(q) = {q[i] : i \in 1 .. Len(q)}
  BY RangeSeq
<1>3. Range(Append(q, e)) = {Append(q, e)[i] : i \in 1 .. Len(q) + 1}
  BY <1>1, RangeSeq
<1>4. Range(Append(q, e)) = Range(q) \cup {e}
  <2>1. \A i \in 1 .. Len(q) + 1 : i \in 1 .. Len(q) \/ i = Len(q) + 1
    BY <1>1
  <2>2. \A i \in 1 .. Len(q) : i \in 1 .. Len(q) + 1
    BY <1>1
  <2>3. Len(q) + 1 \in 1 .. Len(q) + 1
    BY <1>1
  <2>. QED
    BY <1>1, <1>2, <1>3, <2>1, <2>2, <2>3
<1>5. ASSUME Distinct(q), e.call \in Call => \A r \in Range(q) : r.call # e.call
      PROVE  Distinct(Append(q, e))
  <2> DEFINE a == Append(q, e)
  <2> SUFFICES ASSUME NEW i \in 1 .. Len(q) + 1, NEW j \in 1 .. Len(q) + 1,
                      a[i].call \in Call, a[i].call = a[j].call
               PROVE  i = j
    BY <1>1 DEF Distinct
  <2>1. CASE i \in 1 .. Len(q) /\ j \in 1 .. Len(q)
    <3>1. a[i] = q[i] /\ a[j] = q[j]
      BY <1>1, <2>1
    <3>. QED
      BY <1>5, <2>1, <3>1 DEF Distinct
  <2>2. CASE i \in 1 .. Len(q) /\ j = Len(q) + 1
    <3>1. a[i] = q[i] /\ a[j] = e /\ q[i] \in Range(q)
      BY <1>1, <1>2, <2>2
    <3>. QED
      BY <1>5, <3>1
  <2>3. CASE i = Len(q) + 1 /\ j \in 1 .. Len(q)
    <3>1. a[i] = e /\ a[j] = q[j] /\ q[j] \in Range(q)
      BY <1>1, <1>2, <2>3
    <3>. QED
      BY <1>5, <3>1
  <2>. QED
    BY <1>1, <2>1, <2>2, <2>3
<1>. QED
  BY <1>1, <1>4, <1>5

\* Queues are joined.
LEMMA ConcatRange ==
    ASSUME NEW S, NEW q \in Seq(S), NEW s \in Seq(S)
    PROVE  Range(q \o s) = Range(q) \cup Range(s) /\ Len(q \o s) = Len(q) + Len(s)
<1>1. /\ q \o s \in Seq(S) /\ Len(q \o s) = Len(q) + Len(s)
      /\ \A i \in 1 .. Len(q) + Len(s) : (q \o s)[i] = IF i <= Len(q) THEN q[i] ELSE s[i - Len(q)]
  BY ConcatProperties
<1>2. Len(q) \in Nat /\ Len(s) \in Nat
  OBVIOUS
<1>3. Range(q \o s) = {(q \o s)[i] : i \in 1 .. Len(q) + Len(s)}
  BY <1>1, RangeSeq
<1>4. Range(q) = {q[i] : i \in 1 .. Len(q)} /\ Range(s) = {s[i] : i \in 1 .. Len(s)}
  BY RangeSeq
<1>5. ASSUME NEW i \in 1 .. Len(q) + Len(s)
      PROVE  (q \o s)[i] \in Range(q) \cup Range(s)
  <2>1. CASE i <= Len(q)
    BY <1>1, <1>2, <1>4, <2>1
  <2>2. CASE ~(i <= Len(q))
    <3>1. i - Len(q) \in 1 .. Len(s)
      BY <1>2, <2>2
    <3>. QED
      BY <1>1, <1>4, <2>2, <3>1
  <2>. QED
    BY <2>1, <2>2
<1>6. ASSUME NEW i \in 1 .. Len(q)
      PROVE  q[i] \in Range(q \o s)
  <2>1. i \in 1 .. Len(q) + Len(s) /\ i <= Len(q)
    BY <1>2
  <2>. QED
    BY <1>1, <1>3, <2>1
<1>7. ASSUME NEW i \in 1 .. Len(s)
      PROVE  s[i] \in Range(q \o s)
  <2>1. i + Len(q) \in 1 .. Len(q) + Len(s) /\ ~(i + Len(q) <= Len(q)) /\ (i + Len(q)) - Len(q) = i
    BY <1>2
  <2>. QED
    BY <1>1, <1>3, <2>1
<1>. QED
  BY <1>1, <1>3, <1>4, <1>5, <1>6, <1>7
-----------------------------------------------------------------------------
(* What is queued, executed and answered. *)

\* What a step keeps: the accounts, and the truth of every reply that was given
\* or is under way.
AccountsKept ==
    /\ Accounted' /\ Truths'
    /\ \A a \in Reply : Truthful(a) /\ (a.call \in Call => outcome[a.call] # "none") => Truthful(a)'

\* A step that queues no call, executes none and answers none, and takes no
\* command out of its order, keeps them.
LEMMA NothingNew ==
    ASSUME TypeOK, Accounted, Truths, NEW x \in Context,
           \A y \in Context : y # x => Untouched(y),
           \A r \in Requests(x)' : r.call \in Call => r \in Requests(x),
           Distinct(obuf[x])', Distinct(net[x])', Apart(obuf[x], net[x])',
           \A a \in Replies(x)' : a.call \in Call => a \in Replies(x),
           effects' = effects, issuedOn' = issuedOn,
           \A k \in Call : outcome'[k] \in {"none", "logic_error"} <=>
                               outcome[k] \in {"none", "logic_error"}
    PROVE  AccountsKept
<1>1. \A y \in Context : \A r \in Requests(y)' : r.call \in Call => r \in Requests(y)
  BY DEF Requests, Untouched
<1>2. \A y \in Context : \A a \in Replies(y)' : a.call \in Call => a \in Replies(y)
  BY DEF Replies, Untouched
<1>3. \A y \in Context : Distinct(obuf[y])' /\ Distinct(net[y])' /\ Apart(obuf[y], net[y])'
  <2> SUFFICES ASSUME NEW y \in Context, y # x
               PROVE  Distinct(obuf[y])' /\ Distinct(net[y])' /\ Apart(obuf[y], net[y])'
    OBVIOUS
  <2>1. obuf'[y] = obuf[y] /\ net'[y] = net[y]
    BY DEF Untouched
  <2>. QED
    BY <2>1 DEF Accounted, Distinct, Apart
<1>4. Accounted'
  <2>1. \A y \in Context : \A r \in Requests(y)' \cup Replies(y)' : r.call \in Call =>
            issuedOn'[r.call] = y /\ outcome'[r.call] \notin {"none", "logic_error"}
    BY <1>1, <1>2 DEF Accounted
  <2>2. \A y \in Context : \A r \in Requests(y)' : r.call \in Call =>
            r.cmd \in Kinds /\ effects'[r.call] = 0
    BY <1>1 DEF Accounted
  <2>3. \A k \in Call : effects'[k] <= 1
    BY DEF Accounted
  <2>4. \A k \in Call : outcome'[k] \in {"none", "logic_error"} => effects'[k] = 0
    BY DEF Accounted
  <2>. QED
    BY <1>3, <2>1, <2>2, <2>3, <2>4 DEF Accounted
<1>5. ASSUME NEW a, Truthful(a)
      PROVE  Truthful(a)'
  <2>1. a.call \in Call /\ (\A y \in Context : \A r \in Requests(y) : r.call # a.call) =>
            \A y \in Context : \A r \in Requests(y)' : r.call # a.call
    BY <1>1
  <2>. QED
    BY <1>5, <2>1 DEF Truthful
<1>6. Truths'
  <2> SUFFICES ASSUME NEW y \in Context, NEW a \in Replies(y)', a.call \in Call
               PROVE  Truthful(a)'
    BY DEF Truths, Truthful
  <2>. QED
    BY <1>2, <1>5 DEF Truths
<1>. QED
  BY <1>4, <1>5, <1>6 DEF AccountsKept

\* The same for a step that leaves the queues as they are or empties them.
LEMMA NothingQueued ==
    ASSUME TypeOK, Accounted, Truths, NEW x \in Context,
           \A y \in Context : y # x => Untouched(y),
           obuf'[x] = obuf[x] \/ obuf'[x] = <<>>, net'[x] = net[x] \/ net'[x] = <<>>,
           \A a \in Replies(x)' : a.call \in Call => a \in Replies(x),
           effects' = effects, issuedOn' = issuedOn,
           \A k \in Call : outcome'[k] \in {"none", "logic_error"} <=>
                               outcome[k] \in {"none", "logic_error"}
    PROVE  AccountsKept
<1>1. Distinct(obuf[x])' /\ Distinct(net[x])'
  BY EmptyRange DEF Accounted, Distinct
<1>2. Range(obuf[x])' \subseteq Range(obuf[x]) /\ Range(net[x])' \subseteq Range(net[x])
  BY EmptyRange
<1>3. Apart(obuf[x], net[x])'
  BY <1>2 DEF Accounted, Apart
<1>4. \A r \in Requests(x)' : r.call \in Call => r \in Requests(x)
  BY <1>2 DEF Requests
<1>. QED
  BY <1>1, <1>3, <1>4, NothingNew

\* A context that is given up takes its replies and its queue with it.
LEMMA FreedAccounts ==
    ASSUME TypeOK, Quiet, Accounted, Truths, NEW x \in Context, FreeContext(x),
           err' = err \/ err' = [err EXCEPT ![x] = TRUE],
           net' = net, session' = session,
           UNCHANGED <<callVars, ghostVars>>
    PROVE  AccountsKept
<1>1. \A y \in Context : y # x => Untouched(y)
  BY FreedQuiet
<1>2. obuf'[x] = <<>> /\ inbox'[x] = <<>> /\ reader'[x] = <<>>
  BY FreeType
<1>3. Replies(x)' = {}
  BY <1>2, EmptyRange DEF Replies
<1>. QED
  BY <1>1, <1>2, <1>3, NothingQueued DEF callVars, ghostVars

\* The constructor's own commands are no calls.
LEMMA ProceedAccounts ==
    ASSUME TypeOK, Accounted, Truths, NEW o \in Object, NEW x \in Context,
           NEW steps \in Seq(Handshake), Proceed(o, x, steps),
           \A y \in Context : y # x => Untouched(y),
           net' = net, \A a \in Replies(x)' : a.call \in Call => a \in Replies(x),
           UNCHANGED <<callVars, ghostVars>>
    PROVE  AccountsKept
<1>1. obuf'[x] = obuf[x] \/ \E p \in Handshake : obuf'[x] = Append(obuf[x], HandshakeRequest(p))
  BY ProceedType DEF Handshake
<1>2. CASE obuf'[x] = obuf[x]
  BY <1>2, NothingQueued DEF callVars, ghostVars
<1>3. ASSUME NEW p \in Handshake, obuf'[x] = Append(obuf[x], HandshakeRequest(p))
      PROVE  AccountsKept
  <2> DEFINE e == HandshakeRequest(p)
  <2>1. e \in Request /\ e.call \notin Call
    BY ConstantsAssumption DEF HandshakeRequest, Request
  <2>2. obuf[x] \in Seq(Request) /\ Distinct(obuf[x])
    BY DEF TypeOK, Accounted
  <2> HIDE DEF e
  <2>3. Range(obuf'[x]) = Range(obuf[x]) \cup {e} /\ Distinct(obuf'[x])
    <3>1. obuf'[x] = Append(obuf[x], e)
      BY <1>3 DEF e
    <3>. QED
      BY <2>1, <2>2, <3>1, AppendRange
  <2>4. Distinct(obuf[x])' /\ Distinct(net[x])'
    BY <2>3 DEF Accounted, Distinct
  <2>5. Apart(obuf[x], net[x])'
    BY <2>1, <2>3 DEF Accounted, Apart
  <2>6. \A r \in Requests(x)' : r.call \in Call => r \in Requests(x)
    BY <2>1, <2>3 DEF Requests
  <2>. QED
    BY <2>4, <2>5, <2>6, NothingNew DEF callVars, ghostVars
<1>. QED
  BY <1>1, <1>2, <1>3

LEMMA ConstructorAccounts ==
    ASSUME IInv, Accounted, Truths, NEW o \in Object,
           \/ \E x \in Context, cfg \in Configs : Connect(o, x, cfg)
           \/ \E x \in Context : ConnectFails(o, x)
           \/ HandshakeOk(o) \/ HandshakeRefused(o) \/ ConstructorThrows(o)
    PROVE  AccountsKept
<1> USE DEF IInv
<1>1. ASSUME NEW x \in Context, NEW cfg \in Configs, Connect(o, x, cfg)
      PROVE  AccountsKept
  <2>1. \A y \in Context : y # x => Untouched(y)
    BY <1>1, ConnectQuiet
  <2>2. Replies(x)' = Replies(x)
    BY <1>1 DEF Connect, Replies
  <2>. QED
    BY <1>1, <2>1, <2>2, PendingType, ProceedAccounts DEF Connect
<1>2. ASSUME NEW x \in Context, ConnectFails(o, x)
      PROVE  AccountsKept
  <2>1. \A y \in Context : y # x => Untouched(y)
    BY <1>2, ConnectQuiet
  <2>2. Replies(x)' = Replies(x) /\ obuf' = obuf /\ net' = net
    BY <1>2 DEF ConnectFails, Replies, srvVars
  <2>. QED
    BY <1>2, <2>1, <2>2, NothingQueued DEF ConnectFails, callVars, ghostVars
<1>3. CASE HandshakeOk(o)
  <2>1. PICK x \in Context : x = context[o]
    BY <1>3, UsesOwn DEF ClientStep
  <2> DEFINE steps == IF phase[o] = "auth" THEN Pending(config[x], "select") ELSE <<>>
  <2>2. <<>> \in Seq(Handshake) /\ Proceed(o, x, steps)
    BY <1>3, <2>1 DEF HandshakeOk
  <2>3. steps \in Seq(Handshake)
    BY <2>2, PendingType
  <2>4. /\ reader[x] # <<>> /\ reader'[x] = Tail(reader[x]) /\ inbox' = inbox /\ net' = net
        /\ UNCHANGED <<callVars, ghostVars>>
    BY <1>3, <2>1 DEF HandshakeOk, TypeOK, srvVars
  <2>5. \A y \in Context : y # x => Untouched(y)
    BY <1>3, <2>1, ObjectQuiet DEF ClientStep
  <2>6. Replies(x)' \subseteq Replies(x)
    <3>1. reader[x] \in Seq(Reply)
      BY DEF TypeOK
    <3>. QED
      BY <2>4, <3>1, TailRange DEF Replies
  <2> HIDE DEF steps
  <2>. QED
    BY <2>2, <2>3, <2>4, <2>5, <2>6, ProceedAccounts
<1>4. CASE HandshakeRefused(o) \/ ConstructorThrows(o)
  <2> DEFINE x == context[o]
  <2>1. x \in Context
    BY <1>4, UsesOwn DEF ClientStep
  <2>2. /\ FreeContext(x) /\ net' = net /\ session' = session
        /\ err' = err \/ err' = [err EXCEPT ![x] = TRUE]
        /\ UNCHANGED <<callVars, ghostVars>>
    BY <1>4 DEF HandshakeRefused, ConstructorThrows
  <2> HIDE DEF x
  <2>. QED
    BY <2>1, <2>2, FreedAccounts
<1>. QED
  BY <1>1, <1>2, <1>3, <1>4

LEMMA MoveAccounts ==
    ASSUME IInv, Accounted, Truths, NEW o \in Object, Destroy(o) \/ \E p \in Object : Move(o, p)
    PROVE  AccountsKept
<1> USE DEF IInv
<1>1. PICK p \in Object :
          /\ err' = err /\ net' = net /\ session' = session
          /\ UNCHANGED <<callVars, ghostVars>>
          /\ IF context[p] = NoContext THEN UNCHANGED <<life, link, obuf, reader, inbox>>
             ELSE FreeContext(context[p])
  BY DEF Destroy, Move
<1>2. CASE context[p] = NoContext
  <2>1. /\ Requests(NoContext)' = Requests(NoContext)
        /\ \A y \in Context : Requests(y)' = Requests(y) /\ Replies(y)' = Replies(y)
        /\ obuf' = obuf /\ net' = net /\ reader' = reader /\ inbox' = inbox
        /\ effects' = effects /\ outcome' = outcome /\ issuedOn' = issuedOn
    BY <1>1, <1>2 DEF Requests, Replies, callVars, ghostVars
  <2>2. Accounted'
    BY <2>1 DEF Accounted, Distinct, Apart
  <2>3. \A a : Truthful(a)' = Truthful(a)
    BY <2>1 DEF Truthful
  <2>. QED
    BY <2>1, <2>2, <2>3 DEF AccountsKept, Truths
<1>3. CASE context[p] # NoContext
  <2>1. context[p] \in Context /\ FreeContext(context[p])
    BY <1>1, <1>3 DEF TypeOK
  <2>. QED
    BY <1>1, <2>1, FreedAccounts
<1>. QED
  BY <1>2, <1>3

\* A new call is queued behind what is there, none of which is for it.
LEMMA ExecAccounts ==
    ASSUME IInv, Accounted, Truths, NEW o \in Object, NEW k \in Call, NEW c \in Commands,
           Exec(o, k, c)
    PROVE  AccountsKept
<1> USE DEF IInv
<1>1. PICK x \in Context : x = context[o]
  BY UsesOwn
<1> DEFINE e == [cmd |-> c, call |-> k]
<1>2. /\ outcome[k] = "none"
      /\ outcome' = [outcome EXCEPT ![k] = "pending"]
      /\ issuedOn' = [issuedOn EXCEPT ![k] = x]
      /\ obuf' = [obuf EXCEPT ![x] = Append(obuf[x], e)]
      /\ net' = net /\ inbox' = inbox /\ reader' = reader /\ effects' = effects
  BY <1>1 DEF Exec, srvVars, ghostVars
<1>3. e \in Request /\ e.call = k /\ e.cmd \in Kinds
  BY ConstantsAssumption DEF Request
<1> HIDE DEF e
<1>4. \A y \in Context : \A r \in Requests(y) \cup Replies(y) : r.call # k
  BY <1>2 DEF Accounted
<1>5. /\ outcome'[k] = "pending" /\ issuedOn'[k] = x
      /\ \A m \in Call : m # k => outcome'[m] = outcome[m] /\ issuedOn'[m] = issuedOn[m]
  BY <1>2 DEF TypeOK
<1>6. obuf'[x] = Append(obuf[x], e) /\ \A y \in Context : y # x => obuf'[y] = obuf[y]
  BY <1>2 DEF TypeOK
<1>7. Range(obuf'[x]) = Range(obuf[x]) \cup {e} /\ Distinct(obuf'[x])
  <2>1. obuf[x] \in Seq(Request) /\ Distinct(obuf[x])
    BY DEF TypeOK, Accounted
  <2>2. \A r \in Range(obuf[x]) : r.call # e.call
    BY <1>3, <1>4 DEF Requests
  <2>. QED
    BY <1>3, <1>6, <2>1, <2>2, AppendRange
<1>8. \A y \in Context : \A r \in Requests(y)' : r \in Requests(y) \/ (y = x /\ r = e)
  BY <1>2, <1>6, <1>7 DEF Requests
<1>9. \A y \in Context : Replies(y)' = Replies(y)
  BY <1>2 DEF Replies
<1>10. Accounted'
  <2>1. \A y \in Context : \A r \in Requests(y)' \cup Replies(y)' : r.call \in Call =>
            issuedOn'[r.call] = y /\ outcome'[r.call] \notin {"none", "logic_error"}
    BY <1>3, <1>4, <1>5, <1>8, <1>9 DEF Accounted
  <2>2. \A y \in Context : \A r \in Requests(y)' : r.call \in Call =>
            r.cmd \in Kinds /\ effects'[r.call] = 0
    BY <1>2, <1>3, <1>8 DEF Accounted
  <2>3. \A y \in Context : Distinct(obuf[y])' /\ Distinct(net[y])' /\ Apart(obuf[y], net[y])'
    <3>1. Distinct(obuf[x])'
      BY <1>7 DEF Distinct
    <3>2. \A r \in Range(net[x]) : r.call # k
      BY <1>4 DEF Requests
    <3>3. Apart(obuf[x], net[x])'
      BY <1>2, <1>3, <1>7, <3>2 DEF Accounted, Apart
    <3>. QED
      BY <1>2, <1>6, <3>1, <3>3 DEF Accounted, Distinct, Apart
  <2>4. \A m \in Call : effects'[m] <= 1
    BY <1>2 DEF Accounted
  <2>5. \A m \in Call : outcome'[m] \in {"none", "logic_error"} => effects'[m] = 0
    BY <1>2, <1>5 DEF Accounted
  <2>. QED
    BY <2>1, <2>2, <2>3, <2>4, <2>5 DEF Accounted
<1>11. ASSUME NEW a, Truthful(a), a.call \in Call => outcome[a.call] # "none"
       PROVE  Truthful(a)'
  <2>1. a.call \in Call => a.call # k
    BY <1>2, <1>11
  <2>. QED
    BY <1>2, <1>3, <1>8, <1>11, <2>1 DEF Truthful
<1>12. Truths'
  BY <1>9, <1>11 DEF Truths, Accounted
<1>. QED
  BY <1>10, <1>11, <1>12 DEF AccountsKept

LEMMA WriteAccounts ==
    ASSUME IInv, Accounted, Truths, NEW o \in Object, Write(o)
    PROVE  AccountsKept
<1> USE DEF IInv
<1>1. PICK x \in Context : x = context[o]
  BY UsesOwn DEF ClientStep
<1>2. \A y \in Context : y # x => Untouched(y)
  BY <1>1, ObjectQuiet DEF ClientStep
<1> DEFINE h == Head(obuf[x])
<1>3. /\ obuf[x] # <<>> /\ obuf'[x] = Tail(obuf[x])
      /\ net'[x] = net[x] \/ net'[x] = Append(net[x], h)
      /\ inbox' = inbox /\ reader' = reader
      /\ effects' = effects /\ outcome' = outcome /\ issuedOn' = issuedOn
  BY <1>1 DEF Write, TypeOK, callVars, ghostVars
<1>4. obuf[x] \in Seq(Request) /\ net[x] \in Seq(Request)
  BY DEF TypeOK
<1>5. /\ h \in Range(obuf[x]) /\ h \in Request /\ Range(obuf[x]) = Range(obuf'[x]) \cup {h}
      /\ Distinct(obuf'[x])
      /\ \A r \in Range(obuf'[x]) : r.call \in Call => r.call # h.call
  <2>1. Distinct(obuf[x])
    BY DEF Accounted
  <2>. QED
    BY <1>3, <1>4, <2>1, TailRange, RangeSeq
<1> HIDE DEF h
<1>6. Range(net'[x]) \subseteq Range(net[x]) \cup {h} /\ Distinct(net'[x])
  <2>1. Distinct(net[x])
    BY DEF Accounted
  <2>2. h.call \in Call => \A r \in Range(net[x]) : r.call # h.call
    BY <1>5 DEF Accounted, Apart
  <2>3. Range(Append(net[x], h)) = Range(net[x]) \cup {h} /\ Distinct(Append(net[x], h))
    BY <1>4, <1>5, <2>1, <2>2, AppendRange
  <2>. QED
    BY <1>3, <2>1, <2>3
<1>7. Distinct(obuf[x])' /\ Distinct(net[x])'
  BY <1>5, <1>6 DEF Distinct
<1>8. Apart(obuf[x], net[x])'
  BY <1>5, <1>6 DEF Accounted, Apart
<1>9. \A r \in Requests(x)' : r \in Requests(x)
  BY <1>5, <1>6 DEF Requests
<1>10. Replies(x)' = Replies(x)
  BY <1>3 DEF Replies
<1>. QED
  BY <1>2, <1>3, <1>7, <1>8, <1>9, <1>10, NothingNew

LEMMA AnswerAccounts ==
    ASSUME IInv, Accounted, Truths, NEW o \in Object, Busy(o),
           Read(o) \/ Return(o) \/ CallThrows(o)
    PROVE  AccountsKept
<1> USE DEF IInv
<1>1. PICK x \in Context : x = context[o]
  BY UsesOwn DEF ClientStep
<1>2. \A y \in Context : y # x => Untouched(y)
  BY <1>1, ObjectQuiet DEF ClientStep
<1>3. inbox[x] \in Seq(Reply) /\ reader[x] \in Seq(Reply)
  BY DEF TypeOK
<1>4. CASE Read(o)
  <2>1. /\ inbox[x] # <<>> /\ inbox'[x] = Tail(inbox[x])
        /\ reader'[x] = Append(reader[x], Head(inbox[x]))
        /\ obuf' = obuf /\ net' = net
        /\ effects' = effects /\ outcome' = outcome /\ issuedOn' = issuedOn
    BY <1>1, <1>4 DEF Read, TypeOK, callVars, ghostVars
  <2>2. /\ Range(inbox[x]) = Range(inbox'[x]) \cup {Head(inbox[x])} /\ Head(inbox[x]) \in Reply
    BY <1>3, <2>1, TailRange, RangeSeq
  <2>3. Range(reader'[x]) = Range(reader[x]) \cup {Head(inbox[x])}
    BY <1>3, <2>1, <2>2, AppendRange
  <2>4. Replies(x)' = Replies(x)
    BY <2>2, <2>3 DEF Replies
  <2>. QED
    BY <1>2, <2>1, <2>4, NothingQueued
<1>5. CASE Return(o) \/ CallThrows(o)
  <2>1. /\ phase[o] = "busy" /\ outcome[current[o]] = "pending" /\ current[o] \in Call
        /\ \E w \in {"value", "error", "threw"} : outcome' = [outcome EXCEPT ![current[o]] = w]
    BY <1>5 DEF Return, CallThrows, Converted, Busy, Owned
  <2>2. \A k \in Call : outcome'[k] \in {"none", "logic_error"} <=>
                            outcome[k] \in {"none", "logic_error"}
    BY <2>1 DEF TypeOK
  <2>3. /\ obuf' = obuf /\ net' = net /\ inbox' = inbox
        /\ effects' = effects /\ issuedOn' = issuedOn
        /\ reader'[x] = reader[x] \/ (reader[x] # <<>> /\ reader'[x] = Tail(reader[x]))
    BY <1>1, <1>5 DEF Return, CallThrows, TypeOK, srvVars, ghostVars
  <2>4. Replies(x)' \subseteq Replies(x)
    BY <1>3, <2>3, TailRange DEF Replies
  <2>. QED
    BY <1>2, <2>2, <2>3, <2>4, NothingQueued
<1>. QED
  BY <1>4, <1>5

LEMMA RejectAccounts ==
    ASSUME IInv, Accounted, Truths, NEW o \in Object, NEW k \in Call, ExecWithoutContext(o, k)
    PROVE  AccountsKept
<1>1. /\ outcome[k] = "none" /\ outcome' = [outcome EXCEPT ![k] = "logic_error"]
      /\ obuf' = obuf /\ net' = net /\ inbox' = inbox /\ reader' = reader
      /\ effects' = effects /\ issuedOn' = issuedOn
  BY DEF ExecWithoutContext, bufVars, srvVars, ghostVars
<1>2. \A m \in Call : /\ outcome'[m] \in {"none", "logic_error"} <=>
                             outcome[m] \in {"none", "logic_error"}
  BY <1>1 DEF IInv, TypeOK
<1>3. \A y \in Context : Requests(y)' = Requests(y) /\ Replies(y)' = Replies(y)
  BY <1>1 DEF Requests, Replies
<1>4. Accounted'
  BY <1>1, <1>2, <1>3 DEF Accounted, Distinct, Apart
<1>5. \A a : Truthful(a)' = Truthful(a)
  BY <1>1, <1>3 DEF Truthful
<1>. QED
  BY <1>3, <1>4, <1>5 DEF AccountsKept, Truths

\* The server takes a call once.
LEMMA TakeAccounts ==
    ASSUME TypeOK, Accounted, NEW x \in Context, NEW r, Take(x, r), obuf' = obuf
    PROVE  /\ r \in Requests(x) /\ r \in Request
           /\ \A y \in Context : \A s \in Requests(y)' :
                 s \in Requests(y) /\ (s.call \in Call => s.call # r.call)
           /\ \A y \in Context : Distinct(obuf[y])' /\ Distinct(net[y])' /\ Apart(obuf[y], net[y])'
<1>1. /\ r \in Request /\ net[x] # <<>> /\ r = Head(net[x]) /\ net'[x] = Tail(net[x])
      /\ \A y \in Context : y # x => net'[y] = net[y]
  BY TakeType DEF Take
<1>2. net[x] \in Seq(Request) /\ Distinct(net[x]) /\ Apart(obuf[x], net[x])
  BY DEF TypeOK, Accounted
<1>3. /\ r \in Range(net[x]) /\ Range(net'[x]) \subseteq Range(net[x]) /\ Distinct(net'[x])
      /\ \A s \in Range(net'[x]) : s.call \in Call => s.call # r.call
  BY <1>1, <1>2, TailRange
<1>4. ASSUME NEW y \in Context, NEW s \in Requests(y)'
      PROVE  s \in Requests(y) /\ (s.call \in Call => s.call # r.call)
  <2>1. s \in Requests(y)
    BY <1>1, <1>3, <1>4 DEF Requests
  <2>2. CASE y # x
    <3>1. r \in Requests(x)
      BY <1>3 DEF Requests
    <3>. QED
      BY <2>1, <2>2, <3>1 DEF Accounted
  <2>3. CASE y = x /\ s \in Range(net'[x])
    BY <1>3, <2>1, <2>3
  <2>4. CASE y = x /\ s \in Range(obuf[x])
    BY <1>2, <1>3, <2>1, <2>4 DEF Apart
  <2>. QED
    BY <1>4, <2>2, <2>3, <2>4 DEF Requests
<1>5. ASSUME NEW y \in Context
      PROVE  Distinct(obuf[y])' /\ Distinct(net[y])' /\ Apart(obuf[y], net[y])'
  <2>1. Distinct(obuf[y])'
    BY DEF Accounted, Distinct
  <2>2. Distinct(net[y])'
    BY <1>1, <1>3 DEF Accounted, Distinct
  <2>3. Range(net'[y]) \subseteq Range(net[y])
    BY <1>1, <1>3
  <2>4. Apart(obuf[y], net[y])'
    BY <2>3 DEF Accounted, Apart
  <2>. QED
    BY <2>1, <2>2, <2>4
<1>. QED
  BY <1>1, <1>3, <1>4, <1>5 DEF Requests

\* What the server does with a command it takes, and what it answers, keeps the
\* accounts: it executes it once or refuses it.
LEMMA ServedAccounts ==
    ASSUME TypeOK, Accounted, Truths, NEW x \in Context, NEW r, Take(x, r),
           NEW replies \in Seq(Reply), Answer(x, replies),
           UNCHANGED <<obuf, reader, outcome, issuedOn>>,
           \A k \in Call : effects'[k] = IF k = r.call THEN effects'[r.call] ELSE effects[k],
           \A a \in Range(replies) :
               /\ a.call = r.call
               /\ a.call \in Call =>
                     /\ a.type # "ok"
                     /\ effects'[r.call] = IF a.type = "error" THEN 0 ELSE 1,
           r.call \in Call => effects'[r.call] \in {0, 1}
    PROVE  AccountsKept
<1>1. /\ r \in Requests(x) /\ r \in Request
      /\ \A y \in Context : \A s \in Requests(y)' :
            s \in Requests(y) /\ (s.call \in Call => s.call # r.call)
      /\ \A y \in Context : Distinct(obuf[y])' /\ Distinct(net[y])' /\ Apart(obuf[y], net[y])'
  BY TakeAccounts
<1>2. r.call \in Call => /\ issuedOn[r.call] = x /\ effects[r.call] = 0
                         /\ outcome[r.call] \notin {"none", "logic_error"}
  BY <1>1 DEF Accounted
<1>3. \A y \in Context : \A a \in Replies(y)' :
          a \in Replies(y) \/ (y = x /\ a \in Range(replies))
  <2>1. Range(inbox'[x]) \subseteq Range(inbox[x]) \cup Range(replies)
    <3>1. inbox[x] \in Seq(Reply)
      BY DEF TypeOK
    <3>. QED
      BY <3>1, AnswerType, ConcatRange
  <2>2. \A y \in Context : y # x => inbox'[y] = inbox[y]
    BY AnswerType
  <2>. QED
    BY <2>1, <2>2 DEF Replies
<1>4. Accounted'
  <2>1. \A y \in Context : \A s \in Requests(y)' \cup Replies(y)' : s.call \in Call =>
            issuedOn'[s.call] = y /\ outcome'[s.call] \notin {"none", "logic_error"}
    BY <1>1, <1>2, <1>3 DEF Accounted
  <2>2. \A y \in Context : \A s \in Requests(y)' : s.call \in Call =>
            s.cmd \in Kinds /\ effects'[s.call] = 0
    BY <1>1 DEF Accounted
  <2>3. \A k \in Call : effects'[k] <= 1
    BY DEF Accounted
  <2>4. \A k \in Call : outcome'[k] \in {"none", "logic_error"} => effects'[k] = 0
    BY <1>2 DEF Accounted
  <2>. QED
    BY <1>1, <2>1, <2>2, <2>3, <2>4 DEF Accounted
<1>5. ASSUME NEW a, Truthful(a)
      PROVE  Truthful(a)'
  <2> SUFFICES ASSUME a.call \in Call PROVE Truthful(a)'
    BY DEF Truthful
  <2>1. a.call # r.call
    BY <1>1, <1>2, <1>5 DEF Truthful
  <2>2. effects'[a.call] = effects[a.call]
    BY <2>1
  <2>. QED
    BY <1>1, <1>5, <2>2 DEF Truthful
<1>6. ASSUME NEW a \in Range(replies)
      PROVE  Truthful(a)'
  <2> SUFFICES ASSUME a.call \in Call PROVE Truthful(a)'
    BY DEF Truthful
  <2>1. a.call = r.call /\ a.type # "ok"
    BY <1>6
  <2>2. \A y \in Context : \A s \in Requests(y)' : s.call # a.call
    BY <1>1, <2>1
  <2>. QED
    BY <1>6, <2>1, <2>2 DEF Truthful
<1>7. Truths'
  BY <1>3, <1>5, <1>6 DEF Truths
<1>. QED
  BY <1>4, <1>5, <1>7 DEF AccountsKept

LEMMA ServerAccounts ==
    ASSUME IInv, Accounted, Truths, NEW x \in Context,
           ServerStep(x) \/ Drop(x) \/ LoseCommands(x)
    PROVE  AccountsKept
<1> USE DEF IInv
<1>1. \A y \in Context : y # x => Untouched(y)
  BY ServerQuiet
<1>2. ASSUME NEW r \in Request, r.cmd \in {"AUTH", "SELECT"}, r \in Requests(x)
      PROVE  r.call \notin Call
  BY <1>2 DEF Accounted, Kinds
<1>3. ASSUME NEW r \in Request, NEW type \in {"ok", "error", "value", "unknown"}
      PROVE  /\ <<[type |-> type, call |-> r.call]>> \in Seq(Reply)
             /\ Range(<<[type |-> type, call |-> r.call]>>) = {[type |-> type, call |-> r.call]}
  <2>1. [type |-> type, call |-> r.call] \in Reply
    BY <1>3 DEF Request, Reply
  <2>. QED
    BY <2>1 DEF Range
<1>4. CASE ServeAuth(x) \/ ServeSelect(x)
  <2>1. PICK r \in Request, type \in {"ok", "error"} :
            /\ Take(x, r) /\ r.cmd \in {"AUTH", "SELECT"}
            /\ Answer(x, <<[type |-> type, call |-> r.call]>>)
    <3>1. CASE ServeAuth(x)
      BY <3>1 DEF ServeAuth
    <3>2. CASE ServeSelect(x)
      BY <3>2 DEF ServeSelect
    <3>. QED
      BY <1>4, <3>1, <3>2
  <2>2. UNCHANGED <<obuf, reader, outcome, issuedOn, effects>>
    BY <1>4 DEF ServeAuth, ServeSelect, bufVars, callVars, ghostVars
  <2>3. r.call \notin Call
    BY <1>2, <2>1, <2>2, TakeAccounts
  <2> DEFINE a == [type |-> type, call |-> r.call]
  <2>4. <<a>> \in Seq(Reply) /\ Range(<<a>>) = {a} /\ a.call = r.call
    BY <1>3, <2>1
  <2>5. Answer(x, <<a>>)
    BY <2>1
  <2> HIDE DEF a
  <2>. QED
    BY <2>1, <2>2, <2>3, <2>4, <2>5, ServedAccounts
<1>5. CASE ServeRefusal(x)
  <2>1. PICK r \in Request :
            Take(x, r) /\ r.call \in Call /\ Answer(x, <<[type |-> "error", call |-> r.call]>>)
    BY <1>5 DEF ServeRefusal
  <2>2. UNCHANGED <<obuf, reader, outcome, issuedOn, effects>>
    BY <1>5 DEF ServeRefusal, bufVars, callVars, ghostVars
  <2>3. effects[r.call] = 0
    BY <2>1, <2>2, TakeAccounts DEF Accounted
  <2> DEFINE a == [type |-> "error", call |-> r.call]
  <2>4. <<a>> \in Seq(Reply) /\ Range(<<a>>) = {a} /\ a.call = r.call /\ a.type = "error"
    BY <1>3, <2>1
  <2>5. Answer(x, <<a>>)
    BY <2>1
  <2> HIDE DEF a
  <2>. QED
    BY <2>1, <2>2, <2>3, <2>4, <2>5, ServedAccounts
<1>6. CASE ServeCommand(x)
  <2>1. PICK r \in Request :
            /\ Take(x, r) /\ r.call \in Call
            /\ effects' = [effects EXCEPT ![r.call] = @ + 1]
            /\ Answer(x, RepliesTo(r))
    BY <1>6 DEF ServeCommand
  <2>2. UNCHANGED <<obuf, reader, outcome, issuedOn>>
    BY <1>6 DEF ServeCommand, bufVars, callVars
  <2>3. effects[r.call] = 0
    BY <2>1, <2>2, TakeAccounts DEF Accounted
  <2>4. effects'[r.call] = 1 /\ \A k \in Call : k # r.call => effects'[k] = effects[k]
    BY <2>1, <2>3 DEF TypeOK
  <2>5. RepliesTo(r) \in Seq(Reply)
    BY RepliesType
  <2>6. \A a \in Range(RepliesTo(r)) : a.call = r.call /\ a.type \in {"value", "unknown"}
    BY DEF RepliesTo, Range
  <2>. QED
    BY <2>1, <2>2, <2>4, <2>5, <2>6, ServedAccounts
<1>7. CASE Drop(x) \/ LoseCommands(x)
  <2>1. /\ obuf' = obuf /\ reader' = reader
        /\ net'[x] = net[x] \/ net'[x] = <<>>
        /\ inbox'[x] = inbox[x] \/ inbox'[x] = <<>>
        /\ effects' = effects /\ outcome' = outcome /\ issuedOn' = issuedOn
    BY <1>7 DEF Drop, LoseCommands, TypeOK, bufVars, callVars, ghostVars
  <2>2. Replies(x)' \subseteq Replies(x)
    BY <2>1, EmptyRange DEF Replies
  <2>. QED
    BY <1>1, <2>1, <2>2, NothingQueued
<1>. QED
  BY <1>4, <1>5, <1>6, <1>7 DEF ServerStep

\* Every step keeps the accounts.
LEMMA AccountsStep ==
    ASSUME IInv, Accounted, Truths, \A o \in Object : Busy(o), Next
    PROVE  AccountsKept
BY ConstructorAccounts, MoveAccounts, ExecAccounts, WriteAccounts, AnswerAccounts,
   RejectAccounts, ServerAccounts DEF Next, ClientStep
-----------------------------------------------------------------------------
(* One call at a time. *)

\* Lengths add up.
LEMMA SumType ==
    ASSUME NEW a \in Nat, NEW b \in Nat, NEW c \in Nat, NEW d \in Nat
    PROVE  /\ a + b + c + d \in Nat
           /\ a + b + c + d = 0 => a = 0 /\ b = 0 /\ c = 0 /\ d = 0
OBVIOUS

LEMMA SumMoves ==
    ASSUME NEW a \in Nat, NEW b \in Nat, NEW c \in Nat, NEW d \in Nat, NEW n \in Nat
    PROVE  /\ n \in {b, b + 1} => (a - 1) + n + c + d <= a + b + c + d
           /\ a + b + (c - 1) + (d + 1) <= a + b + c + d
           /\ \A m \in {c, c + 1} : n + 1 = b => a + n + m + d <= a + b + c + d
OBVIOUS

\* What is under way is counted, and there is nothing when the count is 0.
LEMMA LoadType ==
    ASSUME TypeOK, NEW x \in Context
    PROVE  /\ Load(x) \in Nat
           /\ Len(obuf[x]) \in Nat /\ Len(net[x]) \in Nat
           /\ Len(inbox[x]) \in Nat /\ Len(reader[x]) \in Nat
           /\ Load(x) = 0 => Requests(x) = {} /\ Replies(x) = {}
<1>1. /\ obuf[x] \in Seq(Request) /\ net[x] \in Seq(Request)
      /\ inbox[x] \in Seq(Reply) /\ reader[x] \in Seq(Reply)
  BY DEF TypeOK
<1>2. /\ Len(obuf[x]) \in Nat /\ Len(net[x]) \in Nat
      /\ Len(inbox[x]) \in Nat /\ Len(reader[x]) \in Nat
  BY <1>1
<1>3. ASSUME Load(x) = 0
      PROVE  Requests(x) = {} /\ Replies(x) = {}
  <2>1. Len(obuf[x]) = 0 /\ Len(net[x]) = 0 /\ Len(inbox[x]) = 0 /\ Len(reader[x]) = 0
    BY <1>2, <1>3, SumType DEF Load
  <2>2. obuf[x] = <<>> /\ net[x] = <<>> /\ inbox[x] = <<>> /\ reader[x] = <<>>
    BY <1>1, <2>1, RangeSeq
  <2>. QED
    BY <2>2, EmptyRange DEF Requests, Replies
<1>4. Load(x) \in Nat
  BY <1>2, SumType DEF Load
<1>. QED
  BY <1>2, <1>3, <1>4

\* The session remembers that a command had two replies.
LEMMA MultiStays ==
    ASSUME TypeOK, Next, NEW x \in Context, session[x].multi
    PROVE  session'[x].multi
<1>1. session[x] \in Session /\ session \in [Context -> Session]
  BY DEF TypeOK
<1>2. ASSUME NEW y \in Context, ServeAuth(y)
      PROVE  session'[x].multi
  BY <1>1, <1>2 DEF ServeAuth, Session
<1>3. ASSUME NEW y \in Context, ServeSelect(y)
      PROVE  session'[x].multi
  BY <1>1, <1>3 DEF ServeSelect, Session
<1>4. ASSUME NEW y \in Context, ServeCommand(y)
      PROVE  session'[x].multi
  <2>1. PICK r \in Request : session' = [session EXCEPT ![y] = SessionAfter(y, r)]
    BY <1>4 DEF ServeCommand
  <2>2. CASE y = x
    <3>1. session'[x] = SessionAfter(x, r)
      BY <1>1, <2>1, <2>2
    <3>. QED
      BY <1>1, <3>1 DEF SessionAfter, Session
  <2>. QED
    BY <1>1, <2>1, <2>2
<1>5. ASSUME session' = session
      PROVE  session'[x].multi
  BY <1>5
<1>6. ASSUME NEW y \in Context, ServeRefusal(y) \/ Drop(y) \/ LoseCommands(y)
      PROVE  session' = session
  BY <1>6 DEF ServeRefusal, Drop, LoseCommands
<1>7. ASSUME NEW o \in Object,
             \/ ClientStep(o) \/ Destroy(o) \/ \E p \in Object : Move(o, p)
             \/ \E y \in Context : ConnectFails(o, y) \/ \E cfg \in Configs : Connect(o, y, cfg)
             \/ \E k \in Call : ExecWithoutContext(o, k) \/ \E c \in Commands : Exec(o, k, c)
      PROVE  session' = session
  BY <1>7 DEF ClientStep, HandshakeOk, HandshakeRefused, Write, Read, Return, CallThrows,
              ConstructorThrows, Destroy, Move, ConnectFails, Connect, ExecWithoutContext,
              Exec, srvVars
<1>. QED
  BY <1>2, <1>3, <1>4, <1>5, <1>6, <1>7 DEF Next, ServerStep

\* A step that does not concern an object or its context.
LEMMA OneElsewhere ==
    ASSUME TypeOK, NEW o \in Object, OneAtATime(o),
           context'[o] = context[o], phase'[o] = phase[o], current'[o] = current[o],
           context[o] # NoContext => Untouched(context[o])
    PROVE  OneAtATime(o)'
<1>1. CASE context[o] = NoContext
  BY <1>1 DEF OneAtATime
<1>2. CASE context[o] # NoContext
  <2>1. PICK x \in Context : x = context[o]
    BY <1>2 DEF TypeOK
  <2>2. Load(x)' = Load(x) /\ Requests(x)' = Requests(x) /\ Replies(x)' = Replies(x)
    BY <1>2, <2>1 DEF Untouched, Load, Requests, Replies
  <2>. QED
    BY <1>2, <2>1, <2>2 DEF OneAtATime, Untouched, Waiting
<1>. QED
  BY <1>1, <1>2

\* A step that puts nothing more under way, for no other call.
LEMMA OneLess ==
    ASSUME TypeOK, TypeOK', NEW o \in Object, NEW x \in Context, context[o] = x, OneAtATime(o),
           context'[o] = context[o], phase'[o] = phase[o], current'[o] = current[o],
           err[x] => err'[x], session[x].multi => session'[x].multi,
           ~session'[x].multi => Load(x)' <= Load(x),
           \A r \in Requests(x)' \cup Replies(x)' :
               \E s \in Requests(x) \cup Replies(x) : r.call = s.call
    PROVE  OneAtATime(o)'
<1> SUFFICES ASSUME ~err'[x], ~session'[x].multi, x # NoContext
             PROVE  /\ Load(x)' <= IF Waiting(o)' THEN 1 ELSE 0
                    /\ \A r \in Requests(x)' \cup Replies(x)' : r.call = current'[o]
  BY DEF OneAtATime
<1>1. /\ Load(x) <= IF Waiting(o) THEN 1 ELSE 0
      /\ \A r \in Requests(x) \cup Replies(x) : r.call = current[o]
  BY DEF OneAtATime
<1>2. Load(x) \in Nat /\ Load(x)' \in Nat
  <2>1. Load(x) \in Nat
    BY LoadType
  <2>2. Load(x)' \in Nat
    <3>1. /\ obuf'[x] \in Seq(Request) /\ net'[x] \in Seq(Request)
          /\ inbox'[x] \in Seq(Reply) /\ reader'[x] \in Seq(Reply)
      BY DEF TypeOK
    <3>2. /\ Len(obuf'[x]) \in Nat /\ Len(net'[x]) \in Nat
          /\ Len(inbox'[x]) \in Nat /\ Len(reader'[x]) \in Nat
      BY <3>1
    <3>. QED
      BY <3>2, SumType DEF Load
  <2>. QED
    BY <2>1, <2>2
<1>3. Waiting(o)' = Waiting(o)
  BY DEF Waiting
<1>4. \A r \in Requests(x)' \cup Replies(x)' : r.call = current'[o]
  BY <1>1
<1>5. Load(x)' <= IF Waiting(o)' THEN 1 ELSE 0
  <2>1. CASE Waiting(o)
    BY <1>1, <1>2, <1>3, <2>1
  <2>2. CASE ~Waiting(o)
    BY <1>1, <1>2, <1>3, <2>2
  <2>. QED
    BY <2>1, <2>2
<1>. QED
  BY <1>4, <1>5

\* A context with nothing under way but the command of a call that was just made.
LEMMA OneFirst ==
    ASSUME NEW o \in Object, NEW x \in Context, context'[o] = x,
           net'[x] = <<>>, inbox'[x] = <<>>, reader'[x] = <<>>,
           \/ obuf'[x] = <<>>
           \/ /\ Waiting(o)'
              /\ \E h \in Request : obuf'[x] = Append(<<>>, h) /\ h.call = current'[o]
    PROVE  OneAtATime(o)'
<1>1. Replies(x)' = {} /\ Requests(x)' = Range(obuf'[x])
  BY EmptyRange DEF Replies, Requests
<1>2. Load(x)' = Len(obuf'[x]) + 0 + 0 + 0
  BY DEF Load
<1>3. CASE obuf'[x] = <<>>
  <2>1. Load(x)' = 0 /\ Requests(x)' = {}
    BY <1>1, <1>2, <1>3, EmptyRange
  <2>. QED
    BY <1>1, <2>1 DEF OneAtATime
<1>4. ASSUME Waiting(o)', NEW h \in Request, obuf'[x] = Append(<<>>, h), h.call = current'[o]
      PROVE  OneAtATime(o)'
  <2>1. PICK q \in Seq(Request) : q = <<>> /\ Len(q) = 0
    BY EmptySeq
  <2>2. Range(Append(q, h)) = Range(q) \cup {h} /\ Len(Append(q, h)) = Len(q) + 1
    BY <1>4, AppendRange
  <2>3. Range(obuf'[x]) = {h} /\ Load(x)' = 1
    BY <1>2, <1>4, <2>1, <2>2, EmptyRange
  <2>. QED
    BY <1>1, <1>4, <2>3 DEF OneAtATime
<1>. QED
  BY <1>3, <1>4

\* A reply that is there is the only thing under way, and is for the call.
LEMMA OneTaken ==
    ASSUME IInv, NEW o \in Object, NEW x \in Context, context[o] = x, OneAtATime(o),
           reader[x] # <<>>, ~session[x].multi
    PROVE  /\ obuf[x] = <<>> /\ net[x] = <<>> /\ inbox[x] = <<>> /\ Tail(reader[x]) = <<>>
           /\ Head(reader[x]).call = current[o]
<1> USE DEF IInv
<1>1. ~err[x] /\ x # NoContext
  BY ConstantsAssumption DEF Quiet
<1>2. /\ Load(x) <= 1
      /\ \A r \in Requests(x) \cup Replies(x) : r.call = current[o]
  <2>1. Load(x) \in Nat
    BY LoadType
  <2>2. Load(x) <= IF Waiting(o) THEN 1 ELSE 0
    BY <1>1 DEF OneAtATime
  <2>3. Load(x) <= 1
    BY <2>1, <2>2
  <2>. QED
    BY <1>1, <2>3 DEF OneAtATime
<1>3. /\ obuf[x] \in Seq(Request) /\ net[x] \in Seq(Request)
      /\ inbox[x] \in Seq(Reply) /\ reader[x] \in Seq(Reply)
  BY DEF TypeOK
<1>4. Len(reader[x]) \in Nat \ {0}
  BY <1>3, EmptySeq
<1>5. /\ Head(reader[x]) \in Range(reader[x]) /\ Tail(reader[x]) \in Seq(Reply)
      /\ Len(Tail(reader[x])) = Len(reader[x]) - 1
  BY <1>3, TailRange, HeadTailProperties
<1>6. Len(obuf[x]) = 0 /\ Len(net[x]) = 0 /\ Len(inbox[x]) = 0 /\ Len(reader[x]) = 1
  <2>1. ASSUME NEW a \in Nat, NEW b \in Nat, NEW c \in Nat, NEW d \in Nat \ {0},
               a + b + c + d <= 1
        PROVE  a = 0 /\ b = 0 /\ c = 0 /\ d = 1
    BY <2>1
  <2>. QED
    BY <1>2, <1>4, <2>1, LoadType DEF Load
<1>7. obuf[x] = <<>> /\ net[x] = <<>>
  <2>1. obuf[x] = <<>>
    BY <1>3, <1>6, RangeSeq
  <2>2. net[x] = <<>>
    BY <1>3, <1>6, RangeSeq
  <2>. QED
    BY <2>1, <2>2
<1>8. inbox[x] = <<>> /\ Tail(reader[x]) = <<>>
  <2>1. inbox[x] = <<>>
    BY <1>3, <1>6, RangeSeq
  <2>2. Len(Tail(reader[x])) = 0
    BY <1>5, <1>6
  <2>3. Tail(reader[x]) = <<>>
    BY <1>5, <2>2, RangeSeq
  <2>. QED
    BY <2>1, <2>3
<1>9. Head(reader[x]).call = current[o]
  BY <1>2, <1>5 DEF Replies
<1>. QED
  BY <1>7, <1>8, <1>9

\* A step of one object leaves the others as they are.
LEMMA OneOthers ==
    ASSUME TypeOK, Owned, \A q \in Object : OneAtATime(q),
           NEW o \in Object, OneAtATime(o)',
           \A q \in Object : q # o =>
               context'[q] = context[q] /\ phase'[q] = phase[q] /\ current'[q] = current[q],
           \A y \in Context : (\A p \in Object : p # o => context[p] # y) \/ Untouched(y)
    PROVE  \A q \in Object : OneAtATime(q)'
<1> SUFFICES ASSUME NEW q \in Object, q # o
             PROVE  OneAtATime(q)'
  OBVIOUS
<1>1. context[q] # NoContext => Untouched(context[q])
  BY DEF TypeOK
<1>. QED
  BY <1>1, OneElsewhere

\* The constructor appends its next command to a context with nothing under way.
LEMMA OneProceed ==
    ASSUME TypeOK, NEW o \in Object, NEW x \in Context, NEW steps \in Seq(Handshake),
           Proceed(o, x, steps), context'[o] = x, current'[o] = NoCall,
           obuf[x] = <<>>, net'[x] = <<>>, inbox'[x] = <<>>, reader'[x] = <<>>
    PROVE  OneAtATime(o)'
<1>1. /\ phase'[o] \in Handshake \cup {"live"}
      /\ obuf'[x] = IF phase'[o] = "live" THEN obuf[x]
                    ELSE Append(obuf[x], HandshakeRequest(phase'[o]))
  BY ProceedType
<1>2. CASE phase'[o] = "live"
  BY <1>1, <1>2, OneFirst
<1>3. CASE phase'[o] # "live"
  <2> DEFINE h == HandshakeRequest(phase'[o])
  <2>1. h \in Request /\ h.call = current'[o]
    BY DEF HandshakeRequest, Request
  <2>2. Waiting(o)'
    BY <1>1, <1>3 DEF Waiting
  <2>3. obuf'[x] = Append(<<>>, h)
    BY <1>1, <1>3
  <2> HIDE DEF h
  <2>4. \E g \in Request : obuf'[x] = Append(<<>>, g) /\ g.call = current'[o]
    BY <2>1, <2>3
  <2>. QED
    BY <2>2, <2>4, OneFirst
<1>. QED
  BY <1>2, <1>3

\* Connects and handshakes.
LEMMA OneConnects ==
    ASSUME IInv, \A q \in Object : OneAtATime(q) /\ Busy(q), NEW o \in Object,
           \/ \E x \in Context, cfg \in Configs : Connect(o, x, cfg)
           \/ \E x \in Context : ConnectFails(o, x)
           \/ HandshakeOk(o)
    PROVE  \A q \in Object : OneAtATime(q)'
<1> USE DEF IInv
<1>1. ASSUME NEW x \in Context, NEW cfg \in Configs, Connect(o, x, cfg)
      PROVE  \A q \in Object : OneAtATime(q)'
  <2>1. /\ phase[o] = "none" /\ life[x] = "fresh" /\ Proceed(o, x, Pending(cfg, "auth"))
        /\ context' = [context EXCEPT ![o] = x]
        /\ UNCHANGED <<current, err, reader, net, inbox, session>>
    BY <1>1 DEF Connect
  <2>2. /\ context'[o] = x /\ current'[o] = NoCall
        /\ \A q \in Object : q # o => context'[q] = context[q] /\ current'[q] = current[q]
    BY <2>1 DEF TypeOK, Busy
  <2>3. /\ obuf[x] = <<>> /\ net'[x] = <<>> /\ inbox'[x] = <<>> /\ reader'[x] = <<>>
    BY <2>1 DEF Quiet
  <2>4. \A q \in Object : q # o => phase'[q] = phase[q]
    BY <2>1, PendingType, ProceedType
  <2>5. \A y \in Context : y # x => Untouched(y)
    BY <1>1, ConnectQuiet
  <2>6. \A p \in Object : context[p] # x
    BY <2>1, ConstantsAssumption DEF Owned
  <2>7. OneAtATime(o)'
    BY <2>1, <2>2, <2>3, PendingType, OneProceed
  <2>. QED
    BY <2>2, <2>4, <2>5, <2>6, <2>7, OneOthers
<1>2. ASSUME NEW x \in Context, ConnectFails(o, x)
      PROVE  \A q \in Object : OneAtATime(q)'
  <2>1. life[x] = "fresh" /\ context' = context /\ phase' = phase /\ current' = current
    BY <1>2 DEF ConnectFails, objVars
  <2>2. \A p \in Object : context[p] # x
    BY <2>1, ConstantsAssumption DEF Owned
  <2>3. \A y \in Context : y # x => Untouched(y)
    BY <1>2, ConnectQuiet
  <2>4. \A q \in Object : context[q] # NoContext => Untouched(context[q])
    BY <2>2, <2>3 DEF TypeOK
  <2>. QED
    BY <2>1, <2>4, OneElsewhere
<1>3. CASE HandshakeOk(o)
  <2>1. PICK x \in Context : x = context[o]
    BY <1>3, UsesOwn DEF ClientStep
  <2> DEFINE steps == IF phase[o] = "auth" THEN Pending(config[x], "select") ELSE <<>>
  <2>2. <<>> \in Seq(Handshake) /\ Proceed(o, x, steps) /\ phase[o] \in Handshake
    BY <1>3, <2>1 DEF HandshakeOk
  <2>3. steps \in Seq(Handshake)
    BY <2>2, PendingType
  <2> HIDE DEF steps
  <2>4. /\ reader[x] # <<>> /\ reader'[x] = Tail(reader[x]) /\ inbox' = inbox /\ net' = net
        /\ context' = context /\ current' = current /\ session' = session
    BY <1>3, <2>1 DEF HandshakeOk, TypeOK, srvVars
  <2>5. current'[o] = NoCall
    BY <2>2, <2>4 DEF Busy, Handshake
  <2>6. OneAtATime(o)'
    <3>1. CASE session[x].multi
      BY <2>1, <2>4, <3>1 DEF OneAtATime
    <3>2. CASE ~session[x].multi
      <4>1. obuf[x] = <<>> /\ net[x] = <<>> /\ inbox[x] = <<>> /\ Tail(reader[x]) = <<>>
        BY <2>1, <2>4, <3>2, OneTaken
      <4>. QED
        BY <2>1, <2>2, <2>3, <2>4, <2>5, <4>1, OneProceed
    <3>. QED
      BY <3>1, <3>2
  <2>7. \A q \in Object : q # o => phase'[q] = phase[q]
    BY <2>2, <2>3, ProceedType
  <2>8. \A y \in Context : (\A p \in Object : p # o => context[p] # y) \/ Untouched(y)
    <3>1. \A y \in Context : y # x => Untouched(y)
      BY <1>3, <2>1, ObjectQuiet DEF ClientStep
    <3>2. \A p \in Object : p # o => context[p] # x
      BY <2>1, ConstantsAssumption DEF Owned
    <3>. QED
      BY <3>1, <3>2
  <2>. QED
    BY <2>4, <2>6, <2>7, <2>8, OneOthers
<1>. QED
  BY <1>1, <1>2, <1>3

\* Objects that give their context up or hand it on.
LEMMA OneMoves ==
    ASSUME IInv, \A q \in Object : OneAtATime(q) /\ Busy(q), NEW o \in Object,
           \/ HandshakeRefused(o) \/ ConstructorThrows(o)
           \/ Destroy(o) \/ \E p \in Object : Move(o, p)
    PROVE  \A q \in Object : OneAtATime(q)'
<1> USE DEF IInv
<1>1. ASSUME NEW p \in Object, net' = net, session' = session,
             err' = err \/ err' = [err EXCEPT ![context[p]] = TRUE],
             context[p] # NoContext \/ err' = err,
             IF context[p] = NoContext THEN UNCHANGED <<life, link, obuf, reader, inbox>>
             ELSE FreeContext(context[p])
      PROVE  \A q \in Object : q # p /\ context[q] # NoContext => Untouched(context[q])
  <2>1. CASE context[p] = NoContext
    BY <1>1, <2>1 DEF Untouched
  <2>2. CASE context[p] # NoContext
    <3>1. PICK x \in Context : x = context[p]
      BY <2>2 DEF TypeOK
    <3>2. \A y \in Context : y # x => Untouched(y)
      BY <1>1, <2>2, <3>1, FreedQuiet
    <3>3. \A q \in Object : q # p => context[q] # x
      BY <2>2, <3>1 DEF Owned
    <3>. QED
      BY <3>2, <3>3 DEF TypeOK
  <2>. QED
    BY <2>1, <2>2
<1>2. CASE HandshakeRefused(o) \/ ConstructorThrows(o) \/ Destroy(o)
  <2>1. /\ phase' = [phase EXCEPT ![o] = "none"] /\ context' = [context EXCEPT ![o] = NoContext]
        /\ current' = current /\ net' = net /\ session' = session
        /\ err' = err \/ err' = [err EXCEPT ![context[o]] = TRUE]
    BY <1>2 DEF HandshakeRefused, ConstructorThrows, Destroy
  <2>2. /\ context[o] # NoContext \/ err' = err
        /\ IF context[o] = NoContext THEN UNCHANGED <<life, link, obuf, reader, inbox>>
           ELSE FreeContext(context[o])
    <3>1. CASE Destroy(o)
      BY <3>1 DEF Destroy
    <3>2. CASE HandshakeRefused(o) \/ ConstructorThrows(o)
      <4>1. context[o] \in Context /\ FreeContext(context[o])
        BY <3>2, UsesOwn DEF ClientStep, HandshakeRefused, ConstructorThrows
      <4>. QED
        BY <4>1, ConstantsAssumption
    <3>. QED
      BY <1>2, <3>1, <3>2
  <2>3. /\ context'[o] = NoContext
        /\ \A q \in Object : q # o => context'[q] = context[q] /\ phase'[q] = phase[q]
    BY <2>1 DEF TypeOK
  <2>4. OneAtATime(o)'
    BY <2>3 DEF OneAtATime
  <2>5. \A q \in Object : q # o /\ context[q] # NoContext => Untouched(context[q])
    BY <1>1, <2>1, <2>2
  <2>6. ASSUME NEW q \in Object, q # o
        PROVE  OneAtATime(q)'
    BY <2>1, <2>3, <2>5, <2>6, OneElsewhere
  <2>. QED
    BY <2>4, <2>6
<1>3. ASSUME NEW p \in Object, Move(o, p)
      PROVE  \A q \in Object : OneAtATime(q)'
  <2>1. /\ o # p /\ phase[o] = "live" /\ phase[p] \in {"none", "live"} /\ current' = current
        /\ err' = err /\ net' = net /\ session' = session
        /\ phase' = [phase EXCEPT ![p] = "live"]
        /\ context' = [context EXCEPT ![p] = context[o], ![o] = NoContext]
        /\ IF context[p] = NoContext THEN UNCHANGED <<life, link, obuf, reader, inbox>>
           ELSE FreeContext(context[p])
    BY <1>3 DEF Move
  <2>2. /\ phase'[p] = "live" /\ context'[p] = context[o] /\ context'[o] = NoContext
        /\ \A q \in Object : q \notin {o, p} => context'[q] = context[q] /\ phase'[q] = phase[q]
    BY <2>1 DEF TypeOK
  <2>3. \A q \in Object : q # p /\ context[q] # NoContext => Untouched(context[q])
    BY <1>1, <2>1
  <2>4. OneAtATime(o)'
    BY <2>2 DEF OneAtATime
  <2>5. OneAtATime(p)'
    <3> SUFFICES ASSUME context[o] # NoContext
                 PROVE  OneAtATime(p)'
      BY <2>2 DEF OneAtATime
    <3>1. PICK x \in Context : x = context[o]
      BY DEF TypeOK
    <3>2. Untouched(x)
      BY <2>1, <2>3, <3>1
    <3>3. Load(x)' = Load(x) /\ Requests(x)' = Requests(x) /\ Replies(x)' = Replies(x)
      BY <3>2 DEF Untouched, Load, Requests, Replies
    <3>4. current[o] = NoCall /\ current[p] = NoCall
      BY <2>1 DEF Busy
    <3>5. ~Waiting(o) /\ ~Waiting(p)'
      BY <2>1, <2>2 DEF Waiting, Handshake
    <3>6. ~err[x] /\ ~session[x].multi =>
              Load(x) <= 0 /\ \A r \in Requests(x) \cup Replies(x) : r.call = NoCall
      BY <3>1, <3>4, <3>5 DEF OneAtATime
    <3>. QED
      <4>1. /\ context'[p] = x /\ current'[p] = NoCall
            /\ err'[x] = err[x] /\ session'[x] = session[x]
        BY <2>1, <2>2, <3>1, <3>2, <3>4 DEF Untouched
      <4>. QED
        BY <3>3, <3>5, <3>6, <4>1 DEF OneAtATime
  <2>6. ASSUME NEW q \in Object, q \notin {o, p}
        PROVE  OneAtATime(q)'
    BY <2>1, <2>2, <2>3, <2>6, OneElsewhere
  <2>. QED
    BY <2>4, <2>5, <2>6
<1>. QED
  BY <1>2, <1>3

\* Calls.
LEMMA OneCalls ==
    ASSUME IInv, IInv', Accounted, \A q \in Object : OneAtATime(q) /\ Busy(q), NEW o \in Object,
           \/ \E k \in Call, c \in Commands : Exec(o, k, c)
           \/ Write(o) \/ Read(o) \/ Return(o) \/ CallThrows(o)
    PROVE  \A q \in Object : OneAtATime(q)'
<1> USE DEF IInv
<1>1. PICK x \in Context : x = context[o]
  BY UsesOwn DEF ClientStep
<1>2. \A y \in Context : (\A p \in Object : p # o => context[p] # y) \/ Untouched(y)
  <2>1. \A y \in Context : y # x => Untouched(y)
    BY <1>1, ObjectQuiet DEF ClientStep
  <2>2. \A p \in Object : p # o => context[p] # x
    BY <1>1, ConstantsAssumption DEF Owned
  <2>. QED
    BY <2>1, <2>2
<1>3. /\ context' = context /\ session' = session
      /\ \A q \in Object : q # o => phase'[q] = phase[q] /\ current'[q] = current[q]
  BY DEF Exec, Write, Read, Return, CallThrows, TypeOK, objVars, srvVars
<1>4. SUFFICES OneAtATime(o)'
  BY <1>2, <1>3, OneOthers
<1>5. SUFFICES ASSUME ~session[x].multi
               PROVE  OneAtATime(o)'
  BY <1>1, <1>3 DEF OneAtATime
<1>6. /\ obuf[x] \in Seq(Request) /\ net[x] \in Seq(Request)
      /\ inbox[x] \in Seq(Reply) /\ reader[x] \in Seq(Reply)
  BY DEF TypeOK
<1>7. ASSUME NEW k \in Call, NEW c \in Commands, Exec(o, k, c)
      PROVE  OneAtATime(o)'
  <2> DEFINE h == [cmd |-> c, call |-> k]
  <2>1. /\ obuf'[x] = Append(obuf[x], h) /\ phase[o] = "live" /\ phase'[o] = "busy"
        /\ current'[o] = k /\ err' = err
        /\ net' = net /\ inbox' = inbox /\ reader' = reader
    BY <1>1, <1>7 DEF Exec, TypeOK, srvVars
  <2>2. h \in Request /\ h.call = k
    BY ConstantsAssumption DEF Request
  <2> HIDE DEF h
  <2>3. SUFFICES ASSUME ~err[x]
                 PROVE  OneAtATime(o)'
    BY <1>1, <1>3, <2>1 DEF OneAtATime
  <2>4. Load(x) <= 0
    BY <1>1, <1>5, <2>1, <2>3, ConstantsAssumption DEF OneAtATime, Waiting, Handshake
  <2>5. Len(obuf[x]) = 0 /\ Len(net[x]) = 0 /\ Len(inbox[x]) = 0 /\ Len(reader[x]) = 0
    <3>1. Load(x) = 0
      BY <2>4, LoadType
    <3>. QED
      BY <3>1, LoadType, SumType DEF Load
  <2>6. obuf[x] = <<>> /\ net[x] = <<>>
    <3>1. obuf[x] = <<>>
      BY <1>6, <2>5, RangeSeq
    <3>2. net[x] = <<>>
      BY <1>6, <2>5, RangeSeq
    <3>. QED
      BY <3>1, <3>2
  <2>7. inbox[x] = <<>> /\ reader[x] = <<>>
    BY <1>6, <2>5, RangeSeq
  <2>8. Waiting(o)' /\ context'[o] = x
    BY <1>1, <1>3, <2>1 DEF Waiting
  <2>9. \E g \in Request : obuf'[x] = Append(<<>>, g) /\ g.call = current'[o]
    BY <2>1, <2>2, <2>6
  <2>. QED
    BY <2>1, <2>6, <2>7, <2>8, <2>9, OneFirst
<1>8. CASE Write(o)
  <2> DEFINE h == Head(obuf[x])
  <2>1. /\ obuf[x] # <<>> /\ obuf'[x] = Tail(obuf[x])
        /\ net'[x] = net[x] \/ net'[x] = Append(net[x], h)
        /\ inbox' = inbox /\ reader' = reader /\ err' = err
        /\ phase' = phase /\ current' = current
    BY <1>1, <1>8 DEF Write, TypeOK, objVars
  <2>2. /\ h \in Range(obuf[x]) /\ h \in Request /\ Range(obuf'[x]) \subseteq Range(obuf[x])
        /\ Len(obuf'[x]) = Len(obuf[x]) - 1
    BY <1>6, <2>1, TailRange, RangeSeq
  <2> HIDE DEF h
  <2>3. /\ Range(Append(net[x], h)) = Range(net[x]) \cup {h}
        /\ Len(Append(net[x], h)) = Len(net[x]) + 1
    BY <1>6, <2>2, AppendRange
  <2>4. Range(net'[x]) \subseteq Range(net[x]) \cup {h} /\ Len(net'[x]) \in {Len(net[x]), Len(net[x]) + 1}
    BY <2>1, <2>3
  <2>5. Load(x)' <= Load(x)
    <3>1. /\ Load(x) = Len(obuf[x]) + Len(net[x]) + Len(inbox[x]) + Len(reader[x])
          /\ Load(x)' = (Len(obuf[x]) - 1) + Len(net'[x]) + Len(inbox[x]) + Len(reader[x])
      BY <2>1, <2>2 DEF Load
    <3>2. /\ Len(obuf[x]) \in Nat /\ Len(net[x]) \in Nat
          /\ Len(inbox[x]) \in Nat /\ Len(reader[x]) \in Nat
      BY LoadType
    <3>3. Len(net'[x]) \in Nat
      BY <2>4, <3>2
    <3>4. (Len(obuf[x]) - 1) + Len(net'[x]) + Len(inbox[x]) + Len(reader[x])
              <= Len(obuf[x]) + Len(net[x]) + Len(inbox[x]) + Len(reader[x])
      BY <2>4, <3>2, <3>3, SumMoves
    <3>. QED
      BY <3>1, <3>4
  <2>6. \A r \in Requests(x)' \cup Replies(x)' : r \in Requests(x) \cup Replies(x)
    BY <2>1, <2>2, <2>4 DEF Requests, Replies
  <2>. QED
    BY <1>1, <1>3, <2>1, <2>5, <2>6, OneLess
<1>9. CASE Read(o)
  <2> DEFINE h == Head(inbox[x])
  <2>1. /\ inbox[x] # <<>> /\ inbox'[x] = Tail(inbox[x]) /\ reader'[x] = Append(reader[x], h)
        /\ obuf' = obuf /\ net' = net /\ err' = err
        /\ phase' = phase /\ current' = current
    BY <1>1, <1>9 DEF Read, TypeOK, objVars
  <2>2. /\ h \in Range(inbox[x]) /\ h \in Reply /\ Range(inbox'[x]) \subseteq Range(inbox[x])
        /\ Len(inbox'[x]) = Len(inbox[x]) - 1
    BY <1>6, <2>1, TailRange, RangeSeq
  <2> HIDE DEF h
  <2>3. Range(reader'[x]) = Range(reader[x]) \cup {h} /\ Len(reader'[x]) = Len(reader[x]) + 1
    BY <1>6, <2>1, <2>2, AppendRange
  <2>4. Load(x)' <= Load(x)
    <3>1. /\ Load(x) = Len(obuf[x]) + Len(net[x]) + Len(inbox[x]) + Len(reader[x])
          /\ Load(x)' = Len(obuf[x]) + Len(net[x]) + (Len(inbox[x]) - 1) + (Len(reader[x]) + 1)
      BY <2>1, <2>2, <2>3 DEF Load
    <3>2. /\ Len(obuf[x]) \in Nat /\ Len(net[x]) \in Nat
          /\ Len(inbox[x]) \in Nat /\ Len(reader[x]) \in Nat
      BY LoadType
    <3>. QED
      BY <3>1, <3>2, SumMoves
  <2>5. \A r \in Requests(x)' \cup Replies(x)' : r \in Requests(x) \cup Replies(x)
    BY <2>1, <2>2, <2>3 DEF Requests, Replies
  <2>. QED
    BY <1>1, <1>3, <2>1, <2>4, <2>5, OneLess
<1>10. CASE Return(o)
  <2>1. /\ reader[x] # <<>> /\ reader'[x] = Tail(reader[x])
        /\ obuf' = obuf /\ net' = net /\ inbox' = inbox
    BY <1>1, <1>10 DEF Return, TypeOK, srvVars
  <2>2. obuf[x] = <<>> /\ net[x] = <<>> /\ inbox[x] = <<>> /\ Tail(reader[x]) = <<>>
    BY <1>1, <1>5, <2>1, OneTaken
  <2>. QED
    BY <1>1, <1>3, <2>1, <2>2, OneFirst
<1>11. CASE CallThrows(o)
  <2>1. err'[x]
    BY <1>1, <1>11 DEF CallThrows, TypeOK
  <2>. QED
    BY <1>1, <1>3, <2>1 DEF OneAtATime
<1>. QED
  BY <1>7, <1>8, <1>9, <1>10, <1>11

\* A command that the server takes and the reply it gives.
LEMMA OneServed ==
    ASSUME IInv, IInv', Accounted, \A q \in Object : OneAtATime(q), NEW x \in Context,
           NEW r, Take(x, r), NEW replies \in Seq(Reply), Answer(x, replies),
           UNCHANGED <<phase, context, current, obuf, reader, err>>,
           \A a \in Range(replies) : a.call = r.call,
           Len(replies) = 1 \/ session'[x].multi,
           session[x].multi => session'[x].multi,
           \A y \in Context : y # x => Untouched(y)
    PROVE  \A q \in Object : OneAtATime(q)'
<1> USE DEF IInv
<1>1. r \in Requests(x) /\ \A s \in Requests(x)' : s \in Requests(x)
  BY TakeAccounts
<1>2. Len(net'[x]) + 1 = Len(net[x]) /\ Len(net'[x]) \in Nat
  <2>1. Len(net'[x]) + 1 = Len(net[x]) /\ net' \in [Context -> Seq(Request)]
    BY TakeType
  <2>. QED
    BY <2>1
<1>3. inbox'[x] = inbox[x] \/ inbox'[x] = inbox[x] \o replies
  BY AnswerType
<1>4. /\ Range(inbox'[x]) \subseteq Range(inbox[x]) \cup Range(replies)
      /\ Len(inbox'[x]) = Len(inbox[x]) \/ Len(inbox'[x]) = Len(inbox[x]) + Len(replies)
  <2>1. inbox[x] \in Seq(Reply)
    BY DEF TypeOK
  <2>2. /\ Range(inbox[x] \o replies) = Range(inbox[x]) \cup Range(replies)
        /\ Len(inbox[x] \o replies) = Len(inbox[x]) + Len(replies)
    BY <2>1, ConcatRange
  <2>. QED
    BY <1>3, <2>2
<1>5. \A s \in Requests(x)' \cup Replies(x)' :
          \E t \in Requests(x) \cup Replies(x) : s.call = t.call
  <2>1. \A s \in Replies(x)' : s \in Replies(x) \/ s.call = r.call
    BY <1>4 DEF Replies
  <2>. QED
    BY <1>1, <2>1
<1>6. ~session'[x].multi => Load(x)' <= Load(x)
  <2> SUFFICES ASSUME Len(replies) = 1
               PROVE  Load(x)' <= Load(x)
    OBVIOUS
  <2>1. /\ Load(x) = Len(obuf[x]) + Len(net[x]) + Len(inbox[x]) + Len(reader[x])
        /\ Load(x)' = Len(obuf[x]) + Len(net'[x]) + Len(inbox'[x]) + Len(reader[x])
    BY DEF Load
  <2>2. Len(inbox'[x]) \in {Len(inbox[x]), Len(inbox[x]) + 1}
    BY <1>4
  <2>3. /\ Len(obuf[x]) \in Nat /\ Len(net[x]) \in Nat
        /\ Len(inbox[x]) \in Nat /\ Len(reader[x]) \in Nat
    BY LoadType
  <2>4. Len(obuf[x]) + Len(net'[x]) + Len(inbox'[x]) + Len(reader[x])
            <= Len(obuf[x]) + Len(net[x]) + Len(inbox[x]) + Len(reader[x])
    BY <1>2, <2>2, <2>3, SumMoves
  <2>. QED
    BY <2>1, <2>4
<1>7. ASSUME NEW q \in Object
      PROVE  OneAtATime(q)'
  <2>1. CASE context[q] = x
    BY <1>5, <1>6, <2>1, OneLess
  <2>2. CASE context[q] # x
    <3>1. context[q] # NoContext => Untouched(context[q])
      BY <2>2 DEF TypeOK
    <3>. QED
      BY <3>1, OneElsewhere
  <2>. QED
    BY <2>1, <2>2
<1>. QED
  BY <1>7

\* The server and the network.
LEMMA OneServes ==
    ASSUME IInv, IInv', Accounted, \A q \in Object : OneAtATime(q), Next, NEW x \in Context,
           ServerStep(x) \/ Drop(x) \/ LoseCommands(x)
    PROVE  \A q \in Object : OneAtATime(q)'
<1> USE DEF IInv
<1>1. \A y \in Context : y # x => Untouched(y)
  BY ServerQuiet
<1>2. UNCHANGED <<phase, context, current, obuf, reader, err>>
  BY DEF ServerStep, ServeAuth, ServeSelect, ServeRefusal, ServeCommand, Drop, LoseCommands,
         objVars, bufVars
<1>3. session[x].multi => session'[x].multi
  BY MultiStays
<1>4. ASSUME NEW r \in Request, NEW type \in {"ok", "error", "value", "unknown"}
      PROVE  LET replies == <<[type |-> type, call |-> r.call]>>
             IN  /\ replies \in Seq(Reply) /\ Len(replies) = 1
                 /\ \A a \in Range(replies) : a.call = r.call
  <2>1. [type |-> type, call |-> r.call] \in Reply
    BY <1>4 DEF Request, Reply
  <2>. QED
    BY <2>1 DEF Range
<1>5. ASSUME NEW r \in Request, NEW type \in {"ok", "error", "value", "unknown"},
             Take(x, r), Answer(x, <<[type |-> type, call |-> r.call]>>)
      PROVE  \A q \in Object : OneAtATime(q)'
  <2> DEFINE replies == <<[type |-> type, call |-> r.call]>>
  <2>1. /\ replies \in Seq(Reply) /\ Len(replies) = 1 /\ Answer(x, replies)
        /\ \A a \in Range(replies) : a.call = r.call
    BY <1>4, <1>5
  <2> HIDE DEF replies
  <2>. QED
    BY <1>1, <1>2, <1>3, <1>5, <2>1, OneServed
<1>6. CASE ServeAuth(x)
  <2>1. PICK r \in Request, type \in {"ok", "error"} :
            Take(x, r) /\ Answer(x, <<[type |-> type, call |-> r.call]>>)
    BY <1>6 DEF ServeAuth
  <2>. QED
    BY <1>5, <2>1
<1>7. CASE ServeSelect(x)
  <2>1. PICK r \in Request, type \in {"ok", "error"} :
            Take(x, r) /\ Answer(x, <<[type |-> type, call |-> r.call]>>)
    BY <1>7 DEF ServeSelect
  <2>. QED
    BY <1>5, <2>1
<1>8. CASE ServeRefusal(x)
  <2>1. PICK r \in Request : Take(x, r) /\ Answer(x, <<[type |-> "error", call |-> r.call]>>)
    BY <1>8 DEF ServeRefusal
  <2>. QED
    BY <1>5, <2>1
<1>9. CASE ServeCommand(x)
  <2>1. PICK r \in Request :
            /\ Take(x, r) /\ Answer(x, RepliesTo(r))
            /\ session' = [session EXCEPT ![x] = SessionAfter(x, r)]
    BY <1>9 DEF ServeCommand
  <2>2. CASE r.cmd = "double"
    <3>1. RepliesTo(r) \in Seq(Reply) /\ \A a \in Range(RepliesTo(r)) : a.call = r.call
      <4>1. \A a \in Range(RepliesTo(r)) : a.call = r.call
        BY DEF RepliesTo, Range
      <4>. QED
        BY <4>1, RepliesType
    <3>2. session'[x].multi
      <4>1. session'[x] = SessionAfter(x, r) /\ session[x] \in Session
        BY <2>1 DEF TypeOK
      <4>. QED
        BY <2>2, <4>1 DEF SessionAfter, Session
    <3>. QED
      BY <1>1, <1>2, <1>3, <2>1, <3>1, <3>2, OneServed
  <2>3. CASE r.cmd # "double"
    <3>1. \E type \in {"value", "unknown"} : Answer(x, <<[type |-> type, call |-> r.call]>>)
      BY <2>1, <2>3 DEF RepliesTo
    <3>. QED
      BY <1>5, <2>1, <3>1
  <2>. QED
    BY <2>2, <2>3
<1>10. CASE Drop(x) \/ LoseCommands(x)
  <2>1. /\ net'[x] = net[x] \/ net'[x] = <<>>
        /\ inbox'[x] = inbox[x] \/ inbox'[x] = <<>>
    BY <1>10 DEF Drop, LoseCommands, TypeOK
  <2>2. \A r \in Requests(x)' \cup Replies(x)' : r \in Requests(x) \cup Replies(x)
    BY <1>2, <2>1, EmptyRange DEF Requests, Replies
  <2>3. Load(x)' <= Load(x)
    <3>1. /\ Load(x) = Len(obuf[x]) + Len(net[x]) + Len(inbox[x]) + Len(reader[x])
          /\ Load(x)' = Len(obuf[x]) + Len(net'[x]) + Len(inbox'[x]) + Len(reader[x])
      BY <1>2 DEF Load
    <3>2. /\ Len(net'[x]) \in {Len(net[x]), 0} /\ Len(inbox'[x]) \in {Len(inbox[x]), 0}
      BY <2>1, EmptySeq
    <3>3. /\ Len(obuf[x]) \in Nat /\ Len(net[x]) \in Nat
          /\ Len(inbox[x]) \in Nat /\ Len(reader[x]) \in Nat
      BY LoadType
    <3>4. ASSUME NEW a \in Nat, NEW b \in Nat, NEW c \in Nat, NEW d \in Nat,
                 NEW m \in {b, 0}, NEW n \in {c, 0}
          PROVE  a + m + n + d <= a + b + c + d
      OBVIOUS
    <3>. QED
      BY <3>1, <3>2, <3>3, <3>4
  <2>4. ASSUME NEW q \in Object
        PROVE  OneAtATime(q)'
    <3>1. CASE context[q] = x
      BY <1>2, <1>3, <2>2, <2>3, <3>1, OneLess
    <3>2. CASE context[q] # x
      <4>1. context[q] # NoContext => Untouched(context[q])
        BY <1>1, <3>2 DEF TypeOK
      <4>. QED
        BY <1>2, <4>1, OneElsewhere
    <3>. QED
      BY <3>1, <3>2
  <2>. QED
    BY <2>4
<1>. QED
  BY <1>6, <1>7, <1>8, <1>9, <1>10 DEF ServerStep

LEMMA OneStep ==
    ASSUME IInv, IInv', Accounted, \A q \in Object : OneAtATime(q) /\ Busy(q), Next
    PROVE  \A q \in Object : OneAtATime(q)'
<1>1. ASSUME NEW o \in Object, NEW k \in Call, ExecWithoutContext(o, k)
      PROVE  \A q \in Object : OneAtATime(q)'
  <2>1. UNCHANGED <<objVars, ctxVars, bufVars, srvVars>>
    BY <1>1 DEF ExecWithoutContext
  <2>2. \A y : Untouched(y)
    BY <2>1 DEF Untouched, ctxVars, bufVars, srvVars
  <2>. QED
    BY <2>1, <2>2, OneElsewhere DEF IInv, objVars
<1>. QED
  BY <1>1, OneConnects, OneMoves, OneCalls, OneServes DEF Next, ClientStep
-----------------------------------------------------------------------------
(* Calls and their outcomes. *)

LEMMA BusyStep ==
    ASSUME IInv, \A q \in Object : Busy(q), Next
    PROVE  \A q \in Object : Busy(q)'
<1> USE DEF IInv
<1>1. ASSUME UNCHANGED <<objVars, callVars>>
      PROVE  \A q \in Object : Busy(q)'
  BY <1>1 DEF Busy, objVars, callVars
<1>2. ASSUME NEW x \in Context, ServerStep(x) \/ Drop(x) \/ LoseCommands(x)
      PROVE  \A q \in Object : Busy(q)'
  BY <1>1, <1>2 DEF ServerStep, ServeAuth, ServeSelect, ServeRefusal, ServeCommand, Drop,
                    LoseCommands
<1>3. ASSUME NEW o \in Object, \/ Write(o) \/ Read(o)
                               \/ \E x \in Context : ConnectFails(o, x)
      PROVE  \A q \in Object : Busy(q)'
  BY <1>1, <1>3 DEF Write, Read, ConnectFails
<1>4. ASSUME NEW o \in Object, NEW k \in Call, ExecWithoutContext(o, k)
      PROVE  \A q \in Object : Busy(q)'
  <2>1. /\ UNCHANGED <<phase, context, current, issuedOn>> /\ outcome[k] = "none"
        /\ outcome' = [outcome EXCEPT ![k] = "logic_error"]
    BY <1>4 DEF ExecWithoutContext, objVars
  <2>2. \A m \in Call : outcome[m] = "pending" => outcome'[m] = "pending"
    BY <2>1 DEF TypeOK
  <2>. QED
    BY <2>1, <2>2 DEF Busy, Owned
<1>5. ASSUME NEW o \in Object, NEW k \in Call, NEW c \in Commands, Exec(o, k, c)
      PROVE  \A q \in Object : Busy(q)'
  <2>1. /\ phase' = [phase EXCEPT ![o] = "busy"] /\ current' = [current EXCEPT ![o] = k]
        /\ outcome' = [outcome EXCEPT ![k] = "pending"] /\ outcome[k] = "none"
        /\ issuedOn' = [issuedOn EXCEPT ![k] = context[o]] /\ context' = context
    BY <1>5 DEF Exec
  <2>2. /\ phase'[o] = "busy" /\ current'[o] = k /\ outcome'[k] = "pending"
        /\ issuedOn'[k] = context[o]
        /\ \A q \in Object : q # o => phase'[q] = phase[q] /\ current'[q] = current[q]
        /\ \A m \in Call : m # k => outcome'[m] = outcome[m] /\ issuedOn'[m] = issuedOn[m]
    BY <2>1 DEF TypeOK
  <2>3. ASSUME NEW q \in Object, q # o
        PROVE  Busy(q)'
    <3>1. phase[q] = "busy" => current[q] \in Call /\ current[q] # k
      BY <2>1 DEF Busy, Owned
    <3>. QED
      BY <2>1, <2>2, <2>3, <3>1 DEF Busy
  <2>4. Busy(o)'
    BY <2>1, <2>2 DEF Busy
  <2>. QED
    BY <2>3, <2>4
<1>6. ASSUME NEW o \in Object, Return(o) \/ CallThrows(o)
      PROVE  \A q \in Object : Busy(q)'
  <2>1. /\ phase[o] = "busy" /\ phase' = [phase EXCEPT ![o] = "live"]
        /\ current' = [current EXCEPT ![o] = NoCall]
        /\ context' = context /\ issuedOn' = issuedOn
        /\ \E w \in {"value", "error", "threw"} : outcome' = [outcome EXCEPT ![current[o]] = w]
    BY <1>6 DEF Return, CallThrows, Converted
  <2>2. /\ phase'[o] = "live" /\ current'[o] = NoCall
        /\ \A q \in Object : q # o => phase'[q] = phase[q] /\ current'[q] = current[q]
        /\ \A m \in Call : m # current[o] => outcome'[m] = outcome[m]
    BY <2>1 DEF TypeOK
  <2>3. ASSUME NEW q \in Object, q # o
        PROVE  Busy(q)'
    <3>1. phase[q] = "busy" => current[q] \in Call /\ current[q] # current[o]
      <4> SUFFICES ASSUME phase[q] = "busy", current[q] = current[o]
                   PROVE  FALSE
        BY DEF Owned
      <4>1. context[q] = context[o] /\ context[q] # NoContext
        BY <2>1 DEF Busy, Owned, Waiting
      <4>. QED
        BY <2>3, <4>1 DEF Owned
    <3>. QED
      BY <2>1, <2>2, <2>3, <3>1 DEF Busy
  <2>4. Busy(o)'
    BY <2>2 DEF Busy
  <2>. QED
    BY <2>3, <2>4
<1>7. ASSUME NEW o \in Object, phase[o] # "busy", phase'[o] # "busy",
             \A q \in Object : q # o => phase'[q] = phase[q],
             \A q \in Object : phase[q] = "busy" => context'[q] = context[q],
             current' = current, UNCHANGED callVars
      PROVE  \A q \in Object : Busy(q)'
  BY <1>7 DEF Busy, callVars
<1>8. ASSUME NEW o \in Object, NEW x \in Context, NEW cfg \in Configs, Connect(o, x, cfg)
      PROVE  \A q \in Object : Busy(q)'
  <2>1. /\ phase[o] = "none" /\ Proceed(o, x, Pending(cfg, "auth"))
        /\ context' = [context EXCEPT ![o] = x] /\ UNCHANGED <<current, callVars>>
    BY <1>8 DEF Connect
  <2>2. phase'[o] # "busy" /\ \A q \in Object : q # o => phase'[q] = phase[q]
    BY <2>1, PendingType, ProceedType DEF Handshake
  <2>3. \A q \in Object : phase[q] = "busy" => context'[q] = context[q]
    BY <2>1 DEF TypeOK
  <2>. QED
    BY <1>7, <2>1, <2>2, <2>3
<1>9. ASSUME NEW o \in Object, HandshakeOk(o)
      PROVE  \A q \in Object : Busy(q)'
  <2>1. PICK x \in Context : x = context[o]
    BY <1>9, UsesOwn DEF ClientStep
  <2> DEFINE steps == IF phase[o] = "auth" THEN Pending(config[x], "select") ELSE <<>>
  <2>2. /\ <<>> \in Seq(Handshake) /\ Proceed(o, x, steps) /\ phase[o] \in Handshake
        /\ UNCHANGED <<context, current, callVars>>
    BY <1>9, <2>1 DEF HandshakeOk
  <2>3. steps \in Seq(Handshake)
    BY <2>2, PendingType
  <2> HIDE DEF steps
  <2>4. phase'[o] # "busy" /\ \A q \in Object : q # o => phase'[q] = phase[q]
    BY <2>2, <2>3, ProceedType DEF Handshake
  <2>. QED
    BY <1>7, <2>2, <2>4 DEF Handshake
<1>10. ASSUME NEW o \in Object, HandshakeRefused(o) \/ ConstructorThrows(o) \/ Destroy(o)
       PROVE  \A q \in Object : Busy(q)'
  <2>1. /\ phase[o] # "busy" /\ phase' = [phase EXCEPT ![o] = "none"]
        /\ context' = [context EXCEPT ![o] = NoContext] /\ UNCHANGED <<current, callVars>>
    BY <1>10 DEF HandshakeRefused, ConstructorThrows, Destroy, Handshake
  <2>. QED
    BY <1>7, <2>1 DEF TypeOK
<1>11. ASSUME NEW o \in Object, NEW p \in Object, Move(o, p)
       PROVE  \A q \in Object : Busy(q)'
  <2>1. /\ phase[o] = "live" /\ phase[p] \in {"none", "live"}
        /\ phase' = [phase EXCEPT ![p] = "live"]
        /\ context' = [context EXCEPT ![p] = context[o], ![o] = NoContext]
        /\ UNCHANGED <<current, callVars>>
    BY <1>11 DEF Move
  <2>. QED
    BY <1>7, <2>1 DEF TypeOK
<1>. QED
  BY <1>2, <1>3, <1>4, <1>5, <1>6, <1>8, <1>9, <1>10, <1>11 DEF Next, ClientStep

\* What a call was given stays true, and so is what it is given now.
LEMMA AnsweredStep ==
    ASSUME IInv, Accounted, Truths, \A q \in Object : OneAtATime(q) /\ Busy(q),
           \A m \in Call : Answered(m), AccountsKept, Next
    PROVE  \A m \in Call : Answered(m)'
<1> USE DEF IInv
<1>1. ASSUME NEW m \in Call,
             \/ outcome'[m] = outcome[m] /\ issuedOn'[m] = issuedOn[m] /\ answer'[m] = answer[m]
             \/ outcome'[m] \notin {"value", "error"}
      PROVE  Answered(m)'
  <2> SUFFICES ASSUME outcome[m] \in {"value", "error"}, outcome'[m] = outcome[m],
                      issuedOn'[m] = issuedOn[m], answer'[m] = answer[m],
                      ~session'[issuedOn[m]].multi
               PROVE  Answered(m)'
    BY <1>1 DEF Answered
  <2>1. PICK x \in Context : x = issuedOn[m]
    BY DEF Answered
  <2>2. ~session[x].multi
    BY <2>1, MultiStays
  <2>3. PICK a \in Reply : a = answer[m]
    BY DEF TypeOK
  <2>4. a.call = m /\ Truthful(a) /\ outcome[m] = Converted(a.type)
    BY <2>1, <2>2, <2>3 DEF Answered
  <2>5. Truthful(a)'
    BY <2>4 DEF AccountsKept
  <2>6. a = answer'[m] /\ x = issuedOn'[m]
    BY <2>1, <2>3
  <2>7. Truthful(answer[m])'
    BY <2>5, <2>6 DEF Truthful
  <2>. QED
    BY <2>4, <2>6, <2>7 DEF Answered
<1>2. ASSUME UNCHANGED <<callVars, answer>>
      PROVE  \A m \in Call : Answered(m)'
  BY <1>1, <1>2 DEF callVars
<1>3. ASSUME NEW x \in Context, ServerStep(x) \/ Drop(x) \/ LoseCommands(x)
      PROVE  \A m \in Call : Answered(m)'
  BY <1>2, <1>3 DEF ServerStep, ServeAuth, ServeSelect, ServeRefusal, ServeCommand, Drop,
                    LoseCommands
<1>4. ASSUME NEW o \in Object,
             \/ Write(o) \/ Read(o) \/ HandshakeOk(o) \/ HandshakeRefused(o)
             \/ ConstructorThrows(o) \/ Destroy(o) \/ \E p \in Object : Move(o, p)
             \/ \E x \in Context : ConnectFails(o, x) \/ \E cfg \in Configs : Connect(o, x, cfg)
      PROVE  \A m \in Call : Answered(m)'
  <2>1. UNCHANGED <<callVars, answer>>
    BY <1>4 DEF Write, Read, HandshakeOk, HandshakeRefused, ConstructorThrows, Destroy, Move,
                ConnectFails, Connect
  <2>. QED
    BY <1>2, <2>1
<1>5. ASSUME NEW o \in Object, NEW k \in Call,
             ExecWithoutContext(o, k) \/ \E c \in Commands : Exec(o, k, c)
      PROVE  \A m \in Call : Answered(m)'
  <2>1. /\ outcome'[k] \notin {"value", "error"} /\ answer' = answer
        /\ \A m \in Call : m # k => outcome'[m] = outcome[m] /\ issuedOn'[m] = issuedOn[m]
    BY <1>5 DEF ExecWithoutContext, Exec, TypeOK
  <2>. QED
    BY <1>1, <2>1
<1>6. ASSUME NEW o \in Object, CallThrows(o)
      PROVE  \A m \in Call : Answered(m)'
  <2>1. /\ current[o] \in Call /\ issuedOn' = issuedOn /\ answer' = answer
        /\ outcome' = [outcome EXCEPT ![current[o]] = "threw"]
    BY <1>6 DEF CallThrows, Owned
  <2>2. outcome'[current[o]] = "threw" /\ \A m \in Call : m # current[o] => outcome'[m] = outcome[m]
    BY <2>1 DEF TypeOK
  <2>. QED
    BY <1>1, <2>1, <2>2
<1>7. ASSUME NEW o \in Object, Return(o)
      PROVE  \A m \in Call : Answered(m)'
  <2>1. PICK x \in Context : x = context[o]
    BY <1>7, UsesOwn DEF ClientStep
  <2>2. PICK k \in Call : k = current[o]
    BY <1>7 DEF Return, Owned
  <2>3. reader[x] \in Seq(Reply) /\ reader[x] # <<>>
    BY <1>7, <2>1 DEF Return, TypeOK
  <2>4. PICK a \in Reply : a = Head(reader[x]) /\ a \in Replies(x)
    BY <2>3, TailRange, RangeSeq DEF Replies
  <2>5. /\ outcome' = [outcome EXCEPT ![k] = Converted(a.type)]
        /\ answer' = [answer EXCEPT ![k] = a]
        /\ issuedOn' = issuedOn /\ session' = session /\ phase[o] = "busy"
    BY <1>7, <2>1, <2>2, <2>4 DEF Return, srvVars
  <2>6. /\ outcome'[k] = Converted(a.type) /\ answer'[k] = a
        /\ \A m \in Call : m # k => outcome'[m] = outcome[m] /\ answer'[m] = answer[m]
    BY <2>5 DEF TypeOK
  <2>7. issuedOn[k] = x /\ outcome[k] = "pending"
    BY <2>1, <2>2, <2>5 DEF Busy
  <2>8. ~session[x].multi => a.call = k
    BY <2>1, <2>2, <2>3, <2>4, OneTaken
  <2>9. ~session[x].multi => Truthful(a)'
    BY <2>4, <2>7, <2>8 DEF AccountsKept, Truths
  <2>10. Answered(k)'
    <3>1. Truthful(a)' => Truthful(answer[k])'
      BY <2>6 DEF Truthful
    <3>. QED
      BY <2>5, <2>6, <2>7, <2>8, <2>9, <3>1 DEF Answered
  <2>. QED
    BY <1>1, <2>5, <2>6, <2>10
<1>. QED
  BY <1>3, <1>4, <1>5, <1>6, <1>7 DEF Next, ClientStep
-----------------------------------------------------------------------------
(* The invariant. *)

LEMMA InitCInv == Init => CInv
<1> SUFFICES ASSUME Init PROVE CInv
  OBVIOUS
<1>1. \A x \in Context : Requests(x) = {} /\ Replies(x) = {}
  BY EmptyRange DEF Init, Requests, Replies
<1>2. Accounted
  BY <1>1, EmptyRange DEF Init, Accounted, Apart
<1>3. Truths /\ \A k \in Call : Answered(k)
  BY <1>1 DEF Init, Truths, Answered
<1>4. \A o \in Object : OneAtATime(o) /\ Busy(o)
  BY DEF Init, OneAtATime, Busy
<1>. QED
  BY <1>2, <1>3, <1>4, InitIInv DEF CInv

LEMMA StepCInv == CInv /\ [Next]_vars => CInv'
<1> SUFFICES ASSUME CInv, [Next]_vars PROVE CInv'
  OBVIOUS
<1>1. IInv'
  BY StepIInv DEF CInv
<1>2. CASE Next
  <2>1. AccountsKept
    BY <1>2, AccountsStep DEF CInv
  <2>2. \A o \in Object : OneAtATime(o)'
    BY <1>1, <1>2, OneStep DEF CInv
  <2>3. \A o \in Object : Busy(o)'
    BY <1>2, BusyStep DEF CInv
  <2>4. \A k \in Call : Answered(k)'
    BY <1>2, <2>1, AnsweredStep DEF CInv
  <2>. QED
    BY <1>1, <2>1, <2>2, <2>3, <2>4 DEF CInv, AccountsKept
<1>3. CASE UNCHANGED vars
  <2>1. UNCHANGED <<objVars, ctxVars, bufVars, srvVars, callVars, ghostVars, answer>>
    BY <1>3 DEF vars
  <2>2. \A x : Requests(x)' = Requests(x) /\ Replies(x)' = Replies(x) /\ Load(x)' = Load(x)
    BY <2>1 DEF Requests, Replies, Load, bufVars, srvVars
  <2>3. Accounted'
    BY <2>1, <2>2 DEF CInv, Accounted, Distinct, Apart, bufVars, srvVars, callVars, ghostVars
  <2>4. \A a : Truthful(a)' = Truthful(a)
    BY <2>1, <2>2 DEF Truthful, ghostVars
  <2>5. Truths' /\ \A k \in Call : Answered(k)'
    <3>1. Truths'
      BY <2>2, <2>4 DEF CInv, Truths
    <3>2. ASSUME NEW k \in Call
          PROVE  Answered(k)'
      <4>1. Truthful(answer[k])' = Truthful(answer[k])
        BY <2>1, <2>2 DEF Truthful, ghostVars
      <4>. QED
        BY <2>1, <4>1 DEF CInv, Answered, srvVars, callVars
    <3>. QED
      BY <3>1, <3>2
  <2>6. \A o \in Object : OneAtATime(o)' /\ Busy(o)'
    <3>1. \A o \in Object : OneAtATime(o)'
      BY <2>1, <2>2 DEF CInv, OneAtATime, Waiting, objVars, bufVars, srvVars
    <3>2. \A o \in Object : Busy(o)'
      BY <2>1 DEF CInv, Busy, objVars, callVars
    <3>. QED
      BY <3>1, <3>2
  <2>. QED
    BY <1>1, <2>3, <2>5, <2>6 DEF CInv
<1>. QED
  BY <1>2, <1>3

\* Commands and replies stay accounted for.
THEOREM CallInvariance == Spec => []CInv
<1>1. Init => CInv
  BY InitCInv
<1>2. CInv /\ [Next]_vars => CInv'
  BY StepCInv
<1>. QED
  BY <1>1, <1>2, PTL DEF Spec

\* Nothing in the connection sends a command again, whatever breaks, is moved or
\* answered out of turn: AtMostOnceExecuted.
THEOREM ExecutedOnce == Spec => []AtMostOnceExecuted
<1>1. CInv => AtMostOnceExecuted
  BY DEF CInv, Accounted, AtMostOnceExecuted
<1>. QED
  BY <1>1, CallInvariance, PTL

\* redisCommandArgv takes the first reply it finds, and that is the reply to the
\* command it has sent, until one with two replies was sent: OwnReply.
THEOREM GivenItsReply == Spec => []OwnReply
<1>1. CInv => OwnReply
  BY DEF CInv, Answered, OwnReply
<1>. QED
  BY <1>1, CallInvariance, PTL

\* A caller that is given a value knows that its command was executed, once:
\* ValueMeansExecuted.
THEOREM ValuesAreTrue == Spec => []ValueMeansExecuted
<1>1. CInv => ValueMeansExecuted
  BY DEF CInv, Answered, Truthful, Converted, ValueMeansExecuted
<1>. QED
  BY <1>1, CallInvariance, PTL

\* A caller that is given an ERROR knows that its command was not executed and
\* will not be, unless convert_reply did not know the type of the reply:
\* ErrorMeansNotExecuted.
THEOREM ErrorsAreTrue == Spec => []ErrorMeansNotExecuted
<1>1. CInv => ErrorMeansNotExecuted
  BY DEF CInv, Answered, Truthful, Converted, ErrorMeansNotExecuted
<1>. QED
  BY <1>1, CallInvariance, PTL
-----------------------------------------------------------------------------
(* The contract: SyncConnection implements AtMostOnce when every command has *)
(* one reply, of a type that convert_reply knows.                            *)

Known == {"plain", "failing", "select"}

\* No command has two replies or one of an unknown type.
Ordinary ==
    /\ \A x \in Context : \A r \in Requests(x) : r.call \in Call => r.cmd \in Commands
    /\ \A x \in Context : \A a \in Replies(x) : a.type # "unknown"
    /\ \A x \in Context : ~session[x].multi
    /\ \A k \in Call : answer[k].type # "unknown"

StatusOf(w) ==
    CASE w = "none" -> "idle"
      [] w = "pending" -> "pending"
      [] w = "value" -> "returned"
      [] w = "threw" -> "failed"
      [] OTHER -> "refused"

Status == [k \in Call |-> StatusOf(outcome[k])]

\* Where the replies and the requests of a state come from.
LEMMA OrdinaryFrom ==
    ASSUME IInv, Ordinary, NEW x \in Context,
           \A y \in Context : y # x => Untouched(y),
           \A r \in Requests(x)' : r.call \in Call =>
               r.cmd \in Commands \/ r \in Requests(x),
           \A a \in Replies(x)' : a \in Replies(x) \/ a.type # "unknown",
           ~session'[x].multi,
           \A k \in Call : answer'[k] = answer[k] \/ answer'[k].type # "unknown"
    PROVE  Ordinary'
<1>1. \A y \in Context : y # x => /\ Requests(y)' = Requests(y) /\ Replies(y)' = Replies(y)
                                  /\ session'[y] = session[y]
  BY DEF Untouched, Requests, Replies
<1>2. \A y \in Context : \A r \in Requests(y)' : r.call \in Call => r.cmd \in Commands
  BY <1>1 DEF Ordinary
<1>3. \A y \in Context : \A a \in Replies(y)' : a.type # "unknown"
  BY <1>1 DEF Ordinary
<1>4. \A y \in Context : ~session'[y].multi
  BY <1>1 DEF Ordinary
<1>5. \A k \in Call : answer'[k].type # "unknown"
  BY DEF Ordinary
<1>. QED
  BY <1>2, <1>3, <1>4, <1>5 DEF Ordinary

\* Nothing is added.
LEMMA OrdinaryLess ==
    ASSUME IInv, Ordinary, NEW x \in Context,
           \A y \in Context : y # x => Untouched(y),
           Requests(x)' \subseteq Requests(x), Replies(x)' \subseteq Replies(x),
           session'[x] = session[x],
           \A k \in Call : answer'[k] = answer[k] \/ answer'[k].type # "unknown"
    PROVE  Ordinary'
<1>1. ~session'[x].multi
  BY DEF Ordinary
<1>. QED
  BY <1>1, OrdinaryFrom

\* A command appended to the queue of a context.
LEMMA OrdinaryQueued ==
    ASSUME IInv, Ordinary, NEW x \in Context,
           \A y \in Context : y # x => Untouched(y),
           NEW e \in Request, e.call \in Call => e.cmd \in Commands,
           obuf'[x] \in {obuf[x], Append(obuf[x], e)},
           net'[x] = net[x], session'[x] = session[x], answer' = answer,
           Replies(x)' \subseteq Replies(x)
    PROVE  Ordinary'
<1>1. obuf[x] \in Seq(Request)
  BY DEF IInv, TypeOK
<1>2. Range(obuf'[x]) \subseteq Range(obuf[x]) \cup {e}
  <2>1. Range(Append(obuf[x], e)) = Range(obuf[x]) \cup {e}
    BY <1>1, AppendRange
  <2>. QED
    BY <2>1
<1>3. \A r \in Requests(x)' : r.call \in Call => r.cmd \in Commands \/ r \in Requests(x)
  BY <1>2 DEF Requests
<1>4. ~session'[x].multi
  BY DEF Ordinary
<1>. QED
  BY <1>3, <1>4, OrdinaryFrom

LEMMA OrdinaryClient ==
    ASSUME IInv, Ordinary, NEW o \in Object,
           ClientStep(o) \/ \E k \in Call, c \in Commands : Exec(o, k, c)
    PROVE  Ordinary'
<1> USE DEF IInv
<1>1. PICK x \in Context : x = context[o]
  BY UsesOwn
<1>2. \A y \in Context : y # x => Untouched(y)
  BY <1>1, ObjectQuiet
<1>3. /\ obuf[x] \in Seq(Request) /\ net[x] \in Seq(Request)
      /\ inbox[x] \in Seq(Reply) /\ reader[x] \in Seq(Reply)
  BY DEF TypeOK
<1>4. CASE HandshakeOk(o)
  <2> DEFINE steps == IF phase[o] = "auth" THEN Pending(config[x], "select") ELSE <<>>
  <2>1. <<>> \in Seq(Handshake) /\ Proceed(o, x, steps)
    BY <1>1, <1>4 DEF HandshakeOk
  <2>2. steps \in Seq(Handshake)
    BY <2>1, PendingType
  <2> HIDE DEF steps
  <2>3. \E p \in Handshake : obuf'[x] \in {obuf[x], Append(obuf[x], HandshakeRequest(p))}
    <3>1. /\ phase'[o] \in Handshake \cup {"live"}
          /\ obuf'[x] = IF phase'[o] = "live" THEN obuf[x]
                        ELSE Append(obuf[x], HandshakeRequest(phase'[o]))
      BY <2>1, <2>2, ProceedType
    <3>. QED
      BY <3>1 DEF Handshake
  <2>4. PICK p \in Handshake : obuf'[x] \in {obuf[x], Append(obuf[x], HandshakeRequest(p))}
    BY <2>3
  <2>5. HandshakeRequest(p) \in Request /\ HandshakeRequest(p).call \notin Call
    BY ConstantsAssumption DEF HandshakeRequest, Request
  <2>6. /\ reader[x] # <<>> /\ reader'[x] = Tail(reader[x]) /\ inbox' = inbox
        /\ net' = net /\ session' = session /\ answer' = answer
    BY <1>1, <1>4 DEF HandshakeOk, TypeOK, srvVars
  <2>7. Replies(x)' \subseteq Replies(x)
    BY <1>3, <2>6, TailRange DEF Replies
  <2>. QED
    BY <1>2, <2>4, <2>5, <2>6, <2>7, OrdinaryQueued
<1>5. CASE HandshakeRefused(o) \/ ConstructorThrows(o)
  <2>1. FreeContext(x) /\ net' = net /\ session' = session /\ answer' = answer
    BY <1>1, <1>5 DEF HandshakeRefused, ConstructorThrows
  <2>2. obuf'[x] = <<>> /\ inbox'[x] = <<>> /\ reader'[x] = <<>>
    BY <2>1, FreeType
  <2>3. Requests(x)' \subseteq Requests(x) /\ Replies(x)' = {}
    BY <2>1, <2>2, EmptyRange DEF Requests, Replies
  <2>. QED
    BY <1>2, <2>1, <2>3, OrdinaryLess
<1>6. ASSUME NEW k \in Call, NEW c \in Commands, Exec(o, k, c)
      PROVE  Ordinary'
  <2> DEFINE e == [cmd |-> c, call |-> k]
  <2>1. /\ obuf'[x] = Append(obuf[x], e) /\ net' = net /\ session' = session
        /\ inbox' = inbox /\ reader' = reader /\ answer' = answer
    BY <1>1, <1>6 DEF Exec, TypeOK, srvVars
  <2>2. e \in Request /\ e.cmd \in Commands
    BY ConstantsAssumption DEF Request
  <2> HIDE DEF e
  <2>3. Replies(x)' = Replies(x)
    BY <2>1 DEF Replies
  <2>. QED
    BY <1>2, <2>1, <2>2, <2>3, OrdinaryQueued
<1>7. CASE Write(o)
  <2> DEFINE h == Head(obuf[x])
  <2>1. /\ obuf[x] # <<>> /\ obuf'[x] = Tail(obuf[x])
        /\ net'[x] = net[x] \/ net'[x] = Append(net[x], h)
        /\ inbox' = inbox /\ reader' = reader /\ session' = session /\ answer' = answer
    BY <1>1, <1>7 DEF Write, TypeOK
  <2>2. h \in Range(obuf[x]) /\ h \in Request /\ Range(obuf'[x]) \subseteq Range(obuf[x])
    BY <1>3, <2>1, TailRange, RangeSeq
  <2> HIDE DEF h
  <2>3. Range(Append(net[x], h)) = Range(net[x]) \cup {h}
    BY <1>3, <2>2, AppendRange
  <2>4. Requests(x)' \subseteq Requests(x) /\ Replies(x)' = Replies(x)
    BY <2>1, <2>2, <2>3 DEF Requests, Replies
  <2>. QED
    BY <1>2, <2>1, <2>4, OrdinaryLess
<1>8. CASE Read(o)
  <2> DEFINE h == Head(inbox[x])
  <2>1. /\ inbox[x] # <<>> /\ inbox'[x] = Tail(inbox[x]) /\ reader'[x] = Append(reader[x], h)
        /\ obuf' = obuf /\ net' = net /\ session' = session /\ answer' = answer
    BY <1>1, <1>8 DEF Read, TypeOK
  <2>2. h \in Range(inbox[x]) /\ h \in Reply /\ Range(inbox'[x]) \subseteq Range(inbox[x])
    BY <1>3, <2>1, TailRange, RangeSeq
  <2> HIDE DEF h
  <2>3. Range(reader'[x]) = Range(reader[x]) \cup {h}
    BY <1>3, <2>1, <2>2, AppendRange
  <2>4. Requests(x)' = Requests(x) /\ Replies(x)' \subseteq Replies(x)
    BY <2>1, <2>2, <2>3 DEF Requests, Replies
  <2>. QED
    BY <1>2, <2>1, <2>4, OrdinaryLess
<1>9. CASE Return(o)
  <2>1. PICK k \in Call : k = current[o]
    BY <1>9 DEF Return, Owned
  <2>2. /\ reader[x] # <<>> /\ reader'[x] = Tail(reader[x])
        /\ answer' = [answer EXCEPT ![k] = Head(reader[x])]
        /\ obuf' = obuf /\ net' = net /\ inbox' = inbox /\ session' = session
    BY <1>1, <1>9, <2>1 DEF Return, TypeOK, srvVars
  <2>3. Head(reader[x]) \in Replies(x) /\ Replies(x)' \subseteq Replies(x)
    BY <1>3, <2>2, TailRange DEF Replies
  <2>4. \A m \in Call : answer'[m] = answer[m] \/ answer'[m].type # "unknown"
    BY <2>2, <2>3 DEF Ordinary, TypeOK
  <2>5. Requests(x)' = Requests(x)
    BY <2>2 DEF Requests
  <2>. QED
    BY <1>2, <2>2, <2>3, <2>4, <2>5, OrdinaryLess
<1>10. CASE CallThrows(o)
  <2>1. UNCHANGED <<obuf, reader, srvVars, answer>>
    BY <1>10 DEF CallThrows
  <2>2. Requests(x)' = Requests(x) /\ Replies(x)' = Replies(x)
    BY <2>1 DEF Requests, Replies, srvVars
  <2>. QED
    BY <1>2, <2>1, <2>2, OrdinaryLess DEF srvVars
<1>. QED
  BY <1>4, <1>5, <1>6, <1>7, <1>8, <1>9, <1>10 DEF ClientStep

LEMMA OrdinaryOwners ==
    ASSUME IInv, Ordinary, NEW o \in Object,
           \/ Destroy(o) \/ \E p \in Object : Move(o, p)
           \/ \E x \in Context : ConnectFails(o, x) \/ \E cfg \in Configs : Connect(o, x, cfg)
           \/ \E k \in Call : ExecWithoutContext(o, k)
    PROVE  Ordinary'
<1> USE DEF IInv
<1>1. ASSUME UNCHANGED <<obuf, reader, net, inbox, session, answer>>
      PROVE  Ordinary'
  BY <1>1 DEF Ordinary, Requests, Replies
<1>2. ASSUME NEW p \in Object, net' = net, session' = session, answer' = answer, err' = err,
             IF context[p] = NoContext THEN UNCHANGED <<life, link, obuf, reader, inbox>>
             ELSE FreeContext(context[p])
      PROVE  Ordinary'
  <2>1. CASE context[p] = NoContext
    BY <1>1, <1>2, <2>1
  <2>2. CASE context[p] # NoContext
    <3>1. PICK x \in Context : x = context[p]
      BY <2>2 DEF TypeOK
    <3>2. \A y \in Context : y # x => Untouched(y)
      BY <1>2, <2>2, <3>1, FreedQuiet
    <3>3. obuf'[x] = <<>> /\ inbox'[x] = <<>> /\ reader'[x] = <<>>
      BY <1>2, <2>2, <3>1, FreeType
    <3>4. Requests(x)' \subseteq Requests(x) /\ Replies(x)' = {}
      BY <1>2, <3>3, EmptyRange DEF Requests, Replies
    <3>. QED
      BY <1>2, <3>2, <3>4, OrdinaryLess
  <2>. QED
    BY <2>1, <2>2
<1>3. CASE Destroy(o) \/ \E p \in Object : Move(o, p)
  BY <1>2, <1>3 DEF Destroy, Move
<1>4. ASSUME NEW x \in Context, NEW cfg \in Configs, Connect(o, x, cfg)
      PROVE  Ordinary'
  <2>1. /\ Proceed(o, x, Pending(cfg, "auth"))
        /\ UNCHANGED <<reader, net, inbox, session, answer>>
    BY <1>4 DEF Connect
  <2>2. \E p \in Handshake : obuf'[x] \in {obuf[x], Append(obuf[x], HandshakeRequest(p))}
    <3>1. /\ phase'[o] \in Handshake \cup {"live"}
          /\ obuf'[x] = IF phase'[o] = "live" THEN obuf[x]
                        ELSE Append(obuf[x], HandshakeRequest(phase'[o]))
      BY <2>1, PendingType, ProceedType
    <3>. QED
      BY <3>1 DEF Handshake
  <2>3. PICK p \in Handshake : obuf'[x] \in {obuf[x], Append(obuf[x], HandshakeRequest(p))}
    BY <2>2
  <2>4. HandshakeRequest(p) \in Request /\ HandshakeRequest(p).call \notin Call
    BY ConstantsAssumption DEF HandshakeRequest, Request
  <2>5. \A y \in Context : y # x => Untouched(y)
    BY <1>4, ConnectQuiet
  <2>6. Replies(x)' = Replies(x)
    BY <2>1 DEF Replies
  <2>. QED
    BY <2>1, <2>3, <2>4, <2>5, <2>6, OrdinaryQueued
<1>5. ASSUME NEW x \in Context, ConnectFails(o, x)
      PROVE  Ordinary'
  BY <1>1, <1>5 DEF ConnectFails, srvVars
<1>6. ASSUME NEW k \in Call, ExecWithoutContext(o, k)
      PROVE  Ordinary'
  BY <1>1, <1>6 DEF ExecWithoutContext, bufVars, srvVars
<1>. QED
  BY <1>3, <1>4, <1>5, <1>6

LEMMA OrdinaryServer ==
    ASSUME IInv, Accounted, Ordinary, Commands \subseteq Known, NEW x \in Context,
           ServerStep(x) \/ Drop(x) \/ LoseCommands(x)
    PROVE  Ordinary'
<1> USE DEF IInv
<1>1. \A y \in Context : y # x => Untouched(y)
  BY ServerQuiet
<1>2. obuf' = obuf /\ reader' = reader /\ answer' = answer
  BY DEF ServerStep, ServeAuth, ServeSelect, ServeRefusal, ServeCommand, Drop, LoseCommands,
         bufVars
<1>3. session[x] \in Session /\ session[x].multi = FALSE
  BY DEF TypeOK, Ordinary, Session
<1>4. ASSUME NEW r \in Request, NEW type \in {"ok", "error", "value"},
             Take(x, r), Answer(x, <<[type |-> type, call |-> r.call]>>),
             session'[x].multi = FALSE
      PROVE  Ordinary'
  <2> DEFINE a == [type |-> type, call |-> r.call]
             replies == <<a>>
  <2>1. a \in Reply /\ a.type # "unknown"
    BY <1>4 DEF Request, Reply
  <2>2. Answer(x, replies) /\ replies = <<a>>
    BY <1>4
  <2> HIDE DEF a, replies
  <2>3. replies \in Seq(Reply) /\ Range(replies) = {a}
    BY <2>1, <2>2 DEF Range
  <2>4. inbox'[x] = inbox[x] \/ inbox'[x] = inbox[x] \o replies
    BY <2>2, <2>3, AnswerType
  <2>5. Range(inbox[x] \o replies) = Range(inbox[x]) \cup {a}
    <3>1. inbox[x] \in Seq(Reply)
      BY DEF TypeOK
    <3>2. Range(inbox[x] \o replies) = Range(inbox[x]) \cup Range(replies)
      BY <2>3, <3>1, ConcatRange
    <3>. QED
      BY <2>3, <3>2
  <2>6. \A b \in Replies(x)' : b \in Replies(x) \/ b.type # "unknown"
    BY <1>2, <2>1, <2>4, <2>5 DEF Replies
  <2>7. \A s \in Requests(x)' : s \in Requests(x)
    BY <1>2, <1>4, TakeAccounts
  <2>. QED
    BY <1>1, <1>2, <1>4, <2>6, <2>7, OrdinaryFrom
<1>5. CASE ServeAuth(x)
  <2>1. PICK r \in Request, type \in {"ok", "error"} :
            Take(x, r) /\ Answer(x, <<[type |-> type, call |-> r.call]>>)
    BY <1>5 DEF ServeAuth
  <2>2. session'[x].multi = FALSE
    BY <1>3, <1>5 DEF ServeAuth, TypeOK, Session
  <2>. QED
    BY <1>4, <2>1, <2>2
<1>6. CASE ServeSelect(x)
  <2>1. PICK r \in Request, type \in {"ok", "error"} :
            Take(x, r) /\ Answer(x, <<[type |-> type, call |-> r.call]>>)
    BY <1>6 DEF ServeSelect
  <2>2. session'[x].multi = FALSE
    BY <1>3, <1>6 DEF ServeSelect, TypeOK, Session
  <2>. QED
    BY <1>4, <2>1, <2>2
<1>7. CASE ServeRefusal(x)
  <2>1. PICK r \in Request : Take(x, r) /\ Answer(x, <<[type |-> "error", call |-> r.call]>>)
    BY <1>7 DEF ServeRefusal
  <2>2. session'[x].multi = FALSE
    BY <1>3, <1>7 DEF ServeRefusal
  <2>. QED
    BY <1>4, <2>1, <2>2
<1>8. CASE ServeCommand(x)
  <2>1. PICK r \in Request :
            /\ Take(x, r) /\ r.call \in Call /\ Answer(x, RepliesTo(r))
            /\ session' = [session EXCEPT ![x] = SessionAfter(x, r)]
    BY <1>8 DEF ServeCommand
  <2>2. r.cmd \in Known
    BY <1>2, <2>1, TakeAccounts DEF Ordinary
  <2>3. Answer(x, <<[type |-> "value", call |-> r.call]>>)
    BY <2>1, <2>2 DEF RepliesTo, Known
  <2>4. session'[x].multi = FALSE
    <3>1. session'[x] = SessionAfter(x, r)
      BY <2>1 DEF TypeOK
    <3>. QED
      BY <1>3, <2>2, <3>1 DEF SessionAfter, Session, Known
  <2>. QED
    BY <1>4, <2>1, <2>3, <2>4
<1>9. CASE Drop(x) \/ LoseCommands(x)
  <2>1. /\ net'[x] = net[x] \/ net'[x] = <<>>
        /\ inbox'[x] = inbox[x] \/ inbox'[x] = <<>>
        /\ session' = session
    BY <1>9 DEF Drop, LoseCommands, TypeOK
  <2>2. Requests(x)' \subseteq Requests(x) /\ Replies(x)' \subseteq Replies(x)
    BY <1>2, <2>1, EmptyRange DEF Requests, Replies
  <2>. QED
    BY <1>1, <1>2, <2>1, <2>2, OrdinaryLess
<1>. QED
  BY <1>5, <1>6, <1>7, <1>8, <1>9 DEF ServerStep

LEMMA OrdinaryStep ==
    ASSUME IInv, Accounted, Ordinary, Commands \subseteq Known, [Next]_vars
    PROVE  Ordinary'
<1>1. CASE Next
  BY <1>1, OrdinaryClient, OrdinaryOwners, OrdinaryServer DEF Next
<1>2. CASE UNCHANGED vars
  BY <1>2 DEF vars, Ordinary, Requests, Replies, bufVars, srvVars
<1>. QED
  BY <1>1, <1>2

\* The outcome of one call changes.
LEMMA StatusChanges ==
    ASSUME NEW k \in Call, NEW w, outcome \in [Call -> Outcomes],
           outcome' = [outcome EXCEPT ![k] = w]
    PROVE  Status' = [Status EXCEPT ![k] = StatusOf(w)]
<1>1. \A m \in Call : outcome'[m] = IF m = k THEN w ELSE outcome[m]
  OBVIOUS
<1>2. Status' = [m \in Call |-> StatusOf(outcome'[m])]
  BY DEF Status, StatusOf
<1>3. [Status EXCEPT ![k] = StatusOf(w)] = [m \in Call |-> IF m = k THEN StatusOf(w) ELSE StatusOf(outcome[m])]
  BY DEF Status
<1>4. \A m \in Call : StatusOf(outcome'[m]) = IF m = k THEN StatusOf(w) ELSE StatusOf(outcome[m])
  BY <1>1
<1>. QED
  BY <1>2, <1>3, <1>4

\* What a step is, as the contract sees it.
ContractStep ==
    \/ \E k \in Call : /\ Status[k] # "pending" /\ effects' = [effects EXCEPT ![k] = 0]
                       /\ \/ Status' = [Status EXCEPT ![k] = "pending"]
                          \/ Status' = [Status EXCEPT ![k] = "refused"]
    \/ \E k \in Call : /\ Status[k] \in {"pending", "failed"} /\ effects[k] = 0
                       /\ effects' = [effects EXCEPT ![k] = 1] /\ Status' = Status
    \/ \E k \in Call : /\ Status[k] = "pending" /\ effects' = effects
                       /\ \/ effects[k] = 1 /\ Status' = [Status EXCEPT ![k] = "returned"]
                          \/ effects[k] = 0 /\ Status' = [Status EXCEPT ![k] = "refused"]
                          \/ Status' = [Status EXCEPT ![k] = "failed"]
    \/ Status' = Status /\ effects' = effects

LEMMA ContractCalls ==
    ASSUME CInv, Ordinary, NEW o \in Object,
           \/ \E k \in Call : ExecWithoutContext(o, k) \/ \E c \in Commands : Exec(o, k, c)
           \/ Return(o) \/ CallThrows(o)
    PROVE  ContractStep
<1> USE DEF CInv, IInv
<1>1. outcome \in [Call -> Outcomes] /\ effects \in [Call -> Nat]
  BY DEF TypeOK
<1>2. \A k \in Call : Status[k] = StatusOf(outcome[k])
  BY DEF Status
<1>3. ASSUME NEW k \in Call, NEW w \in {"pending", "logic_error"},
             outcome[k] = "none", effects' = effects, outcome' = [outcome EXCEPT ![k] = w]
      PROVE  ContractStep
  <2>1. Status' = [Status EXCEPT ![k] = StatusOf(w)]
    BY <1>1, <1>3, StatusChanges
  <2>2. effects[k] = 0
    BY <1>3 DEF Accounted
  <2>3. effects' = [effects EXCEPT ![k] = 0]
    BY <1>1, <1>3, <2>2
  <2>4. Status[k] # "pending" /\ StatusOf(w) \in {"pending", "refused"}
    BY <1>2, <1>3 DEF StatusOf
  <2>. QED
    BY <2>1, <2>3, <2>4 DEF ContractStep
<1>4. ASSUME NEW k \in Call, ExecWithoutContext(o, k) \/ \E c \in Commands : Exec(o, k, c)
      PROVE  ContractStep
  <2>1. /\ outcome[k] = "none" /\ effects' = effects
        /\ \E w \in {"pending", "logic_error"} : outcome' = [outcome EXCEPT ![k] = w]
    BY <1>4 DEF ExecWithoutContext, Exec, ghostVars
  <2>. QED
    BY <1>3, <2>1
<1>5. CASE Return(o)
  <2>1. PICK x \in Context : x = context[o]
    BY <1>5, UsesOwn DEF ClientStep
  <2>2. PICK k \in Call : k = current[o]
    BY <1>5 DEF Return, Owned
  <2>3. reader[x] \in Seq(Reply) /\ reader[x] # <<>>
    BY <1>5, <2>1 DEF Return, TypeOK
  <2>4. PICK a \in Reply : a = Head(reader[x]) /\ a \in Replies(x)
    BY <2>3, TailRange, RangeSeq DEF Replies
  <2>5. /\ outcome' = [outcome EXCEPT ![k] = Converted(a.type)]
        /\ effects' = effects /\ phase[o] = "busy"
    BY <1>5, <2>1, <2>2, <2>4 DEF Return, ghostVars
  <2>6. outcome[k] = "pending"
    BY <2>2, <2>5 DEF Busy
  <2>7. a.call = k /\ a.type # "unknown" /\ Truthful(a)
    BY <2>1, <2>2, <2>3, <2>4, OneTaken DEF Ordinary, Truths
  <2>8. Status' = [Status EXCEPT ![k] = StatusOf(Converted(a.type))] /\ Status[k] = "pending"
    BY <1>1, <1>2, <2>5, <2>6, StatusChanges DEF StatusOf
  <2>9. CASE a.type = "error"
    <3>1. effects[k] = 0 /\ StatusOf(Converted(a.type)) = "refused"
      BY <2>7, <2>9 DEF Truthful, Converted, StatusOf
    <3>. QED
      BY <2>5, <2>8, <3>1 DEF ContractStep
  <2>10. CASE a.type # "error"
    <3>1. effects[k] = 1 /\ StatusOf(Converted(a.type)) = "returned"
      BY <2>7, <2>10 DEF Truthful, Converted, StatusOf
    <3>. QED
      BY <2>5, <2>8, <3>1 DEF ContractStep
  <2>. QED
    BY <2>9, <2>10
<1>6. CASE CallThrows(o)
  <2>1. PICK k \in Call : k = current[o]
    BY <1>6 DEF CallThrows, Owned
  <2>2. /\ outcome' = [outcome EXCEPT ![k] = "threw"] /\ effects' = effects /\ phase[o] = "busy"
    BY <1>6, <2>1 DEF CallThrows, ghostVars
  <2>3. outcome[k] = "pending"
    BY <2>1, <2>2 DEF Busy
  <2>4. /\ Status' = [Status EXCEPT ![k] = "failed"] /\ Status[k] = "pending"
    <3>1. Status' = [Status EXCEPT ![k] = StatusOf("threw")]
      BY <1>1, <2>2, StatusChanges
    <3>. QED
      BY <1>2, <2>3, <3>1 DEF StatusOf
  <2>. QED
    BY <2>2, <2>4 DEF ContractStep
<1>. QED
  BY <1>4, <1>5, <1>6

LEMMA ContractNext ==
    ASSUME CInv, Ordinary, [Next]_vars
    PROVE  ContractStep
<1>1. ASSUME outcome' = outcome, effects' = effects
      PROVE  ContractStep
  BY <1>1 DEF ContractStep, Status
<1>2. CASE UNCHANGED vars
  BY <1>1, <1>2 DEF vars, callVars, ghostVars
<1>3. ASSUME NEW o \in Object,
             \/ Write(o) \/ Read(o) \/ HandshakeOk(o) \/ HandshakeRefused(o)
             \/ ConstructorThrows(o) \/ Destroy(o) \/ \E p \in Object : Move(o, p)
             \/ \E x \in Context : ConnectFails(o, x) \/ \E cfg \in Configs : Connect(o, x, cfg)
      PROVE  ContractStep
  <2>1. UNCHANGED <<callVars, ghostVars>>
    BY <1>3 DEF Write, Read, HandshakeOk, HandshakeRefused, ConstructorThrows, Destroy, Move,
                ConnectFails, Connect
  <2>. QED
    BY <1>1, <2>1 DEF callVars, ghostVars
<1>4. ASSUME NEW x \in Context,
             ServeAuth(x) \/ ServeSelect(x) \/ ServeRefusal(x) \/ Drop(x) \/ LoseCommands(x)
      PROVE  ContractStep
  <2>1. UNCHANGED <<callVars, ghostVars>>
    BY <1>4 DEF ServeAuth, ServeSelect, ServeRefusal, Drop, LoseCommands
  <2>. QED
    BY <1>1, <2>1 DEF callVars, ghostVars
<1>5. ASSUME NEW x \in Context, ServeCommand(x)
      PROVE  ContractStep
  <2>1. PICK r \in Request :
            /\ Take(x, r) /\ r.call \in Call
            /\ effects' = [effects EXCEPT ![r.call] = @ + 1]
    BY <1>5 DEF ServeCommand
  <2>2. obuf' = obuf /\ outcome' = outcome
    BY <1>5 DEF ServeCommand, bufVars, callVars
  <2>3. r \in Requests(x)
    BY <2>1, <2>2, TakeAccounts DEF CInv, IInv
  <2>4. effects[r.call] = 0 /\ outcome[r.call] \notin {"none", "logic_error"} /\ issuedOn[r.call] = x
    BY <2>1, <2>3 DEF CInv, Accounted
  <2>5. effects' = [effects EXCEPT ![r.call] = 1]
    BY <2>1, <2>4 DEF CInv, IInv, TypeOK
  <2>6. outcome[r.call] \notin {"value", "error"}
    <3> SUFFICES ASSUME outcome[r.call] \in {"value", "error"}
                 PROVE  FALSE
      OBVIOUS
    <3>1. answer[r.call].call = r.call /\ Truthful(answer[r.call])
      BY <2>1, <2>4 DEF CInv, Answered, Ordinary
    <3>. QED
      BY <2>1, <2>3, <2>4, <3>1 DEF Truthful
  <2>7. Status[r.call] \in {"pending", "failed"}
    <3>1. outcome[r.call] \in {"pending", "threw"}
      BY <2>1, <2>4, <2>6 DEF CInv, IInv, TypeOK, Outcomes
    <3>. QED
      BY <2>1, <3>1 DEF Status, StatusOf
  <2>8. Status' = Status
    BY <2>2 DEF Status
  <2>. QED
    BY <2>1, <2>4, <2>5, <2>7, <2>8 DEF ContractStep
<1>6. CASE Next
  BY <1>3, <1>4, <1>5, <1>6, ContractCalls DEF Next, ClientStep, ServerStep
<1>. QED
  BY <1>2, <1>6

LEMMA ContractMapped ==
    ASSUME ContractStep
    PROVE  [Contract!Next]_(Contract!vars)
<1>1. Status = [k \in Call |->
        CASE outcome[k] = "none" -> "idle"
          [] outcome[k] = "pending" -> "pending"
          [] outcome[k] = "value" -> "returned"
          [] outcome[k] = "threw" -> "failed"
          [] OTHER -> "refused"]
  BY DEF Status, StatusOf
<1>2. Status' = [k \in Call |->
        CASE outcome'[k] = "none" -> "idle"
          [] outcome'[k] = "pending" -> "pending"
          [] outcome'[k] = "value" -> "returned"
          [] outcome'[k] = "threw" -> "failed"
          [] OTHER -> "refused"]
  BY DEF Status, StatusOf
<1>3. ASSUME NEW k \in Call, Status[k] # "pending", effects' = [effects EXCEPT ![k] = 0],
             Status' = [Status EXCEPT ![k] = "pending"]
      PROVE  Contract!Submit(k)
  BY <1>1, <1>2, <1>3 DEF Contract!Submit
<1>4. ASSUME NEW k \in Call, Status[k] # "pending", effects' = [effects EXCEPT ![k] = 0],
             Status' = [Status EXCEPT ![k] = "refused"]
      PROVE  Contract!Reject(k)
  BY <1>1, <1>2, <1>4 DEF Contract!Reject
<1>5. ASSUME NEW k \in Call, Status[k] \in {"pending", "failed"}, effects[k] = 0,
             effects' = [effects EXCEPT ![k] = 1], Status' = Status
      PROVE  Contract!Execute(k)
  BY <1>1, <1>2, <1>5 DEF Contract!Execute
<1>6. ASSUME NEW k \in Call, Status[k] = "pending", effects' = effects, effects[k] = 1,
             Status' = [Status EXCEPT ![k] = "returned"]
      PROVE  Contract!Return(k)
  BY <1>1, <1>2, <1>6 DEF Contract!Return
<1>7. ASSUME NEW k \in Call, Status[k] = "pending", effects' = effects, effects[k] = 0,
             Status' = [Status EXCEPT ![k] = "refused"]
      PROVE  Contract!Refuse(k)
  BY <1>1, <1>2, <1>7 DEF Contract!Refuse
<1>8. ASSUME NEW k \in Call, Status[k] = "pending", effects' = effects,
             Status' = [Status EXCEPT ![k] = "failed"]
      PROVE  Contract!Fail(k)
  BY <1>1, <1>2, <1>8 DEF Contract!Fail
<1>9. ASSUME Status' = Status, effects' = effects
      PROVE  UNCHANGED Contract!vars
  BY <1>1, <1>2, <1>9 DEF Contract!vars
<1>. QED
  BY <1>3, <1>4, <1>5, <1>6, <1>7, <1>8, <1>9 DEF ContractStep, Contract!Next

\* Whatever happens to its connection, a call of cmd_exec or cmd_execv is what the
\* contract of AtMostOnce allows, when every command has one reply of a type that
\* convert_reply knows: ImplementsContract.
THEOREM CallsKeepContract ==
    ASSUME Commands \subseteq Known
    PROVE  Spec => ImplementsContract
<1>1. Init => Ordinary /\ Contract!Init
  <2> SUFFICES ASSUME Init PROVE Ordinary /\ Contract!Init
    OBVIOUS
  <2>1. Ordinary
    BY EmptyRange DEF Init, Ordinary, Requests, Replies, NewSession, NoReply
  <2>2. Contract!Init
    BY DEF Init, Contract!Init
  <2>. QED
    BY <2>1, <2>2
<1>2. CInv /\ Ordinary /\ [Next]_vars => Ordinary'
  BY OrdinaryStep DEF CInv
<1>3. CInv /\ Ordinary /\ [Next]_vars => [Contract!Next]_(Contract!vars)
  BY ContractNext, ContractMapped
<1>. QED
  BY <1>1, <1>2, <1>3, CallInvariance, PTL DEF Spec, ImplementsContract, Contract!Spec
-----------------------------------------------------------------------------
(***************************************************************************)
(* The session that the constructor of a sync_connection sets up:          *)
(* SessionAsConfigured and RunsInConfiguredDatabase.  The invariant says   *)
(* how far AUTH and SELECT have got while the constructor waits for them,  *)
(* and that neither is still on its way when the first call is made.       *)
(***************************************************************************)
\* A constructor has returned, or a call was made.
Established(x) ==
    \/ \E k \in Call : issuedOn[k] = x
    \/ \E o \in Object : context[o] = x /\ phase[o] \in {"live", "busy"}

Configured(x) ==
    /\ config[x].password # "none" => session[x].authed
    /\ ~session[x].moved => session[x].db = config[x].index

\* What holds while the constructor waits for AUTH or SELECT: nothing else is on
\* its way, and a reply that is OK is true.
Shaking(o, x) ==
    /\ ~err[x]
    /\ \A k \in Call : issuedOn[k] # x
    /\ \A r \in Requests(x) : r = HandshakeRequest(phase[o])
    /\ phase[o] = "auth" =>
          /\ config[x].password # "none" /\ session[x].db = 0
          /\ \A a \in Replies(x) : a.type = "ok" => session[x].authed
    /\ phase[o] = "select" =>
          /\ config[x].password # "none" => session[x].authed
          /\ config[x].index # 0
          /\ \A a \in Replies(x) : a.type = "ok" => session[x].db = config[x].index

InOrder(x) ==
    /\ (\A k \in Call : issuedOn[k] # x) => ~session[x].multi /\ ~session[x].moved
    /\ Established(x) => Configured(x) /\ \A r \in Requests(x) : r.call \in Call
    /\ \A o \in Object : context[o] = x /\ phase[o] \in Handshake => Shaking(o, x)

\* A context that was not connected has seen no error and no call.
Fresh == \A x \in Context : life[x] = "fresh" => ~err[x] /\ \A k \in Call : issuedOn[k] # x

\* The context of a call, and the database it ran in.
Ran(k) ==
    /\ outcome[k] = "none" => issuedOn[k] = NoContext
    /\ effects[k] > 0 =>
          /\ issuedOn[k] \in Context
          /\ ranIn[k] = config[issuedOn[k]].index \/ session[issuedOn[k]].moved

SInv ==
    /\ CInv /\ Fresh
    /\ \A x \in Context : InOrder(x)
    /\ \A k \in Call : Ran(k)
-----------------------------------------------------------------------------
(* One context. *)

\* Objects come to a context only from an object that was done constructing it.
ObjectsKept(x) ==
    \A o \in Object : context'[o] = x =>
        \/ context[o] = x /\ phase'[o] = phase[o]
        \/ phase'[o] = "live" /\ \E p \in Object : context[p] = x /\ phase[p] \in {"live", "busy"}

\* A step that adds nothing to what is on its way but a refusal.
LEMMA OrderKept ==
    ASSUME NEW x \in Context, InOrder(x), ObjectsKept(x),
           config'[x] = config[x], session'[x] = session[x],
           \A k \in Call : issuedOn'[k] = x <=> issuedOn[k] = x,
           \A r \in Requests(x)' : r \in Requests(x),
           \A a \in Replies(x)' : a \in Replies(x) \/ a.type # "ok",
           err'[x] = err[x] \/ \A o \in Object : context'[o] = x => phase'[o] \notin Handshake
    PROVE  InOrder(x)'
<1>1. Established(x)' => Established(x)
  BY DEF Established, ObjectsKept
<1>2. Configured(x)' = Configured(x)
  BY DEF Configured
<1>3. Established(x)' => Configured(x)' /\ \A r \in Requests(x)' : r.call \in Call
  BY <1>1, <1>2 DEF InOrder
<1>4. (\A k \in Call : issuedOn'[k] # x) => ~session'[x].multi /\ ~session'[x].moved
  BY DEF InOrder
<1>5. ASSUME NEW o \in Object, context'[o] = x, phase'[o] \in Handshake
      PROVE  Shaking(o, x)'
  <2>1. context[o] = x /\ phase'[o] = phase[o] /\ err'[x] = err[x]
    BY <1>5 DEF ObjectsKept, Handshake
  <2>2. Shaking(o, x)
    BY <1>5, <2>1 DEF InOrder
  <2>. QED
    BY <2>1, <2>2 DEF Shaking
<1>. QED
  BY <1>3, <1>4, <1>5 DEF InOrder

LEMMA OrderUntouched ==
    ASSUME NEW x \in Context, InOrder(x), ObjectsKept(x), Untouched(x),
           config'[x] = config[x], \A k \in Call : issuedOn'[k] = x <=> issuedOn[k] = x
    PROVE  InOrder(x)'
<1>1. Requests(x)' = Requests(x) /\ Replies(x)' = Replies(x)
  BY DEF Untouched, Requests, Replies
<1>. QED
  BY <1>1, OrderKept DEF Untouched

\* A context that is given up.
LEMMA OrderFreed ==
    ASSUME TypeOK, Quiet, NEW x \in Context, FreeContext(x),
           err' = err \/ err' = [err EXCEPT ![x] = TRUE],
           net' = net, session' = session, config' = config, issuedOn' = issuedOn,
           \A y \in Context : InOrder(y) /\ ObjectsKept(y),
           \A o \in Object : context'[o] # x
    PROVE  \A y \in Context : InOrder(y)'
<1>1. \A y \in Context : y # x => Untouched(y)
  BY FreedQuiet
<1>2. obuf'[x] = <<>> /\ inbox'[x] = <<>> /\ reader'[x] = <<>>
  BY FreeType
<1>3. (\A r \in Requests(x)' : r \in Requests(x)) /\ Replies(x)' = {}
  BY <1>2, EmptyRange DEF Requests, Replies
<1>4. InOrder(x)'
  BY <1>3, OrderKept
<1>5. \A y \in Context : y # x => InOrder(y)'
  BY <1>1, OrderUntouched
<1>. QED
  BY <1>4, <1>5
-----------------------------------------------------------------------------
(* The constructor. *)

\* What is left of the handshake.
LEMMA PendingSteps ==
    ASSUME NEW cfg, NEW from
    PROVE  /\ Pending(cfg, from) = <<>> =>
                 cfg.index = 0 /\ (from = "auth" => cfg.password = "none")
           /\ Pending(cfg, from) # <<>> =>
                 \/ /\ Head(Pending(cfg, from)) = "auth"
                    /\ from = "auth" /\ cfg.password # "none"
                 \/ /\ Head(Pending(cfg, from)) = "select" /\ cfg.index # 0
                    /\ from = "auth" => cfg.password = "none"
<1>1. CASE from = "auth" /\ cfg.password # "none" /\ cfg.index # 0
  <2>1. Pending(cfg, from) = <<"auth">> \o <<"select">>
    BY <1>1 DEF Pending
  <2>2. Pending(cfg, from) # <<>> /\ Head(Pending(cfg, from)) = "auth"
    BY <2>1
  <2>. QED
    BY <1>1, <2>2
<1>2. CASE from = "auth" /\ cfg.password # "none" /\ cfg.index = 0
  <2>1. Pending(cfg, from) = <<"auth">> \o <<>>
    BY <1>2 DEF Pending
  <2>2. Pending(cfg, from) # <<>> /\ Head(Pending(cfg, from)) = "auth"
    BY <2>1
  <2>. QED
    BY <1>2, <2>2
<1>3. CASE ~(from = "auth" /\ cfg.password # "none") /\ cfg.index # 0
  <2>1. Pending(cfg, from) = <<>> \o <<"select">>
    BY <1>3 DEF Pending
  <2>2. Pending(cfg, from) # <<>> /\ Head(Pending(cfg, from)) = "select"
    BY <2>1
  <2>. QED
    BY <1>3, <2>2
<1>4. CASE ~(from = "auth" /\ cfg.password # "none") /\ cfg.index = 0
  <2>1. Pending(cfg, from) = <<>> \o <<>>
    BY <1>4 DEF Pending
  <2>2. Pending(cfg, from) = <<>>
    BY <2>1
  <2>. QED
    BY <1>4, <2>2
<1>. QED
  BY <1>1, <1>2, <1>3, <1>4

\* A queue of one command.
LEMMA SingleRange ==
    ASSUME NEW h \in Request
    PROVE  Range(Append(<<>>, h)) = {h}
<1>1. PICK q \in Seq(Request) : q = <<>>
  BY EmptySeq
<1>2. Range(Append(q, h)) = Range(q) \cup {h}
  BY AppendRange
<1>. QED
  BY <1>1, <1>2, EmptyRange

\* The next command of the constructor, or its end, on a context with nothing
\* under way.
LEMMA OrderProceeds ==
    ASSUME TypeOK, NEW o \in Object, NEW x \in Context, NEW steps \in Seq(Handshake),
           Proceed(o, x, steps),
           obuf[x] = <<>>, net'[x] = <<>>, inbox'[x] = <<>>, reader'[x] = <<>>,
           ~err'[x], ~session'[x].multi, ~session'[x].moved,
           \A k \in Call : issuedOn'[k] # x,
           context'[o] = x, \A p \in Object : p # o => context'[p] # x,
           steps = <<>> => Configured(x)',
           steps # <<>> =>
               \/ /\ Head(steps) = "auth" /\ config'[x].password # "none" /\ session'[x].db = 0
               \/ /\ Head(steps) = "select" /\ config'[x].index # 0
                  /\ config'[x].password # "none" => session'[x].authed
    PROVE  InOrder(x)'
<1>1. Replies(x)' = {}
  BY EmptyRange DEF Replies
<1>2. CASE steps = <<>>
  <2>1. phase'[o] = "live" /\ obuf' = obuf
    BY <1>2 DEF Proceed, TypeOK
  <2>2. Requests(x)' = {}
    BY <2>1, EmptyRange DEF Requests
  <2>. QED
    BY <1>2, <2>1, <2>2 DEF InOrder, Handshake
<1>3. CASE steps # <<>>
  <2>1. phase'[o] = Head(steps) /\ obuf'[x] = Append(obuf[x], HandshakeRequest(Head(steps)))
    BY <1>3 DEF Proceed, TypeOK
  <2>2. HandshakeRequest(Head(steps)) \in Request
    BY DEF HandshakeRequest, Request
  <2>3. \A r \in Requests(x)' : r = HandshakeRequest(phase'[o])
    <3>1. Range(obuf'[x]) = {HandshakeRequest(Head(steps))}
      BY <2>1, <2>2, SingleRange
    <3>. QED
      BY <2>1, <3>1, EmptyRange DEF Requests
  <2>4. phase'[o] \in {"auth", "select"}
    BY <1>3, <2>1
  <2>5. Shaking(o, x)'
    BY <1>1, <1>3, <2>1, <2>3, <2>4 DEF Shaking
  <2>6. ~Established(x)'
    BY <2>4 DEF Established
  <2>. QED
    BY <2>5, <2>6 DEF InOrder
<1>. QED
  BY <1>2, <1>3

LEMMA OrderConnects ==
    ASSUME SInv, NEW o \in Object, NEW x \in Context, NEW cfg \in Configs, Connect(o, x, cfg)
    PROVE  \A y \in Context : InOrder(y)'
<1> USE DEF SInv, CInv, IInv
<1>1. /\ phase[o] = "none" /\ life[x] = "fresh" /\ Proceed(o, x, Pending(cfg, "auth"))
      /\ config' = [config EXCEPT ![x] = cfg] /\ context' = [context EXCEPT ![o] = x]
      /\ UNCHANGED <<err, reader, net, inbox, session, issuedOn>>
  BY DEF Connect, callVars
<1>2. /\ context'[o] = x /\ config'[x] = cfg
      /\ \A q \in Object : q # o => context'[q] = context[q]
      /\ \A y \in Context : y # x => config'[y] = config[y]
  BY <1>1 DEF TypeOK
<1>3. /\ obuf[x] = <<>> /\ net'[x] = <<>> /\ inbox'[x] = <<>> /\ reader'[x] = <<>>
      /\ session'[x] = NewSession
  BY <1>1 DEF Quiet
<1>4. /\ ~err'[x] /\ ~session'[x].multi /\ ~session'[x].moved /\ session'[x].db = 0
      /\ \A k \in Call : issuedOn'[k] # x
  BY <1>1, <1>3 DEF Fresh, NewSession
<1>5. \A p \in Object : context[p] # x
  BY <1>1, ConstantsAssumption DEF Owned
<1>6. Pending(cfg, "auth") \in Seq(Handshake)
  BY PendingType
<1>7. InOrder(x)'
  <2>1. Pending(cfg, "auth") = <<>> => Configured(x)'
    BY <1>2, <1>4, PendingSteps DEF Configured
  <2>2. Pending(cfg, "auth") # <<>> =>
            \/ /\ Head(Pending(cfg, "auth")) = "auth" /\ config'[x].password # "none"
               /\ session'[x].db = 0
            \/ /\ Head(Pending(cfg, "auth")) = "select" /\ config'[x].index # 0
               /\ config'[x].password # "none" => session'[x].authed
    BY <1>2, <1>4, PendingSteps
  <2>. QED
    BY <1>1, <1>2, <1>3, <1>4, <1>5, <1>6, <2>1, <2>2, OrderProceeds
<1>8. ASSUME NEW y \in Context, y # x
      PROVE  InOrder(y)'
  <2>1. Untouched(y)
    BY <1>8, ConnectQuiet
  <2>2. \A q \in Object : q # o => phase'[q] = phase[q]
    BY <1>1, <1>6, ProceedType
  <2>3. ObjectsKept(y)
    BY <1>2, <1>8, <2>2 DEF ObjectsKept
  <2>. QED
    BY <1>1, <1>2, <1>8, <2>1, <2>3, OrderUntouched
<1>. QED
  BY <1>7, <1>8

LEMMA OrderHandshakes ==
    ASSUME SInv, NEW o \in Object, HandshakeOk(o)
    PROVE  \A y \in Context : InOrder(y)'
<1> USE DEF SInv, CInv, IInv
<1>1. PICK x \in Context : x = context[o]
  BY UsesOwn DEF ClientStep
<1> DEFINE steps == IF phase[o] = "auth" THEN Pending(config[x], "select") ELSE <<>>
<1>2. /\ <<>> \in Seq(Handshake) /\ Proceed(o, x, steps) /\ phase[o] \in {"auth", "select"}
      /\ reader[x] # <<>> /\ Head(reader[x]).type = "ok"
      /\ reader'[x] = Tail(reader[x])
      /\ UNCHANGED <<context, config, err, net, inbox, session, issuedOn>>
  BY <1>1 DEF HandshakeOk, Handshake, TypeOK, ctxVars, srvVars, callVars
<1>3. steps \in Seq(Handshake)
  BY <1>2, PendingType
<1>4. Shaking(o, x) /\ ~session[x].multi /\ ~session[x].moved
  BY <1>1, <1>2 DEF InOrder, Shaking, Handshake
<1>5. obuf[x] = <<>> /\ net[x] = <<>> /\ inbox[x] = <<>> /\ Tail(reader[x]) = <<>>
  BY <1>1, <1>2, <1>4, OneTaken
<1>6. Head(reader[x]) \in Replies(x)
  <2>1. reader[x] \in Seq(Reply)
    BY DEF TypeOK
  <2>. QED
    BY <1>2, <2>1, TailRange DEF Replies
<1>7. /\ phase[o] = "auth" => session[x].authed /\ session[x].db = 0
      /\ phase[o] = "select" => /\ config[x].password # "none" => session[x].authed
                                /\ session[x].db = config[x].index
  BY <1>2, <1>4, <1>6 DEF Shaking
<1>8. steps = <<>> => Configured(x)'
  <2>1. steps = <<>> => Configured(x)
    BY <1>2, <1>7, PendingSteps DEF Configured
  <2>. QED
    BY <1>2, <2>1 DEF Configured
<1>9. steps # <<>> => /\ Head(steps) = "select" /\ config'[x].index # 0
                      /\ config'[x].password # "none" => session'[x].authed
  BY <1>2, <1>7, PendingSteps
<1> HIDE DEF steps
<1>10. \A p \in Object : p # o => context[p] # x
  BY <1>1, ConstantsAssumption DEF Owned
<1>11. InOrder(x)'
  BY <1>1, <1>2, <1>3, <1>4, <1>5, <1>8, <1>9, <1>10, OrderProceeds DEF Shaking
<1>12. ASSUME NEW y \in Context, y # x
       PROVE  InOrder(y)'
  <2>1. Untouched(y)
    BY <1>1, <1>12, ObjectQuiet DEF ClientStep
  <2>2. \A q \in Object : q # o => phase'[q] = phase[q]
    BY <1>2, <1>3, ProceedType
  <2>3. ObjectsKept(y)
    BY <1>1, <1>2, <1>12, <2>2 DEF ObjectsKept
  <2>. QED
    BY <1>2, <2>1, <2>3, OrderUntouched
<1>. QED
  BY <1>11, <1>12
-----------------------------------------------------------------------------
(* Calls. *)

\* The calls made on the other contexts are what they were.
LEMMA CallsElsewhere ==
    ASSUME SInv, NEW o \in Object, NEW k \in Call, NEW c \in Commands, Exec(o, k, c)
    PROVE  /\ issuedOn[k] = NoContext /\ issuedOn'[k] = context[o]
           /\ \A m \in Call : m # k => issuedOn'[m] = issuedOn[m]
<1>1. outcome[k] = "none" /\ issuedOn' = [issuedOn EXCEPT ![k] = context[o]]
  BY DEF Exec
<1>. QED
  BY <1>1 DEF SInv, CInv, IInv, TypeOK, Ran

\* A call is made once the session is as configured.
LEMMA OrderExec ==
    ASSUME SInv, NEW o \in Object, NEW k \in Call, NEW c \in Commands, Exec(o, k, c)
    PROVE  \A y \in Context : InOrder(y)'
<1> USE DEF SInv, CInv, IInv
<1>1. PICK x \in Context : x = context[o]
  BY UsesOwn
<1> DEFINE e == [cmd |-> c, call |-> k]
<1>2. /\ phase[o] = "live" /\ phase'[o] = "busy" /\ obuf'[x] = Append(obuf[x], e)
      /\ \A q \in Object : q # o => phase'[q] = phase[q]
      /\ UNCHANGED <<context, config, net, session>>
  BY <1>1 DEF Exec, TypeOK, ctxVars, srvVars
<1>3. e \in Request /\ e.call \in Call
  BY ConstantsAssumption DEF Request
<1> HIDE DEF e
<1>4. /\ issuedOn[k] = NoContext /\ issuedOn'[k] = x
      /\ \A m \in Call : m # k => issuedOn'[m] = issuedOn[m]
  BY <1>1, CallsElsewhere
<1>5. InOrder(x)'
  <2>1. Established(x)
    BY <1>1, <1>2 DEF Established
  <2>2. Configured(x)'
    BY <1>2, <2>1 DEF InOrder, Configured
  <2>3. \A r \in Requests(x)' : r.call \in Call
    <3>1. Range(obuf'[x]) = Range(obuf[x]) \cup {e}
      <4>1. obuf[x] \in Seq(Request)
        BY DEF TypeOK
      <4>. QED
        BY <1>2, <1>3, <4>1, AppendRange
    <3>2. \A r \in Requests(x) : r.call \in Call
      BY <2>1 DEF InOrder
    <3>. QED
      BY <1>2, <1>3, <3>1, <3>2 DEF Requests
  <2>4. \A q \in Object : context'[q] = x => phase'[q] \notin Handshake
    <3>1. \A q \in Object : context[q] = x => q = o
      BY <1>1, ConstantsAssumption DEF Owned
    <3>. QED
      BY <1>2, <3>1 DEF Handshake
  <2>. QED
    BY <1>4, <2>2, <2>3, <2>4 DEF InOrder
<1>6. ASSUME NEW y \in Context, y # x
      PROVE  InOrder(y)'
  <2>1. Untouched(y)
    BY <1>1, <1>6, ObjectQuiet
  <2>2. ObjectsKept(y)
    BY <1>1, <1>2, <1>6 DEF ObjectsKept
  <2>3. \A m \in Call : issuedOn'[m] = y <=> issuedOn[m] = y
    BY <1>4, <1>6, ConstantsAssumption
  <2>. QED
    BY <1>2, <2>1, <2>2, <2>3, OrderUntouched
<1>. QED
  BY <1>5, <1>6

\* What a thread does inside a call or a constructor, as long as it waits.
LEMMA OrderCalls ==
    ASSUME SInv, NEW o \in Object, Write(o) \/ Read(o) \/ Return(o) \/ CallThrows(o)
    PROVE  \A y \in Context : InOrder(y)'
<1> USE DEF SInv, CInv, IInv
<1>1. PICK x \in Context : x = context[o]
  BY UsesOwn DEF ClientStep
<1>2. /\ UNCHANGED <<context, config, session, issuedOn>>
      /\ \A q \in Object : q # o => phase'[q] = phase[q]
      /\ phase'[o] = phase[o] \/ (phase[o] = "busy" /\ phase'[o] = "live")
  BY DEF Write, Read, Return, CallThrows, TypeOK, objVars, ctxVars, srvVars, callVars
<1>3. \A y \in Context : ObjectsKept(y)
  BY <1>2 DEF ObjectsKept
<1>4. /\ obuf[x] \in Seq(Request) /\ net[x] \in Seq(Request)
      /\ inbox[x] \in Seq(Reply) /\ reader[x] \in Seq(Reply)
  BY DEF TypeOK
<1>5. (\A r \in Requests(x)' : r \in Requests(x)) /\ \A a \in Replies(x)' : a \in Replies(x)
  <2>1. CASE Write(o)
    <3>1. /\ obuf[x] # <<>> /\ obuf'[x] = Tail(obuf[x])
          /\ net'[x] = net[x] \/ net'[x] = Append(net[x], Head(obuf[x]))
          /\ inbox' = inbox /\ reader' = reader
      BY <1>1, <2>1 DEF Write, TypeOK
    <3>2. /\ Range(obuf[x]) = Range(obuf'[x]) \cup {Head(obuf[x])}
          /\ Head(obuf[x]) \in Request
      BY <1>4, <3>1, TailRange, RangeSeq
    <3>3. Range(Append(net[x], Head(obuf[x]))) = Range(net[x]) \cup {Head(obuf[x])}
      BY <1>4, <3>2, AppendRange
    <3>4. Range(net'[x]) \subseteq Range(net[x]) \cup {Head(obuf[x])}
      BY <3>1, <3>3
    <3>. QED
      BY <3>1, <3>2, <3>4 DEF Requests, Replies
  <2>2. CASE Read(o)
    <3>1. /\ inbox[x] # <<>> /\ inbox'[x] = Tail(inbox[x])
          /\ reader'[x] = Append(reader[x], Head(inbox[x]))
          /\ obuf' = obuf /\ net' = net
      BY <1>1, <2>2 DEF Read, TypeOK
    <3>2. Range(inbox[x]) = Range(inbox'[x]) \cup {Head(inbox[x])} /\ Head(inbox[x]) \in Reply
      BY <1>4, <3>1, TailRange, RangeSeq
    <3>3. Range(reader'[x]) = Range(reader[x]) \cup {Head(inbox[x])}
      BY <1>4, <3>1, <3>2, AppendRange
    <3>. QED
      BY <3>1, <3>2, <3>3 DEF Requests, Replies
  <2>3. CASE Return(o) \/ CallThrows(o)
    <3>1. /\ obuf' = obuf /\ net' = net /\ inbox' = inbox
          /\ reader'[x] = reader[x] \/ (reader[x] # <<>> /\ reader'[x] = Tail(reader[x]))
      BY <1>1, <2>3 DEF Return, CallThrows, TypeOK, srvVars
    <3>. QED
      BY <1>4, <3>1, TailRange DEF Requests, Replies
  <2>. QED
    BY <2>1, <2>2, <2>3
<1>6. err'[x] = err[x] \/ \A q \in Object : context'[q] = x => phase'[q] \notin Handshake
  <2>1. CASE CallThrows(o)
    <3>1. \A q \in Object : context[q] = x => q = o
      BY <1>1, ConstantsAssumption DEF Owned
    <3>2. phase'[o] = "live"
      BY <2>1 DEF CallThrows, TypeOK
    <3>. QED
      BY <1>2, <3>1, <3>2 DEF Handshake
  <2>2. CASE ~CallThrows(o)
    BY <2>2 DEF Write, Read, Return
  <2>. QED
    BY <2>1, <2>2
<1>7. InOrder(x)'
  BY <1>2, <1>3, <1>5, <1>6, OrderKept
<1>8. ASSUME NEW y \in Context, y # x
      PROVE  InOrder(y)'
  <2>1. Untouched(y)
    BY <1>1, <1>8, ObjectQuiet DEF ClientStep
  <2>. QED
    BY <1>2, <1>3, <2>1, OrderUntouched
<1>. QED
  BY <1>7, <1>8
-----------------------------------------------------------------------------
(* Contexts that change hands. *)

\* A context that is given up by an object that goes or takes another's.
LEMMA OrderMoves ==
    ASSUME SInv, NEW o \in Object, Destroy(o) \/ \E p \in Object : Move(o, p)
    PROVE  \A y \in Context : InOrder(y)'
<1> USE DEF SInv, CInv, IInv
<1>1. PICK p \in Object :
          /\ UNCHANGED <<config, err, net, session, issuedOn>>
          /\ IF context[p] = NoContext THEN UNCHANGED <<life, link, obuf, reader, inbox>>
             ELSE FreeContext(context[p])
          /\ \A y \in Context : ObjectsKept(y)
          /\ \A q \in Object : context'[q] \in Context => context'[q] # context[p]
  <2>1. CASE Destroy(o)
    <3>1. /\ context' = [context EXCEPT ![o] = NoContext] /\ phase' = [phase EXCEPT ![o] = "none"]
          /\ UNCHANGED <<config, err, net, session, issuedOn>>
          /\ IF context[o] = NoContext THEN UNCHANGED <<life, link, obuf, reader, inbox>>
             ELSE FreeContext(context[o])
      BY <2>1 DEF Destroy, callVars
    <3>2. /\ context'[o] = NoContext
          /\ \A q \in Object : q # o => context'[q] = context[q] /\ phase'[q] = phase[q]
      BY <3>1 DEF TypeOK
    <3>3. \A y \in Context : ObjectsKept(y)
      BY <3>2, ConstantsAssumption DEF ObjectsKept
    <3>4. \A q \in Object : context'[q] \in Context => context'[q] # context[o]
      BY <3>2, ConstantsAssumption DEF Owned
    <3>. QED
      BY <3>1, <3>3, <3>4
  <2>2. ASSUME NEW p \in Object, Move(o, p)
        PROVE  /\ UNCHANGED <<config, err, net, session, issuedOn>>
               /\ IF context[p] = NoContext THEN UNCHANGED <<life, link, obuf, reader, inbox>>
                  ELSE FreeContext(context[p])
               /\ \A y \in Context : ObjectsKept(y)
               /\ \A q \in Object : context'[q] \in Context => context'[q] # context[p]
    <3>1. /\ o # p /\ phase[o] = "live" /\ phase' = [phase EXCEPT ![p] = "live"]
          /\ context' = [context EXCEPT ![p] = context[o], ![o] = NoContext]
          /\ UNCHANGED <<config, err, net, session, issuedOn>>
          /\ IF context[p] = NoContext THEN UNCHANGED <<life, link, obuf, reader, inbox>>
             ELSE FreeContext(context[p])
      BY <2>2 DEF Move, callVars
    <3>2. /\ context'[p] = context[o] /\ context'[o] = NoContext /\ phase'[p] = "live"
          /\ \A q \in Object : q # p => phase'[q] = phase[q]
          /\ \A q \in Object : q \notin {o, p} => context'[q] = context[q]
      BY <3>1 DEF TypeOK
    <3>3. \A y \in Context : ObjectsKept(y)
      BY <3>1, <3>2, ConstantsAssumption DEF ObjectsKept
    <3>4. ASSUME NEW q \in Object, context'[q] \in Context
          PROVE  context'[q] # context[p]
      <4>1. context'[q] # NoContext /\ q # o
        BY <3>2, <3>4, ConstantsAssumption
      <4>2. PICK s \in Object : context'[q] = context[s] /\ s # p
        BY <3>1, <3>2, <4>1
      <4>. QED
        BY <4>1, <4>2 DEF Owned
    <3>. QED
      BY <3>1, <3>3, <3>4
  <2>. QED
    BY <2>1, <2>2
<1>2. CASE context[p] = NoContext
  <2>1. \A y \in Context : Untouched(y)
    BY <1>1, <1>2 DEF Untouched
  <2>. QED
    BY <1>1, <2>1, OrderUntouched
<1>3. CASE context[p] # NoContext
  <2>1. PICK x \in Context : x = context[p] /\ FreeContext(x)
    BY <1>1, <1>3 DEF TypeOK
  <2>2. \A q \in Object : context'[q] # x
    BY <1>1, <2>1
  <2>. QED
    BY <1>1, <2>1, <2>2, OrderFreed
<1>. QED
  BY <1>2, <1>3

\* A constructor throws.
LEMMA OrderThrows ==
    ASSUME SInv, NEW o \in Object, HandshakeRefused(o) \/ ConstructorThrows(o)
    PROVE  \A y \in Context : InOrder(y)'
<1> USE DEF SInv, CInv, IInv
<1>1. PICK x \in Context : x = context[o]
  BY UsesOwn DEF ClientStep
<1>2. /\ context' = [context EXCEPT ![o] = NoContext] /\ phase' = [phase EXCEPT ![o] = "none"]
      /\ FreeContext(x) /\ UNCHANGED <<config, net, session, issuedOn>>
      /\ err' = err \/ err' = [err EXCEPT ![x] = TRUE]
  BY <1>1 DEF HandshakeRefused, ConstructorThrows, callVars
<1>3. /\ context'[o] = NoContext
      /\ \A q \in Object : q # o => context'[q] = context[q] /\ phase'[q] = phase[q]
  BY <1>2 DEF TypeOK
<1>4. \A y \in Context : ObjectsKept(y)
  BY <1>3, ConstantsAssumption DEF ObjectsKept
<1>5. \A q \in Object : context'[q] # x
  BY <1>1, <1>3, ConstantsAssumption DEF Owned
<1>. QED
  BY <1>2, <1>4, <1>5, OrderFreed

\* A connection that is not made, and a call that is not sent.
LEMMA OrderNothing ==
    ASSUME SInv, NEW o \in Object,
           \/ \E x \in Context : ConnectFails(o, x)
           \/ \E k \in Call : ExecWithoutContext(o, k)
    PROVE  \A y \in Context : InOrder(y)'
<1> USE DEF SInv, CInv, IInv
<1>1. /\ UNCHANGED <<phase, context, config, obuf, reader, net, inbox, session, issuedOn>>
      /\ \A y \in Context : ObjectsKept(y)
      /\ \A y \in Context : err'[y] = err[y] \/ life[y] = "fresh"
  <2>1. UNCHANGED <<phase, context, config, obuf, reader, net, inbox, session, issuedOn>>
    BY DEF ConnectFails, ExecWithoutContext, objVars, ctxVars, bufVars, srvVars, callVars
  <2>2. \A y \in Context : err'[y] = err[y] \/ life[y] = "fresh"
    BY DEF ConnectFails, ExecWithoutContext, bufVars, TypeOK
  <2>. QED
    BY <2>1, <2>2 DEF ObjectsKept
<1>2. ASSUME NEW y \in Context
      PROVE  InOrder(y)'
  <2>1. Requests(y)' = Requests(y) /\ Replies(y)' = Replies(y)
    BY <1>1 DEF Requests, Replies
  <2>2. err'[y] = err[y] \/ \A q \in Object : context'[q] = y => phase'[q] \notin Handshake
    BY <1>1, ConstantsAssumption DEF Owned
  <2>. QED
    BY <1>1, <2>1, <2>2, OrderKept
<1>. QED
  BY <1>2
-----------------------------------------------------------------------------
(* The server. *)

\* What the server does on one context leaves the others in order.
LEMMA OrderElsewhere ==
    ASSUME SInv, NEW x \in Context, ServerStep(x) \/ Drop(x) \/ LoseCommands(x)
    PROVE  /\ \A y \in Context : ObjectsKept(y)
           /\ UNCHANGED <<phase, context, config, issuedOn, err, obuf, reader>>
           /\ \A y \in Context : y # x => InOrder(y)'
<1> USE DEF SInv, CInv, IInv
<1>1. UNCHANGED <<phase, context, config, issuedOn, err, obuf, reader>>
  BY DEF ServerStep, ServeAuth, ServeSelect, ServeRefusal, ServeCommand, Drop, LoseCommands,
         objVars, ctxVars, bufVars, callVars
<1>2. \A y \in Context : ObjectsKept(y)
  BY <1>1 DEF ObjectsKept
<1>3. ASSUME NEW y \in Context, y # x
      PROVE  InOrder(y)'
  <2>1. Untouched(y)
    BY <1>3, ServerQuiet
  <2>. QED
    BY <1>1, <1>2, <2>1, OrderUntouched
<1>. QED
  BY <1>1, <1>2, <1>3

LEMMA SumRest ==
    ASSUME NEW a \in Nat, NEW b \in Nat, NEW c \in Nat, NEW d \in Nat,
           a + b + c + d <= 1, b # 0
    PROVE  c = 0 /\ d = 0
OBVIOUS

\* A command that is taken while a constructor waits is the only thing under way.
LEMMA ShakingTaken ==
    ASSUME SInv, NEW x \in Context, NEW r, Take(x, r), obuf' = obuf, reader' = reader,
           NEW type \in {"ok", "error"}, Answer(x, <<[type |-> type, call |-> r.call]>>),
           NEW o \in Object, context[o] = x, Shaking(o, x), ~session[x].multi
    PROVE  \A a \in Replies(x)' : a.type = type
<1> USE DEF SInv, CInv, IInv
<1>1. /\ net[x] \in Seq(Request) /\ inbox[x] \in Seq(Reply) /\ reader[x] \in Seq(Reply)
      /\ obuf[x] \in Seq(Request) /\ net[x] # <<>> /\ r \in Request
  BY TakeType DEF TypeOK
<1>2. Load(x) <= 1
  <2>1. Load(x) <= IF Waiting(o) THEN 1 ELSE 0
    BY ConstantsAssumption DEF OneAtATime, Shaking
  <2>2. Load(x) \in Nat
    BY LoadType
  <2>. QED
    BY <2>1, <2>2
<1>3. inbox[x] = <<>> /\ reader[x] = <<>>
  <2>1. Len(net[x]) \in Nat /\ Len(net[x]) # 0
    BY <1>1, RangeSeq
  <2>2. Len(inbox[x]) \in Nat /\ Len(reader[x]) \in Nat /\ Len(obuf[x]) \in Nat
    BY LoadType
  <2>3. Len(inbox[x]) = 0 /\ Len(reader[x]) = 0
    BY <1>2, <2>1, <2>2, SumRest DEF Load
  <2>. QED
    BY <1>1, <2>3, RangeSeq
<1> DEFINE b == [type |-> type, call |-> r.call]
<1>4. b \in Reply /\ b.type = type
  BY <1>1 DEF Request, Reply
<1>5. <<b>> \in Seq(Reply) /\ Range(<<b>>) = {b}
  BY <1>4 DEF Range
<1>6. PICK q : q \in Seq(Reply) /\ Range(q) = {b} /\ Answer(x, q)
  BY <1>5
<1> HIDE DEF b
<1>7. Range(inbox'[x]) \subseteq {b}
  <2>1. Range(inbox[x] \o q) = Range(inbox[x]) \cup {b}
    BY <1>1, <1>6, ConcatRange
  <2>2. inbox'[x] = IF link[x] = "up" THEN inbox[x] \o q ELSE inbox[x]
    BY <1>6, AnswerType
  <2>. QED
    BY <1>3, <2>1, <2>2, EmptyRange
<1>. QED
  BY <1>3, <1>4, <1>7, EmptyRange DEF Replies

\* AUTH and SELECT of the constructor: they find no call under way.
LEMMA OrderShakes ==
    ASSUME SInv, NEW x \in Context, ServeAuth(x) \/ ServeSelect(x)
    PROVE  InOrder(x)'
<1> USE DEF SInv, CInv, IInv
<1>1. PICK r \in Request, type \in {"ok", "error"} :
          /\ Take(x, r) /\ Answer(x, <<[type |-> type, call |-> r.call]>>)
          /\ \/ /\ r.cmd = "AUTH" /\ session' = [session EXCEPT ![x].authed = (type = "ok")]
             \/ /\ r.cmd = "SELECT"
                /\ \/ /\ type = "error" /\ session' = session
                   \/ /\ type = "ok" /\ config[x].index < Databases
                      /\ session' = [session EXCEPT ![x].db = config[x].index]
  <2>1. CASE ServeAuth(x)
    <3>1. PICK r \in Request :
              /\ Take(x, r) /\ r.cmd = "AUTH"
              /\ session' = [session EXCEPT ![x].authed =
                                (RequirePass /\ config[x].password = "good")]
              /\ Answer(x, <<[type |-> IF RequirePass /\ config[x].password = "good"
                                       THEN "ok" ELSE "error", call |-> r.call]>>)
      BY <2>1 DEF ServeAuth
    <3>2. CASE RequirePass /\ config[x].password = "good"
      <4>1. session' = [session EXCEPT ![x].authed = TRUE]
        BY <3>1, <3>2
      <4>2. Answer(x, <<[type |-> "ok", call |-> r.call]>>)
        BY <3>1, <3>2
      <4>3. TRUE = ("ok" = "ok")
        OBVIOUS
      <4>. QED
        BY <3>1, <4>1, <4>2, <4>3
    <3>3. CASE ~(RequirePass /\ config[x].password = "good")
      <4>1. session' = [session EXCEPT ![x].authed = FALSE]
        BY <3>1, <3>3
      <4>2. Answer(x, <<[type |-> "error", call |-> r.call]>>)
        BY <3>1, <3>3
      <4>3. FALSE = ("error" = "ok")
        OBVIOUS
      <4>. QED
        BY <3>1, <4>1, <4>2, <4>3
    <3>. QED
      BY <3>2, <3>3
  <2>2. CASE ServeSelect(x)
    BY <2>2 DEF ServeSelect
  <2>. QED
    BY <2>1, <2>2
<1>2. /\ UNCHANGED <<phase, context, config, issuedOn, err, obuf, reader>>
      /\ \A y \in Context : ObjectsKept(y)
  BY OrderElsewhere DEF ServerStep
<1>3. r \in Requests(x) /\ \A s \in Requests(x)' : s \in Requests(x)
  BY <1>1, <1>2, TakeAccounts
<1>4. r.call \notin Call
  BY <1>1, <1>3 DEF Accounted, Kinds
<1>5. ~Established(x) /\ ~Established(x)'
  <2>1. ~Established(x)
    BY <1>3, <1>4 DEF InOrder
  <2>. QED
    BY <1>2, <2>1 DEF Established
<1>6. session[x] \in Session /\ config[x] \in RedisConfig
  BY DEF TypeOK
<1>7. /\ session'[x].multi = session[x].multi /\ session'[x].moved = session[x].moved
      /\ r.cmd = "AUTH" => session'[x].db = session[x].db /\ (session'[x].authed = (type = "ok"))
      /\ r.cmd # "AUTH" => /\ session'[x].authed = session[x].authed
                           /\ type = "ok" => session'[x].db = config[x].index
  BY <1>1, <1>6 DEF TypeOK, Session
<1>8. (\A k \in Call : issuedOn'[k] # x) => ~session'[x].multi /\ ~session'[x].moved
  BY <1>2, <1>7 DEF InOrder
<1>9. ASSUME NEW o \in Object, context'[o] = x, phase'[o] \in Handshake
      PROVE  Shaking(o, x)'
  <2>1. context[o] = x /\ phase[o] \in Handshake /\ Shaking(o, x)
    BY <1>2, <1>9 DEF InOrder
  <2>2. ~session[x].multi
    BY <2>1 DEF InOrder, Shaking
  <2>3. \A a \in Replies(x)' : a.type = type
    BY <1>1, <1>2, <2>1, <2>2, ShakingTaken
  <2>4. r.cmd = IF phase[o] = "auth" THEN "AUTH" ELSE "SELECT"
    BY <1>3, <2>1 DEF Shaking, HandshakeRequest
  <2>5. \A s \in Requests(x)' : s = HandshakeRequest(phase'[o])
    BY <1>2, <1>3, <2>1 DEF Shaking
  <2>6. CASE phase[o] = "auth"
    <3>1. /\ config[x].password # "none" /\ session'[x].db = 0
          /\ session'[x].authed = (type = "ok")
      BY <1>7, <2>1, <2>4, <2>6 DEF Shaking
    <3>. QED
      BY <1>2, <2>1, <2>3, <2>5, <2>6, <3>1 DEF Shaking
  <2>7. CASE phase[o] = "select"
    <3>1. /\ config[x].password # "none" => session'[x].authed
          /\ config[x].index # 0 /\ type = "ok" => session'[x].db = config[x].index
      BY <1>7, <2>1, <2>4, <2>7 DEF Shaking
    <3>. QED
      BY <1>2, <2>1, <2>3, <2>5, <2>7, <3>1 DEF Shaking
  <2>. QED
    BY <2>1, <2>6, <2>7 DEF Handshake
<1>. QED
  BY <1>5, <1>8, <1>9 DEF InOrder

\* What a command does to its session.
LEMMA SessionChanges ==
    ASSUME TypeOK, NEW x \in Context, NEW r
    PROVE  /\ SessionAfter(x, r).authed = session[x].authed
           /\ session[x].moved => SessionAfter(x, r).moved
           /\ ~SessionAfter(x, r).moved => SessionAfter(x, r).db = session[x].db
<1>1. session[x] \in Session
  BY DEF TypeOK
<1>. QED
  BY <1>1 DEF SessionAfter, Session

\* Commands of callers: they are executed on a session that was set up.
LEMMA OrderServes ==
    ASSUME SInv, NEW x \in Context, ServeCommand(x) \/ ServeRefusal(x)
    PROVE  InOrder(x)'
<1> USE DEF SInv, CInv, IInv
<1>1. PICK r \in Request : Take(x, r) /\ r.call \in Call
                          /\ session'[x] \in {session[x], SessionAfter(x, r)}
  <2>1. CASE ServeCommand(x)
    BY <2>1 DEF ServeCommand, TypeOK
  <2>2. CASE ServeRefusal(x)
    BY <2>2 DEF ServeRefusal
  <2>. QED
    BY <2>1, <2>2
<1>2. /\ UNCHANGED <<phase, context, config, issuedOn, err, obuf, reader>>
      /\ \A y \in Context : ObjectsKept(y)
  BY OrderElsewhere DEF ServerStep
<1>3. r \in Requests(x) /\ \A s \in Requests(x)' : s \in Requests(x)
  BY <1>1, <1>2, TakeAccounts
<1>4. issuedOn[r.call] = x
  BY <1>1, <1>3 DEF Accounted
<1>5. Established(x) /\ issuedOn'[r.call] = x
  BY <1>1, <1>2, <1>4 DEF Established
<1>6. Configured(x) /\ \A s \in Requests(x) : s.call \in Call
  BY <1>5 DEF InOrder
<1>7. Configured(x)'
  BY <1>1, <1>2, <1>6, SessionChanges DEF Configured
<1>8. \A o \in Object : ~(context'[o] = x /\ phase'[o] \in Handshake)
  BY <1>1, <1>2, <1>4 DEF InOrder, Shaking
<1>. QED
  BY <1>1, <1>3, <1>5, <1>6, <1>7, <1>8 DEF InOrder

LEMMA OrderServer ==
    ASSUME SInv, NEW x \in Context, ServerStep(x) \/ Drop(x) \/ LoseCommands(x)
    PROVE  \A y \in Context : InOrder(y)'
<1>1. CASE Drop(x) \/ LoseCommands(x)
  <2>1. /\ UNCHANGED <<config, session, issuedOn, err, obuf, reader>>
        /\ net'[x] = net[x] \/ net'[x] = <<>>
        /\ inbox'[x] = inbox[x] \/ inbox'[x] = <<>>
    BY <1>1 DEF Drop, LoseCommands, SInv, CInv, IInv, TypeOK, ctxVars, bufVars, callVars
  <2>2. (\A r \in Requests(x)' : r \in Requests(x)) /\ \A a \in Replies(x)' : a \in Replies(x)
    BY <2>1, EmptyRange DEF Requests, Replies
  <2>3. InOrder(x) /\ ObjectsKept(x)
    BY OrderElsewhere DEF SInv
  <2>4. InOrder(x)'
    BY <2>1, <2>2, <2>3, OrderKept
  <2>. QED
    BY <2>4, OrderElsewhere
<1>. QED
  BY <1>1, OrderElsewhere, OrderShakes, OrderServes DEF ServerStep
-----------------------------------------------------------------------------
(* The invariant. *)

\* Every step keeps every context in order.
LEMMA OrderStep ==
    ASSUME SInv, Next
    PROVE  \A x \in Context : InOrder(x)'
BY OrderConnects, OrderHandshakes, OrderExec, OrderCalls, OrderMoves, OrderThrows,
   OrderNothing, OrderServer DEF Next, ClientStep

\* Calls are made on open contexts, and errors happen to them.
LEMMA FreshStep ==
    ASSUME SInv, Next
    PROVE  Fresh'
<1> USE DEF SInv, CInv, IInv
<1>1. ASSUME NEW x \in Context, life'[x] = "fresh"
      PROVE  life[x] = "fresh" /\ err'[x] = err[x]
  <2>1. ASSUME NEW z \in Context, Orderly(z), \A y \in Context : y # z => Untouched(y)
        PROVE  life[x] = "fresh" /\ err'[x] = err[x]
    BY <1>1, <2>1 DEF Orderly, Untouched
  <2>2. ASSUME NEW z \in Context, ServerStep(z) \/ Drop(z) \/ LoseCommands(z)
        PROVE  life[x] = "fresh" /\ err'[x] = err[x]
    BY <2>1, <2>2, ServerQuiet
  <2>3. ASSUME NEW o \in Object,
               ClientStep(o) \/ \E k \in Call, c \in Commands : Exec(o, k, c)
        PROVE  life[x] = "fresh" /\ err'[x] = err[x]
    BY <2>1, <2>3, ObjectQuiet, UsesOwn
  <2>4. ASSUME NEW o \in Object, NEW k \in Call, ExecWithoutContext(o, k)
        PROVE  life[x] = "fresh" /\ err'[x] = err[x]
    BY <1>1, <2>4 DEF ExecWithoutContext, ctxVars, bufVars
  <2>5. ASSUME NEW o \in Object, NEW z \in Context,
               ConnectFails(o, z) \/ \E cfg \in Configs : Connect(o, z, cfg)
        PROVE  life[x] = "fresh" /\ err'[x] = err[x]
    BY <2>1, <2>5, ConnectQuiet
  <2>6. ASSUME NEW o \in Object, Destroy(o) \/ \E p \in Object : Move(o, p)
        PROVE  life[x] = "fresh" /\ err'[x] = err[x]
    <3>1. PICK p \in Object :
              /\ err' = err
              /\ IF context[p] = NoContext THEN UNCHANGED <<life, link, obuf, reader, inbox>>
                 ELSE FreeContext(context[p])
      BY <2>6 DEF Destroy, Move
    <3>2. life' = life \/ \E z \in Context : life' = [life EXCEPT ![z] = "freed"]
      BY <3>1 DEF FreeContext, TypeOK
    <3>. QED
      BY <1>1, <3>1, <3>2 DEF TypeOK
  <2>. QED
    BY <2>2, <2>3, <2>4, <2>5, <2>6 DEF Next
<1>2. ASSUME NEW k \in Call
      PROVE  issuedOn'[k] = issuedOn[k] \/ \E o \in Object :
                 /\ context[o] # NoContext /\ issuedOn'[k] = context[o] /\ life' = life
  <2>1. ASSUME NEW o \in Object, NEW m \in Call, NEW c \in Commands, Exec(o, m, c)
        PROVE  issuedOn'[k] = issuedOn[k] \/ \E q \in Object :
                   /\ context[q] # NoContext /\ issuedOn'[k] = context[q] /\ life' = life
    <3>1. context[o] # NoContext /\ life' = life
      BY <2>1 DEF Exec, ctxVars
    <3>. QED
      BY <2>1, <3>1, CallsElsewhere
  <2>2. ASSUME NEW o \in Object,
               \/ ClientStep(o) \/ Destroy(o) \/ \E p \in Object : Move(o, p)
               \/ \E y \in Context : ConnectFails(o, y) \/ \E cfg \in Configs : Connect(o, y, cfg)
               \/ \E m \in Call : ExecWithoutContext(o, m)
        PROVE  issuedOn' = issuedOn
    BY <2>2 DEF ClientStep, HandshakeOk, HandshakeRefused, Write, Read, Return, CallThrows,
                ConstructorThrows, Destroy, Move, ConnectFails, Connect, ExecWithoutContext,
                callVars
  <2>3. ASSUME NEW x \in Context, ServerStep(x) \/ Drop(x) \/ LoseCommands(x)
        PROVE  issuedOn' = issuedOn
    BY <2>3, OrderElsewhere
  <2>. QED
    BY <2>1, <2>2, <2>3 DEF Next
<1>3. ASSUME NEW x \in Context, life'[x] = "fresh"
      PROVE  ~err'[x] /\ \A k \in Call : issuedOn'[k] # x
  <2>1. life[x] = "fresh" /\ ~err'[x] /\ \A k \in Call : issuedOn[k] # x
    BY <1>1, <1>3 DEF Fresh
  <2>2. \A o \in Object : context[o] # NoContext => context[o] # x
    BY <2>1 DEF Owned
  <2>. QED
    BY <1>2, <2>1, <2>2
<1>. QED
  BY <1>3 DEF Fresh
\* What a step that executes no call leaves of it.
LEMMA RanKept ==
    ASSUME SInv, NEW k \in Call, Ran(k), effects'[k] = effects[k], ranIn'[k] = ranIn[k],
           issuedOn'[k] = issuedOn[k], outcome'[k] = "none" => outcome[k] = "none",
           \A x \in Context : issuedOn[k] = x =>
               /\ config'[x].index = config[x].index
               /\ session[x].moved => session'[x].moved
    PROVE  Ran(k)'
BY DEF Ran

LEMMA RanServed ==
    ASSUME SInv, NEW x \in Context, ServeCommand(x), NEW k \in Call
    PROVE  Ran(k)'
<1> USE DEF SInv, CInv, IInv
<1>1. PICK r \in Request :
          /\ Take(x, r) /\ r.call \in Call
          /\ effects' = [effects EXCEPT ![r.call] = @ + 1]
          /\ ranIn' = [ranIn EXCEPT ![r.call] = session[x].db]
          /\ session' = [session EXCEPT ![x] = SessionAfter(x, r)]
          /\ UNCHANGED <<context, config, obuf, outcome, issuedOn>>
  BY DEF ServeCommand, objVars, ctxVars, bufVars, callVars
<1>2. issuedOn[r.call] = x /\ outcome[r.call] # "none"
  BY <1>1, TakeAccounts DEF Accounted
<1>3. \A y \in Context : session[y].moved => session'[y].moved
  <2>1. session'[x] = SessionAfter(x, r) /\ \A y \in Context : y # x => session'[y] = session[y]
    BY <1>1 DEF TypeOK
  <2>. QED
    BY <2>1, SessionChanges
<1>4. CASE k # r.call
  <2>1. effects'[k] = effects[k] /\ ranIn'[k] = ranIn[k]
    BY <1>1, <1>4 DEF TypeOK
  <2>. QED
    BY <1>1, <1>3, <2>1, RanKept
<1>5. CASE k = r.call
  <2>1. ranIn'[k] = session[x].db
    BY <1>1, <1>5 DEF TypeOK
  <2>2. Configured(x)
    <3>1. Established(x)
      BY <1>1, <1>2 DEF Established
    <3>. QED
      BY <3>1 DEF InOrder
  <2>3. ranIn'[k] = config'[x].index \/ session'[x].moved
    BY <1>1, <1>3, <2>1, <2>2 DEF Configured
  <2>. QED
    BY <1>1, <1>2, <1>5, <2>3 DEF Ran
<1>. QED
  BY <1>4, <1>5

\* A call that was executed ran in the database of its context.
LEMMA RanStep ==
    ASSUME SInv, Next, NEW k \in Call
    PROVE  Ran(k)'
<1> USE DEF SInv, CInv, IInv
<1>1. ASSUME NEW x \in Context, ServeAuth(x) \/ ServeSelect(x)
      PROVE  Ran(k)'
  <2>1. UNCHANGED <<config, outcome, issuedOn, effects, ranIn>>
    BY <1>1 DEF ServeAuth, ServeSelect, ctxVars, callVars, ghostVars
  <2>2. session \in [Context -> Session]
    BY DEF TypeOK
  <2>3. \E v : \/ session' = [session EXCEPT ![x].authed = v]
               \/ session' = [session EXCEPT ![x].db = v]
               \/ session' = session
    <3>1. CASE ServeAuth(x)
      BY <3>1 DEF ServeAuth
    <3>2. CASE ServeSelect(x)
      BY <3>2 DEF ServeSelect
    <3>. QED
      BY <1>1, <3>1, <3>2
  <2>4. \A y \in Context : session'[y].moved = session[y].moved
    BY <2>2, <2>3 DEF Session
  <2>. QED
    BY <2>1, <2>4, RanKept
<1>2. ASSUME NEW x \in Context, ServeRefusal(x) \/ Drop(x) \/ LoseCommands(x)
      PROVE  Ran(k)'
  <2>1. UNCHANGED <<config, session, outcome, issuedOn, effects, ranIn>>
    BY <1>2 DEF ServeRefusal, Drop, LoseCommands, ctxVars, callVars, ghostVars
  <2>. QED
    BY <2>1, RanKept
<1>3. ASSUME NEW o \in Object, NEW m \in Call, NEW c \in Commands, Exec(o, m, c)
      PROVE  Ran(k)'
  <2>1. /\ UNCHANGED <<config, session, effects, ranIn>>
        /\ outcome[m] = "none" /\ outcome' = [outcome EXCEPT ![m] = "pending"]
    BY <1>3 DEF Exec, ctxVars, srvVars, ghostVars
  <2>2. outcome'[k] = IF k = m THEN "pending" ELSE outcome[k]
    BY <2>1 DEF TypeOK
  <2>3. CASE k = m
    <3>1. effects[k] = 0
      BY <2>1, <2>3 DEF Accounted
    <3>. QED
      BY <2>1, <2>2, <2>3, <3>1 DEF Ran
  <2>4. CASE k # m
    <3>1. issuedOn'[k] = issuedOn[k]
      BY <1>3, <2>4, CallsElsewhere
    <3>. QED
      BY <2>1, <2>2, <2>4, <3>1, RanKept
  <2>. QED
    BY <2>3, <2>4
<1>4. ASSUME NEW o \in Object,
             Return(o) \/ CallThrows(o) \/ \E m \in Call : ExecWithoutContext(o, m)
      PROVE  Ran(k)'
  <2>1. UNCHANGED <<config, session, issuedOn, effects, ranIn>>
    BY <1>4 DEF Return, CallThrows, ExecWithoutContext, ctxVars, srvVars, ghostVars
  <2>2. outcome'[k] = "none" => outcome[k] = "none"
    <3>1. \E m : \E w \in {"value", "error", "threw", "logic_error"} :
              outcome' = [outcome EXCEPT ![m] = w]
      <4>1. CASE Return(o)
        BY <4>1 DEF Return, Converted
      <4>2. CASE CallThrows(o)
        BY <4>2 DEF CallThrows
      <4>3. CASE \E m \in Call : ExecWithoutContext(o, m)
        BY <4>3 DEF ExecWithoutContext
      <4>. QED
        BY <1>4, <4>1, <4>2, <4>3
    <3>. QED
      BY <3>1 DEF TypeOK
  <2>. QED
    BY <2>1, <2>2, RanKept
<1>5. ASSUME NEW o \in Object,
             \/ HandshakeOk(o) \/ HandshakeRefused(o) \/ Write(o) \/ Read(o)
             \/ ConstructorThrows(o) \/ Destroy(o) \/ \E p \in Object : Move(o, p)
             \/ \E x \in Context : ConnectFails(o, x)
      PROVE  Ran(k)'
  <2>1. UNCHANGED <<config, session, outcome, issuedOn, effects, ranIn>>
    BY <1>5 DEF HandshakeOk, HandshakeRefused, Write, Read, ConstructorThrows, Destroy, Move,
                ConnectFails, ctxVars, srvVars, callVars, ghostVars
  <2>. QED
    BY <2>1, RanKept
<1>6. ASSUME NEW o \in Object, NEW x \in Context, NEW cfg \in Configs, Connect(o, x, cfg)
      PROVE  Ran(k)'
  <2>1. /\ UNCHANGED <<session, outcome, issuedOn, effects, ranIn>>
        /\ life[x] = "fresh" /\ config' = [config EXCEPT ![x] = cfg]
    BY <1>6 DEF Connect, callVars, ghostVars
  <2>2. issuedOn[k] # x
    BY <2>1 DEF Fresh
  <2>3. \A y \in Context : issuedOn[k] = y => config'[y] = config[y]
    BY <2>1, <2>2 DEF TypeOK
  <2>. QED
    BY <2>1, <2>3, RanKept
<1>. QED
  BY <1>1, <1>2, <1>3, <1>4, <1>5, <1>6, RanServed DEF Next, ClientStep, ServerStep

LEMMA InitSInv == Init => SInv
<1> SUFFICES ASSUME Init PROVE SInv
  OBVIOUS
<1>1. CInv
  BY InitCInv
<1>2. Fresh
  BY ConstantsAssumption DEF Init, Fresh
<1>3. \A x \in Context : InOrder(x)
  BY ConstantsAssumption DEF Init, InOrder, Established, NewSession
<1>4. \A k \in Call : Ran(k)
  BY DEF Init, Ran
<1>. QED
  BY <1>1, <1>2, <1>3, <1>4 DEF SInv

LEMMA StepSInv == SInv /\ [Next]_vars => SInv'
<1> SUFFICES ASSUME SInv, [Next]_vars PROVE SInv'
  OBVIOUS
<1>1. CInv'
  BY StepCInv DEF SInv
<1>2. CASE Next
  BY <1>1, <1>2, OrderStep, FreshStep, RanStep DEF SInv
<1>3. CASE UNCHANGED vars
  <2>1. UNCHANGED <<phase, context, life, config, err, obuf, reader, net, inbox, session,
                    outcome, issuedOn, effects, ranIn>>
    BY <1>3 DEF vars, objVars, ctxVars, bufVars, srvVars, callVars, ghostVars
  <2>2. Fresh' /\ \A k \in Call : Ran(k)'
    BY <2>1 DEF SInv, Fresh, Ran
  <2>3. ASSUME NEW x \in Context
        PROVE  InOrder(x)'
    <3>1. Requests(x)' = Requests(x) /\ Replies(x)' = Replies(x)
      BY <2>1 DEF Requests, Replies
    <3>2. ObjectsKept(x)
      BY <2>1 DEF ObjectsKept
    <3>. QED
      BY <2>1, <2>3, <3>1, <3>2, OrderKept DEF SInv
  <2>. QED
    BY <1>1, <2>2, <2>3 DEF SInv
<1>. QED
  BY <1>2, <1>3

\* The handshake is over, and told the truth, before a call is made.
THEOREM SessionInvariance == Spec => []SInv
<1>1. Init => SInv
  BY InitSInv
<1>2. SInv /\ [Next]_vars => SInv'
  BY StepSInv
<1>. QED
  BY <1>1, <1>2, PTL DEF Spec

\* An object whose constructor returned has the session that its URL asks for,
\* whatever was refused or lost on the way: SessionAsConfigured.
THEOREM ConstructorsConfigure == Spec => []SessionAsConfigured
<1>1. SInv => SessionAsConfigured
  <2> SUFFICES ASSUME SInv, NEW o \in Object, phase[o] \in {"live", "busy"},
                      context[o] # NoContext
               PROVE  Configured(context[o])
    BY DEF SessionAsConfigured, Configured
  <2>1. PICK x \in Context : x = context[o]
    BY DEF SInv, CInv, IInv, TypeOK
  <2>2. Established(x)
    BY <2>1 DEF Established
  <2>. QED
    BY <2>1, <2>2 DEF SInv, InOrder
<1>. QED
  BY <1>1, SessionInvariance, PTL

\* No call overtakes the SELECT of the constructor: RunsInConfiguredDatabase.
THEOREM CallsRunThere == Spec => []RunsInConfiguredDatabase
<1>1. SInv => RunsInConfiguredDatabase
  BY DEF SInv, Ran, RunsInConfiguredDatabase
<1>. QED
  BY <1>1, SessionInvariance, PTL
=============================================================================
