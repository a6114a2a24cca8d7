--------------------------- MODULE OperationViews ---------------------------
(***************************************************************************)
(* The operation views of redis_template on one key, which several         *)
(* programs share: a program may use all its views on the same key, and    *)
(* the server refuses a command that does not fit what the key holds.      *)
(*                                                                         *)
(* Programs that do not use the views (Others) leave texts the views       *)
(* cannot deserialise, or read as a value they would have written          *)
(* otherwise ("1" for a true).                                             *)
(***************************************************************************)
EXTENDS ValueOperations, HashOperations, ListOperations, SetOperations,
        ZSetOperations, KeyCommands

CONSTANT Views      \* which views the programs use

ASSUME ViewsAssumption ==
    Views \subseteq {"value", "hash", "list", "set", "zset", "key"}

\* The key may hold nothing.  An object has one kind, is not empty, and has a
\* size that the server can count.
ASSUME ObjectsAssumption ==
    /\ NoObject \in Objects
    /\ \A x \in Objects :
          /\ "string" \in DOMAIN x => x = AsString(x.string) /\ x.string \in Text
          /\ "list" \in DOMAIN x =>
                /\ x = [list |-> x.list]
                /\ x.list \in Seq(Text) \ {<<>>} /\ Len(x.list) < HALF
          /\ "set" \in DOMAIN x =>
                /\ x = [set |-> x.set]
                /\ x.set \subseteq Text /\ x.set # {}
                /\ IsFiniteSet(x.set) /\ Cardinality(x.set) < HALF
          /\ "hash" \in DOMAIN x =>
                /\ x = [hash |-> x.hash]
                /\ DOMAIN x.hash \subseteq Text /\ DOMAIN x.hash # {}
                /\ \A f \in DOMAIN x.hash : x.hash[f] \in Text
                /\ IsFiniteSet(DOMAIN x.hash) /\ Cardinality(DOMAIN x.hash) < HALF
          /\ "zset" \in DOMAIN x =>
                /\ x = [zset |-> x.zset]
                /\ DOMAIN x.zset \subseteq Text /\ DOMAIN x.zset # {}
                /\ \A t \in DOMAIN x.zset : \E s \in DOMAIN ScoreOf : ScoreOf[s] = x.zset[t]
                /\ IsFiniteSet(DOMAIN x.zset) /\ Cardinality(DOMAIN x.zset) < HALF

\* What a call may make of a reply: redis_client throws for an ERROR.
Results(o, reply) ==
    LET r == or_throw(reply)
    IN  IF ~r.ok THEN {r}
        ELSE ValueResults(o, reply) \cup HashResults(o, reply)
             \cup ListResults(o, reply) \cup SetResults(o, reply)
             \cup ZSetResults(o, reply) \cup KeyResults(o, reply)

Return(c) ==
    /\ rep[c] # NoMsg
    /\ \E result \in Results(op[c], rep[c]) : Finish(c, result)

\* The server may refuse any command: the key holds something else, an
\* argument is wrong, memory is short.
Effects(m) ==
    {Refused(object)} \cup
    {e \in ValueEffects(m, object) \cup HashEffects(m, object)
           \cup ListEffects(m, object) \cup SetEffects(m, object)
           \cup ZSetEffects(m, object) \cup KeyEffects(m, object) :
        e.object \in Objects}

ServeCommand(c) == Serve(c, Effects)
ServeLate(c) == ServeStray(c, Effects)

Operation(c) ==
    /\ ~busy[c]
    /\ \/ "value" \in Views /\ ValueCall(c)
       \/ "hash" \in Views /\ HashCall(c)
       \/ "list" \in Views /\ ListCall(c)
       \/ "set" \in Views /\ SetCall(c)
       \/ "zset" \in Views /\ ZSetCall(c)
       \/ "key" \in Views /\ KeyCall(c)

Next ==
    \/ \E c \in Client :
          \/ Operation(c) \/ Return(c) \/ TransportError(c) \/ Reconnect(c)
          \/ ServeCommand(c) \/ ServeLate(c) \/ Drop(c)
    \/ Others

Spec == Init /\ [][Next]_vars
-----------------------------------------------------------------------------
(* Properties. *)

\* The commands in flight, also those of calls that have failed.
Commands(c) == ({req[c]} \cup {stray[c][i].command : i \in DOMAIN stray[c]}) \ {NoMsg}

\* Every variable holds a value of its kind; a reply waits only for a call in
\* progress whose command has been acted on, a command is only ever that of a
\* call in progress, and no command is sent without the arguments the server
\* insists on: elements to push, members, fields or keys.
TypeOK ==
    /\ object \in Objects
    /\ \A c \in Client :
          /\ link[c] \in {"up", "down"}
          /\ busy[c] \in BOOLEAN
          /\ req[c] # NoMsg => busy[c] /\ rep[c] = NoMsg
          /\ rep[c] # NoMsg => busy[c]
          /\ busy[c] /\ link[c] = "up" => req[c] # NoMsg \/ rep[c] # NoMsg
          /\ \A m \in Commands(c) :
                /\ "texts" \in DOMAIN m => m.texts # <<>>
                /\ "fields" \in DOMAIN m => m.fields # <<>>
                /\ "map" \in DOMAIN m => DOMAIN m.map # {}
                /\ "keys" \in DOMAIN m => m.keys > 0
          /\ Len(stray[c]) <= MaxStray

Removing == {"lpop", "rpop", "lpop_count", "rpop_count", "spop", "get_and_set"}

\* What a call gave its caller, as a sequence.
Given(v) == IF "element" \in DOMAIN v THEN v.element ELSE v.elements

\* What the server removed for a pop, an spop or a get_and_set and what the
\* caller has are the same values in the same order; when the caller has an
\* exception instead, it is one that says so: the connection failed, or an
\* element could not be deserialised.  In particular redis_error means that
\* nothing was removed.
PopGivesWhatItRemoves ==
    \A c \in Client : ~busy[c] =>
        /\ outcome[c].ok /\ op[c].name \in Removing =>
              /\ \A i \in DOMAIN taken[c] : taken[c][i] \in DOMAIN deserialize_value
              /\ Given(outcome[c].value) =
                    [i \in DOMAIN taken[c] |-> deserialize_value[taken[c][i]]]
        /\ ~outcome[c].ok /\ taken[c] # <<>> =>
              outcome[c].error \in {"transport", "deserialize"}

(***************************************************************************)
(* What the views promise together: one object that is linearizable.       *)
(***************************************************************************)
Typed(x) == IF "list" \in DOMAIN x THEN [list |-> TypedList(x.list)] ELSE x

\* A call that comes to nothing does not look at the key.
NothingToDo(o, x) ==
    LET At(v) == {[object |-> x, answers |-> {Val(v)}]}
    IN  CASE o.name \in {"sadd", "srem", "zadd", "zrem"} /\ o.values = <<>> -> At(Count(0))
          [] o.name = "hdel" /\ o.fields = <<>> -> At(Count(0))
          [] o.name = "hset" /\ DOMAIN o.values = {} -> At(Flag(FALSE))
          [] o.name = "hget_batch" /\ o.asked = {} -> At(Entries(<<>>))
          [] o.name = "sinter" /\ o.keys = 0 -> At(Elements(<<>>))
          [] OTHER -> {}

Rejections(o) ==
    IF \/ "values" \in DOMAIN o /\ \E i \in DOMAIN o.values :
                                      o.values[i] \notin DOMAIN serialize_value
       \/ ~(NamedFields(o) \subseteq DOMAIN serialize_key)
    THEN {Throw("serialize")} ELSE {}

\* The server may refuse any operation; one that is rejected has no effect.
Apply(o, x) ==
    {[object |-> x, answers |-> {Throw("redis_error")}]} \cup
    IF Rejections(o) # {} THEN {}
    ELSE NothingToDo(o, x) \cup ValuePromised(o, x) \cup HashPromised(o, x)
         \cup ListPromised(o, x) \cup SetPromised(o, x)
         \cup ZSetPromised(o, x) \cup KeyPromised(o, x)

Ops == UNION {CASE view = "value" -> ValueOps [] view = "hash" -> HashOps
                [] view = "list" -> ListOps   [] view = "set" -> SetOps
                [] view = "zset" -> ZSetOps   [] view = "key" -> KeyOps :
              view \in Views}

IdleAnswers == {Throw("idle")}
PendingAnswers == {Throw("pending")}
LostAnswers == {Throw("lost")}
ForeignObjects(x) == {Typed(y) : y \in Objects}

Promise == INSTANCE LinearObject WITH
    Op <- Ops, InitObject <- NoObject, Apply <- Apply, Rejections <- Rejections,
    TransportFailure <- Throw("transport"), Foreign <- ForeignObjects,
    NoOutcome <- Waiting,
    Idle <- IdleAnswers, Pending <- PendingAnswers, Lost <- LostAnswers,
    object <- Typed(object),
    answers <- [c \in Client |->
                   CASE ~busy[c] -> IdleAnswers
                     [] busy[c] /\ rep[c] # NoMsg -> Results(op[c], rep[c])
                     [] busy[c] /\ rep[c] = NoMsg /\ req[c] # NoMsg -> PendingAnswers
                     [] OTHER -> LostAnswers],
    late <- [c \in Client |-> [i \in DOMAIN stray[c] |-> stray[c][i].op]]

\* Every call of the views takes effect at most once and at one moment, on an
\* object that all programs share, and gives what that effect answers: in spite
\* of what is sent instead (LLEN for a push of nothing), of what other programs
\* put there, of commands that arrive after their call has failed, and with the
\* caller's map changed only as far as entries could be read.
ImplementsLinearObject == Promise!Spec
=============================================================================
