---------------------------- MODULE ScriptFacade ----------------------------
(***************************************************************************)
(* Lua scripts through redis_template: script_load, eval and eval_sha1.    *)
(*                                                                         *)
(* Each client is a facade (redis_template, with its sha1_cache) over a    *)
(* redis_client, the script commands of redis_cmd_ops and a connection of  *)
(* its own.  All clients share one server and its script cache.  EVALSHA   *)
(* of a script the server does not have gives no_script_error; the facade  *)
(* then sends SCRIPT LOAD, when sha1_cache has the script, and EVALSHA     *)
(* once more.  That makes up to three commands of one call, and between    *)
(* any two of them the server may forget scripts (SCRIPT FLUSH, eviction,  *)
(* a restart), serve other clients, or lose the connection.                *)
(*                                                                         *)
(* A connection is used as SyncConnection shows it may be: one command,    *)
(* one reply, and nothing more once it has failed.                         *)
(***************************************************************************)
EXTENDS Naturals, Sequences, FiniteSets

CONSTANTS
    Client,             \* facades, each used by one thread
    Script,             \* script bodies, one to one with their SHA1
    ScriptReplies,      \* ScriptReplies[s]: how running s may be answered
    KeyCounts,          \* the numbers of keys that callers pass
    MAX_SCRIPT_KEYS,    \* common.hpp
    NoMsg               \* no message in flight

\* A script that runs is answered with a value, or with an ERROR of its own;
\* "mentions" is an ERROR whose text contains NOSCRIPT.
RunReplies == {"value", "error", "mentions"}

ASSUME ScriptAssumption ==
    /\ ScriptReplies \in [Script -> SUBSET RunReplies]
    /\ KeyCounts \subseteq Nat
    /\ MAX_SCRIPT_KEYS \in Nat

\* The server compares the hexadecimal SHA1 regardless of case; the keys of
\* sha1_cache are the strings the server returned, in lower case.
Sha == [script : Script, case : {"lower", "upper"}]
Digest(s) == [script |-> s, case |-> "lower"]

Request == [cmd : {"SCRIPT LOAD", "EVAL", "EVALSHA"}, script : Script]

\* "sha" is the reply to SCRIPT LOAD, "noscript" the server's own NOSCRIPT
\* error and "odd" a reply to SCRIPT LOAD that is not a string.
Response == [type : {"sha", "noscript", "odd"} \cup RunReplies, script : Script]

ASSUME NoMsgAssumption == NoMsg \notin Request \cup Response

VARIABLES
    cached,     \* the scripts in the server's script cache
    link,       \* link[c]: whether the connection of c is up
    req,        \* req[c]: the command of c the server has yet to act on
    rep,        \* rep[c]: the reply c has yet to take
    pc,         \* pc[c]: where c is in its call
    arg,        \* arg[c]: the script of the call, as the caller names it
    sha1_cache, \* sha1_cache[c]: from the SHA1 to the script
    outcome,    \* outcome[c]: what the last call of c gave its caller
    ran,        \* ran[c]: the scripts that ran for the last call of c
    reloaded    \* reloaded[c]: whether the server served a SCRIPT LOAD in the
                \* call of c, and whether it forgot the script after that

netVars == <<link, req, rep>>
callVars == <<pc, arg, outcome>>
vars == <<cached, netVars, callVars, sha1_cache, ran, reloaded>>

PCs == {"idle", "load", "eval", "evalsha", "reload", "retry"}
Outcomes == {"none", "pending", "sha", "value", "redis_error", "no_script",
             "unexpected_type", "too_many_keys", "transport"}

EmptyCache == [sha \in {} |-> sha]

Init ==
    /\ cached = {}
    /\ link = [c \in Client |-> "up"]
    /\ req = [c \in Client |-> NoMsg]
    /\ rep = [c \in Client |-> NoMsg]
    /\ pc = [c \in Client |-> "idle"]
    /\ arg \in [Client -> {Digest(s) : s \in Script}]
    /\ sha1_cache = [c \in Client |-> EmptyCache]
    /\ outcome = [c \in Client |-> "none"]
    /\ ran = [c \in Client |-> <<>>]
    /\ reloaded = [c \in Client |-> "no"]

\* unordered_map::emplace keeps what is there.
Emplace(m, k, v) ==
    [x \in DOMAIN m \cup {k} |-> IF x \in DOMAIN m THEN m[x] ELSE v]

\* What is sent on a broken connection arrives nowhere.
Send(c, cmd, s) ==
    req' = IF link[c] = "up"
           THEN [req EXCEPT ![c] = [cmd |-> cmd, script |-> s]]
           ELSE req
-----------------------------------------------------------------------------
(* The calls.  Serialising keys and arguments may throw before anything     *)
(* happens; that changes nothing and is left out.                           *)

Idle(c) == pc[c] = "idle" /\ req[c] = NoMsg

Begin(c, step, sha) ==
    /\ Idle(c)
    /\ pc' = [pc EXCEPT ![c] = step]
    /\ arg' = [arg EXCEPT ![c] = sha]
    /\ outcome' = [outcome EXCEPT ![c] = "pending"]
    /\ ran' = [ran EXCEPT ![c] = <<>>]
    /\ reloaded' = [reloaded EXCEPT ![c] = "no"]
    /\ UNCHANGED <<cached, link, rep, sha1_cache>>

script_load(c, s) ==
    /\ Begin(c, "load", Digest(s))
    /\ Send(c, "SCRIPT LOAD", s)

eval(c, s, n) ==
    /\ n <= MAX_SCRIPT_KEYS
    /\ Begin(c, "eval", Digest(s))
    /\ Send(c, "EVAL", s)

eval_sha1(c, sha, n) ==
    /\ n <= MAX_SCRIPT_KEYS
    /\ Begin(c, "evalsha", sha)
    /\ Send(c, "EVALSHA", sha.script)

\* script_arguments throws before anything is sent.
TooManyKeys(c, sha, n) ==
    /\ n > MAX_SCRIPT_KEYS
    /\ Idle(c)
    /\ arg' = [arg EXCEPT ![c] = sha]
    /\ outcome' = [outcome EXCEPT ![c] = "too_many_keys"]
    /\ ran' = [ran EXCEPT ![c] = <<>>]
    /\ reloaded' = [reloaded EXCEPT ![c] = "no"]
    /\ UNCHANGED <<cached, netVars, pc, sha1_cache>>
-----------------------------------------------------------------------------
(* Taking a reply. *)

Receive(c, step) == /\ pc[c] = step
                    /\ rep[c] # NoMsg
                    /\ rep' = [rep EXCEPT ![c] = NoMsg]
                    /\ UNCHANGED <<cached, link, arg, ran, reloaded>>

Finish(c, result) == /\ pc' = [pc EXCEPT ![c] = "idle"]
                     /\ outcome' = [outcome EXCEPT ![c] = result]

Continue(c, step) == /\ pc' = [pc EXCEPT ![c] = step]
                     /\ UNCHANGED outcome

IsError(r) == r.type \in {"noscript", "mentions", "error"}

\* Mutant: every ERROR makes the facade load and run the script again.
AnyErrorIsNoScript(r) == IsError(r)

\* redis_cmd_ops::eval_sha1 looks for NOSCRIPT anywhere in the error text.
IsNoScript(r) == r.type \in {"noscript", "mentions"}

\* Mutant: the reply is passed on as it is.
LoadFailureRaw(r) == r.type

\* What redis_cmd_ops::script_load makes of a reply that is no SHA1.
LoadFailure(r) == IF IsError(r) THEN "redis_error" ELSE "unexpected_type"

\* Mutant: an ERROR reply is given to the caller as a value.
RunResultUnchecked(r) == "value"

\* What redis_client makes of the reply of a script.
RunResult(r) == IF IsError(r) THEN "redis_error" ELSE "value"

Remember(c, s) ==
    sha1_cache' = [sha1_cache EXCEPT ![c] = Emplace(@, Digest(s), s)]

Loaded(c) ==
    /\ Receive(c, "load")
    /\ \/ /\ rep[c].type = "sha"
          /\ Remember(c, rep[c].script)
          /\ Finish(c, "sha")
       \/ /\ rep[c].type # "sha"
          /\ Finish(c, LoadFailure(rep[c]))
          /\ UNCHANGED sha1_cache
    /\ UNCHANGED req

Evaluated(c) ==
    /\ Receive(c, "eval")
    /\ Finish(c, RunResult(rep[c]))
    /\ UNCHANGED <<req, sha1_cache>>

\* Mutant: the facade reloads whatever script it remembers.
EvalShaReloadsAny(c) ==
    /\ Receive(c, "evalsha")
    /\ \/ /\ ~IsNoScript(rep[c])
          /\ Finish(c, RunResult(rep[c]))
          /\ UNCHANGED req
       \/ /\ IsNoScript(rep[c])
          /\ \E sha \in DOMAIN sha1_cache[c] :
                /\ Continue(c, "reload")
                /\ Send(c, "SCRIPT LOAD", sha1_cache[c][sha])
    /\ UNCHANGED sha1_cache

\* The first EVALSHA has its answer.  When it is NOSCRIPT and sha1_cache has
\* the script, the facade loads the script again.
EvalShaAnswered(c) ==
    /\ Receive(c, "evalsha")
    /\ \/ /\ ~IsNoScript(rep[c])
          /\ Finish(c, RunResult(rep[c]))
          /\ UNCHANGED req
       \/ /\ IsNoScript(rep[c])
          /\ arg[c] \notin DOMAIN sha1_cache[c]
          /\ Finish(c, "no_script")
          /\ UNCHANGED req
       \/ /\ IsNoScript(rep[c])
          /\ arg[c] \in DOMAIN sha1_cache[c]
          /\ Continue(c, "reload")
          /\ Send(c, "SCRIPT LOAD", sha1_cache[c][arg[c]])
    /\ UNCHANGED sha1_cache

\* Mutant: the script is loaded again, and the caller still told NOSCRIPT.
ReloadedWithoutRetry(c) ==
    /\ Receive(c, "reload")
    /\ Finish(c, IF rep[c].type = "sha" THEN "no_script" ELSE LoadFailure(rep[c]))
    /\ UNCHANGED <<req, sha1_cache>>

\* The script is loaded: remember it and send EVALSHA of the new SHA1.
Reloaded(c) ==
    /\ Receive(c, "reload")
    /\ \/ /\ rep[c].type = "sha"
          /\ Remember(c, rep[c].script)
          /\ Continue(c, "retry")
          /\ Send(c, "EVALSHA", rep[c].script)
       \/ /\ rep[c].type # "sha"
          /\ Finish(c, LoadFailure(rep[c]))
          /\ UNCHANGED <<req, sha1_cache>>

\* Mutant: the facade reloads for as long as the answer is NOSCRIPT.
RetryAgain(c) ==
    /\ Receive(c, "retry")
    /\ \/ /\ IsNoScript(rep[c])
          /\ Continue(c, "reload")
          /\ Send(c, "SCRIPT LOAD", arg[c].script)
       \/ /\ ~IsNoScript(rep[c])
          /\ Finish(c, RunResult(rep[c]))
          /\ UNCHANGED req
    /\ UNCHANGED sha1_cache

\* The second EVALSHA has its answer; a second NOSCRIPT is the caller's.
RetryAnswered(c) ==
    /\ Receive(c, "retry")
    /\ Finish(c, IF IsNoScript(rep[c]) THEN "no_script" ELSE RunResult(rep[c]))
    /\ UNCHANGED <<req, sha1_cache>>

\* The connection throws; no layer catches it and nothing is sent again.
TransportError(c) ==
    /\ pc[c] # "idle"
    /\ link[c] = "down"
    /\ rep[c] = NoMsg
    /\ Finish(c, "transport")
    /\ UNCHANGED <<cached, netVars, arg, sha1_cache, ran, reloaded>>
-----------------------------------------------------------------------------
(* The owner of the client may connect again: the facade keeps its cache    *)
(* when only the client behind it is replaced, and loses it when it is      *)
(* built anew.                                                              *)
Reconnect(c) ==
    /\ Idle(c)
    /\ link[c] = "down"
    /\ link' = [link EXCEPT ![c] = "up"]
    /\ sha1_cache' \in {sha1_cache, [sha1_cache EXCEPT ![c] = EmptyCache]}
    /\ UNCHANGED <<cached, req, rep, callVars, ran, reloaded>>
-----------------------------------------------------------------------------
(* The server and the network (outside the repository).                     *)

\* The server acts on the command of c and answers, if the connection is up.
Serve(c, cmd, type) ==
    /\ req[c] # NoMsg
    /\ req[c].cmd = cmd
    /\ req' = [req EXCEPT ![c] = NoMsg]
    /\ rep' = IF link[c] = "up"
              THEN [rep EXCEPT ![c] = [type |-> type, script |-> req[c].script]]
              ELSE rep
    /\ UNCHANGED <<link, callVars, sha1_cache>>

Run(c) == ran' = [ran EXCEPT ![c] = Append(@, req[c].script)]

ServeScriptLoad(c) ==
    /\ Serve(c, "SCRIPT LOAD", "sha")
    /\ cached' = cached \cup {req[c].script}
    /\ reloaded' = [reloaded EXCEPT ![c] = "yes"]
    /\ UNCHANGED ran

\* EVAL leaves the script in the script cache.
ServeEval(c) ==
    /\ req[c] # NoMsg
    /\ \E type \in ScriptReplies[req[c].script] : Serve(c, "EVAL", type)
    /\ cached' = cached \cup {req[c].script}
    /\ Run(c)
    /\ UNCHANGED reloaded

ServeEvalSha(c) ==
    /\ req[c] # NoMsg
    /\ req[c].script \in cached
    /\ \E type \in ScriptReplies[req[c].script] : Serve(c, "EVALSHA", type)
    /\ Run(c)
    /\ UNCHANGED <<cached, reloaded>>

ServeNoScript(c) ==
    /\ req[c] # NoMsg
    /\ req[c].script \notin cached
    /\ Serve(c, "EVALSHA", "noscript")
    /\ UNCHANGED <<cached, ran, reloaded>>

\* A command the server refuses (BUSY, OOM, NOPERM) runs nothing.
ServeRefusal(c) ==
    /\ \/ \E cmd \in {"SCRIPT LOAD", "EVAL", "EVALSHA"} : Serve(c, cmd, "error")
       \/ Serve(c, "SCRIPT LOAD", "odd")
    /\ UNCHANGED <<cached, ran, reloaded>>

ForgottenFor(S) ==
    reloaded' = [c \in Client |->
        IF reloaded[c] = "yes" /\ arg[c].script \in S THEN "lost"
                                                      ELSE reloaded[c]]

\* SCRIPT FLUSH by anyone, or eviction of some scripts.
Forget(S) ==
    /\ S # {}
    /\ cached' = cached \ S
    /\ ForgottenFor(S)
    /\ UNCHANGED <<netVars, callVars, sha1_cache, ran>>

\* A restart forgets every script, drops the connections and loses the
\* commands the server had not acted on.
Restart ==
    /\ cached' = {}
    /\ ForgottenFor(cached)
    /\ link' = [c \in Client |-> "down"]
    /\ req' = [c \in Client |-> NoMsg]
    /\ UNCHANGED <<rep, callVars, sha1_cache, ran>>

\* A connection breaks; a reply on its way may be lost with it.
Drop(c) ==
    /\ link[c] = "up"
    /\ link' = [link EXCEPT ![c] = "down"]
    /\ rep' \in {rep, [rep EXCEPT ![c] = NoMsg]}
    /\ UNCHANGED <<cached, req, callVars, sha1_cache, ran, reloaded>>

\* A command that reached a broken connection may never be acted on.
LoseCommand(c) ==
    /\ link[c] = "down"
    /\ req[c] # NoMsg
    /\ req' = [req EXCEPT ![c] = NoMsg]
    /\ UNCHANGED <<cached, link, rep, callVars, sha1_cache, ran, reloaded>>
-----------------------------------------------------------------------------
BeginCall(c) ==
    \/ \E s \in Script :
          script_load(c, s) \/ \E n \in KeyCounts : eval(c, s, n)
    \/ \E sha \in Sha, n \in KeyCounts :
          eval_sha1(c, sha, n) \/ TooManyKeys(c, sha, n)

TakeReply(c) ==
    \/ Loaded(c) \/ Evaluated(c) \/ EvalShaAnswered(c)
    \/ Reloaded(c) \/ RetryAnswered(c) \/ TransportError(c)

ServerStep(c) ==
    \/ ServeScriptLoad(c) \/ ServeEval(c) \/ ServeEvalSha(c)
    \/ ServeNoScript(c) \/ ServeRefusal(c)

Next ==
    \/ \E c \in Client :
          \/ BeginCall(c) \/ TakeReply(c) \/ Reconnect(c)
          \/ ServerStep(c) \/ Drop(c) \/ LoseCommand(c)
    \/ \E S \in SUBSET cached : Forget(S)
    \/ Restart

\* A thread inside a call keeps running, and a server whose connection is up
\* acts on what it is sent.  Nobody has to call, reconnect or flush.
Fairness == \A c \in Client : WF_vars(TakeReply(c)) /\ WF_vars(ServerStep(c))

Spec == Init /\ [][Next]_vars
FairSpec == Spec /\ Fairness
-----------------------------------------------------------------------------
(* Properties. *)

Caches == UNION {[D -> Script] : D \in SUBSET Sha}

TypeOK ==
    /\ cached \subseteq Script
    /\ link \in [Client -> {"up", "down"}]
    /\ req \in [Client -> Request \cup {NoMsg}]
    /\ rep \in [Client -> Response \cup {NoMsg}]
    /\ pc \in [Client -> PCs]
    /\ arg \in [Client -> Sha]
    /\ sha1_cache \in [Client -> Caches]
    /\ outcome \in [Client -> Outcomes]
    /\ ran \in [Client -> Seq(Script)]
    /\ reloaded \in [Client -> {"no", "yes", "lost"}]

\* Whether the script c named may answer with an ERROR that mentions NOSCRIPT.
Ambiguous(c) == "mentions" \in ScriptReplies[arg[c].script]

\* One call runs one script at most once, whatever the server forgets, refuses
\* or loses between the up to three commands of eval_sha1, and also when the
\* server acts on a command after the caller was told of a transport failure.
\* A script whose own errors mention NOSCRIPT runs at most twice.
RunsAtMostOnce ==
    \A c \in Client : Len(ran[c]) <= (IF Ambiguous(c) THEN 2 ELSE 1)

\* The same without the exception, as exception.hpp states it: no_script_error
\* is "thrown when `EVALSHA` is called but the script is not loaded on the
\* server", so the reload never follows a run.
NeverRunsTwice == \A c \in Client : Len(ran[c]) <= 1

\* Only the script the caller named runs, also when the retry goes by way of
\* sha1_cache and the SHA1 of the reload.
RunsTheNamedScript ==
    \A c \in Client : \A i \in DOMAIN ran[c] : ran[c][i] = arg[c].script

\* A value tells the caller that the script ran, and ran once.
ValueMeansRunOnce ==
    \A c \in Client :
        outcome[c] = "value" => Len(ran[c]) = 1 \/ Ambiguous(c)

\* no_script_error tells the caller that nothing ran, so that it can load the
\* script and call again, as the README's example does with EVAL.
NoScriptMeansNothingRan ==
    \A c \in Client :
        outcome[c] = "no_script" => ran[c] = <<>> \/ Ambiguous(c)

\* A caller whose facade has loaded the script is spared no_script_error,
\* unless the server forgets the script again between the reload and the
\* retry.
ReloadHidesForgetting ==
    \A c \in Client :
        outcome[c] = "no_script" =>
            \/ arg[c] \notin DOMAIN sha1_cache[c]
            \/ reloaded[c] = "lost"
            \/ Ambiguous(c)

\* Every call ends after its one or three commands, however often the server
\* forgets: the facade does not reload again and again.
EveryCallEnds == \A c \in Client : pc[c] # "idle" ~> pc[c] = "idle"

\* The contract of AtMostOnce for scripts whose errors do not mention
\* NOSCRIPT.  A redis_error that the script itself raised is an answer; one
\* that kept it from running is a refusal, and so is a call of script_load,
\* which runs nothing.
Contract == INSTANCE AtMostOnce WITH
    Call <- Client,
    effects <- [c \in Client |-> Len(ran[c])],
    status <- [c \in Client |->
        CASE outcome[c] = "none" -> "idle"
          [] outcome[c] = "pending" -> "pending"
          [] outcome[c] = "transport" -> "failed"
          [] outcome[c] \in {"value", "redis_error"} /\ ran[c] # <<>> -> "returned"
          [] OTHER -> "refused"]

ImplementsContract == Contract!Spec
=============================================================================
