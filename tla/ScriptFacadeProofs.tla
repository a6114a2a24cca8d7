------------------------- MODULE ScriptFacadeProofs -------------------------
(***************************************************************************)
(* What ScriptFacade guarantees for every number of clients and scripts    *)
(* and every way the scripts may be answered.  The invariants of the model *)
(* are not inductive: they follow from IInv, which says at each point of a *)
(* call how often its script may have run.                                 *)
(***************************************************************************)
EXTENDS ScriptFacade, TLAPS

\* Which command may be in flight, and which answer to it, at each pc.
CommandAt(c) ==
    CASE pc[c] \in {"load", "reload"} -> "SCRIPT LOAD"
      [] pc[c] = "eval" -> "EVAL"
      [] OTHER -> "EVALSHA"

AnswersAt(c) ==
    CASE pc[c] \in {"load", "reload"} -> {"sha", "odd", "error"}
      [] pc[c] = "eval" -> RunReplies
      [] OTHER -> RunReplies \cup {"noscript"}

\* A client has a command or an answer in flight, never both; between calls
\* only a command that a broken connection left behind.
Flight(c) ==
    /\ req[c] # NoMsg =>
          /\ rep[c] = NoMsg
          /\ req[c].script = arg[c].script
          /\ pc[c] # "idle" => req[c].cmd = CommandAt(c)
          /\ pc[c] = "idle" => link[c] = "down" /\ outcome[c] = "transport"
    /\ rep[c] # NoMsg =>
          /\ pc[c] # "idle"
          /\ rep[c].script = arg[c].script
          /\ rep[c].type \in AnswersAt(c)
          /\ rep[c].type = "mentions" => Ambiguous(c)
    /\ (pc[c] = "idle") <=> (outcome[c] # "pending")

\* sha1_cache maps every SHA1 to its script.
CacheSound(c) == \A d \in DOMAIN sha1_cache[c] : sha1_cache[c][d] = d.script

\* How often the script may have run, once the command in flight is acted on.
Limit(c) == IF Ambiguous(c) /\ pc[c] \in {"retry", "idle"} THEN 2 ELSE 1

\* An unambiguous script has not run before the reload, nor when the answer is
\* not its own; it has run when its answer is a value.
Runs(c) ==
    /\ \A i \in DOMAIN ran[c] : ran[c][i] = arg[c].script
    /\ Len(ran[c]) <= Limit(c)
    /\ req[c] # NoMsg /\ pc[c] # "reload" => Len(ran[c]) < Limit(c)
    /\ ~Ambiguous(c) =>
          /\ pc[c] = "reload" => ran[c] = <<>>
          /\ rep[c] # NoMsg /\ rep[c].type \in {"noscript", "sha"} => ran[c] = <<>>
          /\ rep[c] # NoMsg /\ rep[c].type = "value" => Len(ran[c]) = 1
          /\ outcome[c] = "value" => Len(ran[c]) = 1
          /\ outcome[c] = "no_script" => ran[c] = <<>>

\* The server has what it loaded until it forgets it, and a retry that finds
\* nothing comes after that.
Reload(c) ==
    /\ reloaded[c] = "yes" => arg[c].script \in cached
    /\ pc[c] = "retry" => reloaded[c] # "no"
    /\ pc[c] = "reload" /\ rep[c] # NoMsg /\ rep[c].type = "sha"
          => reloaded[c] # "no"
    /\ pc[c] = "retry" /\ rep[c] # NoMsg /\ rep[c].type = "noscript"
          => reloaded[c] = "lost"
    /\ outcome[c] = "no_script" =>
          arg[c] \notin DOMAIN sha1_cache[c] \/ reloaded[c] = "lost" \/ Ambiguous(c)

ClientInv(c) == Flight(c) /\ CacheSound(c) /\ Runs(c) /\ Reload(c)

IInv == TypeOK /\ \A c \in Client : ClientInv(c)
-----------------------------------------------------------------------------
(* Emplace adds at most one entry, and never changes one.                   *)
LEMMA EmplaceType ==
    ASSUME NEW m \in Caches,
           NEW k \in Sha, NEW v \in Script
    PROVE  /\ Emplace(m, k, v) \in Caches
           /\ DOMAIN Emplace(m, k, v) = DOMAIN m \cup {k}
           /\ \A x \in DOMAIN m : Emplace(m, k, v)[x] = m[x]
           /\ k \notin DOMAIN m => Emplace(m, k, v)[k] = v
<1>1. PICK D \in SUBSET Sha : m \in [D -> Script]
  BY DEF Caches
<1>2. Emplace(m, k, v) \in [D \cup {k} -> Script]
  BY <1>1 DEF Emplace
<1>3. D \cup {k} \in SUBSET Sha
  OBVIOUS
<1> QED BY <1>1, <1>2, <1>3 DEF Emplace, Caches

LEMMA EmptySeqType == <<>> \in Seq(Script)
OBVIOUS

LEMMA EmptySeqFacts == Len(<<>>) = 0 /\ DOMAIN <<>> = {}
OBVIOUS

LEMMA DigestType == \A s \in Script : Digest(s) \in Sha
BY DEF Digest, Sha
-----------------------------------------------------------------------------
(* Type correctness. *)
LEMMA InitType == Init => TypeOK
<1> SUFFICES ASSUME Init PROVE TypeOK
  OBVIOUS
<1>1. EmptyCache \in [{} -> Script]
  BY DEF EmptyCache
<1>2. sha1_cache \in [Client -> Caches]
  BY <1>1 DEF Init, Caches
<1>3. arg \in [Client -> Sha]
  BY DigestType DEF Init
<1>4. ran \in [Client -> Seq(Script)]
  BY DEF Init
<1>5. /\ cached \subseteq Script
      /\ link \in [Client -> {"up", "down"}]
      /\ req \in [Client -> Request \cup {NoMsg}]
      /\ rep \in [Client -> Response \cup {NoMsg}]
      /\ pc \in [Client -> PCs]
      /\ outcome \in [Client -> Outcomes]
      /\ reloaded \in [Client -> {"no", "yes", "lost"}]
  BY DEF Init, PCs, Outcomes
<1> QED BY <1>2, <1>3, <1>4, <1>5 DEF TypeOK

LEMMA BeginType ==
    ASSUME TypeOK, NEW c \in Client, NEW step \in PCs, NEW sha \in Sha,
           NEW cmd \in {"SCRIPT LOAD", "EVAL", "EVALSHA"}, NEW s \in Script,
           Begin(c, step, sha), Send(c, cmd, s)
    PROVE  TypeOK'
<1>1. [cmd |-> cmd, script |-> s] \in Request
  BY DEF Request
<1>2. req' \in [Client -> Request \cup {NoMsg}]
  BY <1>1 DEF TypeOK, Send
<1>3. ran' \in [Client -> Seq(Script)]
  BY EmptySeqType DEF TypeOK, Begin
<1>4. outcome' \in [Client -> Outcomes] /\ reloaded' \in [Client -> {"no", "yes", "lost"}]
  BY DEF TypeOK, Begin, Outcomes
<1> QED BY <1>2, <1>3, <1>4 DEF TypeOK, Begin

LEMMA CallType == ASSUME TypeOK, NEW c \in Client, BeginCall(c) PROVE TypeOK'
<1>1. ASSUME NEW s \in Script, script_load(c, s) PROVE TypeOK'
  BY <1>1, BeginType, DigestType DEF script_load, PCs
<1>2. ASSUME NEW s \in Script, NEW n \in KeyCounts, eval(c, s, n) PROVE TypeOK'
  BY <1>2, BeginType, DigestType DEF eval, PCs
<1>3. ASSUME NEW sha \in Sha, NEW n \in KeyCounts, eval_sha1(c, sha, n)
      PROVE TypeOK'
  BY <1>3, BeginType DEF eval_sha1, PCs, Sha
<1>4. ASSUME NEW sha \in Sha, NEW n \in KeyCounts, TooManyKeys(c, sha, n)
      PROVE TypeOK'
  BY <1>4 DEF TooManyKeys, TypeOK, netVars, Outcomes
<1> QED BY <1>1, <1>2, <1>3, <1>4 DEF BeginCall

\* The fields of a reply, and the SHA1 that goes with it.
LEMMA ReplyType ==
    ASSUME TypeOK, NEW c \in Client, rep[c] # NoMsg
    PROVE  /\ rep[c] \in Response
           /\ rep[c].script \in Script
           /\ rep[c].type \in {"sha", "noscript", "odd", "value", "error", "mentions"}
BY DEF TypeOK, Response, RunReplies

LEMMA RememberType ==
    ASSUME TypeOK, NEW c \in Client, NEW s \in Script, Remember(c, s)
    PROVE  /\ sha1_cache' \in [Client -> Caches]
           /\ sha1_cache'[c] = Emplace(sha1_cache[c], Digest(s), s)
           /\ \A d \in Client \ {c} : sha1_cache'[d] = sha1_cache[d]
<1>1. sha1_cache[c] \in Caches
  BY DEF TypeOK
<1>2. Emplace(sha1_cache[c], Digest(s), s) \in Caches
  BY <1>1, EmplaceType, DigestType
<1> QED BY <1>2 DEF TypeOK, Remember

LEMMA ReloadSendType ==
    ASSUME TypeOK, NEW c \in Client, arg[c] \in DOMAIN sha1_cache[c]
    PROVE  sha1_cache[c][arg[c]] \in Script
BY DEF TypeOK, Caches

LEMMA SendType ==
    ASSUME TypeOK, NEW c \in Client, NEW s \in Script,
           NEW cmd \in {"SCRIPT LOAD", "EVAL", "EVALSHA"}, Send(c, cmd, s)
    PROVE  req' \in [Client -> Request \cup {NoMsg}]
<1>1. [cmd |-> cmd, script |-> s] \in Request
  BY DEF Request
<1> QED BY <1>1 DEF TypeOK, Send

LEMMA ResultType ==
    \A r \in Response : /\ RunResult(r) \in Outcomes
                        /\ LoadFailure(r) \in Outcomes
BY DEF RunResult, LoadFailure, Outcomes

LEMMA TakeReplyType ==
    ASSUME TypeOK, NEW c \in Client, TakeReply(c) PROVE TypeOK'
<1> USE DEF Receive
<1>1. ASSUME NEW step \in PCs, Receive(c, step)
      PROVE  /\ rep' \in [Client -> Response \cup {NoMsg}]
             /\ rep[c] \in Response /\ rep[c].script \in Script
             /\ RunResult(rep[c]) \in Outcomes /\ LoadFailure(rep[c]) \in Outcomes
  BY <1>1, ReplyType, ResultType DEF TypeOK
<1>2. ASSUME NEW result \in Outcomes, Finish(c, result)
      PROVE  pc' \in [Client -> PCs] /\ outcome' \in [Client -> Outcomes]
  BY <1>2 DEF TypeOK, Finish, PCs
<1>3. ASSUME NEW step \in PCs, Continue(c, step)
      PROVE  pc' \in [Client -> PCs] /\ outcome' \in [Client -> Outcomes]
  BY <1>3 DEF TypeOK, Continue
<1>4. {"sha", "no_script", "transport"} \subseteq Outcomes
  BY DEF Outcomes
<1>5. CASE Loaded(c)
  BY <1>1, <1>2, <1>4, <1>5, RememberType DEF Loaded, TypeOK, PCs
<1>6. CASE Evaluated(c)
  BY <1>1, <1>2, <1>6 DEF Evaluated, TypeOK, PCs
<1>7. CASE EvalShaAnswered(c)
  BY <1>1, <1>2, <1>3, <1>4, <1>7, ReloadSendType, SendType
     DEF EvalShaAnswered, TypeOK, PCs
<1>8. CASE Reloaded(c)
  BY <1>1, <1>2, <1>3, <1>8, RememberType, SendType DEF Reloaded, TypeOK, PCs
<1>9. CASE RetryAnswered(c)
  BY <1>1, <1>2, <1>4, <1>9 DEF RetryAnswered, TypeOK, PCs
<1>10. CASE TransportError(c)
  BY <1>2, <1>4, <1>10 DEF TransportError, TypeOK, netVars
<1> QED BY <1>5, <1>6, <1>7, <1>8, <1>9, <1>10 DEF TakeReply

LEMMA ServeType ==
    ASSUME TypeOK, NEW c \in Client, NEW cmd,
           NEW type \in {"sha", "noscript", "odd"} \cup RunReplies,
           Serve(c, cmd, type)
    PROVE  /\ req' \in [Client -> Request \cup {NoMsg}]
           /\ rep' \in [Client -> Response \cup {NoMsg}]
           /\ req[c] \in Request /\ req[c].script \in Script
<1>1. req[c] \in Request /\ req[c].script \in Script
  BY DEF TypeOK, Serve, Request
<1>2. [type |-> type, script |-> req[c].script] \in Response
  BY <1>1 DEF Response
<1> QED BY <1>1, <1>2 DEF TypeOK, Serve

LEMMA RunType ==
    ASSUME TypeOK, NEW c \in Client, req[c].script \in Script, Run(c)
    PROVE  /\ ran' \in [Client -> Seq(Script)]
           /\ ran'[c] = Append(ran[c], req[c].script)
           /\ \A d \in Client \ {c} : ran'[d] = ran[d]
<1>1. ran[c] \in Seq(Script)
  BY DEF TypeOK
<1>2. Append(ran[c], req[c].script) \in Seq(Script)
  BY <1>1
<1> QED BY <1>2 DEF TypeOK, Run

\* The replies of a script that runs are among RunReplies.
LEMMA ScriptReplyType ==
    \A s \in Script : ScriptReplies[s] \subseteq RunReplies
BY ScriptAssumption

LEMMA ServerStepType ==
    ASSUME TypeOK, NEW c \in Client, ServerStep(c) PROVE TypeOK'
<1>1. CASE ServeScriptLoad(c)
  BY <1>1, ServeType DEF ServeScriptLoad, Serve, callVars, TypeOK
<1>2. CASE ServeEval(c)
  <2>1. PICK type \in ScriptReplies[req[c].script] : Serve(c, "EVAL", type)
    BY <1>2 DEF ServeEval
  <2>2. type \in RunReplies
    BY <1>2, <2>1, ScriptReplyType DEF ServeEval, TypeOK, Request
  <2>3. /\ req' \in [Client -> Request \cup {NoMsg}]
        /\ rep' \in [Client -> Response \cup {NoMsg}]
        /\ req[c].script \in Script
    BY <2>1, <2>2, ServeType
  <2>4. ran' \in [Client -> Seq(Script)]
    BY <1>2, <2>3, RunType DEF ServeEval
  <2> QED BY <1>2, <2>1, <2>3, <2>4 DEF ServeEval, Serve, callVars, TypeOK
<1>3. CASE ServeEvalSha(c)
  <2>1. PICK type \in ScriptReplies[req[c].script] : Serve(c, "EVALSHA", type)
    BY <1>3 DEF ServeEvalSha
  <2>2. type \in RunReplies
    BY <1>3, <2>1, ScriptReplyType DEF ServeEvalSha, TypeOK, Request
  <2>3. /\ req' \in [Client -> Request \cup {NoMsg}]
        /\ rep' \in [Client -> Response \cup {NoMsg}]
        /\ req[c].script \in Script
    BY <2>1, <2>2, ServeType
  <2>4. ran' \in [Client -> Seq(Script)]
    BY <1>3, <2>3, RunType DEF ServeEvalSha
  <2> QED BY <1>3, <2>1, <2>3, <2>4 DEF ServeEvalSha, Serve, callVars, TypeOK
<1>4. CASE ServeNoScript(c)
  BY <1>4, ServeType DEF ServeNoScript, Serve, callVars, TypeOK
<1>5. CASE ServeRefusal(c)
  <2>1. PICK cmd \in {"SCRIPT LOAD", "EVAL", "EVALSHA"}, type \in {"error", "odd"} :
            Serve(c, cmd, type)
    BY <1>5 DEF ServeRefusal
  <2>2. /\ req' \in [Client -> Request \cup {NoMsg}]
        /\ rep' \in [Client -> Response \cup {NoMsg}]
    BY <2>1, ServeType DEF RunReplies
  <2> QED BY <1>5, <2>1, <2>2 DEF ServeRefusal, Serve, callVars, TypeOK
<1> QED BY <1>1, <1>2, <1>3, <1>4, <1>5 DEF ServerStep

LEMMA EnvironmentType ==
    /\ \A c \in Client :
          TypeOK /\ (Reconnect(c) \/ Drop(c) \/ LoseCommand(c)) => TypeOK'
    /\ \A S \in SUBSET cached : TypeOK /\ Forget(S) => TypeOK'
    /\ TypeOK /\ Restart => TypeOK'
<1>1. EmptyCache \in Caches
  <2>1. EmptyCache \in [{} -> Script]
    BY DEF EmptyCache
  <2> QED BY <2>1 DEF Caches
<1>2. ASSUME NEW c \in Client, TypeOK, Reconnect(c) PROVE TypeOK'
  BY <1>1, <1>2 DEF Reconnect, callVars, TypeOK
<1>3. ASSUME NEW c \in Client, TypeOK, Drop(c) PROVE TypeOK'
  BY <1>3 DEF Drop, callVars, TypeOK
<1>4. ASSUME NEW c \in Client, TypeOK, LoseCommand(c) PROVE TypeOK'
  BY <1>4 DEF LoseCommand, callVars, TypeOK
<1>5. ASSUME NEW S, TypeOK, ForgottenFor(S)
      PROVE  reloaded' \in [Client -> {"no", "yes", "lost"}]
  BY <1>5 DEF ForgottenFor, TypeOK
<1>6. ASSUME NEW S \in SUBSET cached, TypeOK, Forget(S) PROVE TypeOK'
  BY <1>5, <1>6 DEF Forget, netVars, callVars, TypeOK
<1>7. ASSUME TypeOK, Restart PROVE TypeOK'
  BY <1>5, <1>7 DEF Restart, callVars, TypeOK
<1> QED BY <1>2, <1>3, <1>4, <1>6, <1>7

LEMMA NextType == TypeOK /\ [Next]_vars => TypeOK'
<1> SUFFICES ASSUME TypeOK, [Next]_vars PROVE TypeOK'
  OBVIOUS
<1>1. CASE UNCHANGED vars
  BY <1>1 DEF TypeOK, vars, netVars, callVars
<1>2. CASE Next
  BY <1>2, CallType, TakeReplyType, ServerStepType, EnvironmentType DEF Next
<1> QED BY <1>1, <1>2

\* Every state of the script layer has its type.
THEOREM TypeCorrect == Spec => []TypeOK
BY InitType, NextType, PTL DEF Spec
-----------------------------------------------------------------------------
(* The inductive invariant.                                                 *)

\* Nothing a client depends on changes, and the server forgets nothing.
Untouched(d) ==
    /\ link'[d] = link[d]
    /\ req'[d] = req[d]
    /\ rep'[d] = rep[d]
    /\ pc'[d] = pc[d]
    /\ arg'[d] = arg[d]
    /\ sha1_cache'[d] = sha1_cache[d]
    /\ outcome'[d] = outcome[d]
    /\ ran'[d] = ran[d]
    /\ reloaded'[d] = reloaded[d]
    /\ cached \subseteq cached'

LEMMA FrameInv ==
    ASSUME NEW d \in Client, ClientInv(d), Untouched(d) PROVE ClientInv(d)'
<1>1. Flight(d)'
  BY DEF ClientInv, Untouched, Flight, CommandAt, AnswersAt, Ambiguous
<1>2. CacheSound(d)'
  BY DEF ClientInv, Untouched, CacheSound
<1>3. Runs(d)'
  BY DEF ClientInv, Untouched, Runs, Limit, Ambiguous
<1>4. Reload(d)'
  BY DEF ClientInv, Untouched, Reload, Ambiguous
<1> QED BY <1>1, <1>2, <1>3, <1>4 DEF ClientInv

LEMMA InitInv == Init => \A c \in Client : ClientInv(c)
<1> SUFFICES ASSUME Init, NEW c \in Client PROVE ClientInv(c)
  OBVIOUS
<1>1. Flight(c)
  BY DEF Init, Flight
<1>2. CacheSound(c)
  BY DEF Init, CacheSound, EmptyCache
<1>3. ran[c] = <<>>
  BY DEF Init
<1>4. Runs(c)
  BY <1>3 DEF Init, Runs, Limit
<1>5. Reload(c)
  BY DEF Init, Reload
<1> QED BY <1>1, <1>2, <1>4, <1>5 DEF ClientInv

\* Before anything has run.
LEMMA FreshRuns ==
    ASSUME NEW c \in Client, ran'[c] = <<>>, rep'[c] = NoMsg,
           outcome'[c] # "value"
    PROVE  Runs(c)'
<1>1. Len(ran'[c]) = 0 /\ DOMAIN ran'[c] = {}
  BY EmptySeqFacts
<1>2. Len(ran'[c]) <= Limit(c)' /\ Len(ran'[c]) < Limit(c)'
  BY <1>1 DEF Limit
<1> QED BY <1>1, <1>2 DEF Runs

\* The command a call begins with, at the step it begins with.
LEMMA BeginInv ==
    ASSUME IInv, NEW c \in Client, NEW step \in {"load", "eval", "evalsha"},
           NEW sha \in Sha, NEW cmd \in {"SCRIPT LOAD", "EVAL", "EVALSHA"},
           Begin(c, step, sha), Send(c, cmd, sha.script),
           step = "load" => cmd = "SCRIPT LOAD",
           step = "eval" => cmd = "EVAL",
           step = "evalsha" => cmd = "EVALSHA"
    PROVE  \A d \in Client : ClientInv(d)'
<1>1. /\ pc'[c] = step /\ arg'[c] = sha /\ outcome'[c] = "pending"
      /\ ran'[c] = <<>> /\ reloaded'[c] = "no"
      /\ rep'[c] = NoMsg /\ sha1_cache'[c] = sha1_cache[c]
      /\ link'[c] = link[c]
  BY DEF IInv, TypeOK, ClientInv, Flight, Begin, Idle
<1>2. req'[c] # NoMsg => /\ req'[c].cmd = cmd
                         /\ req'[c].script = sha.script
  BY DEF IInv, TypeOK, Begin, Send, Idle
<1>3. Flight(c)'
  BY <1>1, <1>2 DEF Flight, CommandAt
<1>4. CacheSound(c)'
  BY <1>1 DEF IInv, ClientInv, CacheSound
<1>5. Runs(c)'
  BY <1>1, FreshRuns
<1>6. Reload(c)'
  BY <1>1 DEF Reload
<1>7. ASSUME NEW d \in Client, d # c PROVE Untouched(d)
  BY <1>7 DEF IInv, TypeOK, Begin, Send, Untouched
<1> QED BY <1>3, <1>4, <1>5, <1>6, <1>7, FrameInv DEF IInv, ClientInv

LEMMA CallInv ==
    ASSUME IInv, NEW c \in Client, BeginCall(c)
    PROVE  \A d \in Client : ClientInv(d)'
<1>1. ASSUME NEW s \in Script, script_load(c, s)
      PROVE  \A d \in Client : ClientInv(d)'
  <2>1. Digest(s) \in Sha /\ Digest(s).script = s
    BY DEF Digest, Sha
  <2> QED BY <1>1, <2>1, BeginInv DEF script_load
<1>2. ASSUME NEW s \in Script, NEW n \in KeyCounts, eval(c, s, n)
      PROVE  \A d \in Client : ClientInv(d)'
  <2>1. Digest(s) \in Sha /\ Digest(s).script = s
    BY DEF Digest, Sha
  <2> QED BY <1>2, <2>1, BeginInv DEF eval
<1>3. ASSUME NEW sha \in Sha, NEW n \in KeyCounts, eval_sha1(c, sha, n)
      PROVE  \A d \in Client : ClientInv(d)'
  BY <1>3, BeginInv DEF eval_sha1
<1>4. ASSUME NEW sha \in Sha, NEW n \in KeyCounts, TooManyKeys(c, sha, n)
      PROVE  \A d \in Client : ClientInv(d)'
  <2>1. /\ pc'[c] = "idle" /\ arg'[c] = sha /\ outcome'[c] = "too_many_keys"
        /\ ran'[c] = <<>> /\ reloaded'[c] = "no"
        /\ req'[c] = NoMsg /\ rep'[c] = NoMsg
        /\ sha1_cache'[c] = sha1_cache[c]
    BY <1>4 DEF TooManyKeys, Idle, IInv, TypeOK, ClientInv, Flight, netVars
  <2>2. Flight(c)'
    BY <2>1 DEF Flight
  <2>3. CacheSound(c)'
    BY <2>1 DEF IInv, ClientInv, CacheSound
  <2>4. Runs(c)'
    BY <2>1, FreshRuns
  <2>5. Reload(c)'
    BY <2>1 DEF Reload
  <2>6. ASSUME NEW d \in Client, d # c PROVE Untouched(d)
    BY <1>4, <2>6 DEF IInv, TypeOK, TooManyKeys, netVars, Untouched
  <2> QED BY <2>2, <2>3, <2>4, <2>5, <2>6, FrameInv DEF IInv, ClientInv
<1> QED BY <1>1, <1>2, <1>3, <1>4 DEF BeginCall

\* A call that ends when its reply is taken.
LEMMA FinishInv ==
    ASSUME IInv, NEW c \in Client, NEW step \in PCs, Receive(c, step),
           NEW result \in Outcomes \ {"pending"}, Finish(c, result),
           UNCHANGED req, CacheSound(c)',
           ~Ambiguous(c) /\ result = "value" => Len(ran[c]) = 1,
           ~Ambiguous(c) /\ result = "no_script" => ran[c] = <<>>,
           result = "no_script" => \/ arg[c] \notin DOMAIN sha1_cache'[c]
                                   \/ reloaded[c] = "lost"
                                   \/ Ambiguous(c)
    PROVE  ClientInv(c)'
<1>1. /\ req[c] = NoMsg /\ req'[c] = NoMsg /\ rep'[c] = NoMsg
      /\ pc'[c] = "idle" /\ outcome'[c] = result
      /\ cached' = cached /\ arg' = arg /\ ran' = ran /\ reloaded' = reloaded
  BY DEF IInv, TypeOK, ClientInv, Flight, Receive, Finish
<1>2. Flight(c)'
  BY <1>1 DEF Flight
<1>3. Runs(c)'
  <2>1. /\ \A i \in DOMAIN ran[c] : ran[c][i] = arg[c].script
        /\ Len(ran[c]) <= 1 \/ (Ambiguous(c) /\ Len(ran[c]) <= 2)
    BY DEF IInv, ClientInv, Runs, Limit
  <2>2. Ambiguous(c)' <=> Ambiguous(c)
    BY <1>1 DEF Ambiguous
  <2>3. Len(ran'[c]) <= Limit(c)'
    BY <1>1, <2>1, <2>2 DEF Limit
  <2> QED BY <1>1, <2>1, <2>2, <2>3 DEF Runs
<1>4. Reload(c)'
  BY <1>1 DEF IInv, ClientInv, Reload, Ambiguous
<1> QED BY <1>2, <1>3, <1>4 DEF ClientInv

\* A command sent after a reply was taken.
LEMMA ContinueFlight ==
    ASSUME IInv, NEW c \in Client, NEW step \in {"evalsha", "reload"},
           NEW next \in {"reload", "retry"}, Receive(c, step),
           Continue(c, next), NEW cmd \in {"SCRIPT LOAD", "EVALSHA"},
           Send(c, cmd, arg[c].script),
           next = "reload" => cmd = "SCRIPT LOAD",
           next = "retry" => cmd = "EVALSHA"
    PROVE  /\ rep'[c] = NoMsg /\ pc'[c] = next /\ outcome'[c] = "pending"
           /\ cached' = cached /\ arg' = arg /\ ran' = ran
           /\ reloaded' = reloaded
           /\ Flight(c)'
<1>1. /\ req[c] = NoMsg /\ rep'[c] = NoMsg
      /\ pc'[c] = next /\ outcome'[c] = "pending"
      /\ cached' = cached /\ arg' = arg /\ ran' = ran /\ reloaded' = reloaded
  BY DEF IInv, TypeOK, ClientInv, Flight, Receive, Continue
<1>2. req'[c] # NoMsg => /\ req'[c].cmd = cmd
                         /\ req'[c].script = arg[c].script
  BY <1>1 DEF IInv, TypeOK, Send
<1>3. Flight(c)'
  BY <1>1, <1>2 DEF Flight, CommandAt
<1> QED BY <1>1, <1>3

\* Going from the first EVALSHA to the reload.
LEMMA ReloadInv ==
    ASSUME IInv, NEW c \in Client, Receive(c, "evalsha"),
           IsNoScript(rep[c]), arg[c] \in DOMAIN sha1_cache[c],
           Continue(c, "reload"),
           Send(c, "SCRIPT LOAD", sha1_cache[c][arg[c]]),
           UNCHANGED sha1_cache
    PROVE  ClientInv(c)'
<1>1. sha1_cache[c][arg[c]] = arg[c].script
  BY DEF IInv, ClientInv, CacheSound
<1>2. /\ rep'[c] = NoMsg /\ pc'[c] = "reload" /\ outcome'[c] = "pending"
      /\ cached' = cached /\ arg' = arg /\ ran' = ran /\ reloaded' = reloaded
      /\ Flight(c)'
  BY <1>1, ContinueFlight
<1>3. Runs(c)'
  <2>1. /\ \A i \in DOMAIN ran[c] : ran[c][i] = arg[c].script
        /\ Len(ran[c]) <= 1
        /\ ~Ambiguous(c) => ran[c] = <<>>
    BY DEF IInv, ClientInv, Flight, Runs, Limit, Receive, IsNoScript
  <2>2. Ambiguous(c)' <=> Ambiguous(c)
    BY <1>2 DEF Ambiguous
  <2>3. Len(ran'[c]) <= Limit(c)'
    BY <1>2, <2>1 DEF Limit
  <2> QED BY <1>2, <2>1, <2>2, <2>3 DEF Runs
<1>4. Reload(c)'
  BY <1>2 DEF IInv, ClientInv, Reload
<1>5. CacheSound(c)'
  BY DEF IInv, ClientInv, CacheSound
<1> QED BY <1>2, <1>3, <1>4, <1>5 DEF ClientInv

\* Going from the reload to the retry.
LEMMA RetryInv ==
    ASSUME IInv, NEW c \in Client, Receive(c, "reload"), rep[c].type = "sha",
           Continue(c, "retry"), Send(c, "EVALSHA", rep[c].script),
           CacheSound(c)'
    PROVE  ClientInv(c)'
<1>1. rep[c].script = arg[c].script
  BY DEF IInv, ClientInv, Flight, Receive
<1>2. /\ rep'[c] = NoMsg /\ pc'[c] = "retry" /\ outcome'[c] = "pending"
      /\ cached' = cached /\ arg' = arg /\ ran' = ran /\ reloaded' = reloaded
      /\ Flight(c)'
  BY <1>1, ContinueFlight
<1>3. Runs(c)'
  <2>1. /\ \A i \in DOMAIN ran[c] : ran[c][i] = arg[c].script
        /\ Len(ran[c]) <= 1
        /\ ~Ambiguous(c) => ran[c] = <<>>
    BY DEF IInv, ClientInv, Runs, Limit, Receive
  <2>2. Ambiguous(c)' <=> Ambiguous(c)
    BY <1>2 DEF Ambiguous
  <2>3. Len(ran[c]) <= 1 /\ (~Ambiguous(c) => Len(ran[c]) = 0)
    BY <2>1, EmptySeqFacts
  <2>4. Len(ran'[c]) <= Limit(c)' /\ Len(ran'[c]) < Limit(c)'
    BY <1>2, <2>2, <2>3 DEF Limit
  <2> QED BY <1>2, <2>1, <2>2, <2>4 DEF Runs
<1>4. reloaded[c] # "no"
  BY DEF IInv, ClientInv, Reload, Receive
<1>5. Reload(c)'
  BY <1>2, <1>4 DEF IInv, ClientInv, Reload
<1> QED BY <1>2, <1>3, <1>5 DEF ClientInv

LEMMA RememberSound ==
    ASSUME IInv, NEW c \in Client, NEW s \in Script, Remember(c, s)
    PROVE  CacheSound(c)'
<1> DEFINE m == sha1_cache[c]
<1>1. m \in Caches
  BY DEF IInv, TypeOK
<1>2. sha1_cache'[c] = Emplace(m, Digest(s), s)
  BY RememberType DEF IInv
<1>3. \A d \in DOMAIN m : m[d] = d.script
  BY DEF IInv, ClientInv, CacheSound
<1>4. Digest(s) \in Sha /\ Digest(s).script = s
  BY DEF Digest, Sha
<1>5. /\ DOMAIN Emplace(m, Digest(s), s) = DOMAIN m \cup {Digest(s)}
      /\ \A x \in DOMAIN m : Emplace(m, Digest(s), s)[x] = m[x]
      /\ Digest(s) \notin DOMAIN m => Emplace(m, Digest(s), s)[Digest(s)] = s
  BY <1>1, <1>4, EmplaceType
<1> HIDE DEF m
<1>6. \A d \in DOMAIN sha1_cache'[c] : sha1_cache'[c][d] = d.script
  BY <1>2, <1>3, <1>4, <1>5
<1> QED BY <1>6 DEF CacheSound

LEMMA TakeReplyInv ==
    ASSUME IInv, NEW c \in Client, TakeReply(c)
    PROVE  ClientInv(c)'
<1>1. /\ CacheSound(c)
      /\ UNCHANGED sha1_cache => CacheSound(c)'
  BY DEF IInv, ClientInv, CacheSound
<1>2. rep[c] # NoMsg => rep[c] \in Response /\ rep[c].script \in Script
  BY ReplyType DEF IInv
<1>3. /\ {"sha", "value", "redis_error", "unexpected_type", "no_script"}
            \subseteq Outcomes \ {"pending"}
      /\ {"load", "eval", "evalsha", "reload", "retry"} \subseteq PCs
  BY DEF Outcomes, PCs
<1>4. CASE Loaded(c)
  <2>1. Receive(c, "load") /\ UNCHANGED req
    BY <1>4 DEF Loaded
  <2>2. CASE Remember(c, rep[c].script) /\ Finish(c, "sha")
    BY <1>2, <1>3, <2>1, <2>2, RememberSound, FinishInv DEF Receive
  <2>3. CASE Finish(c, LoadFailure(rep[c])) /\ UNCHANGED sha1_cache
    BY <1>1, <1>3, <2>1, <2>3, FinishInv DEF LoadFailure
  <2> QED BY <1>4, <2>2, <2>3 DEF Loaded
<1>5. CASE Evaluated(c)
  <2>1. /\ Receive(c, "eval") /\ Finish(c, RunResult(rep[c]))
        /\ UNCHANGED req /\ UNCHANGED sha1_cache
    BY <1>5 DEF Evaluated
  <2>2. RunResult(rep[c]) = "value" => rep[c].type = "value"
    BY <2>1 DEF IInv, ClientInv, Flight, AnswersAt, RunReplies, RunResult,
                IsError, Receive
  <2>3. rep[c].type = "value" /\ ~Ambiguous(c) => Len(ran[c]) = 1
    BY <2>1 DEF IInv, ClientInv, Runs, Receive
  <2> QED BY <1>1, <1>3, <2>1, <2>2, <2>3, FinishInv DEF RunResult
<1>6. CASE EvalShaAnswered(c)
  <2>1. Receive(c, "evalsha") /\ UNCHANGED sha1_cache
    BY <1>6 DEF EvalShaAnswered
  <2>2. CASE /\ ~IsNoScript(rep[c]) /\ Finish(c, RunResult(rep[c]))
             /\ UNCHANGED req
    <3>1. RunResult(rep[c]) = "value" => rep[c].type = "value"
      BY <2>1, <2>2 DEF IInv, ClientInv, Flight, AnswersAt, RunReplies,
                        RunResult, IsError, Receive
    <3>2. rep[c].type = "value" /\ ~Ambiguous(c) => Len(ran[c]) = 1
      BY <2>1 DEF IInv, ClientInv, Runs, Receive
    <3> QED BY <1>1, <1>3, <2>1, <2>2, <3>1, <3>2, FinishInv DEF RunResult
  <2>3. CASE /\ IsNoScript(rep[c]) /\ arg[c] \notin DOMAIN sha1_cache[c]
             /\ Finish(c, "no_script") /\ UNCHANGED req
    <3>1. ~Ambiguous(c) => ran[c] = <<>>
      BY <2>1, <2>3 DEF IInv, ClientInv, Flight, Runs, Receive, IsNoScript
    <3> QED BY <1>1, <1>3, <2>1, <2>3, <3>1, FinishInv
  <2>4. CASE /\ IsNoScript(rep[c]) /\ arg[c] \in DOMAIN sha1_cache[c]
             /\ Continue(c, "reload")
             /\ Send(c, "SCRIPT LOAD", sha1_cache[c][arg[c]])
    BY <2>1, <2>4, ReloadInv
  <2> QED BY <1>6, <2>2, <2>3, <2>4 DEF EvalShaAnswered
<1>7. CASE Reloaded(c)
  <2>1. Receive(c, "reload")
    BY <1>7 DEF Reloaded
  <2>2. CASE /\ rep[c].type = "sha" /\ Remember(c, rep[c].script)
             /\ Continue(c, "retry") /\ Send(c, "EVALSHA", rep[c].script)
    BY <1>2, <2>1, <2>2, RememberSound, RetryInv DEF Receive
  <2>3. CASE Finish(c, LoadFailure(rep[c])) /\ UNCHANGED <<req, sha1_cache>>
    BY <1>1, <1>3, <2>1, <2>3, FinishInv DEF LoadFailure
  <2> QED BY <1>7, <2>2, <2>3 DEF Reloaded
<1>8. CASE RetryAnswered(c)
  <2>1. Receive(c, "retry") /\ UNCHANGED req /\ UNCHANGED sha1_cache
    BY <1>8 DEF RetryAnswered
  <2>2. CASE IsNoScript(rep[c]) /\ Finish(c, "no_script")
    <3>1. ~Ambiguous(c) => ran[c] = <<>>
      BY <2>1, <2>2 DEF IInv, ClientInv, Flight, Runs, Receive, IsNoScript
    <3>2. reloaded[c] = "lost" \/ Ambiguous(c)
      BY <2>1, <2>2 DEF IInv, ClientInv, Flight, Reload, Receive, IsNoScript
    <3> QED BY <1>1, <1>3, <2>1, <2>2, <3>1, <3>2, FinishInv
  <2>3. CASE ~IsNoScript(rep[c]) /\ Finish(c, RunResult(rep[c]))
    <3>1. RunResult(rep[c]) = "value" => rep[c].type = "value"
      BY <2>1, <2>3 DEF IInv, ClientInv, Flight, AnswersAt, RunReplies,
                        RunResult, IsError, Receive
    <3>2. rep[c].type = "value" /\ ~Ambiguous(c) => Len(ran[c]) = 1
      BY <2>1 DEF IInv, ClientInv, Runs, Receive
    <3> QED BY <1>1, <1>3, <2>1, <2>3, <3>1, <3>2, FinishInv DEF RunResult
  <2> QED BY <1>8, <2>2, <2>3 DEF RetryAnswered
<1>9. CASE TransportError(c)
  <2>1. /\ pc[c] # "idle" /\ pc'[c] = "idle" /\ outcome'[c] = "transport"
        /\ link[c] = "down" /\ rep[c] = NoMsg
        /\ UNCHANGED <<link, req, rep, cached, arg, ran, reloaded, sha1_cache>>
    BY <1>9 DEF TransportError, Finish, netVars, IInv, TypeOK
  <2>2. Flight(c)'
    BY <2>1 DEF IInv, ClientInv, Flight
  <2>3. Runs(c)'
    <3>1. /\ \A i \in DOMAIN ran[c] : ran[c][i] = arg[c].script
          /\ Len(ran[c]) <= 1 \/ (Ambiguous(c) /\ Len(ran[c]) <= 2)
          /\ req[c] # NoMsg =>
                IF Ambiguous(c) THEN Len(ran[c]) <= 1 ELSE Len(ran[c]) <= 0
      <4>1. ran[c] = <<>> => Len(ran[c]) <= 0
        BY EmptySeqFacts
      <4>2. ran[c] \in Seq(Script)
        BY DEF IInv, TypeOK
      <4>3. Len(ran[c]) \in Nat
        BY <4>2
      <4> QED BY <2>1, <4>1, <4>3 DEF IInv, ClientInv, Runs, Limit
    <3>2. Ambiguous(c)' <=> Ambiguous(c)
      BY <2>1 DEF Ambiguous
    <3>3. /\ Len(ran'[c]) <= Limit(c)'
          /\ req[c] # NoMsg => Len(ran'[c]) < Limit(c)'
      BY <2>1, <3>1, <3>2 DEF Limit
    <3> QED BY <2>1, <3>1, <3>2, <3>3 DEF Runs
  <2>4. Reload(c)'
    BY <2>1 DEF IInv, ClientInv, Reload
  <2> QED BY <1>1, <2>1, <2>2, <2>3, <2>4 DEF ClientInv
<1> QED BY <1>4, <1>5, <1>6, <1>7, <1>8, <1>9 DEF TakeReply

\* Taking a reply is nothing to the other clients.
LEMMA TakeReplyFrame ==
    ASSUME IInv, NEW c \in Client, TakeReply(c), NEW d \in Client, d # c
    PROVE  Untouched(d)
<1>1. /\ UNCHANGED <<cached, link, arg, ran, reloaded>>
      /\ rep'[d] = rep[d]
  BY DEF IInv, TypeOK, TakeReply, Loaded, Evaluated, EvalShaAnswered, Reloaded,
         RetryAnswered, TransportError, Receive, netVars
<1>2. pc'[d] = pc[d] /\ outcome'[d] = outcome[d]
  BY DEF IInv, TypeOK, TakeReply, Loaded, Evaluated, EvalShaAnswered, Reloaded,
         RetryAnswered, TransportError, Finish, Continue
<1>3. req'[d] = req[d]
  BY DEF IInv, TypeOK, TakeReply, Loaded, Evaluated, EvalShaAnswered, Reloaded,
         RetryAnswered, TransportError, Send, netVars
<1>4. sha1_cache'[d] = sha1_cache[d]
  BY DEF IInv, TypeOK, TakeReply, Loaded, Evaluated, EvalShaAnswered, Reloaded,
         RetryAnswered, TransportError, Remember
<1> QED BY <1>1, <1>2, <1>3, <1>4 DEF Untouched

\* The server acts on a command: what that does to the command in flight.
LEMMA ServeFlight ==
    ASSUME IInv, NEW c \in Client, NEW cmd, NEW type,
           pc[c] # "idle" => type \in AnswersAt(c),
           type = "mentions" => Ambiguous(c),
           Serve(c, cmd, type)
    PROVE  /\ req[c] # NoMsg /\ req'[c] = NoMsg /\ rep[c] = NoMsg
           /\ req[c].script = arg[c].script
           /\ rep'[c] # NoMsg => /\ pc[c] # "idle"
                                 /\ rep'[c].type = type
           /\ Flight(c)'
<1>1. /\ req[c] # NoMsg /\ req'[c] = NoMsg /\ rep[c] = NoMsg
      /\ req[c].script = arg[c].script
      /\ UNCHANGED <<link, pc, arg, outcome>>
      /\ rep'[c] # NoMsg => /\ link[c] = "up"
                            /\ rep'[c].type = type
                            /\ rep'[c].script = arg[c].script
  BY DEF IInv, TypeOK, ClientInv, Flight, Serve, callVars
<1>2. rep'[c] # NoMsg => pc[c] # "idle"
  BY <1>1 DEF IInv, ClientInv, Flight
<1>3. Flight(c)'
  <2>1. AnswersAt(c)' = AnswersAt(c)
    BY <1>1 DEF AnswersAt
  <2>2. Ambiguous(c)' <=> Ambiguous(c)
    BY <1>1 DEF Ambiguous
  <2>3. (pc[c] = "idle") <=> (outcome[c] # "pending")
    BY DEF IInv, ClientInv, Flight
  <2> QED BY <1>1, <1>2, <2>1, <2>2, <2>3 DEF Flight
<1> QED BY <1>1, <1>2, <1>3

LEMMA ShortSeq == \A s \in Seq(Script) : /\ Len(s) \in Nat
                                         /\ Len(s) < 1 => s = <<>>
OBVIOUS

\* The server runs the script of the command in flight.
LEMMA RunInv ==
    ASSUME IInv, NEW c \in Client, NEW cmd \in {"EVAL", "EVALSHA"},
           NEW type \in ScriptReplies[req[c].script],
           Serve(c, cmd, type), Run(c), UNCHANGED reloaded,
           cached \subseteq cached'
    PROVE  ClientInv(c)'
<1>1. /\ req[c] # NoMsg /\ req[c].cmd = cmd
      /\ req[c].script = arg[c].script /\ arg[c].script \in Script
      /\ UNCHANGED <<pc, arg, outcome, sha1_cache>>
  BY DEF IInv, TypeOK, ClientInv, Flight, Serve, callVars, Sha
<1>2. pc[c] \in {"eval", "evalsha", "retry", "idle"}
  BY <1>1 DEF IInv, TypeOK, ClientInv, Flight, CommandAt, PCs
<1>3. type \in RunReplies /\ (type = "mentions" => Ambiguous(c))
  BY <1>1, ScriptReplyType DEF Ambiguous
<1>4. pc[c] # "idle" => type \in AnswersAt(c)
  BY <1>2, <1>3 DEF AnswersAt
<1>5. /\ req'[c] = NoMsg
      /\ rep'[c] # NoMsg => pc[c] # "idle" /\ rep'[c].type = type
      /\ Flight(c)'
  BY <1>3, <1>4, ServeFlight
<1>6. /\ ran[c] \in Seq(Script) /\ ran'[c] = Append(ran[c], arg[c].script)
  BY <1>1, RunType DEF IInv, TypeOK
<1>7. /\ Len(ran'[c]) = Len(ran[c]) + 1 /\ Len(ran[c]) \in Nat
      /\ \A i \in DOMAIN ran'[c] : ran'[c][i] = arg[c].script
  <2>1. \A i \in DOMAIN ran[c] : ran[c][i] = arg[c].script
    BY DEF IInv, ClientInv, Runs
  <2> QED BY <1>1, <1>6, <2>1
<1>8. /\ \/ Len(ran'[c]) <= 1
         \/ /\ Ambiguous(c) /\ pc[c] \in {"retry", "idle"}
            /\ Len(ran'[c]) <= 2
      /\ ~Ambiguous(c) => Len(ran'[c]) = 1
  <2>1. Len(ran[c]) < Limit(c)
    BY <1>1, <1>2 DEF IInv, ClientInv, Runs
  <2>2. Len(ran[c]) < (IF Ambiguous(c) /\ pc[c] \in {"retry", "idle"} THEN 2 ELSE 1)
    BY <2>1 DEF Limit
  <2>3. Len(ran'[c]) = Len(ran[c]) + 1 /\ Len(ran[c]) \in Nat
    BY <1>7
  <2>4. CASE Ambiguous(c) /\ pc[c] \in {"retry", "idle"}
    <3>1. Len(ran'[c]) <= 2
      BY <2>2, <2>3, <2>4
    <3> QED BY <2>4, <3>1
  <2>5. CASE ~(Ambiguous(c) /\ pc[c] \in {"retry", "idle"})
    <3>1. Len(ran'[c]) = 1
      BY <2>2, <2>3, <2>5
    <3>2. Len(ran'[c]) <= 1
      BY <3>1
    <3> QED BY <3>1, <3>2
  <2> QED BY <2>4, <2>5
<1>9. Ambiguous(c)' <=> Ambiguous(c)
  BY <1>1 DEF Ambiguous
<1>10. Len(ran'[c]) <= Limit(c)'
  BY <1>1, <1>8, <1>9 DEF Limit
<1>11. outcome[c] \notin {"value", "no_script"}
  BY <1>1 DEF IInv, ClientInv, Flight
<1>12. Runs(c)'
  BY <1>1, <1>2, <1>3, <1>5, <1>7, <1>8, <1>9, <1>10, <1>11 DEF Runs, RunReplies
<1>13. CacheSound(c)'
  BY <1>1 DEF IInv, ClientInv, CacheSound
<1>14. Reload(c)'
  BY <1>1, <1>2, <1>3, <1>5, <1>11 DEF IInv, ClientInv, Reload, RunReplies
<1> QED BY <1>5, <1>12, <1>13, <1>14 DEF ClientInv

\* The server answers without running anything.
LEMMA AnswerInv ==
    ASSUME IInv, NEW c \in Client,
           NEW cmd \in {"SCRIPT LOAD", "EVAL", "EVALSHA"},
           NEW type \in {"sha", "noscript", "odd", "error"},
           pc[c] # "idle" => type \in AnswersAt(c),
           Serve(c, cmd, type), UNCHANGED ran, cached \subseteq cached',
           \/ UNCHANGED reloaded /\ type # "sha"
           \/ /\ cmd = "SCRIPT LOAD" /\ reloaded'[c] = "yes"
              /\ req[c].script \in cached',
           type = "noscript" => cmd = "EVALSHA" /\ req[c].script \notin cached
    PROVE  ClientInv(c)'
<1>1. /\ req[c] # NoMsg /\ req[c].cmd = cmd
      /\ req[c].script = arg[c].script
      /\ outcome[c] \notin {"value", "no_script"}
      /\ pc[c] # "idle" => cmd = CommandAt(c)
      /\ UNCHANGED <<pc, arg, outcome, sha1_cache>>
  BY DEF IInv, TypeOK, ClientInv, Flight, Serve, callVars
<1>2. /\ req'[c] = NoMsg
      /\ rep'[c] # NoMsg => pc[c] # "idle" /\ rep'[c].type = type
      /\ Flight(c)'
  BY ServeFlight
<1>3. Ambiguous(c)' <=> Ambiguous(c)
  BY <1>1 DEF Ambiguous
<1>4. Len(ran'[c]) <= Limit(c)'
  BY <1>1, <1>3 DEF IInv, ClientInv, Runs, Limit
<1>5. ~Ambiguous(c) /\ type \in {"noscript", "sha"} /\ pc[c] # "idle" => ran[c] = <<>>
  <2>1. SUFFICES ASSUME ~Ambiguous(c), pc[c] # "reload" PROVE ran[c] = <<>>
    BY DEF IInv, ClientInv, Runs
  <2>2. Len(ran[c]) < 1
    BY <1>1, <2>1 DEF IInv, ClientInv, Runs, Limit
  <2>3. ran[c] \in Seq(Script)
    BY DEF IInv, TypeOK
  <2> QED BY <2>2, <2>3, ShortSeq
<1>6. Runs(c)'
  <2>1. \A i \in DOMAIN ran[c] : ran[c][i] = arg[c].script
    BY DEF IInv, ClientInv, Runs
  <2>2. ~Ambiguous(c) /\ pc[c] = "reload" => ran[c] = <<>>
    BY DEF IInv, ClientInv, Runs
  <2> QED BY <1>1, <1>2, <1>3, <1>4, <1>5, <2>1, <2>2 DEF Runs
<1>7. CacheSound(c)'
  BY <1>1 DEF IInv, ClientInv, CacheSound
<1>8. Reload(c)'
  <2>1. CASE UNCHANGED reloaded /\ type # "sha"
    <3>1. type = "noscript" /\ pc[c] = "retry" => reloaded[c] = "lost"
      BY <1>1 DEF IInv, TypeOK, ClientInv, Reload
    <3> QED BY <1>1, <1>2, <2>1, <3>1 DEF IInv, ClientInv, Reload
  <2>2. CASE /\ cmd = "SCRIPT LOAD" /\ reloaded'[c] = "yes"
             /\ req[c].script \in cached'
    <3>1. pc[c] # "retry"
      BY <1>1, <2>2 DEF CommandAt
    <3> QED BY <1>1, <1>2, <2>2, <3>1 DEF Reload
  <2> QED BY <2>1, <2>2
<1> QED BY <1>2, <1>6, <1>7, <1>8 DEF ClientInv

LEMMA ServerStepInv ==
    ASSUME IInv, NEW c \in Client, ServerStep(c)
    PROVE  /\ ClientInv(c)'
           /\ \A d \in Client \ {c} : Untouched(d)
<1>1. ASSUME NEW cmd, Serve(c, cmd, "sha") \/ Serve(c, cmd, "error")
             \/ Serve(c, cmd, "odd") \/ Serve(c, cmd, "noscript")
      PROVE  pc[c] # "idle" => req[c].cmd = cmd /\ cmd = CommandAt(c)
  BY <1>1 DEF IInv, ClientInv, Flight, Serve
<1>2. ASSUME NEW cmd, NEW type, Serve(c, cmd, type), NEW d \in Client, d # c
      PROVE  /\ UNCHANGED <<link, pc, arg, outcome, sha1_cache>>
             /\ req'[d] = req[d] /\ rep'[d] = rep[d]
  BY <1>2 DEF IInv, TypeOK, Serve, callVars
<1>3. CASE ServeScriptLoad(c)
  <2>1. /\ Serve(c, "SCRIPT LOAD", "sha") /\ UNCHANGED ran
        /\ cached \subseteq cached' /\ req[c].script \in cached'
        /\ reloaded'[c] = "yes"
        /\ \A d \in Client \ {c} : reloaded'[d] = reloaded[d]
    BY <1>3 DEF ServeScriptLoad, IInv, TypeOK
  <2>2. pc[c] # "idle" => "sha" \in AnswersAt(c)
    BY <1>1, <2>1 DEF CommandAt, AnswersAt
  <2>3. ClientInv(c)'
    BY <2>1, <2>2, AnswerInv
  <2> QED BY <1>2, <2>1, <2>3 DEF Untouched
<1>4. CASE ServeEval(c)
  <2>1. PICK type \in ScriptReplies[req[c].script] : Serve(c, "EVAL", type)
    BY <1>4 DEF ServeEval
  <2>2. Run(c) /\ UNCHANGED reloaded /\ cached \subseteq cached'
    BY <1>4 DEF ServeEval
  <2>3. ClientInv(c)'
    BY <2>1, <2>2, RunInv
  <2>4. \A d \in Client \ {c} : ran'[d] = ran[d]
    BY <2>2 DEF Run, IInv, TypeOK
  <2> QED BY <1>2, <2>1, <2>2, <2>3, <2>4 DEF Untouched
<1>5. CASE ServeEvalSha(c)
  <2>1. PICK type \in ScriptReplies[req[c].script] : Serve(c, "EVALSHA", type)
    BY <1>5 DEF ServeEvalSha
  <2>2. Run(c) /\ UNCHANGED reloaded /\ UNCHANGED cached
    BY <1>5 DEF ServeEvalSha
  <2>3. ClientInv(c)'
    BY <2>1, <2>2, RunInv
  <2>4. \A d \in Client \ {c} : ran'[d] = ran[d]
    BY <2>2 DEF Run, IInv, TypeOK
  <2> QED BY <1>2, <2>1, <2>2, <2>3, <2>4 DEF Untouched
<1>6. CASE ServeNoScript(c)
  <2>1. /\ Serve(c, "EVALSHA", "noscript") /\ req[c].script \notin cached
        /\ UNCHANGED <<cached, ran, reloaded>>
    BY <1>6 DEF ServeNoScript
  <2>2. pc[c] # "idle" => "noscript" \in AnswersAt(c)
    BY <1>1, <2>1 DEF CommandAt, AnswersAt
  <2>3. ClientInv(c)'
    BY <2>1, <2>2, AnswerInv
  <2> QED BY <1>2, <2>1, <2>3 DEF Untouched
<1>7. CASE ServeRefusal(c)
  <2>1. UNCHANGED <<cached, ran, reloaded>>
    BY <1>7 DEF ServeRefusal
  <2>2. ASSUME NEW cmd \in {"SCRIPT LOAD", "EVAL", "EVALSHA"},
               Serve(c, cmd, "error")
        PROVE  ClientInv(c)'
    <3>1. pc[c] # "idle" => "error" \in AnswersAt(c)
      BY DEF AnswersAt, RunReplies
    <3> QED BY <2>1, <2>2, <3>1, AnswerInv
  <2>3. ASSUME Serve(c, "SCRIPT LOAD", "odd")
        PROVE  ClientInv(c)'
    <3>1. pc[c] # "idle" => "odd" \in AnswersAt(c)
      BY <1>1, <2>3 DEF CommandAt, AnswersAt
    <3> QED BY <2>1, <2>3, <3>1, AnswerInv
  <2> QED BY <1>2, <1>7, <2>1, <2>2, <2>3 DEF ServeRefusal, Untouched
<1> QED BY <1>3, <1>4, <1>5, <1>6, <1>7 DEF ServerStep

\* Losing a command, a reply, the connection or a script in the server.
LEMMA LossInv ==
    ASSUME IInv, NEW d \in Client,
           UNCHANGED <<pc, arg, outcome, sha1_cache, ran>>,
           req'[d] \in {req[d], NoMsg}, rep'[d] \in {rep[d], NoMsg},
           link'[d] \in {link[d], "down"},
           reloaded'[d] \in {reloaded[d], "lost"},
           reloaded'[d] # reloaded[d] => reloaded[d] = "yes",
           reloaded'[d] = "yes" => arg[d].script \in cached'
    PROVE  ClientInv(d)'
<1>1. Ambiguous(d)' <=> Ambiguous(d)
  BY DEF Ambiguous
<1>2. Flight(d)'
  BY <1>1 DEF IInv, ClientInv, Flight, CommandAt, AnswersAt
<1>3. CacheSound(d)'
  BY DEF IInv, ClientInv, CacheSound
<1>4. Runs(d)'
  BY <1>1 DEF IInv, ClientInv, Runs, Limit
<1>5. Reload(d)'
  BY <1>1 DEF IInv, ClientInv, Reload
<1> QED BY <1>2, <1>3, <1>4, <1>5 DEF ClientInv

LEMMA ReconnectInv ==
    ASSUME IInv, NEW c \in Client, Reconnect(c), NEW d \in Client
    PROVE  ClientInv(d)'
<1>1. /\ UNCHANGED <<cached, req, rep, pc, arg, outcome, ran, reloaded>>
      /\ pc[c] = "idle" /\ req[c] = NoMsg
  BY DEF Reconnect, Idle, callVars
<1>2. CASE d # c
  <2>1. Untouched(d)
    BY <1>1, <1>2 DEF Reconnect, Untouched, IInv, TypeOK
  <2> QED BY <2>1, FrameInv DEF IInv
<1>3. CASE d = c
  <2>1. sha1_cache'[c] = sha1_cache[c] \/ sha1_cache'[c] = EmptyCache
    BY DEF Reconnect, IInv, TypeOK
  <2>2. DOMAIN EmptyCache = {}
    BY DEF EmptyCache
  <2>3. Ambiguous(c)' <=> Ambiguous(c)
    BY <1>1 DEF Ambiguous
  <2>4. Flight(c)'
    BY <1>1, <2>3 DEF IInv, ClientInv, Flight, CommandAt, AnswersAt
  <2>5. CacheSound(c)'
    BY <2>1, <2>2 DEF IInv, ClientInv, CacheSound
  <2>6. Runs(c)'
    BY <1>1, <2>3 DEF IInv, ClientInv, Runs, Limit
  <2>7. Reload(c)'
    BY <1>1, <2>1, <2>2, <2>3 DEF IInv, ClientInv, Reload
  <2> QED BY <1>3, <2>4, <2>5, <2>6, <2>7 DEF ClientInv
<1> QED BY <1>2, <1>3

\* What happens to scripts the server forgets.
LEMMA ForgottenType ==
    ASSUME IInv, NEW S, ForgottenFor(S), cached' = cached \ S,
           UNCHANGED arg, NEW d \in Client
    PROVE  /\ reloaded'[d] \in {reloaded[d], "lost"}
           /\ reloaded'[d] # reloaded[d] => reloaded[d] = "yes"
           /\ reloaded'[d] = "yes" => arg[d].script \in cached'
<1>1. reloaded'[d] = IF reloaded[d] = "yes" /\ arg[d].script \in S
                     THEN "lost" ELSE reloaded[d]
  BY DEF ForgottenFor
<1>2. reloaded[d] = "yes" => arg[d].script \in cached
  BY DEF IInv, ClientInv, Reload
<1> QED BY <1>1, <1>2

LEMMA EnvironmentInv ==
    ASSUME IInv, NEW d \in Client,
           \/ \E c \in Client : Reconnect(c) \/ Drop(c) \/ LoseCommand(c)
           \/ \E S \in SUBSET cached : Forget(S)
           \/ Restart
    PROVE  ClientInv(d)'
<1>1. reloaded[d] = "yes" => arg[d].script \in cached
  BY DEF IInv, ClientInv, Reload
<1>2. ASSUME NEW c \in Client, Drop(c) PROVE ClientInv(d)'
  <2>1. /\ UNCHANGED <<cached, req, pc, arg, outcome, sha1_cache, ran, reloaded>>
        /\ link'[d] \in {link[d], "down"} /\ rep'[d] \in {rep[d], NoMsg}
    BY <1>2 DEF Drop, callVars, IInv, TypeOK
  <2> QED BY <1>1, <2>1, LossInv
<1>3. ASSUME NEW c \in Client, LoseCommand(c) PROVE ClientInv(d)'
  <2>1. /\ UNCHANGED <<cached, link, rep, pc, arg, outcome, sha1_cache, ran, reloaded>>
        /\ req'[d] \in {req[d], NoMsg}
    BY <1>3 DEF LoseCommand, callVars, IInv, TypeOK
  <2> QED BY <1>1, <2>1, LossInv
<1>4. ASSUME NEW S \in SUBSET cached, Forget(S) PROVE ClientInv(d)'
  <2>1. /\ cached' = cached \ S /\ ForgottenFor(S)
        /\ UNCHANGED <<link, req, rep, pc, arg, outcome, sha1_cache, ran>>
    BY <1>4 DEF Forget, netVars, callVars
  <2> QED BY <2>1, ForgottenType, LossInv
<1>5. ASSUME Restart PROVE ClientInv(d)'
  <2>1. /\ cached' = cached \ cached /\ ForgottenFor(cached)
        /\ UNCHANGED <<rep, pc, arg, outcome, sha1_cache, ran>>
        /\ link'[d] = "down" /\ req'[d] = NoMsg
    BY <1>5 DEF Restart, callVars
  <2> QED BY <2>1, ForgottenType, LossInv
<1> QED BY <1>2, <1>3, <1>4, <1>5, ReconnectInv

\* A call that begins is nothing to the other clients.
LEMMA BeginFrame ==
    ASSUME IInv, NEW c \in Client, BeginCall(c), NEW d \in Client, d # c
    PROVE  Untouched(d)
<1>1. ASSUME NEW step, NEW sha, NEW cmd, NEW s, Begin(c, step, sha), Send(c, cmd, s)
      PROVE  Untouched(d)
  BY <1>1 DEF Begin, Send, Untouched, IInv, TypeOK
<1>2. ASSUME NEW sha, NEW n, TooManyKeys(c, sha, n) PROVE Untouched(d)
  BY <1>2 DEF TooManyKeys, Untouched, IInv, TypeOK, netVars
<1> QED BY <1>1, <1>2 DEF BeginCall, script_load, eval, eval_sha1

LEMMA NextInv == IInv /\ [Next]_vars => IInv'
<1> SUFFICES ASSUME IInv, [Next]_vars, NEW d \in Client PROVE ClientInv(d)'
  BY NextType DEF IInv
<1>1. ASSUME Untouched(d) PROVE ClientInv(d)'
  BY <1>1, FrameInv DEF IInv
<1>2. CASE UNCHANGED vars
  BY <1>1, <1>2 DEF vars, netVars, callVars, Untouched
<1>3. ASSUME NEW c \in Client, BeginCall(c) PROVE ClientInv(d)'
  BY <1>1, <1>3, CallInv, BeginFrame
<1>4. ASSUME NEW c \in Client, TakeReply(c) PROVE ClientInv(d)'
  BY <1>1, <1>4, TakeReplyInv, TakeReplyFrame
<1>5. ASSUME NEW c \in Client, ServerStep(c) PROVE ClientInv(d)'
  BY <1>1, <1>5, ServerStepInv
<1> QED BY <1>2, <1>3, <1>4, <1>5, EnvironmentInv DEF Next

\* IInv holds in every reachable state: at each point of a call it bounds how
\* often the script has run and says what the command or answer in flight is.
THEOREM Invariant == Spec => []IInv
<1>1. Init => IInv
  BY InitType, InitInv DEF IInv
<1> QED BY <1>1, NextInv, PTL DEF Spec
-----------------------------------------------------------------------------
(* The safety properties of ScriptFacade.                                   *)

\* Whatever the server forgets, refuses or loses between the up to three
\* commands of eval_sha1, a call runs its script at most once, or at most
\* twice when the script's own errors mention NOSCRIPT.
THEOREM AtMostOnceRun == Spec => []RunsAtMostOnce
<1>1. IInv => RunsAtMostOnce
  <2> SUFFICES ASSUME IInv, NEW c \in Client
               PROVE  Len(ran[c]) <= (IF Ambiguous(c) THEN 2 ELSE 1)
    BY DEF RunsAtMostOnce
  <2>1. Len(ran[c]) <= Limit(c)
    BY DEF IInv, ClientInv, Runs
  <2>2. ran[c] \in Seq(Script)
    BY DEF IInv, TypeOK
  <2>3. Len(ran[c]) \in Nat
    BY <2>2, ShortSeq
  <2> QED BY <2>1, <2>3 DEF Limit
<1> QED BY <1>1, Invariant, PTL

\* The script that runs is the one the caller named, also when the retry goes
\* by way of sha1_cache and the SHA1 that the reload returned.
THEOREM NamedScriptRuns == Spec => []RunsTheNamedScript
<1>1. IInv => RunsTheNamedScript
  BY DEF IInv, ClientInv, Runs, RunsTheNamedScript
<1> QED BY <1>1, Invariant, PTL

\* A caller that has a value knows that its script ran exactly once.
THEOREM ValueRanOnce == Spec => []ValueMeansRunOnce
<1>1. IInv => ValueMeansRunOnce
  BY DEF IInv, ClientInv, Runs, ValueMeansRunOnce
<1> QED BY <1>1, Invariant, PTL

\* A caller that has no_script_error knows that nothing ran.
THEOREM NoScriptRanNothing == Spec => []NoScriptMeansNothingRan
<1>1. IInv => NoScriptMeansNothingRan
  BY DEF IInv, ClientInv, Runs, NoScriptMeansNothingRan
<1> QED BY <1>1, Invariant, PTL

\* A facade that has loaded a script gives no_script_error for it only when
\* the server forgot the script between the reload and the retry.
THEOREM ForgettingIsHidden == Spec => []ReloadHidesForgetting
<1>1. IInv => ReloadHidesForgetting
  BY DEF IInv, ClientInv, Reload, ReloadHidesForgetting
<1> QED BY <1>1, Invariant, PTL
-----------------------------------------------------------------------------
(***************************************************************************)
(* The contract of AtMostOnce, for scripts whose own errors do not mention *)
(* NOSCRIPT.  IInv says how often a script has run; what it leaves open is *)
(* that a call of script_load runs nothing, which Contract needs to take   *)
(* it for a refusal.                                                       *)
(***************************************************************************)
Unambiguous == \A s \in Script : "mentions" \notin ScriptReplies[s]

LoadsRunNothing == \A c \in Client : pc[c] = "load" => ran[c] = <<>>

\* What a step means for the contract of the call of c.
Begins(c) == outcome[c] # "pending" /\ outcome'[c] = "pending" /\ ran'[c] = <<>>

Rejected(c) == outcome[c] # "pending" /\ outcome'[c] = "too_many_keys" /\ ran'[c] = <<>>

RunsNow(c) ==
    /\ outcome[c] \in {"pending", "transport"} /\ outcome'[c] = outcome[c]
    /\ ran[c] = <<>> /\ Len(ran'[c]) = 1

Ends(c) ==
    /\ outcome[c] = "pending" /\ ran'[c] = ran[c]
    /\ \/ outcome'[c] \in {"value", "redis_error"} /\ Len(ran[c]) = 1
       \/ outcome'[c] \in {"sha", "redis_error", "no_script", "unexpected_type"}
             /\ ran[c] = <<>>
       \/ outcome'[c] = "transport"

CallStep(c) ==
    /\ Begins(c) \/ Rejected(c) \/ RunsNow(c) \/ Ends(c)
    /\ \A d \in Client \ {c} : outcome'[d] = outcome[d] /\ ran'[d] = ran[d]

NoCallStep == \A d \in Client : outcome'[d] = outcome[d] /\ ran'[d] = ran[d]

LEMMA ContractBegin ==
    ASSUME IInv, NEW c \in Client, BeginCall(c)
    PROVE  CallStep(c) /\ \/ pc'[c] # "load" \/ ran'[c] = <<>>
<1>1. \A d \in Client \ {c} : outcome'[d] = outcome[d] /\ ran'[d] = ran[d]
  BY BeginFrame DEF Untouched
<1>2. pc[c] = "idle" => outcome[c] # "pending"
  BY DEF IInv, ClientInv, Flight
<1>3. ASSUME NEW step, NEW sha, Begin(c, step, sha)
      PROVE  Begins(c)
  BY <1>2, <1>3 DEF Begin, Begins, Idle, IInv, TypeOK
<1>4. ASSUME NEW sha, NEW n, TooManyKeys(c, sha, n)
      PROVE  Rejected(c)
  BY <1>2, <1>4 DEF TooManyKeys, Rejected, Idle, IInv, TypeOK
<1>5. Begins(c) \/ Rejected(c)
  BY <1>3, <1>4 DEF BeginCall, script_load, eval, eval_sha1
<1>. QED
  BY <1>1, <1>5 DEF CallStep, Begins, Rejected

\* An unambiguous script that was run or not, when its answer is taken.
LEMMA Answers ==
    ASSUME IInv, Unambiguous, LoadsRunNothing, NEW c \in Client, rep[c] # NoMsg
    PROVE  /\ outcome[c] = "pending" /\ pc[c] # "idle"
           /\ ran[c] = <<>> \/ Len(ran[c]) = 1
           /\ rep[c].type \in AnswersAt(c) \ {"mentions"}
           /\ rep[c].type = "value" => Len(ran[c]) = 1
           /\ rep[c].type = "noscript" => ran[c] = <<>>
           /\ pc[c] \in {"load", "reload"} => ran[c] = <<>>
<1>1. ~Ambiguous(c)
  BY DEF Unambiguous, Ambiguous, IInv, TypeOK, Sha
<1>2. ran[c] \in Seq(Script) /\ Len(ran[c]) <= 1
  BY <1>1 DEF IInv, TypeOK, ClientInv, Runs, Limit
<1>3. \A n \in Nat : n <= 1 => n < 1 \/ n = 1
  OBVIOUS
<1>4. ran[c] = <<>> \/ Len(ran[c]) = 1
  BY <1>2, <1>3, ShortSeq
<1>. QED
  BY <1>1, <1>4 DEF IInv, ClientInv, Flight, Runs, LoadsRunNothing

LEMMA ContractReply ==
    ASSUME IInv, Unambiguous, LoadsRunNothing, NEW c \in Client, TakeReply(c)
    PROVE  /\ CallStep(c) \/ NoCallStep
           /\ pc'[c] # "load"
<1>1. /\ \A d \in Client \ {c} : outcome'[d] = outcome[d] /\ ran'[d] = ran[d]
  BY TakeReplyFrame DEF Untouched
<1>2. ASSUME NEW step, Receive(c, step), NEW w, Finish(c, w),
             \/ w \in {"value", "redis_error"} /\ Len(ran[c]) = 1
             \/ w \in {"sha", "redis_error", "no_script", "unexpected_type"} /\ ran[c] = <<>>
      PROVE  CallStep(c) /\ pc'[c] # "load"
  <2>1. /\ outcome'[c] = w /\ pc'[c] = "idle" /\ ran'[c] = ran[c] /\ outcome[c] = "pending"
    BY <1>2, Answers DEF Receive, Finish, IInv, TypeOK
  <2>. QED
    BY <1>1, <1>2, <2>1 DEF CallStep, Ends
<1>3. ASSUME NEW step, Receive(c, step), NEW next \in {"reload", "retry"}, Continue(c, next)
      PROVE  NoCallStep /\ pc'[c] # "load"
  BY <1>3 DEF Receive, Continue, NoCallStep, IInv, TypeOK
<1>4. CASE Loaded(c)
  <2>1. ran[c] = <<>> /\ Receive(c, "load")
    BY <1>4, Answers DEF Loaded, Receive
  <2>. QED
    BY <1>2, <1>4, <2>1 DEF Loaded, LoadFailure
<1>5. ASSUME NEW step \in {"eval", "evalsha", "retry"}, Receive(c, step)
      PROVE  \/ RunResult(rep[c]) \in {"value", "redis_error"} /\ Len(ran[c]) = 1
             \/ RunResult(rep[c]) = "redis_error" /\ ran[c] = <<>>
  <2>1. rep[c].type \in {"value", "error", "noscript"}
    BY <1>5, Answers DEF Receive, AnswersAt, RunReplies
  <2>. QED
    BY <1>5, <2>1, Answers DEF Receive, RunResult, IsError
<1>6. ASSUME NEW step \in {"eval", "evalsha", "retry"}, Receive(c, step), IsNoScript(rep[c])
      PROVE  ran[c] = <<>>
  BY <1>6, Answers DEF Receive, IsNoScript
<1>7. CASE Evaluated(c)
  <2>1. Receive(c, "eval") /\ Finish(c, RunResult(rep[c]))
    BY <1>7 DEF Evaluated
  <2>. QED
    BY <1>2, <1>5, <2>1
<1>8. CASE EvalShaAnswered(c)
  <2>1. Receive(c, "evalsha")
    BY <1>8 DEF EvalShaAnswered
  <2>2. CASE Finish(c, RunResult(rep[c]))
    BY <1>2, <1>5, <2>1, <2>2
  <2>3. CASE IsNoScript(rep[c]) /\ Finish(c, "no_script")
    BY <1>2, <1>6, <2>1, <2>3
  <2>4. CASE Continue(c, "reload")
    BY <1>3, <2>1, <2>4
  <2>. QED
    BY <1>8, <2>2, <2>3, <2>4 DEF EvalShaAnswered
<1>9. CASE Reloaded(c)
  <2>1. Receive(c, "reload") /\ ran[c] = <<>>
    BY <1>9, Answers DEF Reloaded, Receive
  <2>2. CASE Continue(c, "retry")
    BY <1>3, <2>1, <2>2
  <2>3. CASE Finish(c, LoadFailure(rep[c]))
    BY <1>2, <2>1, <2>3 DEF LoadFailure
  <2>. QED
    BY <1>9, <2>2, <2>3 DEF Reloaded
<1>10. CASE RetryAnswered(c)
  <2>1. Receive(c, "retry")
    BY <1>10 DEF RetryAnswered
  <2>2. CASE Finish(c, RunResult(rep[c]))
    BY <1>2, <1>5, <2>1, <2>2
  <2>3. CASE IsNoScript(rep[c]) /\ Finish(c, "no_script")
    BY <1>2, <1>6, <2>1, <2>3
  <2>. QED
    BY <1>10, <2>2, <2>3 DEF RetryAnswered
<1>11. CASE TransportError(c)
  <2>1. /\ outcome'[c] = "transport" /\ pc'[c] = "idle" /\ ran' = ran /\ outcome[c] = "pending"
    BY <1>11 DEF TransportError, Finish, IInv, TypeOK, ClientInv, Flight
  <2>. QED
    BY <1>1, <2>1 DEF CallStep, Ends
<1>. QED
  BY <1>4, <1>7, <1>8, <1>9, <1>10, <1>11 DEF TakeReply

LEMMA ContractServer ==
    ASSUME IInv, Unambiguous, NEW c \in Client, ServerStep(c)
    PROVE  /\ CallStep(c) \/ NoCallStep
           /\ pc' = pc
           /\ pc[c] = "load" => ran'[c] = ran[c]
<1>1. \A d \in Client \ {c} : outcome'[d] = outcome[d] /\ ran'[d] = ran[d]
  BY ServerStepInv DEF Untouched
<1>2. pc' = pc /\ outcome' = outcome /\ req[c] # NoMsg
  BY DEF ServerStep, ServeScriptLoad, ServeEval, ServeEvalSha, ServeNoScript, ServeRefusal, Serve,
         callVars
<1>3. ASSUME NEW cmd \in {"EVAL", "EVALSHA"}, req[c].cmd = cmd, Run(c)
      PROVE  CallStep(c) /\ pc[c] # "load"
  <2>1. req[c].script \in Script /\ ran[c] \in Seq(Script)
    BY <1>2 DEF IInv, TypeOK, Request
  <2>2. ran'[c] = Append(ran[c], req[c].script)
    BY <1>3, <2>1 DEF Run, IInv, TypeOK
  <2>3. pc[c] \notin {"load", "reload"}
    BY <1>2, <1>3 DEF IInv, ClientInv, Flight, CommandAt
  <2>4. ~Ambiguous(c)
    BY DEF Unambiguous, Ambiguous, IInv, TypeOK, Sha
  <2>5. ran[c] = <<>>
    <3>1. Len(ran[c]) < 1
      BY <1>2, <2>3, <2>4 DEF IInv, ClientInv, Runs, Limit
    <3>. QED
      BY <2>1, <3>1, ShortSeq
  <2>6. Len(ran'[c]) = 1
    BY <2>1, <2>2, <2>5
  <2>7. outcome[c] \in {"pending", "transport"}
    BY <1>2 DEF IInv, ClientInv, Flight
  <2>. QED
    BY <1>1, <1>2, <2>3, <2>5, <2>6, <2>7 DEF CallStep, RunsNow
<1>4. CASE ran' = ran
  BY <1>2, <1>4 DEF NoCallStep
<1>. QED
  BY <1>2, <1>3, <1>4 DEF ServerStep, ServeScriptLoad, ServeEval, ServeEvalSha, ServeNoScript,
                          ServeRefusal, Serve

LEMMA ContractNext ==
    ASSUME IInv, Unambiguous, LoadsRunNothing, [Next]_vars
    PROVE  LoadsRunNothing' /\ (NoCallStep \/ \E c \in Client : CallStep(c))
<1>1. ASSUME pc' = pc, outcome' = outcome, ran' = ran
      PROVE  LoadsRunNothing' /\ NoCallStep
  BY <1>1 DEF LoadsRunNothing, NoCallStep
<1>2. ASSUME NEW c \in Client, pc'[c] # "load" \/ ran'[c] = <<>>,
             \A d \in Client \ {c} : Untouched(d)
      PROVE  LoadsRunNothing'
  BY <1>2 DEF LoadsRunNothing, Untouched
<1>3. ASSUME NEW c \in Client, BeginCall(c)
      PROVE  LoadsRunNothing' /\ CallStep(c)
  BY <1>2, <1>3, ContractBegin, BeginFrame
<1>4. ASSUME NEW c \in Client, TakeReply(c)
      PROVE  LoadsRunNothing' /\ (CallStep(c) \/ NoCallStep)
  BY <1>2, <1>4, ContractReply, TakeReplyFrame
<1>5. ASSUME NEW c \in Client, ServerStep(c)
      PROVE  LoadsRunNothing' /\ (CallStep(c) \/ NoCallStep)
  <2>1. pc'[c] # "load" \/ ran'[c] = <<>>
    BY <1>5, ContractServer DEF LoadsRunNothing
  <2>. QED
    BY <1>2, <1>5, <2>1, ContractServer, ServerStepInv
<1>6. ASSUME NEW c \in Client, Reconnect(c) \/ Drop(c) \/ LoseCommand(c)
      PROVE  LoadsRunNothing' /\ NoCallStep
  BY <1>1, <1>6 DEF Reconnect, Drop, LoseCommand, callVars
<1>7. CASE UNCHANGED vars \/ Restart \/ \E S \in SUBSET cached : Forget(S)
  BY <1>1, <1>7 DEF vars, callVars, Restart, Forget
<1>. QED
  BY <1>3, <1>4, <1>5, <1>6, <1>7 DEF Next
-----------------------------------------------------------------------------
(* The mapping of Contract, step by step.                                   *)
StatusOf(w, r) ==
    CASE w = "none" -> "idle"
      [] w = "pending" -> "pending"
      [] w = "transport" -> "failed"
      [] w \in {"value", "redis_error"} /\ r # <<>> -> "returned"
      [] OTHER -> "refused"

Status == [c \in Client |-> StatusOf(outcome[c], ran[c])]
Effects == [c \in Client |-> Len(ran[c])]

LEMMA MappedStep ==
    ASSUME IInv, IInv', NEW c \in Client,
           \A d \in Client \ {c} : outcome'[d] = outcome[d] /\ ran'[d] = ran[d]
    PROVE  /\ Status' = [Status EXCEPT ![c] = StatusOf(outcome'[c], ran'[c])]
           /\ Effects' = [Effects EXCEPT ![c] = Len(ran'[c])]
<1>1. Status' = [d \in Client |-> StatusOf(outcome'[d], ran'[d])]
  BY DEF Status, StatusOf
<1>2. Effects' = [d \in Client |-> Len(ran'[d])]
  BY DEF Effects
<1>. QED
  BY <1>1, <1>2 DEF Status, Effects

LEMMA ContractMapped ==
    ASSUME IInv, IInv', NoCallStep \/ \E c \in Client : CallStep(c)
    PROVE  [Contract!Next]_(Contract!vars)
<1>1. Status = [c \in Client |->
        CASE outcome[c] = "none" -> "idle"
          [] outcome[c] = "pending" -> "pending"
          [] outcome[c] = "transport" -> "failed"
          [] outcome[c] \in {"value", "redis_error"} /\ ran[c] # <<>> -> "returned"
          [] OTHER -> "refused"]
  BY DEF Status, StatusOf
<1>2. Status' = [c \in Client |->
        CASE outcome'[c] = "none" -> "idle"
          [] outcome'[c] = "pending" -> "pending"
          [] outcome'[c] = "transport" -> "failed"
          [] outcome'[c] \in {"value", "redis_error"} /\ ran'[c] # <<>> -> "returned"
          [] OTHER -> "refused"]
  BY DEF Status, StatusOf
<1>3. Effects = [c \in Client |-> Len(ran[c])] /\ Effects' = [c \in Client |-> Len(ran'[c])]
  BY DEF Effects
<1>4. CASE NoCallStep
  <2>1. Status' = Status /\ Effects' = Effects
    BY <1>4 DEF NoCallStep, Status, Effects, StatusOf
  <2>. QED
    BY <1>1, <1>2, <1>3, <2>1 DEF Contract!vars
<1>5. ASSUME NEW c \in Client, CallStep(c)
      PROVE  Contract!Next
  <2>1. /\ Status' = [Status EXCEPT ![c] = StatusOf(outcome'[c], ran'[c])]
        /\ Effects' = [Effects EXCEPT ![c] = Len(ran'[c])]
        /\ Status[c] = StatusOf(outcome[c], ran[c]) /\ Effects[c] = Len(ran[c])
    BY <1>5, MappedStep DEF CallStep, Status, Effects
  <2>2. Len(<<>>) = 0 /\ \A r \in Seq(Script) : Len(r) = 1 => r # <<>>
    BY EmptySeqFacts
  <2>3. ran[c] \in Seq(Script) /\ ran'[c] \in Seq(Script)
    BY DEF IInv, TypeOK
  <2>4. [Status EXCEPT ![c] = Status[c]] = Status /\ [Effects EXCEPT ![c] = Effects[c]] = Effects
    BY DEF Status, Effects
  <2>5. CASE Begins(c)
    <3>1. /\ Status[c] # "pending" /\ Status' = [Status EXCEPT ![c] = "pending"]
          /\ Effects' = [Effects EXCEPT ![c] = 0]
      BY <2>1, <2>2, <2>5 DEF Begins, StatusOf
    <3>2. Contract!Submit(c)
      BY <1>1, <1>2, <1>3, <3>1 DEF Contract!Submit
    <3>. QED
      BY <3>2 DEF Contract!Next
  <2>6. CASE Rejected(c)
    <3>1. /\ Status[c] # "pending" /\ Status' = [Status EXCEPT ![c] = "refused"]
          /\ Effects' = [Effects EXCEPT ![c] = 0]
      BY <2>1, <2>2, <2>6 DEF Rejected, StatusOf
    <3>2. Contract!Reject(c)
      BY <1>1, <1>2, <1>3, <3>1 DEF Contract!Reject
    <3>. QED
      BY <3>2 DEF Contract!Next
  <2>7. CASE RunsNow(c)
    <3>1. Status[c] \in {"pending", "failed"} /\ Effects[c] = 0
      BY <2>1, <2>2, <2>7 DEF RunsNow, StatusOf
    <3>2. Effects' = [Effects EXCEPT ![c] = 1]
      BY <2>1, <2>7 DEF RunsNow
    <3>3. Status' = Status
      <4>1. StatusOf(outcome'[c], ran'[c]) = Status[c]
        BY <2>1, <2>7 DEF RunsNow, StatusOf
      <4>. QED
        BY <2>1, <2>4, <4>1
    <3>4. Contract!Execute(c)
      BY <1>1, <1>2, <1>3, <3>1, <3>2, <3>3 DEF Contract!Execute
    <3>. QED
      BY <3>4 DEF Contract!Next
  <2>8. CASE Ends(c)
    <3>1. Status[c] = "pending"
      BY <2>1, <2>8 DEF Ends, StatusOf
    <3>2. Effects' = Effects
      BY <2>1, <2>4, <2>8 DEF Ends
    <3>3. CASE outcome'[c] \in {"value", "redis_error"} /\ Len(ran[c]) = 1
      <4>1. Status' = [Status EXCEPT ![c] = "returned"] /\ Effects[c] = 1
        BY <2>1, <2>2, <2>3, <2>8, <3>3 DEF Ends, StatusOf
      <4>2. Contract!Return(c)
        BY <1>1, <1>2, <1>3, <3>1, <3>2, <4>1 DEF Contract!Return
      <4>. QED
        BY <4>2 DEF Contract!Next
    <3>4. CASE /\ outcome'[c] \in {"sha", "redis_error", "no_script", "unexpected_type"}
               /\ ran[c] = <<>>
      <4>1. Status' = [Status EXCEPT ![c] = "refused"] /\ Effects[c] = 0
        BY <2>1, <2>2, <2>8, <3>4 DEF Ends, StatusOf
      <4>2. Contract!Refuse(c)
        BY <1>1, <1>2, <1>3, <3>1, <3>2, <4>1 DEF Contract!Refuse
      <4>. QED
        BY <4>2 DEF Contract!Next
    <3>5. CASE outcome'[c] = "transport"
      <4>1. Status' = [Status EXCEPT ![c] = "failed"]
        BY <2>1, <3>5 DEF StatusOf
      <4>2. Contract!Fail(c)
        BY <1>1, <1>2, <1>3, <3>1, <3>2, <4>1 DEF Contract!Fail
      <4>. QED
        BY <4>2 DEF Contract!Next
    <3>. QED
      BY <2>8, <3>3, <3>4, <3>5 DEF Ends
  <2>. QED
    BY <1>5, <2>5, <2>6, <2>7, <2>8 DEF CallStep
<1>. QED
  BY <1>4, <1>5

\* What a facade promises of eval and eval_sha1 is what a connection promises
\* of one command, although a call may take three of them and the server forget
\* scripts in between: ImplementsContract, when no script's own errors mention
\* NOSCRIPT, as in the run.
THEOREM ScriptsKeepContract ==
    ASSUME Unambiguous
    PROVE  Spec => ImplementsContract
<1>1. Init => LoadsRunNothing /\ Contract!Init
  <2> SUFFICES ASSUME Init PROVE LoadsRunNothing /\ Contract!Init
    OBVIOUS
  <2>1. LoadsRunNothing
    BY DEF Init, LoadsRunNothing
  <2>2. Contract!Init
    BY EmptySeqFacts DEF Init, Contract!Init
  <2>. QED
    BY <2>1, <2>2
<1>2. IInv /\ LoadsRunNothing /\ [Next]_vars => LoadsRunNothing'
  BY ContractNext
<1>3. IInv /\ IInv' /\ LoadsRunNothing /\ [Next]_vars => [Contract!Next]_(Contract!vars)
  BY ContractNext, ContractMapped
<1>. QED
  BY <1>1, <1>2, <1>3, Invariant, PTL DEF Spec, ImplementsContract, Contract!Spec
=============================================================================
