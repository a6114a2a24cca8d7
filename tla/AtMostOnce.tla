----------------------------- MODULE AtMostOnce -----------------------------
(***************************************************************************)
(* What every layer of redisdal promises about one call of a command or of *)
(* a script: the effect of the call happens on the server at most once,    *)
(* whatever the layers below do.  A call that returns a value has had its  *)
(* effect; a call that is refused (an ERROR reply, an unknown script, too  *)
(* many keys) has not; a call that fails in transport is indeterminate,    *)
(* and its effect may even happen after the caller has been told of the    *)
(* failure.  docs/DESIGN.md, section 2.3, states it as "They must not      *)
(* retry implicitly: a lost response can follow an already executed        *)
(* write".                                                                 *)
(*                                                                         *)
(* SyncConnection and ScriptFacade are shown to implement this module.     *)
(***************************************************************************)
EXTENDS Naturals

CONSTANT Call       \* the calls a program can have in hand

VARIABLES
    status,     \* status[k]: how far call k is, as its caller sees it
    effects     \* effects[k]: how often the effect of k happened

vars == <<status, effects>>

Status == {"idle", "pending", "returned", "refused", "failed"}

Init == /\ status = [k \in Call |-> "idle"]
        /\ effects = [k \in Call |-> 0]

\* A caller may reuse the identity of a call it knows to be over.
Submit(k) == /\ status[k] # "pending"
             /\ status' = [status EXCEPT ![k] = "pending"]
             /\ effects' = [effects EXCEPT ![k] = 0]

\* A call may be rejected before anything is sent.
Reject(k) == /\ status[k] # "pending"
             /\ status' = [status EXCEPT ![k] = "refused"]
             /\ effects' = [effects EXCEPT ![k] = 0]

\* The server acts on the call, possibly after its transport has failed.
Execute(k) == /\ status[k] \in {"pending", "failed"}
              /\ effects[k] = 0
              /\ effects' = [effects EXCEPT ![k] = 1]
              /\ UNCHANGED status

Return(k) == /\ status[k] = "pending"
             /\ effects[k] = 1
             /\ status' = [status EXCEPT ![k] = "returned"]
             /\ UNCHANGED effects

Refuse(k) == /\ status[k] = "pending"
             /\ effects[k] = 0
             /\ status' = [status EXCEPT ![k] = "refused"]
             /\ UNCHANGED effects

Fail(k) == /\ status[k] = "pending"
           /\ status' = [status EXCEPT ![k] = "failed"]
           /\ UNCHANGED effects

Next == \E k \in Call :
            \/ Submit(k) \/ Reject(k) \/ Execute(k)
            \/ Return(k) \/ Refuse(k) \/ Fail(k)

Spec == Init /\ [][Next]_vars
=============================================================================
