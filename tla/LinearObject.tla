---------------------------- MODULE LinearObject ----------------------------
(***************************************************************************)
(* What the operation views of redis_template promise about the object at  *)
(* a key: every call takes effect at one moment between its invocation and *)
(* its return, and returns what that effect answers.                       *)
(*                                                                         *)
(* A call may also be rejected before it has any effect, or fail in        *)
(* transport; then the caller does not know whether it took effect, and it *)
(* may still do so later, once, between any other calls.                   *)
(***************************************************************************)
EXTENDS Sequences, Naturals

CONSTANTS
    Client,             \* callers, each with one call at a time
    Op,                 \* the operations with their arguments
    NoOp,
    InitObject,         \* the object of a key that does not exist
    Apply(_, _),        \* Apply(o, x): the ways [object, answers] in which o
                        \* may take effect on x, each with what it may give
    Rejections(_),      \* Rejections(o): what o may be rejected with
    TransportFailure,   \* what a call that failed in transport gives
    Foreign(_),         \* Foreign(x): what other programs may make of x
    NoOutcome,          \* a call is under way
    Idle, Pending, Lost

VARIABLES
    object,
    op,         \* op[c]: the last operation of c
    answers,    \* answers[c]: Idle, Pending, Lost, or what may be returned
    outcome,    \* outcome[c]: what the last call of c gave
    late        \* late[c]: operations that may still take effect

vars == <<object, op, answers, outcome, late>>

Init ==
    /\ object = InitObject
    /\ op = [c \in Client |-> NoOp]
    /\ answers = [c \in Client |-> Idle]
    /\ outcome = [c \in Client |-> NoOutcome]
    /\ late = [c \in Client |-> <<>>]

Start(c, o) ==
    /\ op' = [op EXCEPT ![c] = o]
    /\ answers[c] = Idle
    /\ UNCHANGED <<object, late>>

\* On a connection that is known to be broken the call is lost at once.
Invoke(c, o) ==
    /\ Start(c, o)
    /\ \E a \in {Pending, Lost} : answers' = [answers EXCEPT ![c] = a]
    /\ outcome' = [outcome EXCEPT ![c] = NoOutcome]

\* A call that is rejected, or that has nothing to do.
CallAndReturn(c, o) ==
    /\ Start(c, o)
    /\ \E r \in Rejections(o) \cup
                UNION {e.answers : e \in {f \in Apply(o, object) : f.object = object}} :
          outcome' = [outcome EXCEPT ![c] = r]
    /\ UNCHANGED answers

TakeEffect(c) ==
    /\ answers[c] = Pending
    /\ \E effect \in Apply(op[c], object) :
          /\ object' = effect.object
          /\ \/ answers'[c] = Lost
             \/ answers'[c] \in (SUBSET effect.answers) \ {{}}
    /\ answers' = [answers EXCEPT ![c] = answers'[c]]
    /\ UNCHANGED <<op, outcome, late>>

Lose(c) ==
    /\ answers[c] # Idle
    /\ answers' = [answers EXCEPT ![c] = Lost]
    /\ UNCHANGED <<object, op, outcome, late>>

End(c, result) ==
    /\ answers' = [answers EXCEPT ![c] = Idle]
    /\ outcome' = [outcome EXCEPT ![c] = result]
    /\ UNCHANGED <<object, op>>

Return(c) ==
    /\ answers[c] \notin {Idle, Pending, Lost}
    /\ \E result \in answers[c] : End(c, result)
    /\ UNCHANGED late

Fail(c) ==
    /\ answers[c] # Idle
    /\ End(c, TransportFailure)
    /\ late' \in {late} \cup
                 (IF answers[c] = Pending
                  THEN {[late EXCEPT ![c] = Append(@, op[c])]} ELSE {})

\* An operation whose call has failed takes effect after all, or never will.
Settle(c) ==
    \E i \in DOMAIN late[c] :
        /\ \/ \E effect \in Apply(late[c][i], object) : object' = effect.object
           \/ UNCHANGED object
        /\ late' = [late EXCEPT ![c] =
                       SubSeq(@, 1, i - 1) \o SubSeq(@, i + 1, Len(@))]
        /\ UNCHANGED <<op, answers, outcome>>

Others ==
    /\ object' \in Foreign(object)
    /\ UNCHANGED <<op, answers, outcome, late>>

Next ==
    \/ Others
    \/ \E c \in Client :
          \/ \E o \in Op : Invoke(c, o) \/ CallAndReturn(c, o)
          \/ TakeEffect(c) \/ Lose(c) \/ Return(c) \/ Fail(c) \/ Settle(c)

Spec == Init /\ [][Next]_vars
=============================================================================
