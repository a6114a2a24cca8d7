--------------------------- MODULE MCScriptFacade ---------------------------
(***************************************************************************)
(* ScriptFacade with two scripts: "incr" returns a value or fails; "echo"  *)
(* may also fail with text of its own that contains NOSCRIPT.              *)
(***************************************************************************)
EXTENDS ScriptFacade, TLC

CONSTANTS incr, echo

Symmetry == Permutations(Client)

Replies == [s \in Script |-> {"value", "error"}
                             \cup (IF s = echo THEN {"mentions"} ELSE {})]

PlainReplies == [s \in Script |-> {"value", "error"}]
=============================================================================
