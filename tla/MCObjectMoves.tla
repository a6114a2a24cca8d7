---------------------------- MODULE MCObjectMoves ----------------------------
(***************************************************************************)
(* ObjectMoves, where objects of one kind differ by nothing but identity.  *)
(***************************************************************************)
EXTENDS ObjectMoves, TLC

Symmetry == Permutations(Connection) \cup Permutations(Client) \cup Permutations(Template)
=============================================================================
