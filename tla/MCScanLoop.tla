----------------------------- MODULE MCScanLoop -----------------------------
(***************************************************************************)
(* ScanLoop with two names of one key, another one and one that cannot be  *)
(* read, in three parts; the cursors between them are the largest there    *)
(* are.                                                                    *)
(***************************************************************************)
EXTENDS ScanLoop, TLC

CONSTANTS written, alias, other, garbage, k1, k2

MCDeserialize == (written :> k1) @@ (alias :> k1) @@ (other :> k2)
MCAdditions == {<<written, 0>>, <<written, 1>>, <<alias, 1>>, <<other, 0>>, <<garbage, 0>>}
MCBucket == (written :> 1) @@ (alias :> 3) @@ (other :> 2) @@ (garbage :> 2)
MCCode == [p \in 0 .. BUCKETS - 1 |-> IF p = 0 THEN 0 ELSE 2 * WIDEST - p]
=============================================================================
