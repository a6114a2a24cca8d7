-------------------------- MODULE MCOperationViews --------------------------
(***************************************************************************)
(* OperationViews with two values, of which one cannot be serialised, and  *)
(* texts: one a view writes, one it only reads, and one it cannot read.    *)
(* zero, one and two are numbers, scores and cursors.  Of the texts of     *)
(* fields one is written, another one is read as the same field ("1" for a *)
(* true), and one cannot be read.                                          *)
(***************************************************************************)
EXTENDS OperationViews

CONSTANTS v, unprintable, written, alias, garbage, zero, one, two, f, g, tf, tg, other, odd, MaxLen

MCSerialize == (v :> written)
MCDeserialize == (written :> v) @@ (alias :> v)
MCSerializeKey == (f :> tf) @@ (g :> tg)
MCDeserializeKey == (tf :> f) @@ (other :> f) @@ (tg :> g)
Numbers == (zero :> 0) @@ (one :> 1) @@ (two :> 2)
Cursors == (zero :> 0) @@ (one :> 1)

MCBatches == {<<>>, <<v, v>>, <<v, unprintable>>}
MCCounts == {-1, 2}
MCIndexes == {-2, -1, 0}
MCDeltas == {1, -2}
MCAppended == (<<written, written>> :> alias)
MCLength == (written :> 1) @@ (alias :> 2)

MCFieldVectors == {<<>>, <<f, g>>, <<g, unprintable>>}
MCHashMaps == {<<>>, (f :> v) @@ (g :> v), (f :> v) @@ (g :> unprintable)}

MCScoreMaps == {<<>>, (v :> 0), (v :> 1), (v :> 0) @@ (unprintable :> 0)}
MCIncrements == {1}
MCKeyCounts == 0 .. 2
MCTimes == {-1, 3}

\* Bounds: what the key may hold.
Lists == {[list |-> l] : l \in {<<alias>>} \cup
             UNION {[1 .. n -> {written, garbage}] : n \in 1 .. MaxLen}}
Strings == {[string |-> t] : t \in {written, garbage, zero, one}}
Hashes == {[hash |-> h] : h \in
              {(tf :> written), (tf :> garbage), (tf :> written) @@ (tg :> written),
               (tf :> written) @@ (tg :> garbage), (tf :> written) @@ (other :> alias),
               (tf :> written) @@ (odd :> written)}}
Sets == {[set |-> S] : S \in SUBSET {written, alias, garbage} \ {{}}}
ZSets == {[zset |-> z] : z \in
             [{written} -> 0 .. 1] \cup [{written, alias} -> 0 .. 1] \cup {(garbage :> 0)}}

ListObjects == {NoObject} \cup Lists
OtherObjects == {NoObject} \cup Strings \cup Hashes \cup Sets \cup ZSets
=============================================================================
