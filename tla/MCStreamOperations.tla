------------------------- MODULE MCStreamOperations -------------------------
(***************************************************************************)
(* StreamOperations with entries of two fields, a name and a value that    *)
(* cannot be serialised, two entries, and a text that is no value.         *)
(***************************************************************************)
EXTENDS StreamOperations, TLC

CONSTANTS f, g, v, w, unprintable, tf, tg, tv, tw, garbage

MCSerializeKey == (f :> tf) @@ (g :> tg)
MCDeserializeKey == (tf :> f) @@ (tg :> g)
MCSerialize == (v :> tv) @@ (w :> tw)
MCDeserialize == (tv :> v) @@ (tw :> w)
NoTexts == <<>>

MCFieldVectors ==
    {<<>>, <<<<f, v>>, <<g, w>>>>, <<<<f, v>>, <<g, unprintable>>>>, <<<<unprintable, v>>>>}
MCOtherFields == {<<<<tf, tv>>, <<tg, garbage>>>>}

Trim(strategy, threshold, approximate, limit) ==
    [strategy |-> strategy, threshold |-> threshold,
     approximate |-> approximate, limit |-> limit]
MCTrimOptions ==
    {Trim("MAXLEN", 1, FALSE, None), Trim("MINID", 2, TRUE, Some(0)),
     Trim("MAXLEN", 0, TRUE, Some(-1)), Trim("MINID", EMPTY_ID, FALSE, None),
     Trim("MAXLEN", 0, FALSE, Some(1))}

Add(id, nomkstream, trim) == [id |-> id, nomkstream |-> nomkstream, trim |-> trim]
MCAddOptions ==
    {Add(NEW_ID, FALSE, Some(Trim("MAXLEN", 1, FALSE, None))), Add(2, TRUE, None),
     Add(EMPTY_ID, FALSE, None), Add(NEW_ID, FALSE, Some(Trim("MAXLEN", 0, TRUE, Some(-1))))}

Read(count, block_ms, noack) == [count |-> count, block_ms |-> block_ms, noack |-> noack]
MCReadOptions ==
    {Read(None, None, FALSE), Read(Some(1), Some(0), TRUE), Read(Some(0), None, FALSE),
     Read(None, Some(5), FALSE), Read(None, Some(-1), FALSE)}

MCReadRequests == {<<>>, <<0>>, <<NEW_ID>>, <<EMPTY_ID>>}
MCRangeCounts == {None, Some(0), Some(1)}
MCIdVectors == {<<>>, <<1>>, <<1, 2>>}
=============================================================================
