\* The other views on one key, and programs that do not use them.  Commands that
\* arrive late are left to the run of the list view.
CONSTANTS
    HALF = 8
    v = v
    unprintable = unprintable
    written = written
    alias = alias
    garbage = garbage
    zero = zero
    one = one
    two = two
    f = f
    g = g
    tf = tf
    tg = tg
    other = other
    odd = odd
    MaxLen = 2
    c1 = c1
    Client = {c1}
    Value = {v, unprintable}
    Name = {f, g, unprintable}
    Text = {written, alias, garbage, zero, one, two, tf, tg, other, odd}
    ScoreOf <- Numbers
    CursorOf <- Cursors
    NumberOf <- Numbers
    Appended <- MCAppended
    LengthOf <- MCLength
    serialize_value <- MCSerialize
    deserialize_value <- MCDeserialize
    serialize_key <- MCSerializeKey
    deserialize_key <- MCDeserializeKey
    MaxStray = 0
    Views = {"value", "hash", "set", "zset", "key"}
    Objects <- OtherObjects
    Batches <- MCBatches
    Counts <- MCCounts
    Indexes <- MCIndexes
    Deltas <- MCDeltas
    Field = {f, g, unprintable}
    FieldVectors <- MCFieldVectors
    HashMaps <- MCHashMaps
    ScoreMaps <- MCScoreMaps
    Increments <- MCIncrements
    KeyCounts <- MCKeyCounts
    KeyVectors <- MCKeyCounts
    Times <- MCTimes
    Messages = {garbage}
SPECIFICATION Spec
INVARIANT
    PopGivesWhatItRemoves
PROPERTY
    ImplementsLinearObject
