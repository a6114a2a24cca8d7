\* A consumer of a group, other consumers, and programs that add and delete.
CONSTANTS
    HALF = 8
    f = f
    g = g
    v = v
    w = w
    unprintable = unprintable
    tf = tf
    tg = tg
    tv = tv
    tw = tw
    garbage = garbage
    c1 = c1
    Client = {c1}
    Name = {f, g, unprintable}
    Value = {v, w, unprintable}
    Text = {tf, tg, tv, tw, garbage}
    ScoreOf <- NoTexts
    CursorOf <- NoTexts
    serialize_key <- MCSerializeKey
    deserialize_key <- MCDeserializeKey
    serialize_value <- MCSerialize
    deserialize_value <- MCDeserialize
    MaxStray = 0
    Objects = {}
    Batches = {}
    Indexes = {}
    FieldVectors <- MCFieldVectors
    AddOptions <- MCAddOptions
    TrimOptions <- MCTrimOptions
    ReadOptions <- MCReadOptions
    ReadRequests <- MCReadRequests
    RangeCounts <- MCRangeCounts
    IdVectors <- MCIdVectors
    StreamKey = tf
    OtherFields <- MCOtherFields
    MaxId = 2
SPECIFICATION FairSpec
INVARIANT
    DeliveredOrOwed
PROPERTIES
    ImplementsStream
    OnlyBlockedReadsWait
