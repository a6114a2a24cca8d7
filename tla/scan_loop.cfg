\* Four names in three parts, one of them with two values.
CONSTANTS
    written = written
    alias = alias
    other = other
    garbage = garbage
    k1 = k1
    k2 = k2
    WIDEST = 4
    Name = {written, alias, other, garbage}
    Additions <- MCAdditions
    Key = {k1, k2}
    deserialize_key <- MCDeserialize
    BUCKETS = 3
    Bucket <- MCBucket
    Code <- MCCode
SPECIFICATION Spec
INVARIANTS
    CompleteIterationsFindAll
    NothingInvented
    
