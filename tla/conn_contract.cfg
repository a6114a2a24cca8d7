\* Two objects, one or two connections and two calls; with the fairness of a
\* server that answers.
CONSTANTS
    o1 = o1
    o2 = o2
    x1 = x1
    x2 = x2
    k1 = k1
    k2 = k2
    Object = {o1, o2}
    Context = {x1, x2}
    NoContext = NoContext
    Call = {k1, k2}
    NoCall = NoCall
    Commands = {"plain", "failing"}
    Configs <- OpenConfigs
    Databases = 2
    RequirePass = FALSE
SPECIFICATION FairSpec
PROPERTIES
    ImplementsContract
    EveryCallEnds
CHECK_DEADLOCK FALSE
