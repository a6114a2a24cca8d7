\* Two objects constructed, moved, assigned over and destroyed with every
\* configuration, against a server with a password, and two calls of every
\* kind over connections that break at any point.
CONSTANTS
    o1 = o1
    o2 = o2
    x1 = x1
    x2 = x2
    k1 = k1
    k2 = k2
    Object = {o1, o2}
    Context = {x1, x2}
    NoContext = NoContext
    Call = {k1, k2}
    NoCall = NoCall
    Commands = {"plain", "failing", "select", "double", "resp3"}
    Configs <- AllConfigs
    Databases = 2
    RequirePass = TRUE
SPECIFICATION Spec
SYMMETRY Symmetry
INVARIANTS
    TypeOK
    Ownership
    SessionAsConfigured
    AtMostOnceExecuted
    RunsInConfiguredDatabase
    OwnReply
    ValueMeansExecuted
    ErrorMeansNotExecuted
PROPERTY
    FailStop
CHECK_DEADLOCK FALSE
