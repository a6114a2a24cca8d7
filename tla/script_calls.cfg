\* Two facades, two scripts, every loss and every flush.
CONSTANTS
    c1 = c1
    c2 = c2
    incr = incr
    echo = echo
    Client = {c1, c2}
    Script = {incr, echo}
    ScriptReplies <- Replies
    KeyCounts = {64}
    MAX_SCRIPT_KEYS = 64
    NoMsg = NoMsg
SPECIFICATION Spec
SYMMETRY Symmetry
INVARIANTS
    TypeOK
    RunsAtMostOnce
    RunsTheNamedScript
    ValueMeansRunOnce
    NoScriptMeansNothingRan
    ReloadHidesForgetting
