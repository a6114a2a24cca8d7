\* Two facades and one script whose errors do not mention NOSCRIPT.
CONSTANTS
    c1 = c1
    c2 = c2
    incr = incr
    echo = echo
    Client = {c1, c2}
    Script = {incr}
    ScriptReplies <- PlainReplies
    KeyCounts = {64, 65}
    MAX_SCRIPT_KEYS = 64
    NoMsg = NoMsg
SPECIFICATION FairSpec
PROPERTIES
    ImplementsContract
    EveryCallEnds
