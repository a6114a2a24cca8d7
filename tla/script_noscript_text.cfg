\* One facade and a script whose own errors mention NOSCRIPT.
CONSTANTS
    c1 = c1
    c2 = c2
    incr = incr
    echo = echo
    Client = {c1}
    Script = {echo}
    ScriptReplies <- Replies
    KeyCounts = {64, 65}
    MAX_SCRIPT_KEYS = 64
    NoMsg = NoMsg
SPECIFICATION Spec
INVARIANT
    NeverRunsTwice
