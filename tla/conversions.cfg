\* Integers of three bits; texts, numbers and cursors; replies of up to two
\* elements per level, right or with one node wrong; texts of numbers; URLs.
CONSTANTS
    HALF = 4
    Text <- MCText
    ScoreOf <- MCScoreOf
    CursorOf <- MCCursorOf
    Replies <- MCReplies
    Corrupted <- MCCorrupted
    Parts <- MCParts
    WIDEST = 4
    Words <- MCWords
    LeadingNumber <- MCLeadingNumber
    IndexOf <- MCIndexOf
    DEFAULT_PORT = 6379
    PORTS = 65536
    LONGS = 1000000
    Numbers <- MCNumbers
    Urls <- MCUrls
SPECIFICATION ConversionSpec
INVARIANTS
    NoUndefinedBehaviour
    WellFormedRepliesDecode
    NothingDroppedOrInvented
    NumbersMeanWhatTheySay
    UrlMeansWhatItSays
CHECK_DEADLOCK FALSE
