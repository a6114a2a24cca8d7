\* redis_config.hpp says that a URL whose format is invalid is refused with
\* std::invalid_argument.
CONSTANTS
    HALF = 4
    Text <- MCText
    ScoreOf <- MCScoreOf
    CursorOf <- MCCursorOf
    Replies <- MCReplies
    Corrupted <- MCCorrupted
    Parts <- MCParts
    WIDEST = 4
    Words <- MCWords
    LeadingNumber <- MCLeadingNumber
    IndexOf <- MCIndexOf
    DEFAULT_PORT = 6379
    PORTS = 65536
    LONGS = 1000000
    Numbers <- MCNumbers
    Urls <- AddressUrls
SPECIFICATION ConversionSpec
INVARIANT
    InvalidFormatRejected
CHECK_DEADLOCK FALSE
