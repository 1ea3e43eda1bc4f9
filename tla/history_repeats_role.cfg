CONSTANTS
    MaxMessages = 4
    Concurrent = FALSE
    Abandons = TRUE
    StaleLists = FALSE
SPECIFICATION HistorySpec
INVARIANT HistoryAlwaysAlternates
CHECK_DEADLOCK FALSE
