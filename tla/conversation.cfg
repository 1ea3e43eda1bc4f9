CONSTANTS
    MaxMessages = 5
    Concurrent = TRUE
    Abandons = TRUE
    StaleLists = TRUE
    ExecutableTools = {"weather"}
    ClientTools = {"chart"}
    UnknownTools = {"other"}
    MaxDeltas = 2
    MaxBlocks = 4
    MaxRequests = 3
    BedrockFails = TRUE
SPECIFICATION ConversationSpec
INVARIANTS
    ConversationTypeOK
    BedrockAcceptsHistory CurrentTextSentAndNothingTwice AnswersFollowTheirQuestions
    ChunksMakeTheContent ClientSeesAllResponses EveryToolUseHasItsResult EndedIffDone
PROPERTY TurnIsAnswered
CHECK_DEADLOCK FALSE
