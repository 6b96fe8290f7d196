SPECIFICATION FairSpec
CONSTANTS
    c1 = c1
    NoConv = NoConv
    Conversations <- MCConversations
    Lines <- ProtocolLines
    Helpers <- AnyHelper
    MaxLines = 3
    PipeCap = 1
INVARIANTS TypeOK OnlyCleanRunsFinish NothingLeftBehind HostIsTold ConversationSticks
PROPERTIES EveryStreamEnds ImplementsRunContract
CHECK_DEADLOCK FALSE
