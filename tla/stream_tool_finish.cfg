SPECIFICATION Spec
CONSTANTS
    c1 = c1
    NoConv = NoConv
    Conversations <- NoHelpers
    Lines <- ProseLines
    Helpers <- NoHelpers
    MaxLines = 3
    PipeCap = 1
INVARIANTS ToolCallsFinish
CHECK_DEADLOCK FALSE
