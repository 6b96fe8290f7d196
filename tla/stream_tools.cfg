SPECIFICATION Spec
CONSTANTS
    c1 = c1
    NoConv = NoConv
    Conversations <- NoHelpers
    Lines <- ToolLines
    Helpers <- NoHelpers
    MaxLines = 4
    PipeCap = 1
INVARIANTS AnswerDelivered OpenersAreHeld
PROPERTIES ImplementsContract
CHECK_DEADLOCK FALSE
