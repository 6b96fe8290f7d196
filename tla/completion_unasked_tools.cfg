SPECIFICATION Spec
CONSTANTS
    NoConv = NoConv
    Conversations = {c1}
    Lines <- MCLines
    Helpers <- AnyHelper
    MaxLines = 1
INVARIANTS ToolCallsWhenOffered
CHECK_DEADLOCK FALSE
