SPECIFICATION FairSpec
CONSTANTS
    NoConv = NoConv
    Conversations = {c1}
    Lines <- MCLines
    Helpers <- AnyHelper
    MaxLines = 3
PROPERTIES ImplementsRunContract EveryCallIsAnswered
CHECK_DEADLOCK FALSE
