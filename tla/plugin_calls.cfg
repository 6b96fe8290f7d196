SPECIFICATION FairSpec
CONSTANTS
    Calls = {c1, c2}
    MaxEmits = 1
INVARIANTS BlocksGoBack RejectedStreamsAreSilent
PROPERTIES AcceptedStreamsEnd
CHECK_DEADLOCK FALSE
