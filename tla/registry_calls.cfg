SPECIFICATION FairSpec
CONSTANTS
    stream = stream
    plain = plain
    p1 = p1
    p2 = p2
    NoPid = NoPid
    Calls <- MCCalls
    Streams <- MCStreams
    Pids <- TwoPids
INVARIANTS TypeOK KilledTreesStayDead ShutdownKillsTheRegistered StraysAreLateKills
PROPERTIES CallsAndShutdownEnd
CHECK_DEADLOCK FALSE
