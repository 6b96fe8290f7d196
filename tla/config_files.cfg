SPECIFICATION ConfigSpec
CONSTANTS
    Files <- MCFiles
    LongTimeout = 200
    MaxDuration = 255
INVARIANTS ConfigTypeOK ActiveIsOneFile AgyStopsFirst
