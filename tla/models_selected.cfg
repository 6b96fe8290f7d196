SPECIFICATION Spec
CONSTANTS
    Bases <- MCBases
    Gemini <- MCGemini
    GptOss <- MCGptOss
    Claude <- MCClaude
    Builtin <- MCBuiltin
    Listings <- MCListings
    Requests <- MCRequests
    Configured = {"", "medium"}
INVARIANTS ListedNamesResolve RoutesToBase FlagsAgree WishesBeatDefaults
CHECK_DEADLOCK FALSE
