SPECIFICATION MCFairSpec
CONSTANTS
    SeqMod = 3
    Shapes <- LoneSlices
    MaxUnits = 2
    MaxSenders = 2
    MaxWire = 8
    MaxHeld = 3
    CachedParams = TRUE
    AudioStarts = TRUE
    StaleDrops = FALSE
    SocketErrors = FALSE
    Loses = FALSE
    Reorders = FALSE
    Duplicates = FALSE
    Restarts = FALSE
INVARIANTS WholeNals
PROPERTIES CatchesUp
CHECK_DEADLOCK FALSE
