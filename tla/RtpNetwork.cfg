SPECIFICATION MCSpec
CONSTANTS
    SeqMod = 3
    Shapes <- FragmentedSlices
    MaxUnits = 2
    MaxSenders = 2
    MaxWire = 5
    MaxHeld = 2
    CachedParams = FALSE
    AudioStarts = FALSE
    StaleDrops = TRUE
    SocketErrors = TRUE
    Loses = FALSE
    Reorders = TRUE
    Duplicates = TRUE
    Restarts = FALSE
INVARIANTS TypeOK WholeNals
CHECK_DEADLOCK FALSE
