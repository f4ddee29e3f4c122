SPECIFICATION MCSpec
CONSTANTS
    SeqMod = 16
    Shapes <- FragmentedSlices
    MaxUnits = 2
    MaxSenders = 1
    MaxWire = 8
    MaxHeld = 4
    CachedParams = FALSE
    AudioStarts = TRUE
    StaleDrops = FALSE
    SocketErrors = FALSE
    Loses = TRUE
    Reorders = FALSE
    Duplicates = FALSE
    Restarts = FALSE
INVARIANT WholeNals
CHECK_DEADLOCK FALSE
