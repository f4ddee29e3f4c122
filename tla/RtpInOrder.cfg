SPECIFICATION MCSpec
CONSTANTS
    SeqMod = 3
    Shapes <- OneSlice
    MaxUnits = 3
    MaxSenders = 2
    MaxWire = 7
    MaxHeld = 4
    CachedParams = FALSE
    AudioStarts = FALSE
    StaleDrops = FALSE
    SocketErrors = FALSE
    Loses = TRUE
    Reorders = FALSE
    Duplicates = FALSE
    Restarts = TRUE
PROPERTIES InOrderDelivery
CHECK_DEADLOCK FALSE
