SPECIFICATION AllSpec
CONSTANTS
    None = None
    Nets = {n1, n2}
    Recs = {r1, r2}
    Shakes = {s1, s2}
    Ports <- TwoPorts
    DefaultPort = 9000
    Discovers = TRUE
    Requests = TRUE
    Updates = TRUE
    Destroys = TRUE
    OpenFails = TRUE
SYMMETRY Symmetry
INVARIANTS
    TypeOK
    NetThreadExclusive
    RecThreadExclusive
    QuietAtDelete
    StreamHasThread
CHECK_DEADLOCK FALSE
