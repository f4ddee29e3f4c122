SPECIFICATION SideSpec
CONSTANTS
    None = None
    Nets = {n1, n2}
    Recs = {r1, r2}
    Shakes = {s1, s2}
    Ports <- OnePort
    DefaultPort = 9000
    Discovers = TRUE
    Requests = TRUE
    Updates = FALSE
    Destroys = FALSE
    OpenFails = TRUE
INVARIANTS
    NoFault
    StreamHasSocket
    JoinsFinishedHandshake
PROPERTIES
    CallbackReturns
    FailedHandshakeRecovers
    RequestStarts
