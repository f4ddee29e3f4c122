SPECIFICATION OutputSpec
CONSTANTS
    None = None
    Nets = {n1, n2}
    Recs = {r1, r2}
    Shakes = {s1, s2}
    Ports <- OnePort
    DefaultPort = 9000
    Discovers = TRUE
    Requests = FALSE
    Updates = FALSE
    Destroys = FALSE
    OpenFails = FALSE
    Sizes <- TwoSizes
    Padding = 1
    Delays = TRUE
    Rates <- AacRates
    Lengths = {761}
    Samples = {0, 1, 2}
    Nothing = Nothing
INVARIANTS
    OneDecoderUser
    FreshReferences
    PictureIsWhole
    SoundIsWhole
PROPERTIES PictureComes
