SPECIFICATION UpdateSpec
CONSTANTS
    Passwords = {"", "short"}
    Length <- MCLength
    NoKey = NoKey
    NoContext = NoContext
    Nothing = Nothing
    Skews <- NoSkew
    Hosts <- OneHost
    Lan = "lan"
    MaxCalls = 2
    MaxEdits = 1
PROPERTIES UpdateRekeys
CHECK_DEADLOCK FALSE
