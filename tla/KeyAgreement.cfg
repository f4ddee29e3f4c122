SPECIFICATION MCSpec
CONSTANTS
    Passwords = {"", "short", "long"}
    Length <- MCLength
    NoKey = NoKey
    NoContext = NoContext
    Nothing = Nothing
    Skews <- MCSkews
    Hosts <- MCHosts
    Lan = "lan"
    MaxCalls = 2
    MaxEdits = 1
INVARIANTS TypeOK KeysAgree NothingEncryptedOut OnlySamePassword
 
