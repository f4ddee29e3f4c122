SPECIFICATION MCSpec
CONSTANTS
    SafetyLimit = 64
    Adapters <- HostAdapters
    NoService = NoService
    PhoneNet = "lan"
    MaxRegs = 3
    InstanceName <- MCNames
    TargetPorts = {9000, 9002}
INVARIANTS TypeOK ParsesMessages OnlyOurs WantedAdvertised
PROPERTIES Debounced FindsPhone
CHECK_DEADLOCK FALSE
