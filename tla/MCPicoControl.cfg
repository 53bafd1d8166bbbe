SPECIFICATION Spec
CONSTANTS
    WatchdogRequests <- WatchdogUse
    OtherMagics = {"shutdown", "unknown", "status"}
    ButtonFitted = TRUE
    GracefulMin = 1
    HardMin = 2
    DefaultTimeout = 1
    BlinkTicks = 1
    Alarms = {a1, a2}
    NoAlarm = NoAlarm
    MaxQuiet = 1
    MaxMoves = 1
SYMMETRY Sym
INVARIANTS
    TypeOK
    NoExtraResets
    WatchdogAlive
    RailsOnWhileUp
PROPERTY
    KeepsContract
