SPECIFICATION FairHSpec
CONSTANTS
    WatchdogRequests <- WatchdogOnce
    OtherMagics = {}
    ButtonFitted = TRUE
    GracefulMin = 3
    HardMin = 4
    DefaultTimeout = 2
    BlinkTicks = 1
    Alarms = {a1}
    NoAlarm = NoAlarm
    MaxQuiet = 2
    MaxMoves = 2
PROPERTIES
    SilentHostGivesUp
    HardResetServed
    QueuedPressAnswered
