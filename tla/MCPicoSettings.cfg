SPECIFICATION Spec
CONSTANTS
    Workers = {w1}
    Main = m
    Reader = r
    Configs <- OddConfig
    AskedPercents <- NegativePercent
    AskedWatchdog <- OddWatchdog
    VersionLen = 3
    PieceLen = 2
    QueueMax = 1
    MaxComing = 1
INVARIANTS
    TypeOK
    FansAsAsked
    ArmedTimeout
    VersionRun
    ReportsTrue
