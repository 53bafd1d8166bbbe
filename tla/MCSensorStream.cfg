SPECIFICATION MCSpec
CONSTANTS
    Sensors = {ntc1}
    Fans = {fan1}
    Readings <- ColdAndWarm
    Pulses = {1100}
    History = 2
    Others = 1
    QueueMax = 2
    MaxPolls = 4
    MaxMissed = 2
    Streams = {s1, s2}
    MaxEvents = 4
INVARIANTS
    TypesOK
    ChartsTrue
    WritesLatest
    PauseHolds
SYMMETRY AnyStream
