SPECIFICATION FairSpec
CONSTANTS
    Main = main
    Reader = reader
    Workers = {w1}
    Callers = {main, w1}
    MaxSignals = 1
    MaxNews = 2
    MAX_NUM_DEVICES = 2
    Fitted = {0, 1}
    OtherRegister = 96
    Temperature <- ZonesDiffer
CHECK_DEADLOCK FALSE
INVARIANTS
    TypeOK
    ReadingIsTheZones
PROPERTIES
    QuitIsHeard
    SubscribersServed
