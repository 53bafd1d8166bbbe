SPECIFICATION FairSpec
CONSTANTS
    Browsers = {b1, b2}
    Self = self
    PoolSize = 2
INVARIANTS
    TypeOK
    UsesOpenPort
    NothingOutlivesMain
    ClosedOnce
PROPERTIES
    QuitEndsPicod
CHECK_DEADLOCK FALSE
