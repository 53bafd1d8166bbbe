SPECIFICATION Spec
CONSTANTS
    Readings <- ReadingsDef
    Speeds <- SpeedsDef
    AskedPercents = {0, 53, 100}
    AskedWatchdog <- AskedWatchdogDef
    Configured <- ConfiguredDef
    ConfiguredWatchdog <- ConfiguredWatchdogDef
    VersionLen = 30
    MaxResets = 2
INVARIANTS
    AnswersTrue
    RestartRestores
