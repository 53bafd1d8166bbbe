SPECIFICATION FairBeatSpec
CONSTANTS
    Period = 2
    Wire = 1
    Answer = 2
    Publish = 2
    Interval = 2
    Leave = 1
    Restart = 1
    Start = 2
    Boot = 3
    Timeouts = {5, 7, 8, 11, 12}
    Retries = {0, 2}
    MaxQuiet = 14
INVARIANT
    SilenceIsNoticed
PROPERTIES
    OnlyTheSilentAreReset
    StoppedIsBroughtBack
