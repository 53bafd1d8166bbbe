SPECIFICATION Spec
CONSTANTS
    Clients = {c1, c2}
    Reader = r
    Kinds = {"fan", "temperature"}
    PktLen = 3
    PayloadLen = 1
    PayloadMagic = "temperature"
    QueueMax = 1
    MaxRequests = 3
    MaxPresses = 0
    MaxRestarts = 0
INVARIANTS
    TypeOK
    PicoInStep
    HostInStep
    OwnAnswer
SYMMETRY AnyClient
