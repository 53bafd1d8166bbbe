SPECIFICATION FairSpec
CONSTANTS
    Clients = {c1}
    Reader = r
    Kinds = {"fan", "temperature"}
    PktLen = 2
    PayloadLen = 1
    PayloadMagic = "none"
    QueueMax = 1
    MaxRequests = 1
    MaxPresses = 1
    MaxRestarts = 1
PROPERTIES
    RequestsReturn
