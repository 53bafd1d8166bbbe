SPECIFICATION Spec
CONSTANTS
    Clients = {c1, c2}
    Reader = r
    Kinds = {"fan", "temperature"}
    PktLen = 3
    PayloadLen = 1
    PayloadMagic = "shutdown"
    QueueMax = 1
    MaxRequests = 2
    MaxPresses = 0
    MaxRestarts = 0
PROPERTIES
    ShutdownAsked
