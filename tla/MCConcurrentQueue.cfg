SPECIFICATION Spec
CONSTANTS
    Producers = {p1, p2}
    Consumers = {c1, c2, c3}
    Packets = {d1, d2}
    MaxSize = 2
INVARIANTS
    TypeOK
    NoLostWakeup
    RoomAfterCheck
PROPERTIES
    ImplementsMailbox
