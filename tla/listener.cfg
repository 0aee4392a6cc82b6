SPECIFICATION LiveSpec
CONSTANTS
    Peers = {p1, p2}
    Stuck = {p1}
    Fragile = {p2}
    MaxWrites = 3
    Half = Half
    NoEvent = NoEvent
INVARIANTS
    ListenerTypeOK
PROPERTIES
    Delivered
    ReplayKeepsOutbox
