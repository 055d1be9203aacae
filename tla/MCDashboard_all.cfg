SPECIFICATION FairSpec
CONSTANTS
    Clients = {c1}
    Handlers = {h1}
    Pump = pump
    Nobody = nobody
    Capacity = 2
    MaxNumbered = 3
INVARIANTS
    TypeOK
    NoSendOnClosed
    InOrder
    AnnouncedOnceInSight
PROPERTIES
    BroadcastEnds
    OutageIsAnnounced
