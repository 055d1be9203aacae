SPECIFICATION FairSpec
CONSTANTS
    Handlers = {h1, h2}
    Pump = pump
    Conns = {k1, k2}
    MaxRows = 1
INVARIANTS
    TypeOK
    ClusterViewAllowed
    NoPhantomLoss
PROPERTIES
    EveryWaiterServed
