SPECIFICATION Spec
CONSTANTS
    Clients = {c1}
    Handlers = {h1}
    Pump = pump
    Nobody = nobody
    Capacity = 1
    MaxNumbered = 1
INVARIANT AnnouncedOnce
