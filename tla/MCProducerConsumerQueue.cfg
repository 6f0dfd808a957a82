SPECIFICATION Spec
CONSTANTS
    Handlers = {h1, h2}
    Data = {d1, d2}
    MaxConsume = 4
    MaxProduce = 4
INVARIANTS FifoPairing OneSided
PROPERTIES ImplementsRendezvous
CHECK_DEADLOCK FALSE
