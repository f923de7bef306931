\* Every kind of delivery, time, restarts; two entries fit the store.
SPECIFICATION Spec
CONSTANTS
    None = None
    Deliveries <- MCDeliveries
    KeySources = {"key", "unavailable"}
    TTL = 2
    MaxEntries = 2
    MaxTime = 3
    MaxHandled = 4
    MaxRestarts = 1
INVARIANTS
    ReemittedOnlyWhenForgotten
    StoreIsBoundedAndOrdered
    AcceptedIsEmitted
CHECK_DEADLOCK FALSE
