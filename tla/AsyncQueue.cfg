SPECIFICATION FairSpec
CONSTANTS
    Ops = {o1, o2, o3}
    Workers = {w1, w2}
    None = None
INVARIANTS
    Ownership
    NoLostWakeup
PROPERTIES
    DestructorReturns
    Served
    KeepsPromise
