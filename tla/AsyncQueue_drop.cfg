SPECIFICATION Spec
CONSTANTS
    Ops = {o1, o2}
    Workers = {w1, w2}
    None = None
INVARIANT NoOperationDropped
