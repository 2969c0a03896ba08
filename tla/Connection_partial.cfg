SPECIFICATION MCSpec
CONSTANTS
    c1 = c1
    c2 = c2
    stmt = stmt
    task = task
    result = result
    direct = direct
    empty = empty
    None = None
    Conns = {c1, c2}
    Jobs = {task}
    Kind <- MCKind
    Queries <- MCQueries
    Attempts = 2
    Retries = 2
    MaxLosses = 1
CHECK_DEADLOCK FALSE
INVARIANT AllOrNothing
