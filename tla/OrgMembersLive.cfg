SPECIFICATION Spec
CONSTANTS
    Users  = {u1}
    RowIds = {i1, i2}
    Reqs   = {r1, r2}
    NoReq  = NoReq
    NoRow  = NoRow
PROPERTY EveryRequestAnswered
CHECK_DEADLOCK FALSE
