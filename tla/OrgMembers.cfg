SPECIFICATION Spec
CONSTANTS
    Users  = {u1, u2}
    RowIds = {i1, i2, i3}
    Reqs   = {r1, r2}
    NoReq  = NoReq
    NoRow  = NoRow
INVARIANT OneRowPerUser
PROPERTIES CapRespected DeletedOrgGainsNobody KeepsPromise
SYMMETRY Symmetric
CHECK_DEADLOCK FALSE
