SPECIFICATION Spec
CONSTANTS
    Subs   = {s1, s2}
    JobIds = {j1}
    Reqs   = {r1, r2}
    NoSub  = NoSub
    NoJob  = NoJob
PROPERTY EnterpriseIsKept
SYMMETRY Symmetric
CHECK_DEADLOCK FALSE
