SPECIFICATION Spec
CONSTANTS
    Subs   = {s1}
    JobIds = {j1, j2}
    Reqs   = {r1, r2}
    NoSub  = NoSub
    NoJob  = NoJob
PROPERTY EventsAreAcknowledged
CHECK_DEADLOCK FALSE
