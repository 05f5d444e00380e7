SPECIFICATION Spec
CONSTANTS
    Emails   = {e1, e2}
    Googles  = {g1}
    Secrets  = {s1, s2}
    Reqs     = {r1, r2}
    NoEmail  = NoEmail
    NoGoogle = NoGoogle
    NoSecret = NoSecret
    LookupMayFail = FALSE
PROPERTY DisablingNeedsCode
SYMMETRY Symmetric
