SPECIFICATION Spec
CONSTANTS
    Emails   = {e1, e2}
    Googles  = {g1}
    Secrets  = {s1, s2}
    Reqs     = {r1, r2}
    NoEmail  = NoEmail
    NoGoogle = NoGoogle
    NoSecret = NoSecret
    LookupMayFail = TRUE
INVARIANTS SecondFactorIsProven AccountsCanLogIn
PROPERTY RootIsFixed
SYMMETRY Symmetric
