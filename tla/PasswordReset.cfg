SPECIFICATION Spec
CONSTANTS
    Tokens  = {t1, t2}
    Reqs    = {r1, r2}
    NoToken = NoToken
    TTL     = 3
    Window  = 2
    MaxTime = 4
    CountMayFail = TRUE

PROPERTIES ResetIsAtomic ResetKillsOlderTokens ResetsAreAnswered
