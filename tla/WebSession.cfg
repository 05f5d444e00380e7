SPECIFICATION FairSpec
CONSTANTS
    Tokens     = {t1, t2}
    RootTokens = {t1}
    NoToken    = NoToken
    MaxChecks  = 2
    MaxActs    = 3
INVARIANT TabAgrees
PROPERTY ComesToRest
CHECK_DEADLOCK FALSE
