SPECIFICATION FairSpec
CONSTANTS
    Tokens      = {t1, t2}
    Slots       = {l1, l2}
    NoToken     = NoToken
    MaxFailures = 1
    MaxRestarts = 1
    MaxNative   = 2
INVARIANTS TypeOK MemoryIsPersisted
PROPERTIES OutageKeepsSession HolderGoesHome SplashEnds SubmittingEnds
CHECK_DEADLOCK FALSE
