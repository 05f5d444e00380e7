SPECIFICATION FairSpec
CONSTANTS
    Replicas    = {r1, r2}
    NumFiles    = 2
    MaxFailures = 2
    Nobody      = Nobody
    Orphan      = Orphan
INVARIANTS OneRunner RowsTellTheTruth AppliedInOrder ServesMigrated ClosesAfterLastAnswer
PROPERTY EveryReplicaServes
CHECK_DEADLOCK FALSE
