SPECIFICATION Spec
CONSTANTS
    Subs   = {s1, s2}
    JobIds = {j1, j2}
    Reqs   = {r1, r2}
    NoSub  = NoSub
    NoJob  = NoJob
INVARIANTS PlanMatchesSub RefundsHaveJobs JobMarksAreTrue PromotionAfterCancel
PROPERTY CompletionsAreAccounted
SYMMETRY Symmetric
CHECK_DEADLOCK FALSE
