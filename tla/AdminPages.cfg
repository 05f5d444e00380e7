SPECIFICATION Spec
CONSTANTS
    Users    = {me, u1}
    Me       = me
    Slots    = {c1, c2}
    NoRole   = NoRole
    TheOrg   = TheOrg
    MaxMoves = 3
    Terms    = {all, some, none}
    TwoPages = all
    OnePage  = some
    Secrets  = {s1, s2, s3}
    Orgs     = {o1, o2, o3}
    Nothing  = Nothing
INVARIANTS RowsAgree OfferedIsAllowed PlanAgrees ButtonsComeBack PageIsOfTable BannerIsTrue ShownSecretIsCurrent StatusIsTrue ListAgrees
SYMMETRY Symmetric
CHECK_DEADLOCK FALSE
