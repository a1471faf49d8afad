CONSTANTS
    m = m
    d = d
    c1 = c1
    r1 = r1
    r2 = r2
    rec1 = rec1
    t1 = t1
    t2 = t2
    t3 = t3
    None = None
    Keys <- MCKeys
    Claims <- MCClaims
    ClaimTypes <- MCClaimTypes
    Capabilities <- MCCapabilities
    Trustees <- MCTrustees
    MaxOrder = 2
    Owner = m
    Device = d
    Requests <- MCOneRequest
    Recoveries <- MCRecoveries
    Configs <- MCOneConfig
    Kinds <- MCKinds
    MaxEvents = 4
SYMMETRY Symmetry
SPECIFICATION Spec
INVARIANTS
    TypeOK
    RowIsLinked
    OnlyLocalWritersBreakIt
CHECK_DEADLOCK FALSE
