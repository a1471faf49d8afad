CONSTANTS
    k1 = k1
    k2 = k2
    k3 = k3
    c1 = c1
    c2 = c2
    None = None
    Keys <- MCKeys
    Claims <- MCClaims
    ClaimTypes <- MCClaimTypes
    Capabilities <- MCCapabilities
    Trustees <- MCTrustees
    MaxOrder = 2
    Times <- MCTimes
    Expiries <- MCExpiries
    DeviceGrants <- MCDeviceGrants
    Orders <- MCOrders
    MaxEvents = 5
SYMMETRY Symmetry
SPECIFICATION Spec
INVARIANTS
    TypeOK
    MasterAgreement
    ClaimSignersWereActive
    RevokedSilenced
    ClaimLedgerAgreement
    ClaimOrderComplete
PROPERTIES
    WithdrawalIsFinal
    RevokedStaysOut
CHECK_DEADLOCK FALSE
