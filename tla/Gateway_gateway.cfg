CONSTANTS
    ann = ann
    ben = ben
    q1 = q1
    q2 = q2
    NoUser = NoUser
    NoRoute = NoRoute
    Users = {ann, ben}
    RealmRoles <- MCRoles
    OfficerRole = "compliance_officer"
    OfficerAlias = "co"
    AnyRole <- AnyUser
    NoCheck <- Public
    Requests = {q1, q2}
    GateRoles <- RouteRoles
    ServiceRoles <- OpRoles
    PathsOf <- Paths
    Writes <- WriteOps
    Swallowed <- SwallowedOps
    ActionFor <- ActionOf
    ProofRoute = "proof"
    Offered <- Offers
    Life = 1
    Tolerance = 1
    ProofLife = 1
    MaxAge = 0
    Latency = 1
    LimitOf <- MCLimits
    Budgets <- MCBudgets
SPECIFICATION GatewaySpec
INVARIANTS
    GateDecides
    AnswersTell
PROPERTIES
    SensitiveFresh
CHECK_DEADLOCK FALSE
