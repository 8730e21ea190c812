CONSTANTS
    ann = ann
    ben = ben
    cat = cat
    acme = acme
    solo = solo
    i1 = i1
    i2 = i2
    r1 = r1
    r2 = r2
    NoOrg = NoOrg
    NoUser = NoUser
    NoInstance = NoInstance
    Users = {ann, ben, cat}
    Managers = {ann, ben}
    Orgs = {acme, solo}
    OwnerOf <- MCOwnerOf
    Instances = {i1, i2}
    Requests = {r1, r2}
    Calls <- MCCalls
    Seeds <- MCSeeds
    CacheTTL = 1
    Latency = 1
    MaxClock = 3
    MaxUses = 1
    MaxChanges = 2
    MaxRestarts = 1
SYMMETRY OrgSymmetry
SPECIFICATION OrgSpec
INVARIANTS
    StaleBounded
    MembershipKept
CHECK_DEADLOCK FALSE
