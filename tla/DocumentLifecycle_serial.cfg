CONSTANTS
    d1 = d1
    d2 = d2
    owner = owner
    amy = amy
    bob = bob
    cas = cas
    root = root
    None = None
    Docs = {d1}
    Users = {owner, amy, bob, root}
    Editors = {owner}
    Approvers = {amy, bob}
    Admins = {root}
    Owner <- SameOwner
    Direct = {owner}
    Chains <- EitherOrder
    Slots = {1}
    RetentionDays = 1
    AsOf = {1, 3, 5}
    TrashDays = 1
    MaxTime = 4
    MaxHistory = 4
    MaxFaults = 1
SPECIFICATION FairSpec
INVARIANTS
    HistoryExplains
PROPERTIES
    ImplementsWorkflow
    RetentionHappens
CHECK_DEADLOCK FALSE
