CONSTANTS
    d1 = d1
    d2 = d2
    owner = owner
    amy = amy
    bob = bob
    cas = cas
    root = root
    None = None
    Docs = {d1}
    Users = {owner, amy, root}
    Editors = {owner}
    Approvers = {amy}
    Admins = {root}
    Owner <- SameOwner
    Direct = {amy}
    Chains <- NoChains
    Slots = {1, 2}
    RetentionDays = 1
    AsOf = {3}
    TrashDays = 1
    MaxTime = 3
    MaxHistory = 3
    MaxFaults = 1
SPECIFICATION Spec
INVARIANTS
    StatusEvidence
CHECK_DEADLOCK FALSE
