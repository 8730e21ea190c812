CONSTANTS
    r1 = r1
    r2 = r2
    r3 = r3
    blue = blue
    green = green
    Damaged = Damaged
    Procs = {r1, r2, r3}
    Instances = {blue, green}
    InstanceOf <- TwoAndOne
    MaxAttempts = 4
    VerifyLimit = 9
    MaxEvents = 4
    MaxEpochs = 0
    MaxFaults = 2
    MaxDamage = 1
SPECIFICATION FairSpec
INVARIANTS
    ChainLinear
    AckedOnce
    InstanceOrder
    RetriesPaidByOthers
PROPERTIES
    RequestsEnd
CHECK_DEADLOCK FALSE
