CONSTANTS
    r1 = r1
    r2 = r2
    r3 = r3
    blue = blue
    green = green
    Damaged = Damaged
    Procs = {r1, r2}
    Instances = {blue, green}
    InstanceOf <- OneEach
    MaxAttempts = 2
    VerifyLimit = 1
    MaxEvents = 2
    MaxEpochs = 2
    MaxFaults = 1
    MaxDamage = 2
SPECIFICATION Spec
INVARIANTS
    SealTrail
PROPERTIES
    VerifyExact
    ImplementsLog
CHECK_DEADLOCK FALSE
