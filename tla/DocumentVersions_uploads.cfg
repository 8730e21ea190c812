CONSTANTS
    report = report
    notes = notes
    clean = clean
    other = other
    secret = secret
    virus = virus
    None = None
    Slots = {1, 2}
    Names = {report, notes}
    NamesOf <- OwnName
    Contents = {clean, secret, virus}
    Infected = {virus}
    Sensitive = {secret}
    Claims <- SomeClaims
    MaxVersion = 3
    MaxFaults = 1
SPECIFICATION FairSpec
INVARIANTS
    VersionsContiguous
    FilesIntact
PROPERTIES
    ImplementsFileStore
    NoOrphanStays
CHECK_DEADLOCK FALSE
