CONSTANTS
    ann = ann
    bob = bob
    co = co
    admin = admin
    d1 = d1
    d2 = d2
    Actors = {ann, bob}
    Docs = {d1, d2}
    Officers = {co, admin}
    Requests = {1, 2}
    Window = 3
    TopN = 3
    RiskySample = 8
    SignalSample = 10
    MaxRecs = 6
    HistoryLimit = 5
    Sla <- MCSla
    DueSoon = 1
    ManyDownloads = 2
    FewRows = 2
    FewEvents = 2
    FewRecs = 1
    RecentSize = 2
    RecentDlp = 1
    PageSize = 2
    MaxPages = 2
    Gap = 1
    Lag = 1
    Scenarios <- MCScenarios
SPECIFICATION SecuritySpec
INVARIANTS
    DrillDownCovers
    CasesMatchPosture
    OwnSaveShown
    ExportsAreWhole
CHECK_DEADLOCK FALSE
