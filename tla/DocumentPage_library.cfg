CONSTANTS
    ed = ed
    ap = ap
    bo = bo
    co = co
    ad = ad
    file1 = file1
    None = None
    Docs = {1, 2, 3}
    Users = {ed, ap, bo, co, ad}
    Editors = {ed}
    Approvers = {ap, bo}
    Officers = {co}
    Admins = {ad}
    Owner <- MCOwner
    Names <- MCNames
    Texts <- MCTexts
    Spells <- MCSpells
    Segments <- MCSegments
    PageSize = 2
    Tasks = {1, 2}
    Scenarios <- MCScenarios
    Waits <- MCWaits
SPECIFICATION Spec
INVARIANTS
    CountsAgree
    OffersGranted
    BulkAccounted
    OwnActionsShown
    PreviewShown
CHECK_DEADLOCK FALSE
