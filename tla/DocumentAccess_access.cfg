CONSTANTS
    owner = owner
    edi = edi
    NoEntry = NoEntry
    NoLink = NoLink
    Nothing = Nothing
    NoCap = NoCap
    Users = {owner, edi}
    Readers = {edi}
    Groups = {}
    RolesOf <- MCRolesOf
    GroupsOf <- MCGroupsOf
    Owner = owner
    AclIds = {1}
    AclChoices <- DownloadRules
    LevelChoices = {"INTERNAL", "CONFIDENTIAL"}
    MaxVersion = 1
    Slots = {s1, s2}
    s1 = s1
    s2 = s2
    GrantTime = 2
    UrlTime = 1
    LinkTime = 1
    Caps = {1}
    MaxTime = 2
    MaxLinks = 1
    MaxGrants = 1
    MaxUrls = 1
SPECIFICATION Spec
INVARIANTS
    FreshDelivery
    WatermarkAsked
    OpensBounded
CHECK_DEADLOCK FALSE
SYMMETRY SlotSymmetry
