CONSTANTS
    owner = owner
    vic = vic
    edi = edi
    amy = amy
    col = col
    root = root
    both = both
    staff = staff
    NoEntry = NoEntry
    Users = {owner, vic, edi, amy, col, root, both}
    Groups = {staff}
    RolesOf <- MCRolesOf
    GroupsOf <- MCGroupsOf
    Owner = owner
    AclIds = {1, 2}
    AclChoices <- MCEntries
    LevelChoices = {"PUBLIC", "INTERNAL", "CONFIDENTIAL", "SECRET"}
    MaxVersion = 1
    Reviewers = {col, root, both}
SPECIFICATION ReviewSpec
INVARIANTS
    ListMatchesRead
    WebAgrees
    ImpactExact
    ReviewTells
CHECK_DEADLOCK FALSE
