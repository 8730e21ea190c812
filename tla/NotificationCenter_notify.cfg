CONSTANTS
    ann = ann
    ben = ben
    nick = nick
    r1 = r1
    r2 = r2
    Users = {ann, ben}
    Usernames = {nick}
    Reader = ann
    Requests = {r1, r2}
    Operations <- MCOperations
    DirectoryTTL = 1
    AddressTTL = 1
    Cap = 2
    MailTypes = {"REJECTED"}
    Budgets <- MCBudgets
    PageSize = 2
SPECIFICATION NotifySpec
INVARIANTS
    PageTruth
PROPERTIES
    PruneKeepsNewest
    
CHECK_DEADLOCK FALSE
