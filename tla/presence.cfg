SPECIFICATION FairSpec
CONSTANTS
    None = None
    a1 = a1
    a2 = a2
    b1 = b1
    Sockets = {a1, a2, b1}
    Person <- AlexAndBillie
    Tokens = {t1}
    GivenRoles = {"tier1"}
    LobbyLimit = 1
    MaxUsers = 2
    AllowEmpty = FALSE
INVARIANTS
    TypeOK
    DeferralsRun
    ListedAreMembers
    PersonListedOnce
PROPERTIES
    HostMovesOn
    GhostsGo
