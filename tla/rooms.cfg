SPECIFICATION FairSpec
CONSTANTS
    None = None
    Codes = {c1}
    Creators = {}
    Modes = {"ephemeral"}
    Sockets = {s1}
    Tokens = {t1}
    Objects = {o1, o2, o3}
    CreateCalls = {p1}
    JoinCalls = {j1, j2}
    Nick <- OwnNick
    Fold <- OwnNick
    User <- OwnNick
    Passwords = {TRUE}
    Lifetime <- ShortLifetime
    DefaultLifetime = 2
    TokenLifetime = 1
    MaxRoomsPerCreator = 1
    MaxServerRooms = 1
    MaxUsers = 2
INVARIANTS
    TypeOK
    NoDanglingEntries
    JoinMutex
    OneTimeTokenOnce
PROPERTIES
    RoomsEnd
    JoinsAnswered
