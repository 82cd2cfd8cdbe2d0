SPECIFICATION Spec
CONSTANTS
    None = None
    Codes = {c1, c2}
    Creators = {k1, k2}
    Modes = {"ephemeral", "gathering"}
    Sockets = {s1, s2, s3}
    Tokens = {}
    Objects = {o1, o2, o3}
    CreateCalls = {}
    JoinCalls = {j1}
    Nick <- Cases
    Fold <- OneFold
    User <- Devices
    Passwords = {FALSE}
    Lifetime <- ShortLifetime
    DefaultLifetime = 2
    TokenLifetime = 1
    MaxRoomsPerCreator = 1
    MaxServerRooms = 2
    MaxUsers = 2
INVARIANTS
    RoomHasTimer
    CreatorIndexExact
    NicknamesUnique
SYMMETRY Symmetry
