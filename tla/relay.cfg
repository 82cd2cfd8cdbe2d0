SPECIFICATION Spec
CONSTANTS
    c1 = c1  c2 = c2  c3 = c3
    i1 = i1  i2 = i2  i3 = i3
    a1 = a1  a2 = a2
    r1 = r1  r2 = r2
    None = None
    Conns = {c1, c2, c3}
    Ids = {i1, i2, i3}
    IdsOf <- IdChoice
    RoomIds = {r1, r2}
    Addresses = {a1, a2}
    AddressOf <- AddressTwo
    MaxRooms = 1
    MaxRoomsPerIP = 1
    Objs = {1, 2, 3, 4}
SYMMETRY RoomSymmetry
INVARIANTS TypeOK IPCountsExact EmptyRoomsGo NoGhosts JoinerListed
CHECK_DEADLOCK FALSE
