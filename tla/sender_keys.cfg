\* Three peers with a session and a fourth who is met on the way; agreements
\* may be repeated, and after two departures a message goes to the one who stays.
SPECIFICATION Spec
CONSTANTS
    None = None
    Peers = {p1, p2, p3, p4}
    Early = {p1, p2, p3}
    Smaller = {p4}
    Calls = {c1}
    MaxEvents = 3
    MaxTurns = 1
INVARIANTS
    TypeOK
    KeysOnlyToMembers
    GroupReads
\* The bounded events run out.
CHECK_DEADLOCK FALSE
SYMMETRY Symmetry
