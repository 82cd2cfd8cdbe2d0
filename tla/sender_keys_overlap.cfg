\* One message and one departure are enough.
SPECIFICATION Spec
CONSTANTS
    None = None
    Peers = {p1, p2, p3}
    Early = {p1, p2, p3}
    Smaller = {p1}
    Calls = {c1}
    MaxEvents = 3
    MaxTurns = 1
INVARIANTS
    RemainingKeyed
CHECK_DEADLOCK FALSE
SYMMETRY Symmetry
