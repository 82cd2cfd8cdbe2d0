SPECIFICATION FairSpec
CONSTANTS
    N = 2
    Expiring = {1}
    Forgettable = {1}
    Jitters = {TRUE, FALSE}
    Conns = {c1, c2}
    MaxInFlight = 2
    None = None
INVARIANTS
    TypeOK
    NoneLost
    NoneStranded
PROPERTIES
    NoRepeat
    ImplementsChannel
    SettlesWithoutJitter
