SPECIFICATION FairSpec
CONSTANTS
    N = 2
    Expiring = {}
    Forgettable = {}
    Jitters = {TRUE}
    Conns = {c1, c2}
    MaxInFlight = 2
    None = None
PROPERTIES
    EntriesSettle
