SPECIFICATION FairSpec
CONSTANTS
    None = None
    alex = alex
    billie = billie
    chris = chris
    dana = dana
    a1 = a1
    b1 = b1
    c1 = c1
    d1 = d1
    al = al
    bil = bil
    chr = chr
    dan = dan
    Persons = {alex, billie}
    Sockets = {a1, b1}
    Owner <- TwoPeople
    NamesOf <- TwoNames
    Creator = alex
    Kinds = {"ttt"}
    QueueSizes = {1}
    Unlimited = 2
    CPU = CPU
PROPERTIES
    AbandonedRoundEnds
