SPECIFICATION Spec
CONSTANTS
    None = None
    alex = alex
    billie = billie
    chris = chris
    dana = dana
    a1 = a1
    b1 = b1
    c1 = c1
    d1 = d1
    al = al
    bil = bil
    chr = chr
    dan = dan
    Persons = {alex, billie, chris, dana}
    Sockets = {a1, b1, c1, d1}
    Owner <- FourPeople
    NamesOf <- FourNames
    Creator = alex
    Kinds = {"chess", "ttt", "checkers"}
    QueueSizes = {1}
    Unlimited = 2
    CPU = CPU
INVARIANTS
    TypeOK
    SeatsDistinct
    StatusAgrees
    ChessCpuSeat
PROPERTIES
    QueueHonoured
SYMMETRY PersonSymmetry
CONSTRAINT FewerWhenRenamed
