SPECIFICATION FairSpec
CONSTANTS
    a = a
    b = b
    k1 = k1
    k2 = k2
    r1 = r1
    r2 = r2
    r3 = r3
    p1 = p1
    p2 = p2
    p3 = p3
    p4 = p4
    f1 = f1
    o1 = o1
    o2 = o2
    None = None
    Iote = {a}
    Packet = {k1, k2}
    Request = {r1, r2}
    Page = {p1, p2, p3}
    Segments <- UnicastSegments
    Destinations <- UnicastDestinations
    dest <- UnicastDest
    Broadcast = {}
    Forward = {}
    Ota = {}
    MANAGER_MAX_SEND_NUM = 3
    OperationCap = 3
    LogicCap = 3
    NetworkCap = 2
    MaxFault = 0
    MaxRestart = 0
    MaxInput = 0
INVARIANTS
    AnswerSound
    ResultForEachListed
    FirstSendsInOrder
PROPERTIES
    EveryRequestAnswered
    ImplementsService
