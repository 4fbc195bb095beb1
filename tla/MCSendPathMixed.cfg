SPECIFICATION Spec
CONSTANTS
    a = a
    b = b
    k1 = k1
    k2 = k2
    r1 = r1
    r2 = r2
    r3 = r3
    p1 = p1
    p2 = p2
    p3 = p3
    p4 = p4
    f1 = f1
    o1 = o1
    o2 = o2
    None = None
    Iote = {a}
    Packet = {k1, k2}
    Request = {r1}
    Page = {p1, p2, f1, o1, o2}
    Segments <- MixedSegments
    Destinations <- MixedDestinations
    dest <- MixedDest
    Broadcast = {r1}
    Forward = {f1}
    Ota = {o1, o2}
    MANAGER_MAX_SEND_NUM = 3
    OperationCap = 2
    LogicCap = 2
    NetworkCap = 2
    MaxFault = 1
    MaxRestart = 0
    MaxInput = 2
INVARIANTS
    OneHolder
    ResultForEachListed
    PageInv
