SPECIFICATION Spec
CONSTANTS
    d = d
    e = e
    m1 = m1
    m2 = m2
    m3 = m3
    None = None
    Device = {d, e}
    Message = {m1, m2, m3}
    src <- ThreeSrc
    total <- ThreeTotal
    Empty <- LastEmpty
    PacketNums = 1
    MaxFault = 2
INVARIANTS
    TypeOK
    UniqueIds
    CountAgrees
    DeliveredSound
PROPERTIES
    KeepsSegments
