SPECIFICATION FairSpec
CONSTANTS
    d = d
    e = e
    m1 = m1
    m2 = m2
    m3 = m3
    None = None
    Device = {d, e}
    Message = {m1, m2, m3}
    src <- ThreeSrc
    total <- ThreeTotal
    Empty <- NoEmpty
    PacketNums = 2
    MaxFault = 1
INVARIANTS
    DeliveredSound
PROPERTIES
    EveryMessageDelivered
