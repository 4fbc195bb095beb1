SPECIFICATION Spec
CONSTANTS
    d1 = d1
    d2 = d2
    d3 = d3
    d4 = d4
    None = None
    Device = {d1, d2, d3, d4}
    Ranges <- TwoRanges
    Address <- Ids
    all_index = 3
    position <- Spread
    MaxRequest = 8
    MaxFault = 2
SYMMETRY DeviceSymmetry
INVARIANTS
    OneOwner
    RouteTrue
