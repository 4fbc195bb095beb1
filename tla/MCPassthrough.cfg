SPECIFICATION FairSpec
CONSTANTS
    Reports = {"IOTE_REPORT", "RESERVE_ADDR"}
    Number = {0, 1}
    MaxPage = 3
    MaxDrop = 2
    MaxFault = 1
    Capacity = 2
INVARIANTS
    PagesFreed
    WireTrue
    OneLateLoss
PROPERTIES
    Reconnects
CHECK_DEADLOCK FALSE
