CONSTANTS
    Mem = 6
    Header = 2
    MaxBlock = 4
    MaxWord = 14
    MaxFault = 1
    MaxNotice = 2
    Frame = {0, 99}
SPECIFICATION FairSpec
PROPERTIES
    Refines
    Delivered
CHECK_DEADLOCK FALSE
