SPECIFICATION Spec
CONSTANTS
    Tasks = {t1, t2}
    MemSize = 8
    MemCalls <- MCMemCalls
    FlashCalls <- MCFlashCalls
    Sector = 2
    Pages = 4
    Contents <- MCContents
    Verify = {TRUE, FALSE}
    MaxCall = 2
    MaxFault = 1
INVARIANTS
    MemTrue
    VerifiedTrue
CHECK_DEADLOCK FALSE
