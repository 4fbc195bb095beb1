SPECIFICATION FairSpec
CONSTANTS
    u1 = u1
    u2 = u2
    u3 = u3
    u4 = u4
    u5 = u5
    u6 = u6
    None = None
    Update = {u1, u2, u3, u4, u5, u6}
    size <- Sizes
    kind <- Kinds
    active <- Active
    MANAGER_OTA_SEND_BIN_SIZE = 4
    RT_ALIGN_SIZE = 2
    HTTP_DOWNLOADER_BLOCK_SIZE = 8
    HTTP_DOWNLOADER_RETRY = 2
    MaxInput = 3
    MaxFault = 1
INVARIANTS
    PageTrue
    BootSound
PROPERTIES
    TransferComplete
    FlagServed
    UpdateEnds
