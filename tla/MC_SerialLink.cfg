CONSTANTS
    Cmds = {100}
    PayloadLens = {0, 1}
    RawSize = 13
    UartCap = 9
    MaxPackets = 3
    CanCorrupt = TRUE
    LenFlips = {0, 4}
SPECIFICATION Spec
INVARIANT DeliveredInOrder
PROPERTY EveryIntactDelivered
