CONSTANTS
    LongSn = TRUE
    SnModulus = 4
    StartSn = {3}
    SduSize = {3}
    Grant = {2, 3, 5}
    TxMaxSize = 6
    RxMaxSize = 4
    MaxSdu = 3
    MaxAir = 2
    MaxRepeat = 1
SPECIFICATION Spec
CHECK_DEADLOCK FALSE
INVARIANTS
    DeliveredOnceWhole WindowOrder NextReassemblyExact SizesExact GapTimedBelowWrap
