CONSTANTS
    LongSn = FALSE
    SnModulus = 4
    StartSn = {0}
    SduSize = {1, 2}
    Grant = {3, 5}
    StatusGrant = {11}
    TxMaxSize = 3
    RxMaxSize = 2
    PollPdu = 2
    PollByte = 100
    NackRange = 255
    MaxSdu = 2
    MaxAir = 3
SPECIFICATION Spec
CHECK_DEADLOCK FALSE
INVARIANTS
    DeliveredOnceWhole AckedDelivered NothingLost OrderKept  SizesExact
    StatusExact
