CONSTANTS
    NProcs = 3
    RoundMax = 2
    Round3 = 1
    MinTb = 1
    MaxTb = 1
    Bsr = {1}
    DtxThres = 1
    MaxAir = 2
    MaxLost = 1
SPECIFICATION Spec
INVARIANTS OneList ResultsAwaited FreeProcess NoByteLeaks
PROPERTIES ImplementsHarq EveryProcessFreed
CHECK_DEADLOCK TRUE
