SPECIFICATION Spec
CONSTANTS
    NProcs = 3
    RoundMax = 2
    Slots = 8
    Frames = 2
    Period = 4
    DlSlots = 2
    K1 = {2, 3, 4}
    SrSlots = {3}
    Taken = {2, 3}
    Delay = 1
    MaxWait = 1
    MaxLost = 1
INVARIANTS OneList OccasionBits PucchAhead
PROPERTIES ImplementsHarq
