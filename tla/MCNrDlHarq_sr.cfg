SPECIFICATION Spec
CONSTANTS
    NProcs = 3
    RoundMax = 2
    Slots = 8
    Frames = 8
    Period = 4
    DlSlots = 3
    K1 = {2, 3}
    SrSlots = {3, 7}
    Taken = {}
    Delay = 1
    MaxWait = 8
    MaxLost = 0
INVARIANT SrSent
