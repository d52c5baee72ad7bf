CONSTANTS
    u1 = u1
    p1 = p1
    p2 = p2
    Rntis = {u1}
    Psis = {p1, p2}
    NSlots = 2
    NXids = 3
    MaxTeid = 2
    MaxPending = 1
    MaxRetries = 0
SPECIFICATION Spec
INVARIANT SetupAnswered
