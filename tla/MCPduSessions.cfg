CONSTANTS
    u1 = u1
    u2 = u2
    p1 = p1
    p2 = p2
    Rntis = {u1, u2}
    Psis = {p1, p2}
    NSlots = 2
    NXids = 2
    MaxTeid = 3
    MaxPending = 2
    MaxRetries = 1
SPECIFICATION Spec
SYMMETRY Symmetry
INVARIANTS SessionsRouted  RequestsAnswered
