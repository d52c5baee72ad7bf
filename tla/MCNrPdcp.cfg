SPECIFICATION FairSpec
CONSTANTS
    SnModulus = 8
    HfnModulus = 4
    IntModulus = 1024
    t_reordering = 1
    StartCounts = {5}
    MaxTx = 11
    MaxInFlight = 3
    FirstTick = {1}
    MaxTick = 2
INVARIANTS InOrderDelivery CountAgreement NothingHeldBack
PROPERTIES ImplementsService ReorderingEnds
CHECK_DEADLOCK FALSE
