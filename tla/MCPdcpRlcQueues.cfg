CONSTANTS
    DownThread = {d1, d2}
    UpThread = {u1}
    NoThread = NoThread
    QueueSize = 2
    MaxDown = 4
    MaxUp = 2
SPECIFICATION FairSpec
INVARIANTS ServedInOrder
PROPERTIES CallsEnd
CHECK_DEADLOCK FALSE
