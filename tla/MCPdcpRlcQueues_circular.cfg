CONSTANTS
    DownThread = {d1}
    UpThread = {u1}
    NoThread = NoThread
    QueueSize = 1
    MaxDown = 4
    MaxUp = 4
SPECIFICATION Spec
INVARIANTS NoCircularWait
CHECK_DEADLOCK FALSE
