SPECIFICATION FairSpec
CONSTANTS
    Loops = {"receive", "events", "poll"}
    Duration = {0, 1}
    MaxSend = 2
    MaxSetup = 2
    MaxPacket = 1
    MaxClock = 3
INVARIANTS NoLostWakeup NoOversleep RemovalIsFinal
CHECK_DEADLOCK FALSE
PROPERTIES EveryEventServed
