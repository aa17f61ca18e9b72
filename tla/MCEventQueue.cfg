CONSTANTS
    EventKey = {"connected", "disconnected", "motion"}
    Slot = {"link", "motion"}
    SlotOf <- MCSlotOf
    Cap = 2
    MaxEvents = 5
SPECIFICATION EventQueueSpec
INVARIANTS
    EventQueueTypeOK
    NewestStateKept
    QueueBounded
    NoLostWakeup
PROPERTIES
    MirrorsNewestState
    EveryReportSettles
CHECK_DEADLOCK FALSE
