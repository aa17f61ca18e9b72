CONSTANTS
    EventKey = {"connected", "disconnected"}
    Slot = {"link"}
    SlotOf <- MCSlotOf
    Cap = 1
    MaxEvents = 1
    Request = {r1, r2}
SPECIFICATION ConnectionSpec
INVARIANTS
    ConnectionTypeOK
    NoCallerOnDeadConnection
PROPERTIES
    CallsKeepRequestReply
    RetiredClientIsSilent
    LossIsReported
    EveryCallSettles
CHECK_DEADLOCK FALSE
