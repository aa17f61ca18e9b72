CONSTANTS
    EventKey = {"motion", "guardMode", "alarm", "captcha", "verify"}
    Slot = {"camera", "doorbell", "homebase", "driver"}
    Device = {"camera", "doorbell"}
    Station = {"homebase"}
    Driver = "driver"
    CaptchaKey = "captcha"
    VerifyKey = "verify"
    SlotOf <- MCSlotOf
    Cap = 2
    DeferCap = 2
    Width = 1
    MaxEvents = 3
SPECIFICATION BootstrapSafety
CHECK_DEADLOCK FALSE
INVARIANT EventWorkerSurvives
