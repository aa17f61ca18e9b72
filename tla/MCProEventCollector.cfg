CONSTANTS
    Cover = {c1, c2}
    InFlight = 1
SPECIFICATION CollectorSpec
INVARIANTS
    CollectorTypeOK
    EachQueryAskedOnce
    RecordsMatchReadMode
PROPERTIES
    CoversAlwaysComplete
    SilentHomeBaseFallsBack
CHECK_DEADLOCK FALSE
