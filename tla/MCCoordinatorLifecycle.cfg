SPECIFICATION LifecycleSpec
CONSTANTS
    Coordinator = {c1, c2, c3, c4}
    c1 = c1 c2 = c2 c3 = c3 c4 = c4
    User = User
    Core = Core
    None = None
INVARIANTS LifecycleTypeOK RetiredIsQuiet
PROPERTIES LossLeadsToSetup
CHECK_DEADLOCK FALSE
