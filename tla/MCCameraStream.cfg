CONSTANTS
    Viewer = {v1, v2}
    Checker = {c1, c2}
    MaxInbox = 1
SPECIFICATION CameraSpec
SYMMETRY Symmetry
INVARIANTS
    CameraTypeOK
PROPERTIES
    LingerSparesClaimedSource
CHECK_DEADLOCK FALSE
