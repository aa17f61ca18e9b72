CONSTANTS
    Viewer = {v1, v2}
    Checker = {c1, c2}
    MaxInbox = 2
SPECIFICATION CameraSpec
SYMMETRY Symmetry
PROPERTIES
    StoppedStaysStopped
CHECK_DEADLOCK FALSE
