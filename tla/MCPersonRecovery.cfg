SPECIFICATION RecoverySpec
CONSTANTS
    q = q ra1 = ra1 ra2 = ra2 rb = rb i1 = i1 d1 = d1 p1 = p1 p2 = p2 other = other
    a = a b = b camA = camA camB = camB recA = recA recB = recB
    Request = {q, ra1, ra2, rb, i1, d1, p1, p2}
    Other = {other}
    KindOf <- MCKindOf
    FileOf <- MCFileOf
    GoodPin = {p1}
    Chunks = 2
    MaxChunks = 1
    MaxCalls = 2
    None = None
    Camera = {camA, camB}
    Record = {recA, recB}
    CameraOf <- MCCameraOf
    Read = {ra1, ra2, rb}
    CamerasOf <- MCCamerasOf
    MaxPending = 1
    MaxSeen = 2
INVARIANTS RecoveryTypeOK BusyMeansRunning ImageIsOfItsFile OpensOnFreshVerdict RecordPulsesItsCameraOnce
CHECK_DEADLOCK FALSE
