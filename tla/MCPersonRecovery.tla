-------------------------- MODULE MCPersonRecovery --------------------------
(* Instances of PersonRecovery, and so of StationRequests, for TLC.        *)
EXTENDS PersonRecovery

CONSTANTS q, ra1, ra2, rb, i1, d1, p1, p2, other, a, b, camA, camB, recA, recB

MCKindOf ==
    [r \in Request \union Other |->
        CASE r \in {q, ra1, ra2, rb} -> "local" [] r \in {i1, other} -> "image"
          [] r = d1 -> "recording" [] OTHER -> "pin"]

MCFileOf == [r \in Request \union Other |-> IF r = other THEN b ELSE a]

MCCameraOf == [r \in Record |-> IF r = recA THEN camA ELSE camB]

MCCamerasOf ==
    [r \in Request \union Other |->
        CASE r \in {ra1, ra2} -> {camA} [] r = rb -> {camB} [] OTHER -> Camera]
=============================================================================
