------------------------- MODULE MCRecordingIsWhole -------------------------
(* An instance of StationRequests for TLC: one recording and nothing else. *)
EXTENDS StationRequests

CONSTANTS d1, a

MCKindOf == [r \in Request \union Other |-> "recording"]

MCFileOf == [r \in Request \union Other |-> a]
=============================================================================
