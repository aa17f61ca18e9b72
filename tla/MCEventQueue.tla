---------------------------- MODULE MCEventQueue ----------------------------
(* A small instance of EventQueue: the two keys of a station's connection  *)
(* state and one other property, with room for two of the three.           *)
EXTENDS EventQueue

MCSlotOf == [k \in EventKey |-> IF k \in {"connected", "disconnected"} THEN "link" ELSE "motion"]

=============================================================================
