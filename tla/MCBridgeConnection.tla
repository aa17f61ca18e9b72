------------------------- MODULE MCBridgeConnection -------------------------
(* Two calls, two keys of one slot and room for one queued event.          *)
EXTENDS BridgeConnection

MCSlotOf == [k \in EventKey |-> "link"]

=============================================================================
