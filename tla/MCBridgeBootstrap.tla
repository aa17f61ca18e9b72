-------------------------- MODULE MCBridgeBootstrap --------------------------
(* Two devices behind a semaphore of one, a station, and the two driver    *)
(* events; the queue and the deferral list overflow within three events.   *)
EXTENDS BridgeBootstrap

MCSlotOf == [k \in EventKey |-> CASE k = "motion" -> "camera"
                                  [] k \in {"guardMode", "alarm"} -> "homebase"
                                  [] OTHER -> "driver"]

=============================================================================
