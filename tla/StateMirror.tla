---------------------------- MODULE StateMirror ----------------------------
(***************************************************************************)
(* What the event path of the integration promises to an entity, with      *)
(* nothing said about queues, workers or sockets.  The bridge reports      *)
(* states; a later report supersedes an earlier one of the same slot (one  *)
(* property of one product, or its connected / disconnected pair).  Home   *)
(* Assistant shows, for every slot, a state the bridge reported, and what  *)
(* it shows never moves back to an older report.                           *)
(***************************************************************************)
EXTENDS Naturals

CONSTANT Slot         \* the states Home Assistant mirrors

VARIABLES
    reported,         \* reported[s]: stamp of the newest report of slot s
    shown             \* shown[s]: stamp of the report Home Assistant shows

mirrorVars == <<reported, shown>>

MirrorInit ==
    /\ reported = [s \in Slot |-> 0]
    /\ shown = [s \in Slot |-> 0]

Report(s) ==
    /\ reported'[s] > reported[s]
    /\ reported' = [reported EXCEPT ![s] = reported'[s]]
    /\ UNCHANGED shown

(* A report may be skipped, when a later one of its slot replaced it or    *)
(* when the bounded queue overflowed; it is never shown after a later one. *)
Show(s) ==
    /\ shown[s] < shown'[s]
    /\ shown'[s] <= reported[s]
    /\ shown' = [shown EXCEPT ![s] = shown'[s]]
    /\ UNCHANGED reported

MirrorNext == \E s \in Slot : Report(s) \/ Show(s)

MirrorSpec == MirrorInit /\ [][MirrorNext]_mirrorVars

=============================================================================
