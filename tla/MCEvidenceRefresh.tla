------------------------- MODULE MCEvidenceRefresh -------------------------
(* Instances of EvidenceRefresh for TLC.                                   *)
EXTENDS EvidenceRefresh

CONSTANTS pro, base, gate, dock

Row(id, source, camera, start, label, known, named, thumb) ==
    [id |-> id, source |-> source, camera |-> camera, start |-> start, label |-> label,
     known |-> known, named |-> named, thumb |-> thumb, latest |-> None]

(* The gate camera of the Pro has a recording that both indexes describe,  *)
(* whose row in the Pro has no image and no serial, and a newer one of     *)
(* which the Pro tells only as the camera's latest update.  The dock       *)
(* camera has one in the account index and in its HomeBase's, and a row of *)
(* the Pro that names neither serial nor channel carries the same label    *)
(* and start: three descriptions of one key.                               *)
MCRows ==
    {Row(1, "cloud", gate, 1, "gate", {"serial"}, TRUE, TRUE),
     Row(2, "aic", gate, 1, "old gate", {"slot"}, TRUE, FALSE),
     Row(3, "update", gate, 2, "old gate", {"slot"}, FALSE, TRUE),
     Row(4, "cloud", dock, 3, "gate dock", {"serial"}, TRUE, TRUE),
     Row(5, "local", dock, 3, "gate dock", {"serial"}, TRUE, TRUE),
     Row(6, "aic", gate, 3, "gate dock", {}, TRUE, FALSE)}

MCHome == (gate :> pro) @@ (dock :> base)
MCSlot == (gate :> 1) @@ (dock :> 1)
MCName == (gate :> "gate") @@ (dock :> "gate dock")
MCAlike ==
    {<<"gate", l>> : l \in {"gate", "old gate", "gate dock"}}
      \union {<<"gate dock", l>> : l \in {"gate", "gate dock"}}
      \union {<<"old gate", "old gate">>}

=============================================================================
