----------------------- MODULE MCCoordinatorLifecycle -----------------------
(* Instances of CoordinatorLifecycle for TLC.                              *)
EXTENDS CoordinatorLifecycle

CONSTANTS c1, c2, c3, c4
=============================================================================
