--------------------------- MODULE MCCameraStream ---------------------------
(* Explicit starts and stops, two viewers and a capture over two sessions. *)
EXTENDS CameraStream, TLC

Symmetry == Permutations(Viewer)

=============================================================================
