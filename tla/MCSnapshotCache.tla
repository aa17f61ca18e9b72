-------------------------- MODULE MCSnapshotCache --------------------------
(* SnapshotCache over behaviours of a few frames; the configurations give  *)
(* the bounds.                                                             *)
EXTENDS SnapshotCache

=============================================================================
