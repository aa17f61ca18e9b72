------------------------ MODULE MCProEventCollector ------------------------
(* Two covers through a window of one; replies come any number of times.   *)
EXTENDS ProEventCollector

=============================================================================
