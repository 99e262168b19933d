---------------------------------- MODULE MCSweep ----------------------------------
(* Two batch sizes, one request of another client, threads that get recycled names. *)
EXTENDS Sweep
=============================================================================
