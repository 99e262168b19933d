--------------------------- MODULE MCTritonServer ---------------------------
(* TritonServer for TLC. *)
EXTENDS TritonServer

CONSTANTS s1, s2, t1

=============================================================================
