------------------------------ MODULE MCBoard -------------------------------
(* Instances of Board for TLC. *)
EXTENDS Board, TLC

CONSTANTS a1, a2, v1, v2
=============================================================================
