---------------------------- MODULE MCProjectLock ----------------------------
(* Instances of ProjectLock for TLC. *)
EXTENDS ProjectLock

CONSTANTS p1, p2, p3

=============================================================================
