---------------------------- MODULE MCHostServices ----------------------------
(* Instances of HostServices for TLC.                                       *)
EXTENDS HostServices, TLC

CONSTANTS p1, p2, c1, c2

\* One command brings things up, while the other takes them down.
Split == (c1 :> {"up", "promote", "stop"}) @@ (c2 :> {"restart", "reset", "down"})

Interchangeable == Permutations(Pid)

=============================================================================
