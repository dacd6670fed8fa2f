---------------------------- MODULE MCRefcountFile ----------------------------
(* RefcountFile for TLC.  Two goroutines of one process, the up of project a *)
(* and a reader beside it, and another process that comes and goes for       *)
(* project b and, as clean does, may drop a dead reference of a.             *)
EXTENDS RefcountFile, TLC

CONSTANTS c1, c2, c3, p1, p2, a, b

MCProcOf == (c1 :> p1) @@ (c2 :> p1) @@ (c3 :> p2)

By(p, ops) == {k \in Call : k.project = p /\ k.op \in ops}

MCAsks ==
    (c1 :> By(a, {"AddRef", "DropRef"})) @@
    (c2 :> By(a, {"AddRef", "Snapshot"})) @@
    (c3 :> By(b, {"AddRef", "DropRef"}) \cup By(a, {"DropRef"}))

=============================================================================
