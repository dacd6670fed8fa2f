---------------------------- MODULE MCSiblingSpawn ----------------------------
(* Instances of SiblingSpawn for TLC.                                       *)
EXTENDS SiblingSpawn, TLC

CONSTANTS a, b, c, u1, u2, x1, x2

\* a and b need each other, and c needs a and would rather use b.
PairA == (a :> {b}) @@ (b :> {a}) @@ (c :> {a})
PairB == (a :> {}) @@ (b :> {}) @@ (c :> {b})

\* One user starts c and one a.
StartCorA == (u1 :> {c}) @@ (u2 :> {a})

\* The lock of a workspace.
OneLock == [p \in Project |-> "workspace"]

=============================================================================
