-------------------------- MODULE MCWorkspaceProxy --------------------------
(* Instances of WorkspaceProxy for TLC.                                     *)
EXTENDS WorkspaceProxy, TLC

CONSTANTS a, b, i1, i2, i3

LockFiles == Permutations(Inode)

=============================================================================
