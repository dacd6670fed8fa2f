----------------------------- MODULE MCSharedDeps -----------------------------
(* Instances of SharedDeps for TLC.                                         *)
EXTENDS SharedDeps, TLC

CONSTANTS a, b, k

SameDeps == [p \in Project |-> Dep]

\* In a workspace every `up` takes the lock of the workspace, and a
\* selective `down` that of its project.
WorkspaceLock == [p \in Project |-> "workspace"]
OwnLock == [p \in Project |-> p]

=============================================================================
