-------------------------------- MODULE UpRun ---------------------------------
(***************************************************************************)
(* What the commands on the projects of one workspace leave in the places  *)
(* they share: the workspace directory with the lock and raioz.root.json,  *)
(* the Docker network, the global state.json, and each project's checkout. *)
(* `up` runs under the lock; `down` and `clean --all` take none.           *)
(*                                                                         *)
(* Orchestration, the lock's own protocol, shared dependencies and the     *)
(* workspace proxy have modules of their own; here each is one step.       *)
(***************************************************************************)
EXTENDS Naturals, FiniteSets

CONSTANTS
    Cmd,        \* raioz processes
    Project,    \* the projects of the workspace
    Kinds,      \* what a running project consists of: "container", "host"
    Git,        \* projects whose host service is cloned into its `path:`
    NoFile,     \* no file at a path
    MaxStarts,  \* how many commands are started
    MaxFaults,  \* how many kills, failed clones, failed starts and failed stops
    MaxEdits    \* how many times a developer leaves uncommitted work in a checkout

ASSUME UpRunAssumption ==
    /\ Kinds \in [Project -> (SUBSET {"container", "host"}) \ {{}}]
    /\ Git \subseteq {p \in Project : "host" \in Kinds[p]}
    /\ NoFile \notin Cmd \cup Project
    /\ "dead" \notin Cmd
    /\ {MaxStarts, MaxFaults, MaxEdits} \subseteq Nat

VARIABLES
    lock,     \* .raioz.lock: NoFile, the process that created it, or "dead"
    rootFile, \* raioz.root.json: NoFile, "torn", or the project it describes
    net,      \* the workspace's network: NoFile, or the project on its label
    reg,      \* the projects in state.json
    runs,     \* what runs of each project
    tree,     \* each checkout: "none", "half" (a clone was cut), "clean", "work"
    stash,    \* how many pieces of uncommitted work its stash holds
    cmd,      \* the processes
    left,     \* the budgets: starts, faults, edits
    why       \* history: what may be amiss, and for what cause

vars == <<lock, rootFile, net, reg, runs, tree, stash, cmd, left, why>>

--------------------------------------------------------------------------------

Idle == [pc |-> "idle", proj |-> NoFile, force |-> FALSE, failed |-> FALSE,
         seen |-> {}, todo |-> {}]

\* Processes that have acquired the lock and have not released it.
Locked == {"prepare", "stop", "reclone", "clone", "cloning", "pull", "pop", "network", "images",
           "create", "volumes", "start", "endpoints", "unattached", "save", "load", "store", "post", "release"}
Tearing == {"down", "netdown", "leftovers", "rootdown", "walk", "sweep", "unload", "unstore"}
Pruning == {"prune", "probe", "drop", "undrop"}

In(c, where) == cmd[c].pc \in where
At(c, pc) == cmd[c].pc = pc
proj(c) == cmd[c].proj
Goto(c, pc) == cmd' = [cmd EXCEPT ![c].pc = pc]
End(c) == cmd' = [cmd EXCEPT ![c] = Idle]

Attached(p) == "container" \in runs[p]
Up(p) == runs[p] # {}

UpsInFlight(c) == {d \in Cmd \ {c} : In(d, Locked)}
\* Another command on c's project is under way.
Overlapped(c) == \E d \in Cmd \ {c} : proj(d) = proj(c)

Blame(S) ==
    why' = [why EXCEPT !.reg = @ \cup S, !.root = TRUE, !.net = TRUE]

Init ==
    /\ lock = NoFile /\ rootFile = NoFile /\ net = NoFile
    /\ reg = {} /\ runs = [p \in Project |-> {}]
    /\ tree \in [Project -> {"none", "work"}]
    /\ \A p \in Project \ Git : tree[p] = "none"
    /\ stash = [p \in Project |-> 0]
    /\ cmd = [c \in Cmd |-> Idle]
    /\ left = [starts |-> MaxStarts, faults |-> MaxFaults, edits |-> MaxEdits]
    /\ why = [lock |-> FALSE, reg |-> {}, root |-> FALSE, net |-> FALSE]

Start(c, job) ==
    /\ At(c, "idle")
    /\ left.starts > 0
    /\ left' = [left EXCEPT !.starts = @ - 1]
    /\ cmd' = [cmd EXCEPT ![c] = job]
    /\ UNCHANGED <<lock, rootFile, net, reg, runs, tree, stash, why>>

Fault == left.faults > 0 /\ left' = [left EXCEPT !.faults = @ - 1]

--------------------------------------------------------------------------------
(* up: the preflight and the lock *)

\* From bootstrap to the ports preflight nothing here is touched; each may refuse.
StartUp(c) == \E p \in Project, force \in BOOLEAN :
    /\ force => p \in Git
    /\ Start(c, [Idle EXCEPT !.pc = "lock", !.proj = p, !.force = force])

UpRefused(c) ==
    /\ At(c, "lock")
    /\ End(c)
    /\ UNCHANGED <<lock, rootFile, net, reg, runs, tree, stash, left, why>>

\* The hook runs before the lock is taken.
preHookFails(c) ==
    /\ At(c, "lock")
    /\ End(c)
    /\ UNCHANGED <<lock, rootFile, net, reg, runs, tree, stash, left, why>>

(***************************************************************************)
(* The lock of a process that has died is replaced.  A file created while  *)
(* a `down` has found the directory empty and is about to remove it goes   *)
(* with the directory.                                                     *)
(***************************************************************************)
acquireLock(c) ==
    /\ At(c, "lock")
    /\ lock \notin Cmd
    /\ lock' = c
    /\ Goto(c, "prepare")
    /\ why' = [why EXCEPT !.lock = @ \/ \E d \in Cmd : At(d, "sweep")]
    /\ UNCHANGED <<rootFile, net, reg, runs, tree, stash, left>>

LockTaken(c) ==
    /\ At(c, "lock")
    /\ lock \in Cmd
    /\ End(c)
    /\ UNCHANGED <<lock, rootFile, net, reg, runs, tree, stash, left, why>>

\* Release removes the path, whoever created the file.
Release(c) ==
    /\ At(c, "release")
    /\ lock' = NoFile
    /\ End(c)
    /\ UNCHANGED <<rootFile, net, reg, runs, tree, stash, left, why>>

--------------------------------------------------------------------------------
(* up: the checkout *)

cloneIntoDeclaredPath_Refresh(c) ==    \* variant: what is there is brought up to date
    IF proj(c) \notin Git THEN "images"
    ELSE IF cmd[c].force THEN "stop"
    ELSE IF tree[proj(c)] = "none" THEN "clone"
    ELSE "reclone"

\* A directory that exists is left as it is, whatever it holds.
cloneIntoDeclaredPath(c) ==
    IF proj(c) \notin Git THEN "images"
    ELSE IF cmd[c].force THEN "stop"
    ELSE IF tree[proj(c)] = "none" THEN "clone"
    ELSE "images"

processGitRepos(c) ==
    /\ At(c, "prepare")
    /\ Goto(c, cloneIntoDeclaredPath(c))
    /\ UNCHANGED <<lock, rootFile, net, reg, runs, tree, stash, left, why>>

(***************************************************************************)
(* A service is left alone when the state file cannot be read or does not  *)
(* have its PID, and a stop that fails is a warning; the run goes on.      *)
(* After a stop the workspace promises what no longer runs until the run   *)
(* succeeds.                                                               *)
(***************************************************************************)
stopGitServicesBeforeReclone(c) ==
    LET p == proj(c) IN
    /\ At(c, "stop")
    /\ \E rest \in {runs[p], runs[p] \ {"host"}} :
         /\ runs' = [runs EXCEPT ![p] = rest]
         /\ cmd' = [cmd EXCEPT ![c].pc = "reclone", ![c].failed = "host" \in rest]
         /\ IF rest # runs[p] THEN Blame({p}) ELSE UNCHANGED why
    /\ UNCHANGED <<lock, rootFile, net, reg, tree, stash, left>>

\* Uncommitted work goes with the directory, unasked, and the stash with it.
ForceReclone(c) ==
    /\ At(c, "reclone")
    /\ tree' = [tree EXCEPT ![proj(c)] = "none"]
    /\ stash' = [stash EXCEPT ![proj(c)] = 0]
    /\ Goto(c, "clone")
    /\ UNCHANGED <<lock, rootFile, net, reg, runs, left, why>>

\* git refuses a directory that is not empty.
RunClone(c, busy) ==
    /\ At(c, "clone")
    /\ IF tree[proj(c)] = "none"
       THEN tree' = [tree EXCEPT ![proj(c)] = "half"] /\ Goto(c, "cloning")
       ELSE UNCHANGED tree /\ Goto(c, busy)
    /\ UNCHANGED <<lock, rootFile, net, reg, runs, stash, left, why>>

\* A directory that has appeared since is used, and updated if it is a repository.
EnsureEditableRepo(c) ==
    /\ ~cmd[c].force
    /\ RunClone(c, IF tree[proj(c)] = "half" THEN "images" ELSE "pull")

CloneAnew(c) == cmd[c].force /\ RunClone(c, "release")

\* The branch is not there, or cannot be checked out.
EnsureBranchFails(c) ==
    /\ At(c, "pull")
    /\ Goto(c, "release")
    /\ UNCHANGED <<lock, rootFile, net, reg, runs, tree, stash, left, why>>

AfterPull(c) == \E next \in {"images", "release"} : Goto(c, next)

\* Uncommitted work is stashed for the pull; without any, or when git fails to
\* see or to stash it, the pull goes on without.
PullBranch(c) ==
    /\ At(c, "pull")
    /\ \/ /\ tree[proj(c)] = "work"
          /\ tree' = [tree EXCEPT ![proj(c)] = "clean"]
          /\ stash' = [stash EXCEPT ![proj(c)] = @ + 1]
          /\ Goto(c, "pop")
       \/ AfterPull(c) /\ UNCHANGED <<tree, stash>>
    /\ UNCHANGED <<lock, rootFile, net, reg, runs, left, why>>

(***************************************************************************)
(* A `git stash pop` that conflicts with what was pulled, or that comes    *)
(* when the time for the pull is up, is a warning: the work stays in the   *)
(* stash, and the tree may have part of it.                                *)
(***************************************************************************)
PopStash(c) ==
    /\ At(c, "pop")
    /\ AfterPull(c)
    /\ \/ UNCHANGED <<tree, stash>>
       \/ /\ stash[proj(c)] > 0 /\ tree[proj(c)] \in {"clean", "work"}
          /\ tree' = [tree EXCEPT ![proj(c)] = "work"]
          /\ stash' = [stash EXCEPT ![proj(c)] = @ - 1] \/ UNCHANGED stash
    /\ UNCHANGED <<lock, rootFile, net, reg, runs, left, why>>

CloneDone(c) ==
    /\ At(c, "cloning")
    /\ IF tree[proj(c)] = "half"
       THEN tree' = [tree EXCEPT ![proj(c)] = "clean"] /\ Goto(c, "images")
       ELSE UNCHANGED tree /\ Goto(c, "release")
    /\ UNCHANGED <<lock, rootFile, net, reg, runs, stash, left, why>>

(***************************************************************************)
(* git removes what it has cloned when it fails, and not when it is killed *)
(* at the deadline.                                                        *)
(***************************************************************************)
CloneFails(c) ==
    /\ At(c, "cloning")
    /\ Fault
    /\ \/ /\ tree' = [tree EXCEPT ![proj(c)] = "none"]
          /\ stash' = [stash EXCEPT ![proj(c)] = 0]
       \/ UNCHANGED <<tree, stash>>
    /\ Goto(c, "release")
    /\ UNCHANGED <<lock, rootFile, net, reg, runs, why>>

--------------------------------------------------------------------------------
(* up: network, volumes, orchestration *)

\* Pulled where they are missing; the check of the ports before finds no conflict.
ValidateAllImages(c) ==
    /\ At(c, "images")
    /\ \E next \in {"network", "release"} : Goto(c, next)
    /\ UNCHANGED <<lock, rootFile, net, reg, runs, tree, stash, left, why>>

\* An existing network is used as it is, whoever is on its label.
EnsureNetwork(c) ==
    /\ At(c, "network")
    /\ Goto(c, IF net = NoFile THEN "create" ELSE "volumes")
    /\ UNCHANGED <<lock, rootFile, net, reg, runs, tree, stash, left, why>>

CreateNetwork(c) ==
    /\ At(c, "create")
    /\ IF net = NoFile
       THEN net' = proj(c) /\ Goto(c, "volumes")
       ELSE UNCHANGED net /\ Goto(c, "release")
    /\ UNCHANGED <<lock, rootFile, reg, runs, tree, stash, left, why>>

EnsureVolumes(c) ==
    /\ At(c, "volumes")
    /\ Goto(c, "start")
    /\ UNCHANGED <<lock, rootFile, net, reg, runs, tree, stash, left, why>>

\* The network that was just created stays: only a failed orchestration sweeps it.
EnsureVolumesFails(c) ==
    /\ At(c, "volumes")
    /\ Fault
    /\ why' = [why EXCEPT !.net = TRUE]
    /\ Goto(c, "release")
    /\ UNCHANGED <<lock, rootFile, net, reg, runs, tree, stash>>

\* Containers cannot start on a network that has gone.
processOrchestration(c) ==
    /\ At(c, "start")
    /\ "container" \in Kinds[proj(c)] => net # NoFile
    /\ runs' = [runs EXCEPT ![proj(c)] = Kinds[proj(c)]]
    /\ IF Overlapped(c) THEN Blame({proj(c)}) ELSE why' = [why EXCEPT !.net = FALSE]
    /\ Goto(c, "save")
    /\ UNCHANGED <<lock, rootFile, net, reg, tree, stash, left>>

\* The dependencies' containers may be up when a later step fails, and stay.
OrchestrationFails(c) ==
    /\ At(c, "start")
    /\ IF "container" \in Kinds[proj(c)] /\ net = NoFile
       THEN UNCHANGED <<runs, left, why>>
       ELSE /\ Fault
            /\ \E new \in SUBSET (Kinds[proj(c)] \cap {"container"}) :
                 runs' = [runs EXCEPT ![proj(c)] = @ \cup new]
            /\ why' = [why EXCEPT !.reg = @ \cup {proj(c)}, !.root = TRUE]
    /\ Goto(c, "unattached")
    /\ UNCHANGED <<lock, rootFile, net, reg, tree, stash>>

Unattached == \A p \in Project : ~Attached(p)

removeUnusedNetworks_Skipped(c) ==    \* variant: a failed run leaves the network
    /\ At(c, "unattached")
    /\ Goto(c, "release")
    /\ UNCHANGED <<lock, rootFile, net, reg, runs, tree, stash, left, why>>

removeUnusedNetworks(c) ==
    /\ At(c, "unattached")
    /\ net' = IF net = proj(c) /\ Unattached THEN NoFile ELSE net
    /\ Goto(c, "release")
    /\ UNCHANGED <<lock, rootFile, reg, runs, tree, stash, left, why>>

--------------------------------------------------------------------------------
(* up: what it records *)

UpdateFromDeps(old, p) == p     \* nothing of another project's services stays
GenerateFromDeps(p) == p

\* A file that does not parse is generated anew.
saveState(c) ==
    /\ At(c, "save")
    /\ rootFile' = IF rootFile \in Project THEN UpdateFromDeps(rootFile, proj(c))
                   ELSE GenerateFromDeps(proj(c))
    /\ why' = [why EXCEPT !.root = ~Up(proj(c))]
    /\ Goto(c, "load")
    /\ UNCHANGED <<lock, net, reg, runs, tree, stash, left>>

LoadGlobalState(c, from, to) ==
    /\ At(c, from)
    /\ cmd' = [cmd EXCEPT ![c].pc = to, ![c].seen = reg]
    /\ UNCHANGED <<lock, rootFile, net, reg, runs, tree, stash, left, why>>

\* Entries that others added or removed since c read the file.
Overwritten(c) == (reg \ cmd[c].seen) \cup (cmd[c].seen \ reg)

\* The whole map is written back, as it was read but for c's entry.
SaveGlobalState(c, new) ==
    /\ reg' = new
    /\ why' = [why EXCEPT !.reg = (@ \cup Overwritten(c)) \
          {p \in {proj(c)} : ~Overlapped(c) /\ (p \in new) = Up(p)}]

UpdateProjectState(c) ==
    /\ At(c, "store")
    /\ SaveGlobalState(c, cmd[c].seen \cup {proj(c)})
    /\ cmd' = [cmd EXCEPT ![c].pc = "endpoints", ![c].seen = {}]
    /\ UNCHANGED <<lock, rootFile, net, runs, tree, stash, left>>

\* One deadline for all services; one that does not answer is a warning.
waitForServiceEndpoints(c) ==
    /\ At(c, "endpoints")
    /\ Goto(c, "post")
    /\ UNCHANGED <<lock, rootFile, net, reg, runs, tree, stash, left, why>>

\* Under the lock, with no deadline; its failure is a warning.
postHookExec(c) ==
    /\ At(c, "post")
    /\ Goto(c, "release")
    /\ UNCHANGED <<lock, rootFile, net, reg, runs, tree, stash, left, why>>

--------------------------------------------------------------------------------
(* down *)

StartDown(c) == \E p \in Project : Start(c, [Idle EXCEPT !.pc = "down", !.proj = p])

StopProject(c) ==
    /\ At(c, "down")
    /\ runs' = [runs EXCEPT ![proj(c)] = {}]
    /\ IF Overlapped(c) THEN Blame({proj(c)}) ELSE UNCHANGED why
    /\ Goto(c, "netdown")
    /\ UNCHANGED <<lock, rootFile, net, reg, tree, stash, left>>

\* A custom `stop:` that fails, or containers that do not go.
StopFails(c) ==
    /\ At(c, "down")
    /\ Fault
    /\ \E rest \in SUBSET runs[proj(c)], failed \in BOOLEAN :
         /\ failed \/ rest = {"container"}
         /\ runs' = [runs EXCEPT ![proj(c)] = rest]
         /\ cmd' = [cmd EXCEPT ![c].pc = "netdown", ![c].failed = failed]
    /\ Blame({proj(c)})
    /\ UNCHANGED <<lock, rootFile, net, reg, tree, stash>>

(***************************************************************************)
(* By name, whoever created it, and then by label.  An `up` may have found *)
(* the network and not be attached to it yet.                              *)
(***************************************************************************)
removeNetwork(c) ==
    /\ At(c, "netdown")
    /\ IF Unattached
       THEN net' = NoFile /\ why' = [why EXCEPT !.net = FALSE]
       ELSE UNCHANGED <<net, why>>
    /\ Goto(c, "leftovers")
    /\ UNCHANGED <<lock, rootFile, reg, runs, tree, stash, left>>

\* A `stop:` that failed ends the command here, as do containers left behind.
KeepsState(c) ==
    /\ At(c, "leftovers")
    /\ cmd[c].failed \/ Attached(proj(c))
    /\ End(c)
    /\ UNCHANGED <<lock, rootFile, net, reg, runs, tree, stash, left, why>>

\* Containers only: a sibling made of host processes is not seen.
otherWorkspaceProjectsActive(c) == \E q \in Project \ {proj(c)} : Attached(q)

NoLeftovers(c) ==
    /\ At(c, "leftovers")
    /\ ~cmd[c].failed /\ ~Attached(proj(c))
    /\ Goto(c, IF otherWorkspaceProjectsActive(c) THEN "unload" ELSE "rootdown")
    /\ UNCHANGED <<lock, rootFile, net, reg, runs, tree, stash, left, why>>

\* Projects that still need the file when it is deleted.
StillNeeded(c) == UpsInFlight(c) # {} \/ \E q \in Project : Up(q)

deleteRoot(c) ==
    /\ At(c, "rootdown")
    /\ rootFile' = NoFile
    /\ why' = [why EXCEPT !.root = StillNeeded(c)]
    /\ Goto(c, "walk")
    /\ UNCHANGED <<lock, net, reg, runs, tree, stash, left>>

HoldsNoFile == lock = NoFile /\ rootFile = NoFile

removeIfHoldsNoFile_LockIgnored(c) ==    \* variant: the lock does not count as a file
    /\ At(c, "walk")
    /\ Goto(c, IF rootFile = NoFile THEN "sweep" ELSE "unload")
    /\ UNCHANGED <<lock, rootFile, net, reg, runs, tree, stash, left, why>>

removeIfHoldsNoFile(c) ==
    /\ At(c, "walk")
    /\ Goto(c, IF HoldsNoFile THEN "sweep" ELSE "unload")
    /\ UNCHANGED <<lock, rootFile, net, reg, runs, tree, stash, left, why>>

RemoveAll(c) ==
    /\ At(c, "sweep")
    /\ lock' = NoFile /\ rootFile' = NoFile
    /\ why' = [why EXCEPT !.root = @ \/ StillNeeded(c)]
    /\ Goto(c, "unload")
    /\ UNCHANGED <<net, reg, runs, tree, stash, left>>

RemoveProject(c) ==
    /\ At(c, "unstore")
    /\ SaveGlobalState(c, cmd[c].seen \ {proj(c)})
    /\ End(c)
    /\ UNCHANGED <<lock, rootFile, net, runs, tree, stash, left>>

--------------------------------------------------------------------------------
(* clean --all *)

StartClean(c) == Start(c, [Idle EXCEPT !.pc = "prune"])

pruneStaleProjectStates(c) ==
    /\ At(c, "prune")
    /\ IF reg = {} THEN End(c)
       ELSE cmd' = [cmd EXCEPT ![c].pc = "probe", ![c].todo = reg]
    /\ UNCHANGED <<lock, rootFile, net, reg, runs, tree, stash, left, why>>

projectStateIsLive_ContainersOnly(c) ==    \* variant: recorded processes do not count
    /\ At(c, "probe")
    /\ \E p \in cmd[c].todo :
         cmd' = IF ~Attached(p) THEN [cmd EXCEPT ![c].pc = "drop", ![c].proj = p]
                ELSE IF cmd[c].todo = {p} THEN [cmd EXCEPT ![c] = Idle]
                ELSE [cmd EXCEPT ![c].todo = @ \ {p}]
    /\ UNCHANGED <<lock, rootFile, net, reg, runs, tree, stash, left, why>>

\* A recorded process that is alive, or containers.
projectStateIsLive(c) ==
    /\ At(c, "probe")
    /\ \E p \in cmd[c].todo :
         cmd' = IF ~Up(p) THEN [cmd EXCEPT ![c].pc = "drop", ![c].proj = p]
                ELSE IF cmd[c].todo = {p} THEN [cmd EXCEPT ![c] = Idle]
                ELSE [cmd EXCEPT ![c].todo = @ \ {p}]
    /\ UNCHANGED <<lock, rootFile, net, reg, runs, tree, stash, left, why>>

Deregister(c) ==
    /\ At(c, "undrop")
    /\ SaveGlobalState(c, cmd[c].seen \ {proj(c)})
    /\ LET rest == cmd[c].todo \ {proj(c)} IN
       cmd' = [cmd EXCEPT ![c] =
          IF rest = {} THEN Idle ELSE [Idle EXCEPT !.pc = "probe", !.todo = rest]]
    /\ UNCHANGED <<lock, rootFile, net, runs, tree, stash, left>>

--------------------------------------------------------------------------------
(* The environment *)

\* A developer works in a checkout, or in one they have made themselves.
Edit == \E p \in Git :
    /\ left.edits > 0 /\ tree[p] \in {"none", "clean"}
    /\ tree' = [tree EXCEPT ![p] = "work"]
    /\ left' = [left EXCEPT !.edits = @ - 1]
    /\ UNCHANGED <<lock, rootFile, net, reg, runs, stash, cmd, why>>

\* What a step that is cut short may leave: part of a file, of a start, of a stop.
Partly(c) ==
    LET p == proj(c) IN
    /\ \E f \in IF At(c, "save") THEN {rootFile, "torn"} ELSE {rootFile} : rootFile' = f
    /\ \E r \in IF At(c, "start") /\ net # NoFile
                THEN {runs[p], runs[p] \cup (Kinds[p] \cap {"container"})}
                ELSE IF At(c, "down") THEN SUBSET runs[p] ELSE {runs[p]} :
         runs' = [runs EXCEPT ![p] = r]
    /\ Blame({p})

Kill(c) ==
    /\ ~At(c, "idle")
    /\ Fault
    /\ lock' = IF lock = c THEN "dead" ELSE lock
    /\ IF In(c, Locked \cup Tearing)
       THEN Partly(c)
       ELSE UNCHANGED <<rootFile, runs, why>>
    /\ End(c)
    /\ UNCHANGED <<net, reg, tree, stash>>

--------------------------------------------------------------------------------

UpCommand(c) ==
    \/ StartUp(c) \/ UpRefused(c) \/ preHookFails(c) \/ acquireLock(c) \/ LockTaken(c)
    \/ processGitRepos(c) \/ stopGitServicesBeforeReclone(c) \/ ForceReclone(c)
    \/ EnsureEditableRepo(c) \/ CloneAnew(c) \/ EnsureBranchFails(c) \/ PullBranch(c)
    \/ PopStash(c) \/ CloneDone(c)
    \/ CloneFails(c) \/ ValidateAllImages(c) \/ EnsureNetwork(c) \/ CreateNetwork(c)
    \/ EnsureVolumes(c) \/ EnsureVolumesFails(c) \/ processOrchestration(c) \/ OrchestrationFails(c)
    \/ removeUnusedNetworks(c) \/ saveState(c) \/ LoadGlobalState(c, "load", "store")
    \/ UpdateProjectState(c)
    \/ waitForServiceEndpoints(c) \/ postHookExec(c) \/ Release(c)

Down(c) ==
    \/ StartDown(c) \/ StopProject(c) \/ StopFails(c) \/ removeNetwork(c) \/ KeepsState(c)
    \/ NoLeftovers(c) \/ deleteRoot(c) \/ removeIfHoldsNoFile(c) \/ RemoveAll(c)
    \/ LoadGlobalState(c, "unload", "unstore") \/ RemoveProject(c)

Clean(c) ==
    \/ StartClean(c) \/ pruneStaleProjectStates(c) \/ projectStateIsLive(c)
    \/ LoadGlobalState(c, "drop", "undrop") \/ Deregister(c)

Next == \/ \E c \in Cmd : UpCommand(c) \/ Down(c) \/ Clean(c) \/ Kill(c)
        \/ Edit

Spec == Init /\ [][Next]_vars

--------------------------------------------------------------------------------
(* Properties *)

CmdState ==
    [pc : {"idle", "lock"} \cup Locked \cup Tearing \cup Pruning,
     proj : Project \cup {NoFile}, force : BOOLEAN, failed : BOOLEAN,
     seen : SUBSET Project, todo : SUBSET Project]

\* Every variable keeps its type.
TypeOK ==
    /\ lock \in Cmd \cup {NoFile, "dead"}
    /\ rootFile \in Project \cup {NoFile, "torn"}
    /\ net \in Project \cup {NoFile}
    /\ reg \subseteq Project
    /\ runs \in [Project -> SUBSET {"container", "host"}]
    /\ \A p \in Project : runs[p] \subseteq Kinds[p]
    /\ tree \in [Project -> {"none", "half", "clean", "work"}]
    /\ stash \in [Project -> Nat]
    /\ cmd \in [Cmd -> CmdState]
    /\ left \in [starts : 0 .. MaxStarts, faults : 0 .. MaxFaults, edits : 0 .. MaxEdits]
    /\ why \in [lock : BOOLEAN, reg : SUBSET Project, root : BOOLEAN, net : BOOLEAN]

AtRest == \A c \in Cmd : At(c, "idle")

(***************************************************************************)
(* Two `up`s of a workspace are past the lock together only when a `down`  *)
(* removed the directory it had found empty and the lock that one of them  *)
(* had just created in it (down_tidy.go:56).                               *)
(***************************************************************************)
OneUpAtATime ==
    \A c, d \in Cmd : In(c, Locked) /\ In(d, Locked) /\ c # d => why.lock

(***************************************************************************)
(* When no command is under way, state.json lists exactly the projects     *)
(* that run, unless something cut in: a save that overwrote another one's  *)
(* (global.go:119), two commands on one project, a kill, a failed step.    *)
(***************************************************************************)
RegistryTrue ==
    AtRest => \A p \in Project : (p \in reg) = Up(p) \/ p \in why.reg

(***************************************************************************)
(* When no command is under way, raioz.root.json is there exactly while a  *)
(* project of the workspace runs, and the network only then; the causes    *)
(* that excuse it include a `down` whose siblings are host processes only  *)
(* (down_tidy.go:88), volumes that fail after the network was created and  *)
(* a --force-reclone that stops a project and goes no further.             *)
(***************************************************************************)
WorkspaceTrue ==
    AtRest =>
        /\ (rootFile # NoFile) = (\E p \in Project : Up(p)) \/ why.root
        /\ net # NoFile => (\E p \in Project : Up(p)) \/ why.net

\* c deletes the checkout of p because it was asked to, and no host service runs
\* from it but one that c's own stop has left: not on record, or not to be stopped.
Forced(c, p) == cmd[c].force /\ proj(c) = p /\ ("host" \notin runs[p] \/ cmd[c].failed)

(***************************************************************************)
(* Uncommitted work leaves the working tree only for the stash of the      *)
(* checkout, and the stash only for the working tree, unless the user asked*)
(* for --force-reclone.  That does not delete under a service that runs    *)
(* from the checkout, but for one that this run's stop has left running: it*)
(* is not on record (host_lifecycle.go:197) or could not be stopped (:214),*)
(* and the run goes on.  The other exception is the race above, which lets *)
(* two `up`s run together.                                                 *)
(***************************************************************************)
WorkGoesByForce ==
    [][\A p \in Project :
         \/ tree[p] = "work" /\ tree'[p] # "work" /\ stash'[p] <= stash[p]
         \/ stash'[p] < stash[p] /\ tree'[p] # "work"
         => why.lock \/ \E c \in Cmd : Forced(c, p)]_vars

--------------------------------------------------------------------------------
(* The inductive strengthening of TypeOK, OneUpAtATime and WorkGoesByForce. *)

\* A command on a project knows which, and only a forced one deletes.
Asked == \A c \in Cmd :
    /\ ~In(c, {"idle", "prune", "probe"}) => proj(c) \in Project
    /\ In(c, {"stop", "reclone"}) => cmd[c].force

\* Whoever is past the lock created the file that is there, and nobody is about
\* to remove it.
LockHeld ==
    /\ \A c \in Cmd : In(c, Locked) => lock = c
    /\ \A c, d \in Cmd : At(d, "sweep") => ~In(c, Locked)

\* A stop comes before the checkout goes; a clone is whole or half.
CheckoutSafe == \A c \in Cmd :
    /\ At(c, "reclone") => "host" \notin runs[proj(c)] \/ cmd[c].failed
    /\ At(c, "cloning") => tree[proj(c)] = "half"

\* A stash goes with the repository it is in.
StashInRepo == \A p \in Project : tree[p] \in {"none", "half"} => stash[p] = 0

IInv == TypeOK /\ Asked /\ StashInRepo /\ (why.lock \/ (LockHeld /\ CheckoutSafe))

(* The strengthening of RegistryTrue and WorkspaceTrue. *)

\* Between a start or a stop and the save that tells of it.
Entering == {"save", "load", "store"}
Leaving == Tearing \ {"down"}

\* A `down` that goes on after a failed stop is remembered.
FailureKnown == \A c \in Cmd : cmd[c].failed =>
    In(c, Locked) \/ (In(c, {"netdown", "leftovers"}) /\ proj(c) \in why.reg)

\* A command that is to save how its project stands is right about it.
Knows(c, p) == proj(c) = p =>
    /\ In(c, Entering) => Up(p)
    /\ In(c, Leaving \cup {"drop", "undrop"}) => ~Up(p)
Owes(c, p) == proj(c) = p /\ In(c, Entering \cup Leaving)

\* The registry is right unless the command that will set it right is on its way.
KeptFor(p) ==
    /\ \A c \in Cmd : Knows(c, p)
    /\ (p \in reg) = Up(p) \/ \E c \in Cmd : Owes(c, p)
RegistryKept == \A p \in Project \ why.reg : KeptFor(p)

SomeUp == \E p \in Project : Up(p)

\* A file that is missing is about to be written, one too many to be deleted.
RootKept == ~why.root =>
    /\ rootFile = NoFile /\ SomeUp => \E c \in Cmd : At(c, "save")
    /\ rootFile # NoFile /\ ~SomeUp =>
          \E c \in Cmd : In(c, {"netdown", "leftovers", "rootdown"}) /\ ~cmd[c].failed

\* A network that nobody uses has a `down` on its way to remove it or an `up`
\* that made it and will either use it or remove it.
NetKept == ~why.net /\ net # NoFile /\ ~SomeUp =>
    \E c \in Cmd : \/ At(c, "netdown")
                   \/ In(c, {"volumes", "start", "unattached"}) /\ net = proj(c)

SharedInv == IInv /\ FailureKnown /\ RegistryKept /\ RootKept /\ NetKept

================================================================================
