----------------------------- MODULE UpRunProofs ------------------------------
(***************************************************************************)
(* For any projects and any number of processes: who is past the workspace *)
(* lock is alone there unless a `down` swept a fresh lock away, no         *)
(* uncommitted work goes but by --force-reclone, and between commands the  *)
(* registry, raioz.root.json and the network tell what runs, with the      *)
(* causes that excuse them.                                                *)
(***************************************************************************)
EXTENDS UpRun, TLAPS

LEMMA IdleType == Idle \in CmdState
  BY DEF Idle, CmdState

\* Blame and the saves of the registry change no other part of `why`.
LEMMA BlameType ==
  ASSUME TypeOK, NEW S \in SUBSET Project, Blame(S)
  PROVE  why' \in [lock : BOOLEAN, reg : SUBSET Project, root : BOOLEAN, net : BOOLEAN]
  BY DEF TypeOK, Blame

LEMMA GotoType ==
  ASSUME TypeOK, NEW c \in Cmd, NEW pc \in {"idle", "lock"} \cup Locked \cup Tearing \cup Pruning,
         Goto(c, pc)
  PROVE  cmd' \in [Cmd -> CmdState]
  BY DEF TypeOK, Goto, CmdState

LEMMA EndType ==
  ASSUME TypeOK, NEW c \in Cmd, End(c)
  PROVE  cmd' \in [Cmd -> CmdState]
  BY IdleType DEF TypeOK, End

\* The stop before a reclone: where it takes its command, and what it leaves.
LEMMA StopGoes ==
  ASSUME TypeOK, NEW c \in Cmd, stopGitServicesBeforeReclone(c)
  PROVE  /\ cmd' \in [Cmd -> CmdState]
         /\ \A d \in Cmd \ {c} : cmd'[d] = cmd[d]
         /\ cmd'[c].pc = "reclone" /\ cmd'[c].proj = cmd[c].proj
         /\ cmd'[c].force = cmd[c].force
         /\ "host" \in runs'[proj(c)] /\ proj(c) \in Project => cmd'[c].failed
<1>0. cmd \in [Cmd -> CmdState] /\ cmd[c] \in CmdState
  BY DEF TypeOK
<1>1. PICK rest \in {runs[proj(c)], runs[proj(c)] \ {"host"}} :
        /\ runs' = [runs EXCEPT ![proj(c)] = rest]
        /\ cmd' = [cmd EXCEPT ![c].pc = "reclone", ![c].failed = "host" \in rest]
  BY DEF stopGitServicesBeforeReclone
<1> DEFINE failed == "host" \in rest
<1>2. failed \in BOOLEAN /\ cmd' = [cmd EXCEPT ![c].pc = "reclone", ![c].failed = failed]
  BY <1>1
<1> HIDE DEF failed
<1>3. cmd' = [cmd EXCEPT ![c] = [cmd[c] EXCEPT !.pc = "reclone", !.failed = failed]]
  BY <1>0, <1>2, ZenonT(60)
<1>4. [cmd[c] EXCEPT !.pc = "reclone", !.failed = failed] \in CmdState
  BY <1>0, <1>2 DEF CmdState, Locked
<1>5. cmd'[c] = [cmd[c] EXCEPT !.pc = "reclone", !.failed = failed]
  BY <1>0, <1>3
<1>6. /\ cmd'[c].pc = "reclone" /\ cmd'[c].proj = cmd[c].proj
      /\ cmd'[c].force = cmd[c].force /\ cmd'[c].failed = failed
  BY <1>0, <1>5 DEF CmdState
<1>7. proj(c) \in Project => runs'[proj(c)] = rest
  BY <1>1 DEF TypeOK
<1> QED
  BY <1>0, <1>3, <1>4, <1>6, <1>7 DEF failed

LEMMA StopLeaves ==
  ASSUME TypeOK, Asked, NEW c \in Cmd, stopGitServicesBeforeReclone(c)
  PROVE  /\ proj(c) \in Project
         /\ runs' \in [Project -> SUBSET {"container", "host"}]
         /\ \A p \in Project : runs'[p] \subseteq runs[p]
         /\ \A p \in Project : p # proj(c) => runs'[p] = runs[p]
         /\ Blame({proj(c)}) \/ (runs' = runs /\ why' = why)
<1>1. proj(c) \in Project
  BY DEF Asked, stopGitServicesBeforeReclone, At, In
<1>2. PICK rest \in {runs[proj(c)], runs[proj(c)] \ {"host"}} :
        /\ runs' = [runs EXCEPT ![proj(c)] = rest]
        /\ IF rest # runs[proj(c)] THEN Blame({proj(c)}) ELSE UNCHANGED why
  BY DEF stopGitServicesBeforeReclone
<1>3. runs \in [Project -> SUBSET {"container", "host"}] /\ rest \subseteq runs[proj(c)]
  BY DEF TypeOK
<1> QED
  BY <1>1, <1>2, <1>3

LEMMA LoadType ==
  ASSUME TypeOK, NEW c \in Cmd, NEW from, NEW to \in Locked \cup Tearing \cup Pruning,
         LoadGlobalState(c, from, to)
  PROVE  TypeOK'
<1>0. cmd[c] \in CmdState /\ reg \subseteq Project
  BY DEF TypeOK
<1>1. [cmd[c] EXCEPT !.pc = to, !.seen = reg] \in CmdState
  BY <1>0 DEF CmdState
<1>2. cmd' = [cmd EXCEPT ![c] = [cmd[c] EXCEPT !.pc = to, !.seen = reg]]
  BY DEF LoadGlobalState, TypeOK, CmdState
<1> QED
  BY <1>1, <1>2 DEF LoadGlobalState, TypeOK

\* A save of the registry leaves projects in it, and blames projects.
LEMMA SaveType ==
  ASSUME TypeOK, NEW c \in Cmd, NEW new \in SUBSET Project, SaveGlobalState(c, new)
  PROVE  /\ reg' \subseteq Project
         /\ why' \in [lock : BOOLEAN, reg : SUBSET Project, root : BOOLEAN, net : BOOLEAN]
<1>1. Overwritten(c) \subseteq Project
  BY DEF TypeOK, CmdState, Overwritten
<1> QED
  BY <1>1 DEF SaveGlobalState, TypeOK

LEMMA InitIInv == Init => IInv
<1> SUFFICES ASSUME Init PROVE IInv
  OBVIOUS
<1>1. TypeOK
  BY IdleType, UpRunAssumption DEF Init, TypeOK
<1>2. \A c \in Cmd : cmd[c].pc = "idle"
  BY DEF Init, Idle
<1>3. Asked /\ LockHeld /\ CheckoutSafe
  BY <1>2 DEF Asked, LockHeld, CheckoutSafe, In, At, Locked
<1>4. StashInRepo
  BY DEF Init, StashInRepo
<1> QED
  BY <1>1, <1>3, <1>4 DEF IInv

LEMMA UpTypes ==
  ASSUME TypeOK, Asked, NEW c \in Cmd, UpCommand(c)
  PROVE  TypeOK'
<1> USE UpRunAssumption
<1>1. CASE StartUp(c)
  <2>1. PICK p \in Project, force \in BOOLEAN :
          Start(c, [Idle EXCEPT !.pc = "lock", !.proj = p, !.force = force])
    BY <1>1 DEF StartUp
  <2>2. [Idle EXCEPT !.pc = "lock", !.proj = p, !.force = force] \in CmdState
    BY DEF Idle, CmdState
  <2>3. left' \in [starts : 0 .. MaxStarts, faults : 0 .. MaxFaults, edits : 0 .. MaxEdits]
    BY <2>1 DEF Start, TypeOK
  <2> QED
    BY <2>1, <2>2, <2>3 DEF Start, TypeOK
<1>2. CASE UpRefused(c) \/ preHookFails(c) \/ LockTaken(c)
  BY <1>2, EndType DEF UpRefused, preHookFails, LockTaken, TypeOK
<1>3. CASE acquireLock(c)
  <2>1. cmd' \in [Cmd -> CmdState]
    BY <1>3, GotoType DEF acquireLock, Locked
  <2> QED
    BY <1>3, <2>1 DEF acquireLock, TypeOK
<1>4. CASE processGitRepos(c) \/ EnsureNetwork(c) \/ EnsureVolumes(c)
           \/ waitForServiceEndpoints(c) \/ postHookExec(c)
           \/ ValidateAllImages(c)
  <2>1. cmd' \in [Cmd -> CmdState]
    BY <1>4, GotoType DEF processGitRepos, cloneIntoDeclaredPath, EnsureNetwork, EnsureVolumes,
       waitForServiceEndpoints, postHookExec, ValidateAllImages, Locked
  <2>2. UNCHANGED <<lock, rootFile, net, reg, runs, tree, stash, left, why>>
    BY <1>4 DEF processGitRepos, EnsureNetwork, EnsureVolumes,
       waitForServiceEndpoints, postHookExec, ValidateAllImages
  <2> QED
    BY <2>1, <2>2 DEF TypeOK
<1>5. CASE stopGitServicesBeforeReclone(c)
  <2>1. cmd' \in [Cmd -> CmdState]
    BY <1>5, StopGoes
  <2>2. proj(c) \in Project
    BY <1>5, StopLeaves
  <2>3. /\ runs' \in [Project -> SUBSET {"container", "host"}]
        /\ \A p \in Project : runs'[p] \subseteq Kinds[p]
    BY <1>5, StopLeaves DEF TypeOK
  <2>4. why' \in [lock : BOOLEAN, reg : SUBSET Project, root : BOOLEAN, net : BOOLEAN]
    <3>1. CASE Blame({proj(c)})
      BY <2>2, <3>1, BlameType
    <3>2. CASE why' = why
      BY <3>2 DEF TypeOK
    <3> QED
      BY <1>5, <3>1, <3>2, StopLeaves
  <2> QED
    BY <1>5, <2>1, <2>3, <2>4 DEF stopGitServicesBeforeReclone, TypeOK
<1>6. CASE ForceReclone(c) \/ EnsureEditableRepo(c) \/ CloneAnew(c) \/ EnsureBranchFails(c) \/ PullBranch(c) \/ PopStash(c)
           \/ CloneDone(c) \/ CloneFails(c)
  <2>1. cmd' \in [Cmd -> CmdState]
    BY <1>6, GotoType DEF ForceReclone, EnsureEditableRepo, CloneAnew, RunClone, EnsureBranchFails, PullBranch, PopStash, AfterPull,
       CloneDone, CloneFails, Locked
  <2>2. tree' \in [Project -> {"none", "half", "clean", "work"}]
    BY <1>6 DEF ForceReclone, EnsureEditableRepo, CloneAnew, RunClone, EnsureBranchFails, PullBranch, PopStash, AfterPull,
       CloneDone, CloneFails, TypeOK
  <2>4. stash' \in [Project -> Nat]
    <3>1. stash \in [Project -> Nat]
      BY DEF TypeOK
    <3>2. CASE PopStash(c)
      <4>1. \/ stash' = stash
            \/ stash[proj(c)] > 0 /\ stash' = [stash EXCEPT ![proj(c)] = @ - 1]
        BY <3>2 DEF PopStash
      <4> QED
        BY <3>1, <4>1
    <3> QED
      BY <1>6, <3>1, <3>2 DEF ForceReclone, EnsureEditableRepo, CloneAnew, RunClone,
         EnsureBranchFails, PullBranch, CloneDone, CloneFails
  <2>3. left' \in [starts : 0 .. MaxStarts, faults : 0 .. MaxFaults, edits : 0 .. MaxEdits]
    BY <1>6 DEF ForceReclone, EnsureEditableRepo, CloneAnew, RunClone, EnsureBranchFails, PullBranch, PopStash, AfterPull,
       CloneDone, CloneFails, Fault, TypeOK
  <2> QED
    BY <1>6, <2>1, <2>2, <2>3, <2>4 DEF ForceReclone, EnsureEditableRepo, CloneAnew, RunClone,
       EnsureBranchFails, PullBranch, PopStash, AfterPull, CloneDone, CloneFails, TypeOK
<1>7. CASE CreateNetwork(c) \/ EnsureVolumesFails(c) \/ removeUnusedNetworks(c)
  <2>1. cmd' \in [Cmd -> CmdState]
    BY <1>7, GotoType DEF CreateNetwork, EnsureVolumesFails, removeUnusedNetworks, Locked
  <2>2. At(c, "create") => proj(c) \in Project
    BY DEF Asked, At, In
  <2>3. net' \in Project \cup {NoFile}
    BY <1>7, <2>2 DEF CreateNetwork, EnsureVolumesFails, removeUnusedNetworks, TypeOK
  <2>4. left' \in [starts : 0 .. MaxStarts, faults : 0 .. MaxFaults, edits : 0 .. MaxEdits]
    BY <1>7 DEF CreateNetwork, EnsureVolumesFails, removeUnusedNetworks, Fault, TypeOK
  <2>5. why' \in [lock : BOOLEAN, reg : SUBSET Project, root : BOOLEAN, net : BOOLEAN]
    <3>1. CASE EnsureVolumesFails(c)
      BY <3>1 DEF EnsureVolumesFails, TypeOK
    <3>2. CASE CreateNetwork(c) \/ removeUnusedNetworks(c)
      BY <3>2 DEF CreateNetwork, removeUnusedNetworks, TypeOK
    <3> QED
      BY <1>7, <3>1, <3>2
  <2> QED
    BY <1>7, <2>1, <2>3, <2>4, <2>5
       DEF CreateNetwork, EnsureVolumesFails, removeUnusedNetworks, TypeOK
<1>8. CASE processOrchestration(c)
  <2>1. cmd' \in [Cmd -> CmdState]
    BY <1>8, GotoType DEF processOrchestration, Locked
  <2>2. proj(c) \in Project
    BY <1>8 DEF Asked, processOrchestration, At, In
  <2>3. /\ runs' \in [Project -> SUBSET {"container", "host"}]
        /\ \A p \in Project : runs'[p] \subseteq Kinds[p]
    BY <1>8, <2>2 DEF processOrchestration, TypeOK, UpRunAssumption
  <2>4. why' \in [lock : BOOLEAN, reg : SUBSET Project, root : BOOLEAN, net : BOOLEAN]
    <3>1. CASE Overlapped(c)
      <4>1. Blame({proj(c)})
        BY <1>8, <3>1 DEF processOrchestration
      <4> QED
        BY <2>2, <4>1, BlameType
    <3>2. CASE ~Overlapped(c)
      <4>1. why' = [why EXCEPT !.net = FALSE]
        BY <1>8, <3>2 DEF processOrchestration
      <4> QED
        BY <4>1 DEF TypeOK
    <3> QED
      BY <3>1, <3>2
  <2> QED
    BY <1>8, <2>1, <2>3, <2>4 DEF processOrchestration, TypeOK
<1>9. CASE OrchestrationFails(c)
  <2>1. cmd' \in [Cmd -> CmdState]
    BY <1>9, GotoType DEF OrchestrationFails, Locked
  <2>2. proj(c) \in Project
    BY <1>9 DEF Asked, OrchestrationFails, At, In
  <2>3. CASE "container" \in Kinds[proj(c)] /\ net = NoFile
    BY <1>9, <2>1, <2>3 DEF OrchestrationFails, TypeOK
  <2>4. CASE ~("container" \in Kinds[proj(c)] /\ net = NoFile)
    <3>1. PICK new \in SUBSET (Kinds[proj(c)] \cap {"container"}) :
            runs' = [runs EXCEPT ![proj(c)] = @ \cup new]
      BY <1>9, <2>4 DEF OrchestrationFails
    <3>2. /\ runs' \in [Project -> SUBSET {"container", "host"}]
          /\ \A p \in Project : runs'[p] \subseteq Kinds[p]
      <4>1. runs[proj(c)] \cup new \in SUBSET (Kinds[proj(c)] \cap {"container", "host"})
        BY <2>2 DEF TypeOK
      <4> QED
        BY <2>2, <3>1, <4>1 DEF TypeOK
    <3>3. why' \in [lock : BOOLEAN, reg : SUBSET Project, root : BOOLEAN, net : BOOLEAN]
      <4>1. why.reg \cup {proj(c)} \subseteq Project
        BY <2>2 DEF TypeOK
      <4>2. why' = [why EXCEPT !.reg = @ \cup {proj(c)}, !.root = TRUE]
        BY <1>9, <2>4 DEF OrchestrationFails
      <4> QED
        BY <4>1, <4>2 DEF TypeOK
    <3>4. left' \in [starts : 0 .. MaxStarts, faults : 0 .. MaxFaults, edits : 0 .. MaxEdits]
      BY <1>9, <2>4 DEF OrchestrationFails, Fault, TypeOK
    <3> QED
      BY <1>9, <2>1, <3>2, <3>3, <3>4 DEF OrchestrationFails, TypeOK
  <2> QED
    BY <2>3, <2>4
<1>10. CASE saveState(c)
  <2>1. cmd' \in [Cmd -> CmdState]
    BY <1>10, GotoType DEF saveState, Locked
  <2>2. proj(c) \in Project
    BY <1>10 DEF Asked, saveState, At, In
  <2>3. rootFile' = proj(c)
    BY <1>10 DEF saveState, UpdateFromDeps, GenerateFromDeps
  <2>4. why' \in [lock : BOOLEAN, reg : SUBSET Project, root : BOOLEAN, net : BOOLEAN]
    BY <1>10 DEF saveState, TypeOK, Up
  <2> QED
    BY <1>10, <2>1, <2>2, <2>3, <2>4 DEF saveState, TypeOK
<1>11. CASE LoadGlobalState(c, "load", "store")
  BY <1>11, LoadType DEF Locked
<1>12. CASE UpdateProjectState(c)
  <2>1. proj(c) \in Project
    BY <1>12 DEF Asked, UpdateProjectState, At, In
  <2>2. cmd[c] \in CmdState
    BY DEF TypeOK
  <2>3. cmd' \in [Cmd -> CmdState]
    <3>1. [cmd[c] EXCEPT !.pc = "endpoints", !.seen = {}] \in CmdState
      BY <2>2 DEF CmdState, Locked
    <3>2. cmd' = [cmd EXCEPT ![c] = [cmd[c] EXCEPT !.pc = "endpoints", !.seen = {}]]
      <4>1. cmd \in [Cmd -> CmdState]
        BY DEF TypeOK
      <4>2. cmd' = [cmd EXCEPT ![c].pc = "endpoints", ![c].seen = {}]
        BY <1>12 DEF UpdateProjectState
      <4> QED
        BY <4>1, <4>2 DEF CmdState
    <3> QED
      BY <3>1, <3>2 DEF TypeOK
  <2>4. cmd[c].seen \cup {proj(c)} \subseteq Project
    BY <2>1, <2>2 DEF CmdState
  <2>5. /\ reg' \subseteq Project
        /\ why' \in [lock : BOOLEAN, reg : SUBSET Project, root : BOOLEAN, net : BOOLEAN]
    BY <1>12, <2>4, SaveType DEF UpdateProjectState
  <2> QED
    BY <1>12, <2>3, <2>5 DEF UpdateProjectState, TypeOK
<1>13. CASE Release(c)
  BY <1>13, EndType DEF Release, TypeOK
<1> QED
  BY <1>1, <1>2, <1>3, <1>4, <1>5, <1>6, <1>7, <1>8, <1>9, <1>10, <1>11, <1>12, <1>13
     DEF UpCommand

LEMMA DownTypes ==
  ASSUME TypeOK, Asked, NEW c \in Cmd, Down(c)
  PROVE  TypeOK'
<1> USE UpRunAssumption
<1>1. CASE StartDown(c)
  <2>1. PICK p \in Project : Start(c, [Idle EXCEPT !.pc = "down", !.proj = p])
    BY <1>1 DEF StartDown
  <2>2. [Idle EXCEPT !.pc = "down", !.proj = p] \in CmdState
    BY DEF Idle, CmdState, Tearing
  <2>3. left' \in [starts : 0 .. MaxStarts, faults : 0 .. MaxFaults, edits : 0 .. MaxEdits]
    BY <2>1 DEF Start, TypeOK
  <2> QED
    BY <2>1, <2>2, <2>3 DEF Start, TypeOK
<1>2. CASE StopProject(c)
  <2>1. cmd' \in [Cmd -> CmdState]
    BY <1>2, GotoType DEF StopProject, Tearing
  <2>2. proj(c) \in Project
    BY <1>2 DEF Asked, StopProject, At, In
  <2>3. /\ runs' \in [Project -> SUBSET {"container", "host"}]
        /\ \A p \in Project : runs'[p] \subseteq Kinds[p]
    BY <1>2, <2>2 DEF StopProject, TypeOK
  <2>4. why' \in [lock : BOOLEAN, reg : SUBSET Project, root : BOOLEAN, net : BOOLEAN]
    BY <1>2, <2>2, BlameType DEF StopProject, TypeOK
  <2> QED
    BY <1>2, <2>1, <2>3, <2>4 DEF StopProject, TypeOK
<1>3. CASE StopFails(c)
  <2>1. PICK rest \in SUBSET runs[proj(c)], failed \in BOOLEAN :
          /\ runs' = [runs EXCEPT ![proj(c)] = rest]
          /\ cmd' = [cmd EXCEPT ![c].pc = "netdown", ![c].failed = failed]
    BY <1>3 DEF StopFails
  <2>2. proj(c) \in Project /\ cmd[c] \in CmdState
    BY <1>3 DEF Asked, StopFails, At, In, TypeOK
  <2>3. cmd' \in [Cmd -> CmdState]
    <3>1. [cmd[c] EXCEPT !.pc = "netdown", !.failed = failed] \in CmdState
      BY <2>2 DEF CmdState, Tearing
    <3>2. cmd' = [cmd EXCEPT ![c] = [cmd[c] EXCEPT !.pc = "netdown", !.failed = failed]]
      BY <2>1, ZenonT(60) DEF TypeOK
    <3> QED
      BY <3>1, <3>2 DEF TypeOK
  <2>4. /\ runs' \in [Project -> SUBSET {"container", "host"}]
        /\ \A p \in Project : runs'[p] \subseteq Kinds[p]
    BY <2>1, <2>2 DEF TypeOK
  <2>5. why' \in [lock : BOOLEAN, reg : SUBSET Project, root : BOOLEAN, net : BOOLEAN]
    BY <1>3, <2>2, BlameType DEF StopFails
  <2>6. left' \in [starts : 0 .. MaxStarts, faults : 0 .. MaxFaults, edits : 0 .. MaxEdits]
    BY <1>3 DEF StopFails, Fault, TypeOK
  <2> QED
    BY <1>3, <2>3, <2>4, <2>5, <2>6 DEF StopFails, TypeOK
<1>4. CASE removeNetwork(c) \/ deleteRoot(c) \/ RemoveAll(c)
  <2>1. cmd' \in [Cmd -> CmdState]
    BY <1>4, GotoType DEF removeNetwork, deleteRoot, RemoveAll, Tearing
  <2>2. why' \in [lock : BOOLEAN, reg : SUBSET Project, root : BOOLEAN, net : BOOLEAN]
    <3>1. CASE removeNetwork(c)
      <4>1. why' = why \/ why' = [why EXCEPT !.net = FALSE]
        BY <3>1 DEF removeNetwork
      <4>2. why \in [lock : BOOLEAN, reg : SUBSET Project, root : BOOLEAN, net : BOOLEAN]
        BY DEF TypeOK
      <4>3. [why EXCEPT !.net = FALSE]
              \in [lock : BOOLEAN, reg : SUBSET Project, root : BOOLEAN, net : BOOLEAN]
        BY <4>2
      <4> QED
        BY <4>1, <4>2, <4>3
    <3>2. CASE deleteRoot(c)
      BY <3>2 DEF deleteRoot, TypeOK, StillNeeded
    <3>3. CASE RemoveAll(c)
      BY <3>3 DEF RemoveAll, TypeOK, StillNeeded
    <3> QED
      BY <1>4, <3>1, <3>2, <3>3
  <2>3. /\ lock' \in {lock, NoFile} /\ rootFile' \in {rootFile, NoFile}
        /\ net' \in {net, NoFile}
        /\ UNCHANGED <<reg, runs, tree, stash, left>>
    BY <1>4 DEF removeNetwork, deleteRoot, RemoveAll
  <2> QED
    BY <2>1, <2>2, <2>3 DEF TypeOK
<1>5. CASE KeepsState(c)
  BY <1>5, EndType DEF KeepsState, TypeOK
<1>6. CASE NoLeftovers(c) \/ removeIfHoldsNoFile(c)
  <2>1. cmd' \in [Cmd -> CmdState]
    BY <1>6, GotoType DEF NoLeftovers, removeIfHoldsNoFile, Tearing
  <2> QED
    BY <1>6, <2>1 DEF NoLeftovers, removeIfHoldsNoFile, TypeOK
<1>7. CASE LoadGlobalState(c, "unload", "unstore")
  BY <1>7, LoadType DEF Tearing
<1>8. CASE RemoveProject(c)
  <2>1. cmd[c].seen \ {proj(c)} \subseteq Project
    BY DEF TypeOK, CmdState
  <2> QED
    BY <1>8, <2>1, SaveType, EndType DEF RemoveProject, TypeOK
<1> QED
  BY <1>1, <1>2, <1>3, <1>4, <1>5, <1>6, <1>7, <1>8 DEF Down

LEMMA CleanTypes ==
  ASSUME TypeOK, NEW c \in Cmd, Clean(c)
  PROVE  TypeOK'
<1> USE UpRunAssumption
<1>0. cmd[c] \in CmdState
  BY DEF TypeOK
<1>1. CASE StartClean(c)
  <2>1. [Idle EXCEPT !.pc = "prune"] \in CmdState
    BY DEF Idle, CmdState, Pruning
  <2>2. left' \in [starts : 0 .. MaxStarts, faults : 0 .. MaxFaults, edits : 0 .. MaxEdits]
    BY <1>1 DEF StartClean, Start, TypeOK
  <2> QED
    BY <1>1, <2>1, <2>2 DEF StartClean, Start, TypeOK
<1>2. CASE pruneStaleProjectStates(c)
  <2>1. [cmd[c] EXCEPT !.pc = "probe", !.todo = reg] \in CmdState
    BY <1>0 DEF TypeOK, CmdState, Pruning
  <2>2. CASE reg = {}
    BY <1>2, <2>2, EndType DEF pruneStaleProjectStates, TypeOK
  <2>3. CASE reg # {}
    <3>1. cmd' = [cmd EXCEPT ![c] = [cmd[c] EXCEPT !.pc = "probe", !.todo = reg]]
      <4>1. cmd \in [Cmd -> CmdState]
        BY DEF TypeOK
      <4>2. cmd' = [cmd EXCEPT ![c].pc = "probe", ![c].todo = reg]
        BY <1>2, <2>3 DEF pruneStaleProjectStates
      <4> QED
        BY <4>1, <4>2 DEF CmdState
    <3> QED
      BY <1>2, <2>1, <3>1 DEF pruneStaleProjectStates, TypeOK
  <2> QED
    BY <2>2, <2>3
<1>3. CASE projectStateIsLive(c)
  <2>1. PICK p \in cmd[c].todo :
         cmd' = IF ~Up(p) THEN [cmd EXCEPT ![c].pc = "drop", ![c].proj = p]
                ELSE IF cmd[c].todo = {p} THEN [cmd EXCEPT ![c] = Idle]
                ELSE [cmd EXCEPT ![c].todo = @ \ {p}]
    BY <1>3 DEF projectStateIsLive
  <2>2. p \in Project
    BY <1>0 DEF CmdState
  <2>3. /\ [cmd[c] EXCEPT !.pc = "drop", !.proj = p] \in CmdState
        /\ [cmd[c] EXCEPT !.todo = @ \ {p}] \in CmdState
    BY <1>0, <2>2 DEF CmdState, Pruning
  <2>4. ASSUME ~Up(p) PROVE cmd' \in [Cmd -> CmdState]
    <3>1. cmd' = [cmd EXCEPT ![c] = [cmd[c] EXCEPT !.pc = "drop", !.proj = p]]
      BY <2>1, <2>4, ZenonT(60) DEF TypeOK
    <3> QED
      BY <2>3, <3>1 DEF TypeOK
  <2>6. ASSUME Up(p) /\ cmd[c].todo = {p} PROVE cmd' \in [Cmd -> CmdState]
    BY <2>1, <2>6, IdleType DEF TypeOK
  <2>7. ASSUME Up(p) /\ cmd[c].todo # {p} PROVE cmd' \in [Cmd -> CmdState]
    <3>1. cmd' = [cmd EXCEPT ![c] = [cmd[c] EXCEPT !.todo = @ \ {p}]]
      BY <2>1, <2>7 DEF TypeOK
    <3> QED
      BY <2>3, <3>1 DEF TypeOK
  <2>5. cmd' \in [Cmd -> CmdState]
    BY <2>4, <2>6, <2>7
  <2> QED
    BY <1>3, <2>5 DEF projectStateIsLive, TypeOK
<1>4. CASE LoadGlobalState(c, "drop", "undrop")
  BY <1>4, LoadType DEF Pruning
<1>5. CASE Deregister(c)
  <2> DEFINE rest == cmd[c].todo \ {proj(c)}
  <2>1. cmd[c].seen \ {proj(c)} \subseteq Project
    BY <1>0 DEF CmdState
  <2>2. [Idle EXCEPT !.pc = "probe", !.todo = rest] \in CmdState
    BY <1>0 DEF Idle, CmdState, Pruning
  <2>3. cmd' \in {[cmd EXCEPT ![c] = Idle],
                  [cmd EXCEPT ![c] = [Idle EXCEPT !.pc = "probe", !.todo = rest]]}
    BY <1>5 DEF Deregister
  <2>4. cmd' \in [Cmd -> CmdState]
    BY <2>2, <2>3, IdleType DEF TypeOK
  <2> QED
    BY <1>5, <2>1, <2>4, SaveType DEF Deregister, TypeOK
<1> QED
  BY <1>1, <1>2, <1>3, <1>4, <1>5 DEF Clean

LEMMA KillTypes ==
  ASSUME TypeOK, Asked, NEW c \in Cmd, Kill(c)
  PROVE  TypeOK'
<1> USE UpRunAssumption
<1>1. cmd' \in [Cmd -> CmdState] /\ lock' \in Cmd \cup {NoFile, "dead"}
  BY EndType DEF Kill, TypeOK
<1>2. left' \in [starts : 0 .. MaxStarts, faults : 0 .. MaxFaults, edits : 0 .. MaxEdits]
  BY DEF Kill, Fault, TypeOK
<1>3. CASE In(c, Locked \cup Tearing)
  <2>1. proj(c) \in Project
    BY <1>3 DEF Asked, In, Locked, Tearing
  <2>2. Partly(c)
    BY <1>3 DEF Kill
  <2>3. rootFile' \in {rootFile, "torn"}
    BY <2>2 DEF Partly
  <2>4. PICK r \in SUBSET Kinds[proj(c)] : runs' = [runs EXCEPT ![proj(c)] = r]
    BY <2>1, <2>2 DEF Partly, TypeOK
  <2>5. /\ runs' \in [Project -> SUBSET {"container", "host"}]
        /\ \A p \in Project : runs'[p] \subseteq Kinds[p]
    <3>1. /\ runs \in [Project -> SUBSET {"container", "host"}]
          /\ \A p \in Project : runs[p] \subseteq Kinds[p]
      BY DEF TypeOK
    <3>2. r \subseteq {"container", "host"} /\ r \subseteq Kinds[proj(c)]
      BY <2>1, UpRunAssumption
    <3>3. \A p \in Project : runs'[p] = IF p = proj(c) THEN r ELSE runs[p]
      BY <2>4, <3>1
    <3> QED
      BY <2>1, <2>4, <3>1, <3>2, <3>3
  <2>6. why' \in [lock : BOOLEAN, reg : SUBSET Project, root : BOOLEAN, net : BOOLEAN]
    BY <2>1, <2>2, BlameType DEF Partly
  <2> QED
    BY <1>1, <1>2, <2>3, <2>5, <2>6 DEF Kill, TypeOK
<1>4. CASE ~In(c, Locked \cup Tearing)
  BY <1>1, <1>2, <1>4 DEF Kill, TypeOK
<1> QED
  BY <1>3, <1>4

LEMMA NextTypes == TypeOK /\ Asked /\ [Next]_vars => TypeOK'
<1> SUFFICES ASSUME TypeOK, Asked, [Next]_vars PROVE TypeOK'
  OBVIOUS
<1>1. CASE Edit
  <2>1. left' \in [starts : 0 .. MaxStarts, faults : 0 .. MaxFaults, edits : 0 .. MaxEdits]
    BY <1>1, UpRunAssumption DEF Edit, TypeOK
  <2> QED
    BY <1>1, <2>1, ZenonT(60) DEF Edit, TypeOK
<1>2. CASE UNCHANGED vars
  BY <1>2 DEF vars, TypeOK
<1> QED
  BY <1>1, <1>2, UpTypes, DownTypes, CleanTypes, KillTypes DEF Next

\* A step of one command leaves the others where they are.
LEMMA OthersStay ==
  ASSUME TypeOK, NEW c \in Cmd, UpCommand(c) \/ Down(c) \/ Clean(c) \/ Kill(c)
  PROVE  \A d \in Cmd \ {c} : cmd'[d] = cmd[d]
<1> DEFINE Stay == \A d \in Cmd \ {c} : cmd'[d] = cmd[d]
<1>0. cmd \in [Cmd -> CmdState]
  BY DEF TypeOK
<1>a. ASSUME NEW pc, Goto(c, pc) PROVE Stay
  BY <1>0, <1>a DEF Goto
<1>b. ASSUME End(c) PROVE Stay
  BY <1>0, <1>b DEF End
<1>c. ASSUME NEW job, Start(c, job) PROVE Stay
  BY <1>0, <1>c DEF Start
<1>d. ASSUME NEW from, NEW to, LoadGlobalState(c, from, to) PROVE Stay
  BY <1>0, <1>d DEF LoadGlobalState
<1> HIDE DEF Stay
<1>1. ASSUME UpCommand(c) PROVE Stay
  <2>1. CASE UpdateProjectState(c)
    BY <1>0, <2>1 DEF UpdateProjectState, Stay
  <2>2. CASE stopGitServicesBeforeReclone(c)
    BY <2>2, StopGoes DEF Stay
  <2> QED
    BY <1>1, <1>a, <1>b, <1>c, <1>d, <2>1, <2>2 DEF UpCommand, StartUp, UpRefused, preHookFails,
     acquireLock, LockTaken, processGitRepos, ForceReclone,
     EnsureEditableRepo, CloneAnew, RunClone, EnsureBranchFails, PullBranch, PopStash, AfterPull, CloneDone, CloneFails,
     ValidateAllImages, EnsureNetwork, CreateNetwork, EnsureVolumes, EnsureVolumesFails,
     processOrchestration, OrchestrationFails, removeUnusedNetworks, saveState,
     waitForServiceEndpoints, postHookExec, Release
<1>2. ASSUME Down(c) PROVE Stay
  <2>1. CASE StopFails(c)
    BY <1>0, <2>1 DEF StopFails, Stay
  <2> QED
    BY <1>2, <1>a, <1>b, <1>c, <1>d, <2>1 DEF Down, StartDown, StopProject,
     removeNetwork, KeepsState, NoLeftovers, deleteRoot, removeIfHoldsNoFile, RemoveAll,
     RemoveProject
<1>3. ASSUME Clean(c) PROVE Stay
  BY <1>3 DEF Stay, Clean, TypeOK, End, StartClean, Start, pruneStaleProjectStates,
     projectStateIsLive, LoadGlobalState, Deregister
<1>4. ASSUME Kill(c) PROVE Stay
  BY <1>4, <1>b DEF Kill
<1> QED
  BY <1>1, <1>2, <1>3, <1>4 DEF Stay

\* Going on keeps the project and the user's --force-reclone.
LEMMA GotoKeeps ==
  ASSUME TypeOK, NEW c \in Cmd, NEW pc, Goto(c, pc)
  PROVE  cmd'[c].pc = pc /\ cmd'[c].proj = cmd[c].proj /\ cmd'[c].force = cmd[c].force
<1>1. cmd \in [Cmd -> CmdState] /\ cmd[c] \in CmdState
  BY DEF TypeOK
<1>2. cmd'[c] = [cmd[c] EXCEPT !.pc = pc]
  BY <1>1 DEF Goto
<1> QED
  BY <1>1, <1>2 DEF CmdState

LEMMA EndIdle ==
  ASSUME TypeOK, NEW c \in Cmd, End(c)
  PROVE  cmd'[c] = Idle
  BY DEF TypeOK, End

LEMMA LoadKeeps ==
  ASSUME TypeOK, NEW c \in Cmd, NEW from, NEW to, LoadGlobalState(c, from, to)
  PROVE  cmd'[c].pc = to /\ cmd'[c].proj = cmd[c].proj /\ cmd'[c].force = cmd[c].force
<1>1. cmd \in [Cmd -> CmdState] /\ cmd[c] \in CmdState
  BY DEF TypeOK
<1>2. cmd'[c] = [cmd[c] EXCEPT !.pc = to, !.seen = reg]
  BY <1>1 DEF LoadGlobalState
<1> QED
  BY <1>1, <1>2 DEF CmdState

(***************************************************************************)
(* Where a step of a command takes it: the rows of this table are all that *)
(* the invariants need of the control flow.                                *)
(***************************************************************************)
LEMMA Moves ==
  ASSUME TypeOK, Asked, NEW c \in Cmd, UpCommand(c) \/ Down(c) \/ Clean(c) \/ Kill(c)
  PROVE  /\ In(c, Locked)' => In(c, Locked) \/ acquireLock(c)
         /\ At(c, "sweep")' => removeIfHoldsNoFile(c)
         /\ At(c, "reclone")' => stopGitServicesBeforeReclone(c)
         /\ At(c, "cloning")' => EnsureEditableRepo(c) \/ CloneAnew(c)
         /\ In(c, {"stop", "reclone"})' => cmd'[c].force
         /\ ~In(c, {"idle", "prune", "probe"})' => cmd'[c].proj \in Project
<1> DEFINE Kept == proj(c)' = proj(c) /\ cmd'[c].force = cmd[c].force
           pc == cmd'[c].pc
<1>0. UNCHANGED Idle /\ Idle.pc = "idle"
  BY DEF Idle
<1>1. CASE UpCommand(c)
  <2>1. CASE StartUp(c)
    <3>1. PICK p \in Project, force \in BOOLEAN :
            Start(c, [Idle EXCEPT !.pc = "lock", !.proj = p, !.force = force])
      BY <2>1 DEF StartUp
    <3>2. cmd'[c].pc = "lock" /\ cmd'[c].proj = p
      BY <3>1 DEF Start, TypeOK, Idle
    <3> QED
      BY <3>1, <3>2 DEF At, In, Locked
  <2>2. CASE UpRefused(c) \/ preHookFails(c) \/ LockTaken(c) \/ Release(c)
    <3>1. cmd'[c] = Idle
      BY <2>2, EndIdle DEF UpRefused, preHookFails, LockTaken, Release
    <3> QED
      BY <1>0, <3>1 DEF At, In, Locked
  <2>3. CASE acquireLock(c)
    <3>1. cmd'[c].pc = "prepare" /\ Kept
      BY <2>3, GotoKeeps DEF acquireLock, proj
    <3>2. proj(c) \in Project
      BY <2>3 DEF acquireLock, Asked, At, In
    <3> QED
      BY <2>3, <3>1, <3>2 DEF At, In, proj
  <2>4. CASE processGitRepos(c)
    <3>1. Kept /\ pc \in {"images", "stop", "clone"} /\ (pc = "stop" => cmd[c].force)
      BY <2>4, GotoKeeps DEF processGitRepos, cloneIntoDeclaredPath, proj
    <3>2. At(c, "prepare") /\ In(c, Locked) /\ proj(c) \in Project
      BY <2>4 DEF processGitRepos, At, In, Locked, Asked
    <3> QED
      BY <3>1, <3>2 DEF At, In, Locked, proj
  <2>5. CASE stopGitServicesBeforeReclone(c)
    <3>1. Kept /\ pc = "reclone"
      BY <2>5, StopGoes DEF proj
    <3>2. In(c, Locked) /\ proj(c) \in Project /\ cmd[c].force
      BY <2>5 DEF stopGitServicesBeforeReclone, At, In, Locked, Asked
    <3> QED
      BY <2>5, <3>1, <3>2 DEF At, In, Locked, proj
  <2>6. CASE EnsureEditableRepo(c) \/ CloneAnew(c)
    <3>1. Kept /\ pc \in {"cloning", "images", "pull", "release"}
      BY <2>6, GotoKeeps DEF EnsureEditableRepo, CloneAnew, RunClone, proj
    <3>2. In(c, Locked) /\ proj(c) \in Project
      BY <2>6 DEF EnsureEditableRepo, CloneAnew, RunClone, At, In, Locked, Asked
    <3> QED
      BY <2>6, <3>1, <3>2 DEF At, In, proj
  <2>7. CASE \/ ForceReclone(c) \/ EnsureBranchFails(c) \/ PullBranch(c) \/ PopStash(c) \/ CloneDone(c) \/ CloneFails(c)
             \/ ValidateAllImages(c) \/ EnsureNetwork(c) \/ CreateNetwork(c)
             \/ EnsureVolumes(c) \/ EnsureVolumesFails(c) \/ processOrchestration(c)
             \/ OrchestrationFails(c) \/ removeUnusedNetworks(c) \/ saveState(c)
             \/ waitForServiceEndpoints(c) \/ postHookExec(c)
    <3>1. Kept /\ pc \in {"clone", "pop", "images", "release", "network", "create", "volumes",
                          "start", "save", "unattached", "load", "post"}
      BY <2>7, GotoKeeps DEF ForceReclone, EnsureBranchFails, PullBranch, PopStash, AfterPull, CloneDone, CloneFails,
         ValidateAllImages, EnsureNetwork, CreateNetwork, EnsureVolumes, EnsureVolumesFails,
         processOrchestration, OrchestrationFails, removeUnusedNetworks, saveState,
         waitForServiceEndpoints, postHookExec, proj
    <3>2. In(c, Locked) /\ proj(c) \in Project
      BY <2>7 DEF ForceReclone, EnsureBranchFails, PullBranch, PopStash, AfterPull, CloneDone, CloneFails,
         ValidateAllImages, EnsureNetwork, CreateNetwork, EnsureVolumes, EnsureVolumesFails,
         processOrchestration, OrchestrationFails, removeUnusedNetworks, saveState,
         waitForServiceEndpoints, postHookExec, At, In, Locked, Asked
    <3> QED
      BY <3>1, <3>2 DEF At, In, proj
  <2>8. CASE LoadGlobalState(c, "load", "store")
    <3>1. Kept /\ pc = "store"
      BY <2>8, LoadKeeps DEF proj
    <3>2. In(c, Locked) /\ proj(c) \in Project
      BY <2>8 DEF LoadGlobalState, At, In, Locked, Asked
    <3> QED
      BY <3>1, <3>2 DEF At, In, proj
  <2>9. CASE UpdateProjectState(c)
    <3>1. cmd' = [cmd EXCEPT ![c] = [cmd[c] EXCEPT !.pc = "endpoints", !.seen = {}]]
      BY <2>9 DEF UpdateProjectState, TypeOK
    <3>2. cmd[c] \in CmdState /\ cmd'[c] = [cmd[c] EXCEPT !.pc = "endpoints", !.seen = {}]
      BY <3>1 DEF TypeOK
    <3>3. Kept /\ pc = "endpoints"
      BY <3>2 DEF CmdState, proj
    <3>4. In(c, Locked) /\ proj(c) \in Project
      BY <2>9 DEF UpdateProjectState, At, In, Locked, Asked
    <3> QED
      BY <3>3, <3>4 DEF At, In, proj
  <2> QED
    BY <1>1, <2>1, <2>2, <2>3, <2>4, <2>5, <2>6, <2>7, <2>8, <2>9 DEF UpCommand
<1>2. CASE Down(c)
  <2>1. CASE StartDown(c)
    <3>1. PICK p \in Project : Start(c, [Idle EXCEPT !.pc = "down", !.proj = p])
      BY <2>1 DEF StartDown
    <3>2. cmd'[c].pc = "down" /\ cmd'[c].proj = p
      BY <3>1 DEF Start, TypeOK, Idle
    <3> QED
      BY <3>1, <3>2 DEF At, In, Locked
  <2>2. CASE \/ StopProject(c) \/ removeNetwork(c) \/ NoLeftovers(c) \/ deleteRoot(c)
             \/ removeIfHoldsNoFile(c) \/ RemoveAll(c)
    <3>1. /\ Kept /\ pc \in {"netdown", "leftovers", "unload", "rootdown", "walk", "sweep"}
          /\ pc = "sweep" => removeIfHoldsNoFile(c)
      BY <2>2, GotoKeeps DEF StopProject, removeNetwork, NoLeftovers, deleteRoot,
         removeIfHoldsNoFile, RemoveAll, proj
    <3>2. proj(c) \in Project
      BY <2>2 DEF StopProject, removeNetwork, NoLeftovers, deleteRoot,
         removeIfHoldsNoFile, RemoveAll, At, In, Asked
    <3> QED
      BY <3>1, <3>2 DEF At, In, Locked, proj
  <2>3. CASE StopFails(c)
    <3>1. PICK failed \in BOOLEAN :
            cmd' = [cmd EXCEPT ![c].pc = "netdown", ![c].failed = failed]
      BY <2>3 DEF StopFails
    <3>2. cmd' = [cmd EXCEPT ![c] = [cmd[c] EXCEPT !.pc = "netdown", !.failed = failed]]
      BY <3>1 DEF TypeOK
    <3>3. /\ cmd[c] \in CmdState
          /\ cmd'[c] = [cmd[c] EXCEPT !.pc = "netdown", !.failed = failed]
      BY <3>2 DEF TypeOK
    <3>4. Kept /\ pc = "netdown"
      BY <3>3 DEF CmdState, proj
    <3>5. proj(c) \in Project
      BY <2>3 DEF StopFails, At, In, Asked
    <3> QED
      BY <3>4, <3>5 DEF At, In, Locked, proj
  <2>4. CASE KeepsState(c) \/ RemoveProject(c)
    <3>1. cmd'[c] = Idle
      BY <2>4, EndIdle DEF KeepsState, RemoveProject
    <3> QED
      BY <1>0, <3>1 DEF At, In, Locked
  <2>5. CASE LoadGlobalState(c, "unload", "unstore")
    <3>1. Kept /\ pc = "unstore"
      BY <2>5, LoadKeeps DEF proj
    <3>2. proj(c) \in Project
      BY <2>5 DEF LoadGlobalState, At, In, Asked
    <3> QED
      BY <3>1, <3>2 DEF At, In, Locked, proj
  <2> QED
    BY <1>2, <2>1, <2>2, <2>3, <2>4, <2>5 DEF Down
<1>3. CASE Clean(c)
  <2>1. CASE StartClean(c)
    <3>1. cmd'[c].pc = "prune"
      BY <2>1 DEF StartClean, Start, TypeOK, Idle
    <3> QED
      BY <3>1 DEF At, In, Locked
  <2>2. CASE pruneStaleProjectStates(c)
    <3>1. pc \in {"idle", "probe"}
      <4>1. CASE reg = {}
        BY <1>0, <2>2, <4>1, EndIdle DEF pruneStaleProjectStates
      <4>2. CASE reg # {}
        <5>1. cmd' = [cmd EXCEPT ![c] = [cmd[c] EXCEPT !.pc = "probe", !.todo = reg]]
          BY <2>2, <4>2 DEF pruneStaleProjectStates, TypeOK
        <5>2. /\ cmd[c] \in CmdState
              /\ cmd'[c] = [cmd[c] EXCEPT !.pc = "probe", !.todo = reg]
          BY <5>1 DEF TypeOK
        <5> QED
          BY <5>2 DEF CmdState
      <4> QED
        BY <4>1, <4>2
    <3> QED
      BY <3>1 DEF At, In, Locked
  <2>3. CASE projectStateIsLive(c)
    <3>1. PICK p \in cmd[c].todo :
           cmd' = IF ~Up(p) THEN [cmd EXCEPT ![c].pc = "drop", ![c].proj = p]
                  ELSE IF cmd[c].todo = {p} THEN [cmd EXCEPT ![c] = Idle]
                  ELSE [cmd EXCEPT ![c].todo = @ \ {p}]
      BY <2>3 DEF projectStateIsLive
    <3>2. cmd[c] \in CmdState /\ p \in Project /\ cmd[c].pc = "probe"
      BY <2>3, <3>1 DEF TypeOK, CmdState, projectStateIsLive, At
    <3>3. ASSUME ~Up(p) PROVE cmd'[c].pc = "drop" /\ cmd'[c].proj = p
      <4>1. cmd' = [cmd EXCEPT ![c] = [cmd[c] EXCEPT !.pc = "drop", !.proj = p]]
        BY <3>1, <3>3 DEF TypeOK
      <4>2. cmd'[c] = [cmd[c] EXCEPT !.pc = "drop", !.proj = p]
        BY <4>1 DEF TypeOK
      <4> QED
        BY <3>2, <4>2 DEF CmdState
    <3>4. ASSUME Up(p), cmd[c].todo = {p} PROVE pc = "idle"
      BY <1>0, <3>1, <3>4 DEF TypeOK
    <3>5. ASSUME Up(p), cmd[c].todo # {p} PROVE pc = "probe"
      <4>1. cmd' = [cmd EXCEPT ![c] = [cmd[c] EXCEPT !.todo = @ \ {p}]]
        BY <3>1, <3>5 DEF TypeOK
      <4>2. cmd'[c] = [cmd[c] EXCEPT !.todo = @ \ {p}]
        BY <4>1 DEF TypeOK
      <4> QED
        BY <3>2, <4>2 DEF CmdState
    <3> QED
      BY <3>2, <3>3, <3>4, <3>5 DEF At, In, Locked
  <2>4. CASE LoadGlobalState(c, "drop", "undrop")
    <3>1. Kept /\ pc = "undrop"
      BY <2>4, LoadKeeps DEF proj
    <3>2. proj(c) \in Project
      BY <2>4 DEF LoadGlobalState, At, In, Asked
    <3> QED
      BY <3>1, <3>2 DEF At, In, Locked, proj
  <2>5. CASE Deregister(c)
    <3> DEFINE rest == cmd[c].todo \ {proj(c)}
    <3>1. cmd'[c] = IF rest = {} THEN Idle ELSE [Idle EXCEPT !.pc = "probe", !.todo = rest]
      BY <2>5 DEF Deregister, TypeOK
    <3>2. pc \in {"idle", "probe"}
      BY <3>1 DEF Idle
    <3> QED
      BY <3>2 DEF At, In, Locked
  <2> QED
    BY <1>3, <2>1, <2>2, <2>3, <2>4, <2>5 DEF Clean
<1>4. CASE Kill(c)
  <2>1. cmd'[c] = Idle
    BY <1>4, EndIdle DEF Kill
  <2> QED
    BY <1>0, <2>1 DEF At, In, Locked
<1> QED
  BY <1>1, <1>2, <1>3, <1>4

LEMMA AskedStep == TypeOK /\ Asked /\ [Next]_vars => Asked'
<1> SUFFICES ASSUME TypeOK, Asked, [Next]_vars, NEW d \in Cmd
             PROVE  /\ ~In(d, {"idle", "prune", "probe"})' => cmd'[d].proj \in Project
                    /\ In(d, {"stop", "reclone"})' => cmd'[d].force
  BY DEF Asked, proj
<1>1. CASE \E c \in Cmd : UpCommand(c) \/ Down(c) \/ Clean(c) \/ Kill(c)
  <2>1. PICK c \in Cmd : UpCommand(c) \/ Down(c) \/ Clean(c) \/ Kill(c)
    BY <1>1
  <2>2. CASE c = d
    BY <2>1, <2>2, Moves
  <2>3. CASE c # d
    <3>1. cmd'[d] = cmd[d]
      BY <2>1, <2>3, OthersStay
    <3> QED
      BY <3>1 DEF Asked, In, proj
  <2> QED
    BY <2>2, <2>3
<1>2. CASE Edit \/ UNCHANGED vars
  <2>1. cmd' = cmd
    BY <1>2 DEF Edit, vars
  <2> QED
    BY <2>1 DEF Asked, In, proj
<1> QED
  BY <1>1, <1>2 DEF Next

\* The race that may take the lock away is remembered.
LEMMA RaceRemembered ==
  ASSUME TypeOK, Asked, [Next]_vars, why.lock
  PROVE  why'.lock
<1>1. CASE Edit \/ UNCHANGED vars
  BY <1>1 DEF Edit, vars
<1>2. ASSUME NEW c \in Cmd, NEW new, SaveGlobalState(c, new) PROVE why'.lock
  BY <1>2 DEF SaveGlobalState, TypeOK
<1>3. ASSUME NEW S, Blame(S) PROVE why'.lock
  BY <1>3 DEF Blame, TypeOK
<1>4. ASSUME NEW c \in Cmd, UpCommand(c) PROVE why'.lock
  <2>1. CASE \/ StartUp(c) \/ UpRefused(c) \/ preHookFails(c) \/ acquireLock(c)
             \/ LockTaken(c) \/ processGitRepos(c) \/ stopGitServicesBeforeReclone(c)
             \/ ForceReclone(c)
    BY <1>3, <2>1, StopLeaves DEF TypeOK, StartUp, Start, UpRefused, preHookFails, acquireLock, LockTaken,
       processGitRepos, ForceReclone
  <2>2. CASE \/ EnsureEditableRepo(c) \/ CloneAnew(c) \/ EnsureBranchFails(c) \/ PullBranch(c) \/ PopStash(c) \/ CloneDone(c)
             \/ CloneFails(c) \/ ValidateAllImages(c) \/ EnsureNetwork(c)
             \/ CreateNetwork(c) \/ EnsureVolumes(c) \/ EnsureVolumesFails(c)
    BY <1>3, <2>2 DEF TypeOK, CloneAnew, RunClone, EnsureBranchFails, PullBranch, PopStash, AfterPull, CloneDone, CloneFails, ValidateAllImages,
       EnsureNetwork, CreateNetwork, EnsureVolumes, EnsureVolumesFails, EnsureEditableRepo
  <2>3. CASE \/ processOrchestration(c) \/ OrchestrationFails(c)
             \/ removeUnusedNetworks(c) \/ saveState(c)
             \/ LoadGlobalState(c, "load", "store") \/ UpdateProjectState(c)
             \/ waitForServiceEndpoints(c) \/ postHookExec(c) \/ Release(c)
    BY <1>2, <1>3, <2>3, ZenonT(60) DEF TypeOK, processOrchestration, OrchestrationFails,
       removeUnusedNetworks, saveState, LoadGlobalState, UpdateProjectState,
       waitForServiceEndpoints, postHookExec, Release
  <2> QED
    BY <1>4, <2>1, <2>2, <2>3 DEF UpCommand
<1>5. ASSUME NEW c \in Cmd, Down(c) PROVE why'.lock
  BY <1>2, <1>3, <1>5 DEF Down, TypeOK, StartDown, Start, StopProject, StopFails,
     removeNetwork, KeepsState, NoLeftovers, deleteRoot, removeIfHoldsNoFile, RemoveAll,
     LoadGlobalState, RemoveProject
<1>6. ASSUME NEW c \in Cmd, Clean(c) PROVE why'.lock
  BY <1>2, <1>6 DEF Clean, StartClean, Start, pruneStaleProjectStates,
     projectStateIsLive, LoadGlobalState, Deregister
<1>7. ASSUME NEW c \in Cmd, Kill(c) PROVE why'.lock
  BY <1>3, <1>7 DEF Kill, Partly
<1> QED
  BY <1>1, <1>4, <1>5, <1>6, <1>7 DEF Next

\* Four actions touch the lock file.
LEMMA LockMoves ==
  ASSUME TypeOK, NEW c \in Cmd, UpCommand(c) \/ Down(c) \/ Clean(c) \/ Kill(c)
  PROVE  \/ lock' = lock
         \/ acquireLock(c) \/ Release(c) \/ RemoveAll(c)
         \/ lock = c /\ cmd'[c] = Idle
<1>1. CASE UpCommand(c)
  BY <1>1 DEF UpCommand, StartUp, Start, UpRefused, preHookFails,
     LockTaken, processGitRepos, stopGitServicesBeforeReclone, ForceReclone,
     EnsureEditableRepo, CloneAnew, RunClone, EnsureBranchFails, PullBranch, PopStash, AfterPull, CloneDone, CloneFails,
     ValidateAllImages, EnsureNetwork, CreateNetwork, EnsureVolumes, EnsureVolumesFails,
     processOrchestration, OrchestrationFails, removeUnusedNetworks, saveState,
     LoadGlobalState, UpdateProjectState, waitForServiceEndpoints, postHookExec
<1>2. CASE Down(c)
  BY <1>2 DEF Down, StartDown, Start, StopProject, StopFails,
     removeNetwork, KeepsState, NoLeftovers, deleteRoot, removeIfHoldsNoFile,
     LoadGlobalState, RemoveProject
<1>3. CASE Clean(c)
  BY <1>3 DEF Clean, StartClean, Start, pruneStaleProjectStates,
     projectStateIsLive, LoadGlobalState, Deregister
<1>4. CASE Kill(c)
  BY <1>4, EndIdle DEF Kill
<1> QED
  BY <1>1, <1>2, <1>3, <1>4

LEMMA LockStep ==
  ASSUME TypeOK, Asked, LockHeld, [Next]_vars, ~why'.lock
  PROVE  LockHeld'
<1>1. CASE \E c \in Cmd : UpCommand(c) \/ Down(c) \/ Clean(c) \/ Kill(c)
  <2>1. PICK c \in Cmd : UpCommand(c) \/ Down(c) \/ Clean(c) \/ Kill(c)
    BY <1>1
  <2>2. ASSUME NEW d \in Cmd, d # c
        PROVE  /\ In(d, Locked)' => In(d, Locked)
               /\ At(d, "sweep")' => At(d, "sweep")
    <3>1. cmd'[d] = cmd[d]
      BY <2>1, <2>2, OthersStay
    <3> QED
      BY <3>1 DEF In, At, Locked
  <2>3. acquireLock(c) => /\ lock \notin Cmd /\ lock' = c
                          /\ \A d \in Cmd : ~At(d, "sweep")
    <3>1. acquireLock(c) => why' = [why EXCEPT !.lock = @ \/ \E d \in Cmd : At(d, "sweep")]
      BY DEF acquireLock
    <3>2. acquireLock(c) => why'.lock = (why.lock \/ \E d \in Cmd : At(d, "sweep"))
      BY <3>1 DEF TypeOK
    <3> QED
      BY <3>2 DEF acquireLock
  <2>4. Release(c) => In(c, Locked)
    BY DEF Release, At, In, Locked
  <2>5. RemoveAll(c) => At(c, "sweep") /\ ~In(c, Locked)
    BY DEF RemoveAll, At, In, Locked
  <2>6. Release(c) \/ cmd'[c] = Idle => ~In(c, Locked)'
    BY EndIdle DEF Release, Idle, In, Locked
  <2>7. ASSUME NEW d \in Cmd, In(d, Locked)' PROVE lock' = d
    <3>1. CASE d = c
      <4>1. CASE acquireLock(c)
        BY <2>3, <3>1, <4>1
      <4>2. CASE ~acquireLock(c)
        <5>1. In(c, Locked) /\ lock = c
          BY <2>1, <2>7, <3>1, <4>2, Moves DEF LockHeld
        <5> QED
          BY <2>1, <2>5, <2>6, <2>7, <3>1, <4>2, <5>1, LockMoves
      <4> QED
        BY <4>1, <4>2
    <3>2. CASE d # c
      <4>1. In(d, Locked) /\ lock = d /\ ~In(c, Locked)
        BY <2>2, <2>7, <3>2 DEF LockHeld
      <4>2. ~At(c, "sweep")
        BY <4>1 DEF LockHeld
      <4> QED
        BY <2>1, <2>3, <2>4, <2>5, <3>2, <4>1, <4>2, LockMoves
    <3> QED
      BY <3>1, <3>2
  <2>8. ASSUME NEW d \in Cmd, NEW e \in Cmd, At(d, "sweep")', In(e, Locked)' PROVE FALSE
    <3>1. CASE d = c
      <4>1. removeIfHoldsNoFile(c)
        BY <2>1, <2>8, <3>1, Moves
      <4>2. lock' = NoFile
        <5>1. HoldsNoFile
          BY <2>8, <3>1, <4>1, GotoKeeps DEF removeIfHoldsNoFile, At
        <5> QED
          BY <4>1, <5>1 DEF removeIfHoldsNoFile, HoldsNoFile
      <4> QED
        BY <2>7, <2>8, <4>2, UpRunAssumption
    <3>2. CASE d # c
      <4>1. At(d, "sweep") /\ ~In(e, Locked) /\ ~In(c, Locked)
        BY <2>2, <2>8, <3>2 DEF LockHeld
      <4>2. e = c
        BY <2>2, <2>8, <4>1
      <4>3. acquireLock(c)
        BY <2>1, <2>8, <4>1, <4>2, Moves
      <4> QED
        BY <2>3, <4>1, <4>3
    <3> QED
      BY <3>1, <3>2
  <2> QED
    BY <2>7, <2>8 DEF LockHeld
<1>2. CASE Edit \/ UNCHANGED vars
  <2>1. cmd' = cmd /\ lock' = lock
    BY <1>2 DEF Edit, vars
  <2> QED
    BY <2>1 DEF LockHeld, In, At
<1> QED
  BY <1>1, <1>2 DEF Next

\* Only a command past the lock changes a checkout or starts a host service.
LEMMA CheckoutMoves ==
  ASSUME TypeOK, Asked, NEW c \in Cmd, UpCommand(c) \/ Down(c) \/ Clean(c) \/ Kill(c),
         ~In(c, Locked)
  PROVE  /\ tree' = tree /\ stash' = stash
         /\ \A p \in Project : "host" \in runs'[p] => "host" \in runs[p]
<1>1. CASE UpCommand(c)
  <2>1. StartUp(c) \/ UpRefused(c) \/ preHookFails(c) \/ acquireLock(c) \/ LockTaken(c)
    BY <1>1 DEF UpCommand, processGitRepos, stopGitServicesBeforeReclone, ForceReclone,
     EnsureEditableRepo, CloneAnew, RunClone, EnsureBranchFails, PullBranch, PopStash, AfterPull, CloneDone, CloneFails,
     ValidateAllImages, EnsureNetwork, CreateNetwork, EnsureVolumes, EnsureVolumesFails,
     processOrchestration, OrchestrationFails, removeUnusedNetworks, saveState,
     LoadGlobalState, UpdateProjectState, waitForServiceEndpoints, postHookExec, Release,
     At, In, Locked
  <2> QED
    BY <2>1 DEF StartUp, Start, UpRefused, preHookFails, acquireLock, LockTaken
<1>2. CASE Down(c)
  <2>1. CASE StopProject(c)
    <3>1. tree' = tree /\ stash' = stash /\ runs' = [runs EXCEPT ![proj(c)] = {}]
      BY <2>1 DEF StopProject
    <3> QED
      BY <3>1 DEF TypeOK
  <2>2. CASE StopFails(c)
    <3>1. PICK rest \in SUBSET runs[proj(c)] : runs' = [runs EXCEPT ![proj(c)] = rest]
      BY <2>2 DEF StopFails
    <3>2. tree' = tree /\ stash' = stash
      BY <2>2 DEF StopFails
    <3> QED
      BY <3>1, <3>2 DEF TypeOK
  <2> QED
    BY <1>2, <2>1, <2>2 DEF Down, StartDown, Start, removeNetwork, KeepsState,
     NoLeftovers, deleteRoot, removeIfHoldsNoFile, RemoveAll, LoadGlobalState, RemoveProject
<1>3. CASE Clean(c)
  BY <1>3 DEF Clean, StartClean, Start, pruneStaleProjectStates,
     projectStateIsLive, LoadGlobalState, Deregister
<1>4. CASE Kill(c)
  <2>1. tree' = tree /\ stash' = stash
    BY <1>4 DEF Kill
  <2>2. CASE In(c, Tearing)
    <3>1. Partly(c) /\ ~At(c, "start")
      BY <1>4, <2>2 DEF Kill, In, At, Tearing
    <3>2. PICK r \in SUBSET runs[proj(c)] : runs' = [runs EXCEPT ![proj(c)] = r]
      BY <3>1 DEF Partly
    <3> QED
      BY <2>1, <3>2 DEF TypeOK
  <2>3. CASE ~In(c, Tearing)
    BY <1>4, <2>1, <2>3 DEF Kill, In
  <2> QED
    BY <2>2, <2>3
<1> QED
  BY <1>1, <1>2, <1>3, <1>4

LEMMA CheckoutStep ==
  ASSUME TypeOK, Asked, LockHeld, CheckoutSafe, [Next]_vars
  PROVE  CheckoutSafe'
<1>1. CASE \E c \in Cmd : UpCommand(c) \/ Down(c) \/ Clean(c) \/ Kill(c)
  <2>1. PICK c \in Cmd : UpCommand(c) \/ Down(c) \/ Clean(c) \/ Kill(c)
    BY <1>1
  <2>2. ASSUME NEW d \in Cmd, At(d, "reclone")'
        PROVE  "host" \notin runs'[proj(d)'] \/ cmd'[d].failed
    <3>1. CASE d = c
      <4>1. stopGitServicesBeforeReclone(c)
        BY <2>1, <2>2, <3>1, Moves
      <4>2. proj(c) \in Project /\ proj(c)' = proj(c)
        BY <4>1, StopGoes, StopLeaves DEF proj
      <4> QED
        BY <3>1, <4>1, <4>2, StopGoes
    <3>2. CASE d # c
      <4>1. cmd'[d] = cmd[d]
        BY <2>1, <3>2, OthersStay
      <4>2. At(d, "reclone") /\ proj(d)' = proj(d) /\ proj(d) \in Project
        BY <2>2, <4>1 DEF At, In, proj, Asked
      <4>3. ~In(c, Locked)
        BY <3>2, <4>2 DEF LockHeld, At, In, Locked
      <4> QED
        BY <2>1, <4>1, <4>2, <4>3, CheckoutMoves DEF CheckoutSafe
    <3> QED
      BY <3>1, <3>2
  <2>3. ASSUME NEW d \in Cmd, At(d, "cloning")' PROVE tree'[proj(d)'] = "half"
    <3>1. CASE d = c
      <4>1. EnsureEditableRepo(c) \/ CloneAnew(c)
        BY <2>1, <2>3, <3>1, Moves
      <4>2. proj(c) \in Project /\ proj(c)' = proj(c)
        BY <4>1, GotoKeeps DEF EnsureEditableRepo, CloneAnew, RunClone, Asked, At, In, proj
      <4>3. tree' = [tree EXCEPT ![proj(c)] = "half"]
        <5>1. tree[proj(c)] # "none" => Goto(c, "images") \/ Goto(c, "pull") \/ Goto(c, "release")
          BY <4>1 DEF EnsureEditableRepo, CloneAnew, RunClone
        <5>2. tree[proj(c)] = "none"
          BY <2>3, <3>1, <5>1, GotoKeeps DEF At
        <5> QED
          BY <4>1, <5>2 DEF EnsureEditableRepo, CloneAnew, RunClone
      <4> QED
        BY <3>1, <4>2, <4>3 DEF TypeOK
    <3>2. CASE d # c
      <4>1. cmd'[d] = cmd[d]
        BY <2>1, <3>2, OthersStay
      <4>2. At(d, "cloning") /\ proj(d)' = proj(d)
        BY <2>3, <4>1 DEF At, proj
      <4>3. ~In(c, Locked)
        BY <3>2, <4>2 DEF LockHeld, At, In, Locked
      <4> QED
        BY <2>1, <4>2, <4>3, CheckoutMoves DEF CheckoutSafe
    <3> QED
      BY <3>1, <3>2
  <2> QED
    BY <2>2, <2>3 DEF CheckoutSafe
<1>2. CASE Edit
  <2>1. PICK p \in Git : tree[p] \in {"none", "clean"} /\ tree' = [tree EXCEPT ![p] = "work"]
    BY <1>2 DEF Edit
  <2>2. cmd' = cmd /\ runs' = runs
    BY <1>2 DEF Edit
  <2>3. \A q \in Project : tree[q] = "half" => tree'[q] = "half"
    BY <2>1 DEF TypeOK
  <2>4. \A d \in Cmd : At(d, "cloning") => proj(d) \in Project
    BY DEF Asked, At, In
  <2> QED
    BY <2>2, <2>3, <2>4 DEF CheckoutSafe, At, proj
<1>3. CASE UNCHANGED vars
  BY <1>3 DEF vars, CheckoutSafe, At, proj
<1> QED
  BY <1>1, <1>2, <1>3 DEF Next

\* Seven steps of an `up` change a checkout or its stash.
LEMMA TreeMoves ==
  ASSUME TypeOK, Asked, NEW c \in Cmd, UpCommand(c) \/ Down(c) \/ Clean(c) \/ Kill(c)
  PROVE  \/ tree' = tree /\ stash' = stash
         \/ ForceReclone(c) \/ EnsureEditableRepo(c) \/ CloneAnew(c) \/ CloneDone(c)
         \/ CloneFails(c) \/ PullBranch(c) \/ PopStash(c)
<1>1. CASE ~In(c, Locked)
  BY <1>1, CheckoutMoves
<1>2. CASE In(c, Locked)
  <2>1. CASE Kill(c)
    BY <2>1 DEF Kill
  <2>2. ~Down(c) /\ ~Clean(c)
    BY <1>2 DEF Down, StartDown, Start, StopProject, StopFails, removeNetwork, KeepsState,
       NoLeftovers, deleteRoot, removeIfHoldsNoFile, RemoveAll, LoadGlobalState,
       RemoveProject, Clean, StartClean, pruneStaleProjectStates, projectStateIsLive,
       Deregister, At, In, Locked
  <2> QED
    BY <2>1, <2>2 DEF UpCommand, StartUp, Start, UpRefused, preHookFails, acquireLock,
       LockTaken, processGitRepos, stopGitServicesBeforeReclone, EnsureBranchFails,
       ValidateAllImages, EnsureNetwork, CreateNetwork, EnsureVolumes, EnsureVolumesFails,
       processOrchestration, OrchestrationFails, removeUnusedNetworks, saveState,
       LoadGlobalState, UpdateProjectState, waitForServiceEndpoints, postHookExec, Release
<1> QED
  BY <1>1, <1>2

\* What each of them does.
LEMMA TreeTurns ==
  ASSUME NEW c \in Cmd
  PROVE  /\ ForceReclone(c) => /\ tree' = [tree EXCEPT ![proj(c)] = "none"]
                               /\ stash' = [stash EXCEPT ![proj(c)] = 0]
                               /\ At(c, "reclone")
         /\ EnsureEditableRepo(c) \/ CloneAnew(c) =>
              /\ stash' = stash
              /\ \/ tree' = tree
                 \/ tree[proj(c)] = "none" /\ tree' = [tree EXCEPT ![proj(c)] = "half"]
         /\ CloneDone(c) => /\ stash' = stash
                            /\ \/ tree' = tree
                               \/ /\ tree[proj(c)] = "half"
                                  /\ tree' = [tree EXCEPT ![proj(c)] = "clean"]
         /\ CloneFails(c) => /\ At(c, "cloning")
                             /\ \/ tree' = tree /\ stash' = stash
                                \/ /\ tree' = [tree EXCEPT ![proj(c)] = "none"]
                                   /\ stash' = [stash EXCEPT ![proj(c)] = 0]
         /\ PullBranch(c) => \/ tree' = tree /\ stash' = stash
                             \/ /\ tree' = [tree EXCEPT ![proj(c)] = "clean"]
                                /\ stash' = [stash EXCEPT ![proj(c)] = @ + 1]
         /\ PopStash(c) => \/ tree' = tree /\ stash' = stash
                           \/ /\ tree' = [tree EXCEPT ![proj(c)] = "work"]
                              /\ \/ stash' = stash
                                 \/ stash' = [stash EXCEPT ![proj(c)] = @ - 1]
  BY DEF ForceReclone, EnsureEditableRepo, CloneAnew, RunClone, CloneDone, CloneFails,
     PullBranch, PopStash

LEMMA StashStep == TypeOK /\ Asked /\ StashInRepo /\ [Next]_vars => StashInRepo'
<1> SUFFICES ASSUME TypeOK, Asked, StashInRepo, [Next]_vars, NEW p \in Project,
                    tree'[p] \in {"none", "half"}
             PROVE  stash'[p] = 0
  BY DEF StashInRepo
<1>1. /\ tree \in [Project -> {"none", "half", "clean", "work"}] /\ stash \in [Project -> Nat]
      /\ tree[p] \in {"none", "half"} => stash[p] = 0
  BY DEF TypeOK, StashInRepo
<1>2. CASE Edit \/ UNCHANGED vars
  <2>1. stash' = stash /\ (tree' = tree \/ \E q \in Git : tree' = [tree EXCEPT ![q] = "work"])
    BY <1>2 DEF Edit, vars
  <2> QED
    BY <1>1, <2>1
<1>3. ASSUME NEW c \in Cmd, UpCommand(c) \/ Down(c) \/ Clean(c) \/ Kill(c) PROVE stash'[p] = 0
  <2>1. CASE tree' = tree /\ stash' = stash
    BY <1>1, <2>1
  <2>2. CASE ForceReclone(c) \/ CloneFails(c)
    BY <1>1, <2>2, TreeTurns
  <2>3. CASE EnsureEditableRepo(c) \/ CloneAnew(c) \/ CloneDone(c)
    BY <1>1, <2>3, TreeTurns
  <2>4. CASE PullBranch(c) \/ PopStash(c)
    BY <1>1, <2>4, TreeTurns
  <2> QED
    BY <1>3, <2>1, <2>2, <2>3, <2>4, TreeMoves
<1> QED
  BY <1>2, <1>3 DEF Next

LEMMA IInvStep == IInv /\ [Next]_vars => IInv'
<1> SUFFICES ASSUME IInv, [Next]_vars PROVE IInv'
  OBVIOUS
<1>1. TypeOK' /\ Asked' /\ StashInRepo'
  BY NextTypes, AskedStep, StashStep DEF IInv
<1>2. ASSUME ~why'.lock PROVE LockHeld' /\ CheckoutSafe'
  <2>1. LockHeld /\ CheckoutSafe
    BY <1>2, RaceRemembered DEF IInv
  <2> QED
    BY <1>2, <2>1, LockStep, CheckoutStep DEF IInv
<1> QED
  BY <1>1, <1>2 DEF IInv

LEMMA Inductive == Spec => []IInv
  BY InitIInv, IInvStep, PTL DEF Spec

(***************************************************************************)
(* Every variable of the commands and of the places they share keeps its   *)
(* type (saveState, UpdateProjectState and the other writers of the code   *)
(* never leave anything else).                                             *)
(***************************************************************************)
THEOREM TypeCorrect == Spec => []TypeOK
<1>1. IInv => TypeOK
  BY DEF IInv
<1> QED
  BY Inductive, <1>1, PTL

(***************************************************************************)
(* Whatever the projects and however many commands run, killed or not: two *)
(* `up`s are past acquireLock together only when a `down` has removed the  *)
(* workspace directory with a lock just created in it.                     *)
(***************************************************************************)
THEOREM OneAtATime == Spec => []OneUpAtATime
<1>1. IInv => OneUpAtATime
  BY DEF IInv, LockHeld, OneUpAtATime
<1> QED
  BY Inductive, <1>1, PTL

\* The step that is the heart of WorkSafe.
LEMMA WorkStep ==
  ASSUME IInv, [Next]_vars, ~why.lock, NEW p \in Project,
         \/ tree[p] = "work" /\ tree'[p] # "work" /\ stash'[p] <= stash[p]
         \/ stash'[p] < stash[p] /\ tree'[p] # "work"
  PROVE  \E c \in Cmd : Forced(c, p)
<1>0. /\ TypeOK /\ Asked /\ CheckoutSafe
      /\ tree \in [Project -> {"none", "half", "clean", "work"}] /\ stash \in [Project -> Nat]
      /\ tree[p] \in {"none", "half"} => stash[p] = 0
  BY DEF IInv, TypeOK, StashInRepo
<1>1. ~(tree' = tree /\ stash' = stash)
  BY <1>0
<1>2. ~Edit /\ ~UNCHANGED vars
  <2>1. Edit => stash' = stash /\ \E q \in Git : tree' = [tree EXCEPT ![q] = "work"]
    BY DEF Edit
  <2> QED
    BY <1>0, <1>1, <2>1 DEF vars
<1>3. PICK c \in Cmd : UpCommand(c) \/ Down(c) \/ Clean(c) \/ Kill(c)
  BY <1>2 DEF Next
<1>4. ~EnsureEditableRepo(c) /\ ~CloneAnew(c) /\ ~CloneDone(c)
  BY <1>0, TreeTurns
<1>5. ~PullBranch(c) /\ ~PopStash(c)
  <2>1. ASSUME tree' = [tree EXCEPT ![proj(c)] = "clean"],
               stash' = [stash EXCEPT ![proj(c)] = @ + 1]
        PROVE  FALSE
    BY <1>0, <2>1
  <2>2. ASSUME tree' = [tree EXCEPT ![proj(c)] = "work"],
               stash' = stash \/ stash' = [stash EXCEPT ![proj(c)] = @ - 1]
        PROVE  FALSE
    BY <1>0, <2>2
  <2> QED
    BY <1>1, <2>1, <2>2, TreeTurns
<1>6. ~CloneFails(c)
  <2>1. CloneFails(c) => tree[proj(c)] = "half"
    BY <1>0, TreeTurns DEF CheckoutSafe
  <2>2. ASSUME CloneFails(c), tree' = [tree EXCEPT ![proj(c)] = "none"],
               stash' = [stash EXCEPT ![proj(c)] = 0]
        PROVE  FALSE
    BY <1>0, <2>1, <2>2
  <2> QED
    BY <1>1, <2>2, TreeTurns
<1>7. /\ At(c, "reclone")
      /\ tree' = [tree EXCEPT ![proj(c)] = "none"] /\ stash' = [stash EXCEPT ![proj(c)] = 0]
  BY <1>0, <1>1, <1>3, <1>4, <1>5, <1>6, TreeMoves, TreeTurns
<1>8. proj(c) = p
  BY <1>0, <1>7
<1>9. cmd[c].force /\ ("host" \notin runs[p] \/ cmd[c].failed)
  BY <1>0, <1>7, <1>8 DEF Asked, CheckoutSafe, At, In
<1> QED
  BY <1>8, <1>9 DEF Forced

(***************************************************************************)
(* Uncommitted work leaves the working tree only for the stash and the     *)
(* stash only for the working tree, but by the RemoveAll of ForceReclone:  *)
(* asked for by the user and after the service that runs from the checkout *)
(* was stopped or could not be, unless the lock was lost to a `down`       *)
(* before (PullBranch, host_lifecycle.go:214).                             *)
(***************************************************************************)
THEOREM WorkSafe == Spec => WorkGoesByForce
<1>1. IInv /\ [Next]_vars =>
        [\A p \in Project :
           \/ tree[p] = "work" /\ tree'[p] # "work" /\ stash'[p] <= stash[p]
           \/ stash'[p] < stash[p] /\ tree'[p] # "work"
           => why.lock \/ \E c \in Cmd : Forced(c, p)]_vars
  BY WorkStep
<1> QED
  BY Inductive, <1>1, PTL DEF Spec, WorkGoesByForce

--------------------------------------------------------------------------------
(* The registry.  A step of c can only disturb what is said of a project by  *)
(* changing what runs, what is listed, or c's own place; the lemmas take the *)
(* ways of not doing so one by one.                                          *)

Telling == Entering \cup Leaving \cup {"drop", "undrop"}

\* A step of c that has nothing to do with p.
LEMMA Elsewhere ==
  ASSUME NEW c \in Cmd, NEW p \in Project, \A d \in Cmd \ {c} : cmd'[d] = cmd[d],
         Up(p)' = Up(p), (p \in reg') = (p \in reg),
         proj(c) # p, cmd'[c].proj # p, KeptFor(p)
  PROVE  KeptFor(p)'
<1>1. \A d \in Cmd : Knows(d, p)'
  <2> SUFFICES ASSUME NEW d \in Cmd, d # c PROVE Knows(d, p)'
    BY DEF Knows, proj
  <2>1. cmd'[d] = cmd[d] /\ Knows(d, p)
    BY DEF KeptFor
  <2> QED
    BY <2>1 DEF Knows, proj, In
<1>2. \A d \in Cmd : Owes(d, p) => Owes(d, p)'
  <2> SUFFICES ASSUME NEW d \in Cmd, Owes(d, p) PROVE Owes(d, p)'
    OBVIOUS
  <2>1. cmd'[d] = cmd[d]
    BY DEF Owes
  <2> QED
    BY <2>1 DEF Owes, proj, In
<1> QED
  BY <1>1, <1>2 DEF KeptFor

\* A step of c before it starts or stops anything, or after it has told.
LEMMA Aside ==
  ASSUME NEW c \in Cmd, NEW p \in Project, \A d \in Cmd \ {c} : cmd'[d] = cmd[d],
         runs' = runs, reg' = reg, cmd[c].pc \notin Telling, cmd'[c].pc \notin Telling,
         KeptFor(p)
  PROVE  KeptFor(p)'
<1>0. Up(p)' = Up(p)
  BY DEF Up
<1>1. \A d \in Cmd : Knows(d, p)'
  <2> SUFFICES ASSUME NEW d \in Cmd PROVE Knows(d, p)'
    OBVIOUS
  <2>1. CASE d = c
    BY <2>1 DEF Knows, In, Telling
  <2>2. CASE d # c
    <3>1. cmd'[d] = cmd[d] /\ Knows(d, p)
      BY <2>2 DEF KeptFor
    <3> QED
      BY <1>0, <3>1 DEF Knows, proj, In
  <2> QED
    BY <2>1, <2>2
<1>2. \A d \in Cmd : Owes(d, p) => Owes(d, p)'
  <2> SUFFICES ASSUME NEW d \in Cmd, Owes(d, p) PROVE Owes(d, p)'
    OBVIOUS
  <2>1. cmd'[d] = cmd[d]
    BY DEF Owes, In, Telling
  <2> QED
    BY <2>1 DEF Owes, proj, In
<1> QED
  BY <1>0, <1>1, <1>2 DEF KeptFor

\* A step of c between its start or stop and its save.
LEMMA Steady ==
  ASSUME NEW c \in Cmd, NEW p \in Project, \A d \in Cmd \ {c} : cmd'[d] = cmd[d],
         runs' = runs, reg' = reg, cmd'[c].proj = cmd[c].proj,
         \E S \in {Entering, Leaving, {"drop", "undrop"}} : cmd[c].pc \in S /\ cmd'[c].pc \in S,
         KeptFor(p)
  PROVE  KeptFor(p)'
<1>0. Up(p)' = Up(p)
  BY DEF Up
<1>1. \A d \in Cmd : Knows(d, p)'
  <2> SUFFICES ASSUME NEW d \in Cmd PROVE Knows(d, p)'
    OBVIOUS
  <2>0. Knows(d, p)
    BY DEF KeptFor
  <2>1. CASE d = c
    BY <1>0, <2>0, <2>1 DEF Knows, In, proj, Entering, Leaving, Tearing
  <2>2. CASE d # c
    BY <1>0, <2>0, <2>2 DEF Knows, proj, In
  <2> QED
    BY <2>1, <2>2
<1>2. \A d \in Cmd : Owes(d, p) => Owes(d, p)'
  <2> SUFFICES ASSUME NEW d \in Cmd, Owes(d, p) PROVE Owes(d, p)'
    OBVIOUS
  <2>1. CASE d = c
    BY <2>1 DEF Owes, In, proj, Entering, Leaving, Tearing
  <2>2. CASE d # c
    BY <2>2 DEF Owes, proj, In
  <2> QED
    BY <2>1, <2>2
<1> QED
  BY <1>0, <1>1, <1>2 DEF KeptFor

\* What c does to its own project while no other command is on it.
LEMMA Alone ==
  ASSUME NEW c \in Cmd, \A d \in Cmd \ {c} : cmd'[d] = cmd[d], ~Overlapped(c),
         Knows(c, proj(c))', ((proj(c) \in reg) = Up(proj(c)))' \/ Owes(c, proj(c))',
         proj(c)' = proj(c)
  PROVE  KeptFor(proj(c))'
  BY DEF KeptFor, Knows, Owes, Overlapped, proj

\* A save of the registry that leaves it right about p.
LEMMA SetRight ==
  ASSUME NEW c \in Cmd, NEW p \in Project, \A d \in Cmd \ {c} : cmd'[d] = cmd[d],
         runs' = runs, (p \in reg') = Up(p), cmd'[c].pc \notin Telling,
         \A d \in Cmd \ {c} : Knows(d, p)
  PROVE  KeptFor(p)'
<1>0. Up(p)' = Up(p)
  BY DEF Up
<1>1. \A d \in Cmd : Knows(d, p)'
  <2> SUFFICES ASSUME NEW d \in Cmd PROVE Knows(d, p)'
    OBVIOUS
  <2>1. CASE d = c
    BY <2>1 DEF Knows, In, Telling
  <2>2. CASE d # c
    BY <1>0, <2>2 DEF Knows, proj, In
  <2> QED
    BY <2>1, <2>2
<1> QED
  BY <1>0, <1>1 DEF KeptFor

\* What a save of the registry changes, but for c's own project, it blames.
LEMMA OtherEntries ==
  ASSUME TypeOK, NEW c \in Cmd, NEW new, new \ {proj(c)} = cmd[c].seen \ {proj(c)},
         SaveGlobalState(c, new), NEW p \in Project \ why'.reg, p # proj(c)
  PROVE  p \notin why.reg /\ (p \in reg') = (p \in reg)
<1>0. why' = [why EXCEPT !.reg = (@ \cup Overwritten(c)) \
          {q \in {proj(c)} : ~Overlapped(c) /\ (q \in new) = Up(q)}]
  BY DEF SaveGlobalState
<1> QED
  BY <1>0 DEF SaveGlobalState, Overwritten, TypeOK

\* A save leaves c's own entry right.
LEMMA OwnEntry ==
  ASSUME TypeOK, NEW c \in Cmd, NEW new, SaveGlobalState(c, new), runs' = runs,
         \A d \in Cmd \ {c} : cmd'[d] = cmd[d], cmd'[c].pc \notin Telling,
         NEW p \in Project \ why'.reg, p = proj(c), RegistryKept,
         p \notin why.reg => (p \in new) = Up(p)
  PROVE  KeptFor(p)'
<1>1. /\ reg' = new
      /\ why' = [why EXCEPT !.reg = (@ \cup Overwritten(c)) \
            {q \in {p} : ~Overlapped(c) /\ (q \in new) = Up(q)}]
  BY DEF SaveGlobalState
<1>2. \/ ~Overlapped(c) /\ (p \in new) = Up(p)
      \/ p \notin why.reg
  BY <1>1 DEF TypeOK
<1>3. (p \in reg') = Up(p)
  BY <1>1, <1>2
<1>4. \A d \in Cmd \ {c} : Knows(d, p)
  <2>1. CASE ~Overlapped(c)
    BY <2>1 DEF Overlapped, Knows
  <2>2. CASE p \notin why.reg
    BY <2>2 DEF RegistryKept, KeptFor
  <2> QED
    BY <1>2, <2>1, <2>2
<1> QED
  BY <1>3, <1>4, SetRight

\* What Blame does to `why`.
LEMMA Blamed ==
  ASSUME TypeOK, NEW S, Blame(S)
  PROVE  why'.reg = why.reg \cup S /\ why'.root = TRUE /\ why'.net = TRUE
  BY DEF TypeOK, Blame

(***************************************************************************)
(* What each command does to what is known of each project: an `up` puts   *)
(* its project right when it saves, a `down` takes it out, `clean` drops   *)
(* what does not run.                                                      *)
(***************************************************************************)
LEMMA RegistryUp ==
  ASSUME TypeOK, Asked, NEW c \in Cmd, UpCommand(c), RegistryKept
  PROVE  RegistryKept'
<1> SUFFICES ASSUME NEW p \in Project, p \notin why'.reg PROVE KeptFor(p)'
  BY DEF RegistryKept
<1>0. \A d \in Cmd \ {c} : cmd'[d] = cmd[d]
  BY OthersStay
<1>1. CASE StartUp(c)
  <2>1. PICK q \in Project, force \in BOOLEAN :
          Start(c, [Idle EXCEPT !.pc = "lock", !.proj = q, !.force = force])
    BY <1>1 DEF StartUp
  <2>2. cmd[c].pc = "idle" /\ cmd'[c].pc = "lock" /\ runs' = runs /\ reg' = reg /\ why' = why
    BY <2>1 DEF Start, TypeOK, Idle, At
  <2> QED
    BY <1>0, <2>2, Aside DEF Telling, Entering, Leaving, Tearing, RegistryKept
<1>2. CASE UpRefused(c) \/ preHookFails(c) \/ LockTaken(c) \/ Release(c)
  <2>1. cmd'[c].pc = "idle"
    BY <1>2, EndIdle DEF UpRefused, preHookFails, LockTaken, Release, Idle
  <2>2. cmd[c].pc \in {"lock", "release"} /\ runs' = runs /\ reg' = reg /\ why' = why
    BY <1>2 DEF UpRefused, preHookFails, LockTaken, Release, At
  <2> QED
    BY <1>0, <2>1, <2>2, Aside DEF Telling, Entering, Leaving, Tearing, RegistryKept
<1>3. CASE \/ acquireLock(c) \/ processGitRepos(c) \/ ForceReclone(c)
           \/ EnsureEditableRepo(c) \/ CloneAnew(c) \/ EnsureBranchFails(c) \/ PullBranch(c) \/ PopStash(c) \/ CloneDone(c)
           \/ CloneFails(c)
  <2>1. cmd'[c].pc \in {"prepare", "images", "stop", "clone", "cloning", "pull", "pop", "release"}
    BY <1>3, GotoKeeps DEF acquireLock, processGitRepos, cloneIntoDeclaredPath, ForceReclone,
       EnsureEditableRepo, CloneAnew, RunClone, EnsureBranchFails, PullBranch, PopStash, AfterPull, CloneDone, CloneFails
  <2>2. /\ cmd[c].pc \in {"lock", "prepare", "reclone", "clone", "cloning", "pull", "pop"}
        /\ runs' = runs /\ reg' = reg
    BY <1>3 DEF acquireLock, processGitRepos, ForceReclone,
       EnsureEditableRepo, CloneAnew, RunClone, EnsureBranchFails, PullBranch, PopStash, AfterPull, CloneDone, CloneFails, At
  <2>3. why'.reg = why.reg
    BY <1>3 DEF acquireLock, processGitRepos, ForceReclone,
       EnsureEditableRepo, CloneAnew, RunClone, EnsureBranchFails, PullBranch, PopStash, AfterPull, CloneDone, CloneFails, TypeOK
  <2> QED
    BY <1>0, <2>1, <2>2, <2>3, Aside DEF Telling, Entering, Leaving, Tearing, RegistryKept
<1>4. CASE \/ ValidateAllImages(c) \/ EnsureNetwork(c) \/ CreateNetwork(c) \/ EnsureVolumes(c)
           \/ EnsureVolumesFails(c) \/ removeUnusedNetworks(c)
           \/ waitForServiceEndpoints(c) \/ postHookExec(c)
  <2>1. cmd'[c].pc \in {"network", "release", "create", "volumes", "start", "post"}
    BY <1>4, GotoKeeps DEF ValidateAllImages, EnsureNetwork, CreateNetwork, EnsureVolumes,
       EnsureVolumesFails, removeUnusedNetworks, waitForServiceEndpoints, postHookExec
  <2>2. /\ cmd[c].pc \in {"images", "network", "create", "volumes", "unattached",
                          "endpoints", "post"}
        /\ runs' = runs /\ reg' = reg
    BY <1>4 DEF ValidateAllImages, EnsureNetwork, CreateNetwork, EnsureVolumes,
       EnsureVolumesFails, removeUnusedNetworks, waitForServiceEndpoints, postHookExec, At
  <2>3. why'.reg = why.reg
    BY <1>4 DEF ValidateAllImages, EnsureNetwork, CreateNetwork, EnsureVolumes,
       EnsureVolumesFails, removeUnusedNetworks, waitForServiceEndpoints, postHookExec, TypeOK
  <2> QED
    BY <1>0, <2>1, <2>2, <2>3, Aside DEF Telling, Entering, Leaving, Tearing, RegistryKept
<1>5. CASE stopGitServicesBeforeReclone(c)
  <2>0. reg' = reg /\ cmd[c].pc = "stop"
    BY <1>5 DEF stopGitServicesBeforeReclone, At
  <2>1. CASE Blame({proj(c)})
    <3>1. proj(c) # p /\ p \notin why.reg
      BY <2>1, Blamed
    <3>2. cmd'[c].proj = proj(c) /\ Up(p)' = Up(p)
      BY <1>5, <3>1, StopGoes, StopLeaves DEF Up, proj
    <3> QED
      BY <1>0, <2>0, <3>1, <3>2, Elsewhere DEF RegistryKept
  <2>2. CASE runs' = runs /\ why' = why
    <3>1. cmd'[c].pc = "reclone"
      BY <1>5, StopGoes
    <3> QED
      BY <1>0, <2>0, <2>2, <3>1, Aside DEF Telling, Entering, Leaving, Tearing, RegistryKept
  <2> QED
    BY <1>5, <2>1, <2>2, StopLeaves
<1>6. CASE processOrchestration(c)
  <2>1. proj(c) \in Project /\ cmd[c].pc = "start"
    BY <1>6 DEF processOrchestration, Asked, At, In
  <2>6. p \notin why.reg /\ (p = proj(c) => ~Overlapped(c))
    <3>1. CASE Overlapped(c)
      BY <1>6, <3>1, Blamed DEF processOrchestration
    <3>2. CASE ~Overlapped(c)
      <4>1. why' = [why EXCEPT !.net = FALSE]
        BY <1>6, <3>2 DEF processOrchestration
      <4> QED
        BY <3>2, <4>1 DEF TypeOK
    <3> QED
      BY <3>1, <3>2
  <2>2. cmd'[c].proj = proj(c) /\ cmd'[c].pc = "save"
    BY <1>6, GotoKeeps DEF processOrchestration, proj
  <2>3. reg' = reg /\ (p # proj(c) => Up(p)' = Up(p))
    BY <1>6, <2>1 DEF processOrchestration, Up, TypeOK
  <2>4. CASE p # proj(c)
    BY <1>0, <2>1, <2>2, <2>3, <2>4, <2>6, Elsewhere DEF RegistryKept
  <2>5. CASE p = proj(c)
    <3>1. ~Overlapped(c)
      BY <2>5, <2>6
    <3>2. Up(proj(c))'
      <4>1. runs'[proj(c)] = Kinds[proj(c)] /\ Kinds[proj(c)] # {}
        BY <1>6, <2>1, UpRunAssumption, ZenonT(60) DEF processOrchestration, TypeOK
      <4> QED
        BY <2>2, <4>1 DEF Up, proj
    <3>3. Knows(c, proj(c))' /\ Owes(c, proj(c))'
      BY <2>2, <3>2 DEF Knows, Owes, In, Entering, Leaving, Tearing
    <3> QED
      BY <1>0, <2>2, <2>5, <3>1, <3>3, Alone DEF proj
  <2> QED
    BY <2>4, <2>5
<1>7. CASE OrchestrationFails(c)
  <2>1. proj(c) \in Project /\ cmd[c].pc = "start" /\ reg' = reg
    BY <1>7 DEF OrchestrationFails, Asked, At, In
  <2>2. cmd'[c].proj = proj(c) /\ cmd'[c].pc = "unattached"
    BY <1>7, GotoKeeps DEF OrchestrationFails, proj
  <2>3. CASE runs' = runs /\ why' = why
    BY <1>0, <2>1, <2>2, <2>3, Aside DEF Telling, Entering, Leaving, Tearing, RegistryKept
  <2>4. CASE /\ \E new : runs' = [runs EXCEPT ![proj(c)] = @ \cup new]
             /\ why' = [why EXCEPT !.reg = @ \cup {proj(c)}, !.root = TRUE]
    <3>1. p # proj(c) /\ p \notin why.reg /\ Up(p)' = Up(p)
      BY <2>1, <2>4 DEF TypeOK, Up
    <3> QED
      BY <1>0, <2>1, <2>2, <3>1, Elsewhere DEF RegistryKept
  <2> QED
    BY <1>7, <2>3, <2>4 DEF OrchestrationFails
<1>8. CASE saveState(c) \/ LoadGlobalState(c, "load", "store")
  <2>1. cmd'[c].proj = cmd[c].proj /\ cmd'[c].pc \in Entering
    BY <1>8, GotoKeeps, LoadKeeps DEF saveState, Entering
  <2>2. cmd[c].pc \in Entering /\ runs' = runs /\ reg' = reg
    BY <1>8 DEF saveState, LoadGlobalState, At, Entering
  <2>3. why'.reg = why.reg
    BY <1>8 DEF saveState, LoadGlobalState, TypeOK
  <2> QED
    BY <1>0, <2>1, <2>2, <2>3, Steady DEF RegistryKept
<1>9. CASE UpdateProjectState(c)
  <2> DEFINE new == cmd[c].seen \cup {proj(c)}
  <2>1. cmd'[c] = [cmd[c] EXCEPT !.pc = "endpoints", !.seen = {}]
    BY <1>9 DEF UpdateProjectState, TypeOK
  <2>2. cmd[c] \in CmdState
    BY DEF TypeOK
  <2>3. cmd'[c].pc = "endpoints" /\ cmd'[c].proj = proj(c)
    BY <2>1, <2>2 DEF CmdState, proj
  <2>4. SaveGlobalState(c, new) /\ runs' = runs /\ cmd[c].pc = "store" /\ proj(c) \in Project
    BY <1>9 DEF UpdateProjectState, At, Asked, In
  <2> HIDE DEF new
  <2>5. CASE p # proj(c)
    <3>1. p \notin why.reg /\ (p \in reg') = (p \in reg)
      BY <2>4, <2>5, OtherEntries DEF new
    <3> QED
      BY <1>0, <2>3, <2>4, <2>5, <3>1, Elsewhere DEF RegistryKept, Up
  <2>6. CASE p = proj(c)
    <3>1. p \in new
      BY <2>6 DEF new
    <3>2. p \notin why.reg => Up(p)
      BY <2>4, <2>6 DEF RegistryKept, KeptFor, Knows, In, Entering
    <3>3. p \notin why.reg => (p \in new) = Up(p)
      BY <3>1, <3>2 DEF Up
    <3> QED
      BY <1>0, <2>3, <2>4, <2>6, <3>3, OwnEntry DEF Telling, Entering, Leaving, Tearing
  <2> QED
    BY <2>5, <2>6
<1> QED
  BY <1>1, <1>2, <1>3, <1>4, <1>5, <1>6, <1>7, <1>8, <1>9 DEF UpCommand

LEMMA RegistryDown ==
  ASSUME TypeOK, Asked, FailureKnown, NEW c \in Cmd, Down(c), RegistryKept
  PROVE  RegistryKept'
<1> SUFFICES ASSUME NEW p \in Project, p \notin why'.reg PROVE KeptFor(p)'
  BY DEF RegistryKept
<1>0. \A d \in Cmd \ {c} : cmd'[d] = cmd[d]
  BY OthersStay
<1>i. Idle.pc = "idle" /\ Idle.proj = NoFile /\ NoFile \notin Project
  BY UpRunAssumption DEF Idle
<1>1. CASE StartDown(c)
  <2>1. PICK q \in Project : Start(c, [Idle EXCEPT !.pc = "down", !.proj = q])
    BY <1>1 DEF StartDown
  <2>2. cmd[c].pc = "idle" /\ cmd'[c].pc = "down" /\ runs' = runs /\ reg' = reg /\ why' = why
    BY <2>1 DEF Start, TypeOK, Idle, At
  <2> QED
    BY <1>0, <2>2, Aside DEF Telling, Entering, Leaving, Tearing, RegistryKept
<1>2. CASE StopProject(c)
  <2>1. proj(c) \in Project
    BY <1>2 DEF StopProject, Asked, At, In
  <2>2. cmd'[c].proj = proj(c) /\ cmd'[c].pc = "netdown"
    BY <1>2, GotoKeeps DEF StopProject, proj
  <2>3. reg' = reg /\ (p # proj(c) => Up(p)' = Up(p))
    BY <1>2, <2>1 DEF StopProject, Up, TypeOK
  <2>4. p \notin why.reg /\ (p = proj(c) => ~Overlapped(c))
    BY <1>2, Blamed DEF StopProject
  <2>5. CASE p # proj(c)
    BY <1>0, <2>1, <2>2, <2>3, <2>4, <2>5, Elsewhere DEF RegistryKept
  <2>6. CASE p = proj(c)
    <3>1. ~Up(proj(c))'
      BY <1>2, <2>1, <2>2 DEF StopProject, Up, TypeOK, proj
    <3>2. Knows(c, proj(c))' /\ Owes(c, proj(c))'
      BY <2>2, <3>1 DEF Knows, Owes, In, Entering, Leaving, Tearing
    <3> QED
      BY <1>0, <2>2, <2>4, <2>6, <3>2, Alone DEF proj
  <2> QED
    BY <2>5, <2>6
<1>3. CASE StopFails(c)
  <2>1. proj(c) \in Project /\ p # proj(c) /\ p \notin why.reg
    <3>1. Blame({proj(c)})
      BY <1>3 DEF StopFails
    <3>2. why'.reg = why.reg \cup {proj(c)}
      BY <3>1, Blamed
    <3> QED
      BY <1>3, <3>2 DEF StopFails, Asked, At, In
  <2>2. PICK failed \in BOOLEAN, rest \in SUBSET runs[proj(c)] :
          /\ runs' = [runs EXCEPT ![proj(c)] = rest]
          /\ cmd' = [cmd EXCEPT ![c].pc = "netdown", ![c].failed = failed]
    BY <1>3 DEF StopFails
  <2>3. cmd' = [cmd EXCEPT ![c] = [cmd[c] EXCEPT !.pc = "netdown", !.failed = failed]]
    BY <2>2 DEF TypeOK
  <2>4. cmd[c] \in CmdState /\ cmd'[c] = [cmd[c] EXCEPT !.pc = "netdown", !.failed = failed]
    BY <2>3 DEF TypeOK
  <2>5. cmd'[c].proj = proj(c)
    BY <2>4 DEF CmdState, proj
  <2>6. Up(p)' = Up(p) /\ reg' = reg
    BY <1>3, <2>1, <2>2 DEF StopFails, Up, TypeOK
  <2> QED
    BY <1>0, <2>1, <2>5, <2>6, Elsewhere DEF RegistryKept
<1>4. CASE KeepsState(c)
  <2>1. proj(c) \in Project /\ cmd[c].pc = "leftovers"
    BY <1>4 DEF KeepsState, Asked, At, In
  <2>2. cmd'[c] = Idle /\ runs' = runs /\ reg' = reg /\ why' = why
    BY <1>4, EndIdle DEF KeepsState
  <2>3. p # proj(c)
    <3>1. CASE cmd[c].failed
      BY <2>1, <2>2, <3>1 DEF FailureKnown, In, Locked
    <3>2. CASE Attached(proj(c))
      <4>1. Up(proj(c))
        BY <3>2 DEF Attached, Up
      <4>2. Knows(c, p)
        BY <2>2 DEF RegistryKept, KeptFor
      <4> QED
        BY <2>1, <4>1, <4>2 DEF Knows, In, Leaving, Tearing
    <3> QED
      BY <1>4, <3>1, <3>2 DEF KeepsState
  <2> QED
    BY <1>0, <1>i, <2>2, <2>3, Elsewhere DEF RegistryKept, Up
<1>5. CASE \/ removeNetwork(c) \/ NoLeftovers(c) \/ deleteRoot(c) \/ removeIfHoldsNoFile(c)
           \/ RemoveAll(c) \/ LoadGlobalState(c, "unload", "unstore")
  <2>1. cmd'[c].proj = cmd[c].proj /\ cmd'[c].pc \in Leaving
    BY <1>5, GotoKeeps, LoadKeeps DEF removeNetwork, NoLeftovers, deleteRoot,
       removeIfHoldsNoFile, RemoveAll, Leaving, Tearing
  <2>2. cmd[c].pc \in Leaving /\ runs' = runs /\ reg' = reg
    BY <1>5 DEF removeNetwork, NoLeftovers, deleteRoot, removeIfHoldsNoFile, RemoveAll,
       LoadGlobalState, At, Leaving, Tearing
  <2>3. why'.reg = why.reg
    BY <1>5 DEF removeNetwork, NoLeftovers, deleteRoot, removeIfHoldsNoFile, RemoveAll,
       LoadGlobalState, TypeOK
  <2> QED
    BY <1>0, <2>1, <2>2, <2>3, Steady DEF RegistryKept
<1>6. CASE RemoveProject(c)
  <2> DEFINE new == cmd[c].seen \ {proj(c)}
  <2>1. SaveGlobalState(c, new) /\ runs' = runs /\ cmd[c].pc = "unstore" /\ cmd'[c] = Idle
    BY <1>6, EndIdle DEF RemoveProject, At
  <2> HIDE DEF new
  <2>2. CASE p # proj(c)
    <3>1. p \notin why.reg /\ (p \in reg') = (p \in reg)
      BY <2>1, <2>2, OtherEntries DEF new
    <3> QED
      BY <1>0, <1>i, <2>1, <2>2, <3>1, Elsewhere DEF RegistryKept, Up
  <2>3. CASE p = proj(c)
    <3>1. p \notin new
      BY <2>3 DEF new
    <3>2. p \notin why.reg => ~Up(p)
      BY <2>1, <2>3 DEF RegistryKept, KeptFor, Knows, In, Leaving, Tearing
    <3>3. p \notin why.reg => (p \in new) = Up(p)
      BY <3>1, <3>2 DEF Up
    <3> QED
      BY <1>0, <1>i, <2>1, <2>3, <3>3, OwnEntry DEF Telling, Entering, Leaving, Tearing
  <2> QED
    BY <2>2, <2>3
<1> QED
  BY <1>1, <1>2, <1>3, <1>4, <1>5, <1>6 DEF Down

LEMMA RegistryClean ==
  ASSUME TypeOK, Asked, NEW c \in Cmd, Clean(c), RegistryKept
  PROVE  RegistryKept'
<1> SUFFICES ASSUME NEW p \in Project, p \notin why'.reg PROVE KeptFor(p)'
  BY DEF RegistryKept
<1>0. (\A d \in Cmd \ {c} : cmd'[d] = cmd[d]) /\ cmd[c] \in CmdState
  BY OthersStay DEF TypeOK
<1>i. Idle.pc = "idle" /\ Idle.proj = NoFile /\ NoFile \notin Project
  BY UpRunAssumption DEF Idle
<1>1. CASE StartClean(c)
  <2>1. cmd[c].pc = "idle" /\ cmd'[c].pc = "prune" /\ runs' = runs /\ reg' = reg /\ why' = why
    BY <1>1 DEF StartClean, Start, TypeOK, Idle, At
  <2> QED
    BY <1>0, <2>1, Aside DEF Telling, Entering, Leaving, Tearing, RegistryKept
<1>2. CASE pruneStaleProjectStates(c)
  <2>1. cmd'[c].pc \in {"idle", "probe"}
    <3>1. CASE reg = {}
      BY <1>2, <1>i, <3>1, EndIdle DEF pruneStaleProjectStates
    <3>2. CASE reg # {}
      <4>1. cmd'[c] = [cmd[c] EXCEPT !.pc = "probe", !.todo = reg]
        BY <1>2, <3>2 DEF pruneStaleProjectStates, TypeOK
      <4> QED
        BY <1>0, <4>1 DEF CmdState
    <3> QED
      BY <3>1, <3>2
  <2>2. cmd[c].pc = "prune" /\ runs' = runs /\ reg' = reg /\ why' = why
    BY <1>2 DEF pruneStaleProjectStates, At
  <2> QED
    BY <1>0, <2>1, <2>2, Aside DEF Telling, Entering, Leaving, Tearing, RegistryKept
<1>3. CASE projectStateIsLive(c)
  <2>1. PICK q \in cmd[c].todo :
         cmd' = IF ~Up(q) THEN [cmd EXCEPT ![c].pc = "drop", ![c].proj = q]
                ELSE IF cmd[c].todo = {q} THEN [cmd EXCEPT ![c] = Idle]
                ELSE [cmd EXCEPT ![c].todo = @ \ {q}]
    BY <1>3 DEF projectStateIsLive
  <2>2. cmd[c].pc = "probe" /\ runs' = runs /\ reg' = reg /\ why' = why
    BY <1>3 DEF projectStateIsLive, At
  <2>3. CASE Up(q)
    <3>1. CASE cmd[c].todo = {q}
      <4>1. cmd'[c] = Idle
        BY <2>1, <2>3, <3>1 DEF TypeOK
      <4> QED
        BY <1>0, <1>i, <2>2, <4>1, Aside DEF Telling, Entering, Leaving, Tearing, RegistryKept
    <3>2. CASE cmd[c].todo # {q}
      <4>1. cmd'[c] = [cmd[c] EXCEPT !.todo = @ \ {q}]
        BY <2>1, <2>3, <3>2 DEF TypeOK
      <4>2. cmd'[c].pc = "probe"
        BY <1>0, <2>2, <4>1 DEF CmdState
      <4> QED
        BY <1>0, <2>2, <4>2, Aside DEF Telling, Entering, Leaving, Tearing, RegistryKept
    <3> QED
      BY <3>1, <3>2
  <2>4. CASE ~Up(q)
    <3>1. cmd' = [cmd EXCEPT ![c] = [cmd[c] EXCEPT !.pc = "drop", !.proj = q]]
      BY <2>1, <2>4 DEF TypeOK
    <3>2. cmd'[c] = [cmd[c] EXCEPT !.pc = "drop", !.proj = q]
      BY <3>1 DEF TypeOK
    <3>3. cmd'[c].pc = "drop" /\ cmd'[c].proj = q
      BY <1>0, <3>2 DEF CmdState
    <3>4. \A d \in Cmd : Knows(d, p)' /\ (Owes(d, p) => Owes(d, p)')
      <4> SUFFICES ASSUME NEW d \in Cmd PROVE Knows(d, p)' /\ (Owes(d, p) => Owes(d, p)')
        OBVIOUS
      <4>1. Knows(d, p) /\ Up(p)' = Up(p)
        BY <2>2 DEF RegistryKept, KeptFor, Up
      <4>2. CASE d = c
        BY <2>2, <2>4, <3>3, <4>1, <4>2
           DEF Knows, Owes, In, proj, Entering, Leaving, Tearing
      <4>3. CASE d # c
        <5>1. cmd'[d] = cmd[d]
          BY <1>0, <4>3
        <5> QED
          BY <4>1, <5>1 DEF Knows, Owes, In, proj
      <4> QED
        BY <4>2, <4>3
    <3> QED
      BY <2>2, <3>4 DEF RegistryKept, KeptFor, Up
  <2> QED
    BY <2>3, <2>4
<1>4. CASE LoadGlobalState(c, "drop", "undrop")
  <2>1. cmd'[c].proj = cmd[c].proj /\ cmd'[c].pc = "undrop"
    BY <1>4, LoadKeeps
  <2>2. cmd[c].pc = "drop" /\ runs' = runs /\ reg' = reg /\ why' = why
    BY <1>4 DEF LoadGlobalState, At
  <2> QED
    BY <1>0, <2>1, <2>2, Steady DEF RegistryKept
<1>5. CASE Deregister(c)
  <2> DEFINE new == cmd[c].seen \ {proj(c)}
             rest == cmd[c].todo \ {proj(c)}
  <2>1. SaveGlobalState(c, new) /\ runs' = runs /\ cmd[c].pc = "undrop"
    BY <1>5 DEF Deregister, At
  <2>2. cmd'[c] = IF rest = {} THEN Idle ELSE [Idle EXCEPT !.pc = "probe", !.todo = rest]
    BY <1>5 DEF Deregister, TypeOK
  <2>3. cmd'[c].pc \in {"idle", "probe"} /\ cmd'[c].proj = NoFile
    BY <2>2 DEF Idle
  <2> HIDE DEF new, rest
  <2>4. CASE p # proj(c)
    <3>1. p \notin why.reg /\ (p \in reg') = (p \in reg)
      BY <2>1, <2>4, OtherEntries DEF new
    <3> QED
      BY <1>0, <1>i, <2>1, <2>3, <2>4, <3>1, Elsewhere DEF RegistryKept, Up
  <2>5. CASE p = proj(c)
    <3>1. p \notin new
      BY <2>5 DEF new
    <3>2. p \notin why.reg => ~Up(p)
      BY <2>1, <2>5 DEF RegistryKept, KeptFor, Knows, In
    <3>3. p \notin why.reg => (p \in new) = Up(p)
      BY <3>1, <3>2 DEF Up
    <3> QED
      BY <1>0, <2>1, <2>3, <2>5, <3>3, OwnEntry DEF Telling, Entering, Leaving, Tearing
  <2> QED
    BY <2>4, <2>5
<1> QED
  BY <1>1, <1>2, <1>3, <1>4, <1>5 DEF Clean

LEMMA RegistryKill ==
  ASSUME TypeOK, Asked, NEW c \in Cmd, Kill(c), RegistryKept
  PROVE  RegistryKept'
<1> SUFFICES ASSUME NEW p \in Project, p \notin why'.reg PROVE KeptFor(p)'
  BY DEF RegistryKept
<1>0. (\A d \in Cmd \ {c} : cmd'[d] = cmd[d]) /\ cmd'[c] = Idle /\ reg' = reg
  BY OthersStay, EndIdle DEF Kill
<1>i. Idle.pc = "idle" /\ Idle.proj = NoFile /\ NoFile \notin Project
  BY UpRunAssumption DEF Idle
<1>1. CASE In(c, Locked \cup Tearing)
  <2>1. proj(c) \in Project /\ Partly(c)
    BY <1>1 DEF Kill, Asked, In, Locked, Tearing
  <2>2. p # proj(c) /\ p \notin why.reg
    BY <2>1, Blamed DEF Partly
  <2>3. PICK r : runs' = [runs EXCEPT ![proj(c)] = r]
    BY <2>1 DEF Partly
  <2>4. Up(p)' = Up(p)
    BY <2>1, <2>2, <2>3 DEF Up, TypeOK
  <2> QED
    BY <1>0, <1>i, <2>2, <2>4, Elsewhere DEF RegistryKept
<1>2. CASE ~In(c, Locked \cup Tearing)
  <2>1. runs' = runs /\ why' = why
    BY <1>2 DEF Kill
  <2>2. KeptFor(p)
    BY <2>1 DEF RegistryKept
  <2>3. \A d \in Cmd : Knows(d, p)' /\ (Owes(d, p) => Owes(d, p)')
    <3> SUFFICES ASSUME NEW d \in Cmd PROVE Knows(d, p)' /\ (Owes(d, p) => Owes(d, p)')
      OBVIOUS
    <3>1. CASE d = c
      BY <1>0, <1>i, <1>2, <3>1
         DEF Knows, Owes, In, proj, Entering, Leaving, Tearing, Locked
    <3>2. CASE d # c
      <4>1. cmd'[d] = cmd[d] /\ Knows(d, p) /\ Up(p)' = Up(p)
        BY <1>0, <2>1, <2>2, <3>2 DEF KeptFor, Up
      <4> QED
        BY <4>1 DEF Knows, Owes, In, proj
    <3> QED
      BY <3>1, <3>2
  <2> QED
    BY <1>0, <2>1, <2>2, <2>3 DEF KeptFor, Up
<1> QED
  BY <1>1, <1>2

LEMMA RegistryStep ==
  TypeOK /\ Asked /\ FailureKnown /\ RegistryKept /\ [Next]_vars => RegistryKept'
<1> SUFFICES ASSUME TypeOK, Asked, FailureKnown, RegistryKept, [Next]_vars PROVE RegistryKept'
  OBVIOUS
<1>1. CASE Edit \/ UNCHANGED vars
  <2>1. UNCHANGED <<cmd, reg, runs, why>>
    BY <1>1 DEF Edit, vars
  <2> QED
    BY <2>1 DEF RegistryKept, KeptFor, Knows, Owes, In, proj, Up
<1> QED
  BY <1>1, RegistryUp, RegistryDown, RegistryClean, RegistryKill DEF Next

\* Blame for a project is taken back only by a command that is alone on it.
LEMMA BlameStays ==
  ASSUME TypeOK, NEW c \in Cmd, UpCommand(c) \/ Down(c) \/ Clean(c) \/ Kill(c),
         NEW p \in why.reg, p = proj(c) => Overlapped(c)
  PROVE  p \in why'.reg
<1>1. ASSUME NEW new, SaveGlobalState(c, new) PROVE p \in why'.reg
  BY <1>1 DEF SaveGlobalState, TypeOK
<1>2. ASSUME UNCHANGED why PROVE p \in why'.reg
  BY <1>2
<1>3. ASSUME NEW S, Blame(S) PROVE p \in why'.reg
  BY <1>3, Blamed
<1>4. CASE \/ acquireLock(c) \/ EnsureVolumesFails(c) \/ OrchestrationFails(c) \/ saveState(c)
           \/ removeNetwork(c) \/ deleteRoot(c) \/ RemoveAll(c)
  <2>1. CASE acquireLock(c)
    BY <2>1 DEF acquireLock, TypeOK
  <2>2. CASE EnsureVolumesFails(c)
    BY <2>2 DEF EnsureVolumesFails, TypeOK
  <2>3. CASE OrchestrationFails(c)
    <3>1. \/ why' = why
          \/ why' = [why EXCEPT !.reg = @ \cup {proj(c)}, !.root = TRUE]
      <4>1. CASE "container" \in Kinds[proj(c)] /\ net = NoFile
        BY <2>3, <4>1 DEF OrchestrationFails
      <4>2. CASE ~("container" \in Kinds[proj(c)] /\ net = NoFile)
        BY <2>3, <4>2 DEF OrchestrationFails
      <4> QED
        BY <4>1, <4>2
    <3>2. why.reg \subseteq why'.reg
      <4>1. CASE why' = why
        BY <4>1
      <4>2. CASE why' = [why EXCEPT !.reg = @ \cup {proj(c)}, !.root = TRUE]
        <5>1. why'.reg = why.reg \cup {proj(c)}
          BY <4>2 DEF TypeOK
        <5> QED
          BY <5>1
      <4> QED
        BY <3>1, <4>1, <4>2
    <3> QED
      BY <3>2
  <2>4. CASE saveState(c)
    BY <2>4 DEF saveState, TypeOK
  <2>5. CASE removeNetwork(c)
    BY <2>5 DEF removeNetwork, TypeOK
  <2>6. CASE deleteRoot(c)
    BY <2>6 DEF deleteRoot, TypeOK
  <2>7. CASE RemoveAll(c)
    BY <2>7 DEF RemoveAll, TypeOK
  <2> QED
    BY <1>4, <2>1, <2>2, <2>3, <2>4, <2>5, <2>6, <2>7
<1>5. CASE processOrchestration(c)
  <2>1. CASE Overlapped(c)
    BY <1>3, <1>5, <2>1 DEF processOrchestration
  <2>2. CASE ~Overlapped(c)
    <3>1. why' = [why EXCEPT !.net = FALSE]
      BY <1>5, <2>2 DEF processOrchestration
    <3> QED
      BY <3>1 DEF TypeOK
  <2> QED
    BY <2>1, <2>2
<1>6. CASE StopProject(c) \/ StopFails(c) \/ stopGitServicesBeforeReclone(c)
  <2>1. CASE stopGitServicesBeforeReclone(c)
    BY <1>2, <1>3, <2>1 DEF stopGitServicesBeforeReclone
  <2> QED
    BY <1>2, <1>3, <1>6, <2>1 DEF StopProject, StopFails
<1>7. CASE UpdateProjectState(c) \/ RemoveProject(c) \/ Deregister(c)
  BY <1>1, <1>7 DEF UpdateProjectState, RemoveProject, Deregister
<1>8. CASE Kill(c)
  BY <1>2, <1>3, <1>8 DEF Kill, Partly
<1>9. CASE \/ StartUp(c) \/ UpRefused(c) \/ preHookFails(c) \/ LockTaken(c) \/ processGitRepos(c)
           \/ ForceReclone(c) \/ EnsureEditableRepo(c) \/ CloneAnew(c) \/ EnsureBranchFails(c) \/ PullBranch(c) \/ PopStash(c)
           \/ CloneDone(c) \/ CloneFails(c) \/ ValidateAllImages(c) \/ EnsureNetwork(c)
           \/ CreateNetwork(c) \/ EnsureVolumes(c) \/ removeUnusedNetworks(c)
           \/ LoadGlobalState(c, "load", "store") \/ waitForServiceEndpoints(c)
           \/ postHookExec(c) \/ Release(c)
           \/ StartDown(c) \/ KeepsState(c) \/ NoLeftovers(c) \/ removeIfHoldsNoFile(c)
           \/ LoadGlobalState(c, "unload", "unstore") \/ StartClean(c)
           \/ pruneStaleProjectStates(c) \/ projectStateIsLive(c)
           \/ LoadGlobalState(c, "drop", "undrop")
  <2>1. UNCHANGED why
    BY <1>9 DEF StartUp, Start, UpRefused, preHookFails, LockTaken, processGitRepos, ForceReclone,
       EnsureEditableRepo, CloneAnew, RunClone, EnsureBranchFails, PullBranch, PopStash, AfterPull, CloneDone, CloneFails,
       ValidateAllImages, EnsureNetwork, CreateNetwork, EnsureVolumes, removeUnusedNetworks,
       LoadGlobalState, waitForServiceEndpoints, postHookExec, Release, StartDown, KeepsState,
       NoLeftovers, removeIfHoldsNoFile, StartClean, pruneStaleProjectStates, projectStateIsLive
  <2> QED
    BY <1>2, <2>1
<1> QED
  BY <1>4, <1>5, <1>6, <1>7, <1>8, <1>9 DEF UpCommand, Down, Clean

\* Going on keeps what the command has met.
LEMMA GotoFailed ==
  ASSUME TypeOK, NEW c \in Cmd, NEW pc, Goto(c, pc)
  PROVE  cmd'[c].failed = cmd[c].failed
<1>1. cmd \in [Cmd -> CmdState] /\ cmd[c] \in CmdState
  BY DEF TypeOK
<1>2. cmd'[c] = [cmd[c] EXCEPT !.pc = pc]
  BY <1>1 DEF Goto
<1> QED
  BY <1>1, <1>2 DEF CmdState

\* An `up` on its way keeps the lock, as it thinks, until it ends.
LEMMA UpStays ==
  ASSUME TypeOK, NEW c \in Cmd, UpCommand(c), ~StartUp(c), ~End(c)
  PROVE  In(c, Locked)'
<1>1. CASE stopGitServicesBeforeReclone(c)
  BY <1>1, StopGoes DEF In, Locked
<1>2. CASE UpdateProjectState(c)
  <2>1. cmd[c] \in CmdState /\ cmd'[c] = [cmd[c] EXCEPT !.pc = "endpoints", !.seen = {}]
    BY <1>2 DEF UpdateProjectState, TypeOK
  <2>2. cmd'[c].pc = "endpoints"
    BY <2>1 DEF CmdState
  <2> QED
    BY <2>2 DEF In, Locked
<1>3. CASE LoadGlobalState(c, "load", "store")
  BY <1>3, LoadKeeps DEF In, Locked
<1>4. CASE \/ acquireLock(c) \/ processGitRepos(c) \/ ForceReclone(c) \/ EnsureEditableRepo(c)
           \/ CloneAnew(c) \/ EnsureBranchFails(c) \/ PullBranch(c) \/ PopStash(c) \/ CloneDone(c)
           \/ CloneFails(c)
  <2>1. cmd'[c].pc \in {"prepare", "images", "stop", "clone", "cloning", "pull", "pop", "release"}
    BY <1>4, GotoKeeps DEF acquireLock, processGitRepos, cloneIntoDeclaredPath, ForceReclone,
       EnsureEditableRepo, CloneAnew, RunClone, EnsureBranchFails, PullBranch, PopStash,
       AfterPull, CloneDone, CloneFails
  <2> QED
    BY <2>1 DEF In, Locked
<1>5. CASE \/ ValidateAllImages(c) \/ EnsureNetwork(c) \/ CreateNetwork(c)
           \/ EnsureVolumes(c) \/ EnsureVolumesFails(c) \/ processOrchestration(c)
           \/ OrchestrationFails(c) \/ removeUnusedNetworks(c) \/ saveState(c)
           \/ waitForServiceEndpoints(c) \/ postHookExec(c)
  <2>1. cmd'[c].pc \in {"network", "release", "create", "volumes", "start", "save",
                        "unattached", "load", "post"}
    BY <1>5, GotoKeeps DEF ValidateAllImages, EnsureNetwork, CreateNetwork, EnsureVolumes,
       EnsureVolumesFails, processOrchestration, OrchestrationFails, removeUnusedNetworks,
       saveState, waitForServiceEndpoints, postHookExec
  <2> QED
    BY <2>1 DEF In, Locked
<1> QED
  BY <1>1, <1>2, <1>3, <1>4, <1>5
     DEF UpCommand, UpRefused, preHookFails, LockTaken, Release

\* A command that goes on as failed is an `up` past the lock, or a `down` that was so or fails now.
LEMMA FailedMoves ==
  ASSUME TypeOK, Asked, FailureKnown, NEW c \in Cmd,
         UpCommand(c) \/ Down(c) \/ Clean(c) \/ Kill(c), cmd'[c].failed
  PROVE  \/ StopFails(c)
         \/ removeNetwork(c) /\ cmd[c].failed
         \/ In(c, Locked)'
<1>0. cmd \in [Cmd -> CmdState] /\ cmd[c] \in CmdState /\ Idle.failed = FALSE
  BY DEF TypeOK, Idle
<1>1. cmd[c].failed => cmd[c].pc \in {"netdown", "leftovers"} \/ cmd[c].pc \in Locked
  BY DEF FailureKnown, In
<1>a. ASSUME NEW pc, Goto(c, pc) PROVE cmd[c].failed
  BY <1>a, GotoFailed
<1>b. ASSUME End(c) PROVE FALSE
  BY <1>0, <1>b, EndIdle
<1>c. ASSUME NEW from, NEW to, LoadGlobalState(c, from, to) PROVE cmd[c].failed /\ At(c, from)
  BY <1>0, <1>c DEF LoadGlobalState, CmdState
<1>2. CASE UpCommand(c)
  <2>1. CASE StartUp(c)
    BY <1>0, <2>1 DEF StartUp, Start, Idle
  <2> QED
    BY <1>2, <1>b, <2>1, UpStays
<1>3. CASE Down(c)
  <2>1. CASE StartDown(c)
    BY <1>0, <2>1 DEF StartDown, Start, Idle
  <2>2. CASE LoadGlobalState(c, "unload", "unstore")
    BY <1>1, <1>c, <2>2 DEF At, Locked
  <2>3. CASE KeepsState(c) \/ RemoveProject(c)
    BY <1>b, <2>3 DEF KeepsState, RemoveProject
  <2>4. CASE removeNetwork(c)
    BY <1>a, <2>4 DEF removeNetwork
  <2>5. CASE \/ StopProject(c) \/ NoLeftovers(c) \/ deleteRoot(c) \/ removeIfHoldsNoFile(c)
             \/ RemoveAll(c)
    BY <1>1, <1>a, <2>5 DEF StopProject, NoLeftovers, deleteRoot, removeIfHoldsNoFile, RemoveAll,
       At, Locked
  <2> QED
    BY <1>3, <2>1, <2>2, <2>3, <2>4, <2>5 DEF Down
<1>4. CASE Clean(c)
  <2>1. CASE StartClean(c)
    BY <1>0, <2>1 DEF StartClean, Start, Idle
  <2>2. CASE LoadGlobalState(c, "drop", "undrop")
    BY <1>1, <1>c, <2>2 DEF At, Locked
  <2>3. CASE Deregister(c)
    <3> DEFINE rest == cmd[c].todo \ {proj(c)}
    <3>1. cmd'[c] = IF rest = {} THEN Idle ELSE [Idle EXCEPT !.pc = "probe", !.todo = rest]
      BY <1>0, <2>3 DEF Deregister
    <3> QED
      BY <3>1 DEF Idle
  <2>4. CASE pruneStaleProjectStates(c)
    <3>1. CASE reg = {}
      BY <1>b, <2>4, <3>1 DEF pruneStaleProjectStates
    <3>2. CASE reg # {}
      <4>1. cmd'[c] = [cmd[c] EXCEPT !.pc = "probe", !.todo = reg]
        BY <1>0, <2>4, <3>2 DEF pruneStaleProjectStates
      <4> QED
        BY <1>0, <1>1, <2>4, <4>1 DEF CmdState, pruneStaleProjectStates, At, Locked
    <3> QED
      BY <3>1, <3>2
  <2>5. CASE projectStateIsLive(c)
    <3>1. PICK q \in cmd[c].todo :
         cmd' = IF ~Up(q) THEN [cmd EXCEPT ![c].pc = "drop", ![c].proj = q]
                ELSE IF cmd[c].todo = {q} THEN [cmd EXCEPT ![c] = Idle]
                ELSE [cmd EXCEPT ![c].todo = @ \ {q}]
      BY <2>5 DEF projectStateIsLive
    <3>2. cmd'[c] \in {[cmd[c] EXCEPT !.pc = "drop", !.proj = q], Idle,
                       [cmd[c] EXCEPT !.todo = @ \ {q}]}
      BY <1>0, <3>1
    <3>3. cmd[c].failed
      BY <1>0, <3>2 DEF CmdState
    <3> QED
      BY <1>1, <2>5, <3>3 DEF projectStateIsLive, At, Locked
  <2> QED
    BY <1>4, <2>1, <2>2, <2>3, <2>4, <2>5 DEF Clean
<1>5. CASE Kill(c)
  BY <1>b, <1>5 DEF Kill
<1> QED
  BY <1>2, <1>3, <1>4, <1>5

\* A failed `down` is on record as long as it goes on.
LEMMA FailureStep == TypeOK /\ Asked /\ FailureKnown /\ [Next]_vars => FailureKnown'
<1> SUFFICES ASSUME TypeOK, Asked, FailureKnown, [Next]_vars, NEW d \in Cmd, cmd'[d].failed
             PROVE  \/ In(d, Locked)'
                    \/ In(d, {"netdown", "leftovers"})' /\ cmd'[d].proj \in why'.reg
  BY DEF FailureKnown, proj
<1>1. CASE Edit \/ UNCHANGED vars
  BY <1>1 DEF Edit, vars, FailureKnown, In, proj
<1>2. ASSUME NEW c \in Cmd, UpCommand(c) \/ Down(c) \/ Clean(c) \/ Kill(c)
      PROVE  \/ In(d, Locked)'
             \/ In(d, {"netdown", "leftovers"})' /\ cmd'[d].proj \in why'.reg
  <2>1. CASE c # d
    <3>1. cmd'[d] = cmd[d]
      BY <1>2, <2>1, OthersStay
    <3>2. In(d, Locked) \/ (In(d, {"netdown", "leftovers"}) /\ proj(d) \in why.reg)
      BY <3>1 DEF FailureKnown
    <3>3. proj(d) = proj(c) => Overlapped(c)
      BY <2>1 DEF Overlapped
    <3>4. proj(d) \in why.reg => proj(d) \in why'.reg
      BY <1>2, <3>3, BlameStays
    <3> QED
      BY <3>1, <3>2, <3>4 DEF In, proj
  <2>2. CASE c = d /\ StopFails(c)
    <3>1. PICK failed \in BOOLEAN :
            cmd' = [cmd EXCEPT ![c].pc = "netdown", ![c].failed = failed]
      BY <2>2 DEF StopFails
    <3>2. cmd[c] \in CmdState /\ cmd'[c] = [cmd[c] EXCEPT !.pc = "netdown", !.failed = failed]
      BY <3>1 DEF TypeOK
    <3>3. cmd'[c].pc = "netdown" /\ cmd'[c].proj = proj(c)
      BY <3>2 DEF CmdState, proj
    <3>4. Blame({proj(c)})
      BY <2>2 DEF StopFails
    <3> QED
      BY <2>2, <3>3, <3>4, Blamed DEF In
  <2>3. CASE c = d /\ removeNetwork(c) /\ cmd[c].failed
    <3>1. cmd'[c].pc = "leftovers" /\ cmd'[c].proj = proj(c)
      BY <2>3, GotoKeeps DEF removeNetwork, proj
    <3>2. proj(c) \in why.reg /\ why'.reg = why.reg
      BY <2>3 DEF removeNetwork, FailureKnown, TypeOK, At, In, Locked
    <3> QED
      BY <2>3, <3>1, <3>2 DEF In
  <2> QED
    BY <1>2, <2>1, <2>2, <2>3, FailedMoves
<1> QED
  BY <1>1, <1>2 DEF Next

--------------------------------------------------------------------------------
(* raioz.root.json. *)

\* A step of c that is none of those which account for the file.
LEMMA RootAside ==
  ASSUME RootKept, NEW c \in Cmd, \A d \in Cmd \ {c} : cmd'[d] = cmd[d],
         cmd[c].pc \notin {"save", "netdown", "leftovers", "rootdown"},
         rootFile' = rootFile, runs' = runs, why'.root = why.root
  PROVE  RootKept'
<1>1. SomeUp' = SomeUp
  BY DEF SomeUp, Up
<1> QED
  BY <1>1 DEF RootKept, At, In

\* Nothing is promised of the file once something was to blame.
LEMMA RootExcused ==
  ASSUME why'.root = TRUE
  PROVE  RootKept'
  BY DEF RootKept

\* The file: `up` writes it before it ends, `down` deletes it after the last stop.
LEMMA RootUp ==
  ASSUME TypeOK, Asked, NEW c \in Cmd, UpCommand(c), RootKept
  PROVE  RootKept'
<1>0. \A d \in Cmd \ {c} : cmd'[d] = cmd[d]
  BY OthersStay
<1>1. CASE \/ StartUp(c) \/ UpRefused(c) \/ preHookFails(c) \/ acquireLock(c) \/ LockTaken(c)
           \/ processGitRepos(c) \/ ForceReclone(c) \/ EnsureEditableRepo(c) \/ CloneAnew(c)
           \/ EnsureBranchFails(c) \/ PullBranch(c) \/ PopStash(c) \/ CloneDone(c) \/ CloneFails(c)
  <2>1. cmd[c].pc \notin {"save", "netdown", "leftovers", "rootdown"}
    BY <1>1 DEF StartUp, Start, UpRefused, preHookFails, acquireLock, LockTaken, processGitRepos,
       ForceReclone, EnsureEditableRepo, CloneAnew, RunClone, EnsureBranchFails, PullBranch, PopStash, AfterPull, CloneDone,
       CloneFails, At
  <2>2. rootFile' = rootFile /\ runs' = runs
    BY <1>1 DEF StartUp, Start, UpRefused, preHookFails, acquireLock, LockTaken, processGitRepos,
       ForceReclone, EnsureEditableRepo, CloneAnew, RunClone, EnsureBranchFails, PullBranch, PopStash, AfterPull, CloneDone, CloneFails
  <2>3. why'.root = why.root
    <3>1. CASE acquireLock(c)
      BY <3>1 DEF acquireLock, TypeOK
    <3>2. CASE UNCHANGED why
      BY <3>2
    <3> QED
      BY <1>1, <3>1, <3>2 DEF StartUp, Start, UpRefused, preHookFails, LockTaken, processGitRepos,
         ForceReclone, EnsureEditableRepo, CloneAnew, RunClone, EnsureBranchFails, PullBranch, PopStash, AfterPull, CloneDone, CloneFails
  <2> QED
    BY <1>0, <2>1, <2>2, <2>3, RootAside
<1>2. CASE \/ ValidateAllImages(c) \/ EnsureNetwork(c) \/ CreateNetwork(c) \/ EnsureVolumes(c)
           \/ EnsureVolumesFails(c) \/ removeUnusedNetworks(c)
           \/ LoadGlobalState(c, "load", "store")
           \/ UpdateProjectState(c) \/ waitForServiceEndpoints(c) \/ postHookExec(c) \/ Release(c)
  <2>1. cmd[c].pc \notin {"save", "netdown", "leftovers", "rootdown"}
    BY <1>2 DEF ValidateAllImages, EnsureNetwork, CreateNetwork, EnsureVolumes, EnsureVolumesFails,
       removeUnusedNetworks, LoadGlobalState, UpdateProjectState, waitForServiceEndpoints,
       postHookExec, Release, At
  <2>2. rootFile' = rootFile /\ runs' = runs
    BY <1>2 DEF ValidateAllImages, EnsureNetwork, CreateNetwork, EnsureVolumes, EnsureVolumesFails,
       removeUnusedNetworks, LoadGlobalState, UpdateProjectState, waitForServiceEndpoints,
       postHookExec, Release
  <2>3. why'.root = why.root
    <3>1. CASE EnsureVolumesFails(c)
      BY <3>1 DEF EnsureVolumesFails, TypeOK
    <3>2. CASE UpdateProjectState(c)
      BY <3>2 DEF UpdateProjectState, SaveGlobalState, TypeOK
    <3>3. CASE UNCHANGED why
      BY <3>3
    <3> QED
      BY <1>2, <3>1, <3>2, <3>3 DEF ValidateAllImages, EnsureNetwork, CreateNetwork, EnsureVolumes,
         removeUnusedNetworks, LoadGlobalState, waitForServiceEndpoints, postHookExec, Release
  <2> QED
    BY <1>0, <2>1, <2>2, <2>3, RootAside
<1>3. CASE stopGitServicesBeforeReclone(c)
  <2>1. cmd[c].pc = "stop" /\ rootFile' = rootFile
    BY <1>3 DEF stopGitServicesBeforeReclone, At
  <2> QED
    BY <1>0, <1>3, <2>1, StopLeaves, Blamed, RootExcused, RootAside
<1>4. CASE processOrchestration(c)
  <2>1. CASE Overlapped(c)
    BY <1>4, <2>1, Blamed, RootExcused DEF processOrchestration
  <2>2. CASE ~Overlapped(c)
    <3>1. At(c, "save")'
      BY <1>4, GotoKeeps DEF processOrchestration, At
    <3>2. SomeUp'
      <4>1. proj(c) \in Project
        BY <1>4 DEF processOrchestration, Asked, At, In
      <4>2. runs' = [runs EXCEPT ![proj(c)] = Kinds[proj(c)]]
        BY <1>4 DEF processOrchestration
      <4>3. Kinds[proj(c)] # {}
        BY <4>1, UpRunAssumption
      <4>4. runs'[proj(c)] # {}
        BY <4>1, <4>2, <4>3 DEF TypeOK
      <4> QED
        BY <4>1, <4>4 DEF SomeUp, Up
    <3> QED
      BY <3>1, <3>2 DEF RootKept
  <2> QED
    BY <2>1, <2>2
<1>5. CASE OrchestrationFails(c)
  <2>1. rootFile' = rootFile /\ cmd[c].pc = "start"
    BY <1>5 DEF OrchestrationFails, At
  <2>2. CASE why' = [why EXCEPT !.reg = @ \cup {proj(c)}, !.root = TRUE]
    BY <2>2, RootExcused DEF TypeOK
  <2>3. CASE why' = why /\ runs' = runs
    BY <1>0, <2>1, <2>3, RootAside
  <2> QED
    BY <1>5, <2>2, <2>3 DEF OrchestrationFails
<1>6. CASE saveState(c)
  <2>1. proj(c) \in Project
    BY <1>6 DEF saveState, Asked, At, In
  <2>2. rootFile' # NoFile
    BY <1>6, <2>1, UpRunAssumption DEF saveState, UpdateFromDeps, GenerateFromDeps
  <2>3. why'.root = ~Up(proj(c)) /\ runs' = runs
    BY <1>6 DEF saveState, TypeOK
  <2>4. ~why'.root => SomeUp'
    BY <2>1, <2>3 DEF SomeUp, Up
  <2> QED
    BY <2>2, <2>4 DEF RootKept
<1> QED
  BY <1>1, <1>2, <1>3, <1>4, <1>5, <1>6 DEF UpCommand

LEMMA RootDown ==
  ASSUME TypeOK, Asked, FailureKnown, NEW c \in Cmd, Down(c), RootKept
  PROVE  RootKept'
<1> DEFINE Accounts(d) == In(d, {"netdown", "leftovers", "rootdown"}) /\ ~cmd[d].failed
<1>0. \A d \in Cmd \ {c} : cmd'[d] = cmd[d]
  BY OthersStay
<1>1. CASE StartDown(c) \/ removeIfHoldsNoFile(c) \/ LoadGlobalState(c, "unload", "unstore")
           \/ RemoveProject(c)
  <2>1. cmd[c].pc \notin {"save", "netdown", "leftovers", "rootdown"}
    BY <1>1 DEF StartDown, Start, removeIfHoldsNoFile, LoadGlobalState, RemoveProject, At
  <2>2. rootFile' = rootFile /\ runs' = runs
    BY <1>1 DEF StartDown, Start, removeIfHoldsNoFile, LoadGlobalState, RemoveProject
  <2>3. why'.root = why.root
    BY <1>1 DEF StartDown, Start, removeIfHoldsNoFile, LoadGlobalState, RemoveProject,
       SaveGlobalState, TypeOK
  <2> QED
    BY <1>0, <2>1, <2>2, <2>3, RootAside
<1>2. CASE StopProject(c)
  <2>1. CASE Overlapped(c)
    BY <1>2, <2>1, Blamed, RootExcused DEF StopProject
  <2>2. CASE ~Overlapped(c)
    <3>1. rootFile' = rootFile /\ why' = why /\ cmd[c].pc = "down"
      BY <1>2, <2>2 DEF StopProject, At
    <3>2. cmd'[c].pc = "netdown" /\ ~cmd'[c].failed
      BY <1>2, <3>1, GotoKeeps, GotoFailed DEF StopProject, FailureKnown, In, Locked
    <3>3. SomeUp' => SomeUp
      BY <1>2 DEF StopProject, SomeUp, Up, TypeOK
    <3>4. (\E d \in Cmd : At(d, "save")) => \E d \in Cmd : At(d, "save")'
      BY <1>0, <3>1 DEF At
    <3> QED
      BY <3>1, <3>2, <3>3, <3>4 DEF RootKept, In
  <2> QED
    BY <2>1, <2>2
<1>3. CASE StopFails(c)
  BY <1>3, Blamed, RootExcused DEF StopFails
<1>4. CASE removeNetwork(c) \/ KeepsState(c) \/ NoLeftovers(c)
  <2>1. rootFile' = rootFile /\ runs' = runs /\ cmd[c].pc \in {"netdown", "leftovers"}
    BY <1>4 DEF removeNetwork, KeepsState, NoLeftovers, At
  <2>2. why'.root = why.root
    BY <1>4 DEF removeNetwork, KeepsState, NoLeftovers, TypeOK
  <2>3. (\E d \in Cmd : At(d, "save")) => \E d \in Cmd : At(d, "save")'
    BY <1>0, <2>1 DEF At
  <2>4. SomeUp' = SomeUp
    BY <2>1 DEF SomeUp, Up
  <2>5. proj(c) \in Project
    BY <2>1 DEF Asked, In
  <2>6. Accounts(c) /\ ~SomeUp => Accounts(c)'
    <3>1. CASE removeNetwork(c)
      BY <3>1, GotoKeeps, GotoFailed DEF removeNetwork, In
    <3>2. CASE KeepsState(c)
      BY <2>5, <3>2 DEF KeepsState, Attached, SomeUp, Up
    <3>3. CASE NoLeftovers(c)
      <4>1. ~SomeUp => ~otherWorkspaceProjectsActive(c)
        BY DEF otherWorkspaceProjectsActive, Attached, SomeUp, Up
      <4>2. ~SomeUp => Goto(c, "rootdown")
        BY <3>3, <4>1 DEF NoLeftovers
      <4> QED
        BY <4>2, GotoKeeps, GotoFailed DEF In
    <3> QED
      BY <1>4, <3>1, <3>2, <3>3
  <2>7. \A d \in Cmd \ {c} : Accounts(d) => Accounts(d)'
    BY <1>0 DEF In
  <2> HIDE DEF Accounts
  <2>8. (\E d \in Cmd : Accounts(d)) /\ ~SomeUp => \E d \in Cmd : Accounts(d)'
    BY <2>6, <2>7
  <2> USE DEF Accounts
  <2> QED
    BY <2>1, <2>2, <2>3, <2>4, <2>8 DEF RootKept
<1>5. CASE deleteRoot(c) \/ RemoveAll(c)
  <2>1. rootFile' = NoFile /\ runs' = runs
    BY <1>5 DEF deleteRoot, RemoveAll
  <2>2. ~why'.root => ~StillNeeded(c)
    BY <1>5 DEF deleteRoot, RemoveAll, TypeOK
  <2>3. ~why'.root => ~SomeUp'
    BY <2>1, <2>2 DEF StillNeeded, SomeUp, Up
  <2> QED
    BY <2>1, <2>3 DEF RootKept
<1> QED
  BY <1>1, <1>2, <1>3, <1>4, <1>5 DEF Down

LEMMA RootClean ==
  ASSUME TypeOK, Asked, NEW c \in Cmd, Clean(c), RootKept
  PROVE  RootKept'
<1>1. \A d \in Cmd \ {c} : cmd'[d] = cmd[d]
  BY OthersStay
<1>2. cmd[c].pc \notin {"save", "netdown", "leftovers", "rootdown"}
  BY DEF Clean, StartClean, Start, pruneStaleProjectStates, projectStateIsLive, LoadGlobalState,
     Deregister, At
<1>3. rootFile' = rootFile /\ runs' = runs
  BY DEF Clean, StartClean, Start, pruneStaleProjectStates, projectStateIsLive, LoadGlobalState,
     Deregister
<1>4. why'.root = why.root
  BY DEF Clean, StartClean, Start, pruneStaleProjectStates, projectStateIsLive, LoadGlobalState,
     Deregister, SaveGlobalState, TypeOK
<1> QED
  BY <1>1, <1>2, <1>3, <1>4, RootAside

LEMMA RootKill ==
  ASSUME TypeOK, Asked, NEW c \in Cmd, Kill(c), RootKept
  PROVE  RootKept'
<1>1. CASE In(c, Locked \cup Tearing)
  BY <1>1, Blamed, RootExcused DEF Kill, Partly
<1>2. CASE ~In(c, Locked \cup Tearing)
  <2>1. \A d \in Cmd \ {c} : cmd'[d] = cmd[d]
    BY OthersStay
  <2>2. rootFile' = rootFile /\ runs' = runs /\ why' = why
    BY <1>2 DEF Kill
  <2> QED
    BY <1>2, <2>1, <2>2, RootAside DEF In, Locked, Tearing
<1> QED
  BY <1>1, <1>2

LEMMA RootStep == TypeOK /\ Asked /\ FailureKnown /\ RootKept /\ [Next]_vars => RootKept'
<1> SUFFICES ASSUME TypeOK, Asked, FailureKnown, RootKept, [Next]_vars PROVE RootKept'
  OBVIOUS
<1>1. CASE Edit \/ UNCHANGED vars
  <2>1. UNCHANGED <<cmd, rootFile, runs, why>>
    BY <1>1 DEF Edit, vars
  <2> QED
    BY <2>1 DEF RootKept, SomeUp, Up, At, In
<1> QED
  BY <1>1, RootUp, RootDown, RootClean, RootKill DEF Next

--------------------------------------------------------------------------------
(* The network. *)

\* Who accounts for a network that nobody uses.
Keeping(c) == \/ At(c, "netdown")
              \/ In(c, {"volumes", "start", "unattached"}) /\ net = proj(c)

\* A step of c that is none of theirs, or leaves c one of them.
LEMMA NetAside ==
  ASSUME NetKept, NEW c \in Cmd, \A d \in Cmd \ {c} : cmd'[d] = cmd[d],
         net' = net, why.net => why'.net, SomeUp => SomeUp', Keeping(c) => Keeping(c)'
  PROVE  NetKept'
<1>1. \A d \in Cmd \ {c} : Keeping(d) => Keeping(d)'
  BY DEF Keeping, At, In, proj
<1>2. (\E d \in Cmd : Keeping(d)) => \E d \in Cmd : Keeping(d)'
  BY <1>1
<1> QED
  BY <1>2 DEF NetKept, Keeping

\* Nor of the network.
LEMMA NetExcused ==
  ASSUME why'.net = TRUE
  PROVE  NetKept'
  BY DEF NetKept

\* The network: who creates one uses it, removes it or is to blame.
LEMMA NetUp ==
  ASSUME TypeOK, Asked, NEW c \in Cmd, UpCommand(c), NetKept
  PROVE  NetKept'
<1>0. \A d \in Cmd \ {c} : cmd'[d] = cmd[d]
  BY OthersStay
<1>1. CASE \/ StartUp(c) \/ UpRefused(c) \/ preHookFails(c) \/ acquireLock(c) \/ LockTaken(c)
           \/ processGitRepos(c) \/ ForceReclone(c) \/ EnsureEditableRepo(c) \/ CloneAnew(c)
           \/ EnsureBranchFails(c) \/ PullBranch(c) \/ PopStash(c) \/ CloneDone(c) \/ CloneFails(c)
  <2>1. ~Keeping(c)
    BY <1>1 DEF Keeping, In, StartUp, Start, UpRefused, preHookFails, acquireLock, LockTaken,
       processGitRepos, ForceReclone, EnsureEditableRepo, CloneAnew, RunClone, EnsureBranchFails, PullBranch, PopStash, AfterPull,
       CloneDone, CloneFails, At
  <2>2. net' = net /\ runs' = runs
    BY <1>1 DEF StartUp, Start, UpRefused, preHookFails, acquireLock, LockTaken, processGitRepos,
       ForceReclone, EnsureEditableRepo, CloneAnew, RunClone, EnsureBranchFails, PullBranch, PopStash, AfterPull, CloneDone, CloneFails
  <2>3. why'.net = why.net
    <3>1. CASE acquireLock(c)
      BY <3>1 DEF acquireLock, TypeOK
    <3>2. CASE UNCHANGED why
      BY <3>2
    <3> QED
      BY <1>1, <3>1, <3>2 DEF StartUp, Start, UpRefused, preHookFails, LockTaken, processGitRepos,
         ForceReclone, EnsureEditableRepo, CloneAnew, RunClone, EnsureBranchFails, PullBranch, PopStash, AfterPull, CloneDone, CloneFails
  <2> QED
    BY <1>0, <2>1, <2>2, <2>3, NetAside DEF SomeUp, Up
<1>2. CASE \/ ValidateAllImages(c) \/ EnsureNetwork(c)
           \/ saveState(c) \/ LoadGlobalState(c, "load", "store")
           \/ UpdateProjectState(c) \/ waitForServiceEndpoints(c) \/ postHookExec(c) \/ Release(c)
  <2>1. ~Keeping(c)
    BY <1>2 DEF Keeping, In, ValidateAllImages, EnsureNetwork, saveState, LoadGlobalState,
       UpdateProjectState, waitForServiceEndpoints, postHookExec, Release, At
  <2>2. net' = net /\ runs' = runs
    BY <1>2 DEF ValidateAllImages, EnsureNetwork, saveState, LoadGlobalState,
       UpdateProjectState, waitForServiceEndpoints, postHookExec, Release
  <2>3. why'.net = why.net
    <3>1. CASE saveState(c)
      BY <3>1 DEF saveState, TypeOK
    <3>2. CASE UpdateProjectState(c)
      BY <3>2 DEF UpdateProjectState, SaveGlobalState, TypeOK
    <3>3. CASE UNCHANGED why
      BY <3>3
    <3> QED
      BY <1>2, <3>1, <3>2, <3>3 DEF ValidateAllImages, EnsureNetwork, LoadGlobalState,
         waitForServiceEndpoints, postHookExec, Release
  <2> QED
    BY <1>0, <2>1, <2>2, <2>3, NetAside DEF SomeUp, Up
<1>3. CASE stopGitServicesBeforeReclone(c)
  <2>1. ~Keeping(c) /\ net' = net
    BY <1>3 DEF stopGitServicesBeforeReclone, Keeping, At, In
  <2>2. CASE Blame({proj(c)})
    BY <2>2, Blamed, NetExcused
  <2>3. CASE runs' = runs /\ why' = why
    BY <1>0, <2>1, <2>3, NetAside DEF SomeUp, Up
  <2> QED
    BY <1>3, <2>2, <2>3, StopLeaves
<1>4. CASE CreateNetwork(c)
  <2>1. CASE net = NoFile
    <3>1. net' = proj(c) /\ cmd'[c].pc = "volumes" /\ cmd'[c].proj = proj(c)
      BY <1>4, <2>1, GotoKeeps DEF CreateNetwork, proj
    <3> QED
      BY <3>1 DEF NetKept, In, proj
  <2>2. CASE net # NoFile
    <3>1. net' = net /\ runs' = runs /\ why' = why /\ ~Keeping(c)
      BY <1>4, <2>2 DEF CreateNetwork, Keeping, At, In
    <3> QED
      BY <1>0, <3>1, NetAside DEF SomeUp, Up
  <2> QED
    BY <2>1, <2>2
<1>5. CASE EnsureVolumes(c)
  <2>1. cmd'[c].pc = "start" /\ cmd'[c].proj = proj(c)
    BY <1>5, GotoKeeps DEF EnsureVolumes, proj
  <2>2. net' = net /\ runs' = runs /\ why' = why /\ cmd[c].pc = "volumes"
    BY <1>5 DEF EnsureVolumes, At
  <2>3. Keeping(c) => Keeping(c)'
    BY <2>1, <2>2 DEF Keeping, At, In, proj
  <2> QED
    BY <1>0, <2>2, <2>3, NetAside DEF SomeUp, Up
<1>6. CASE EnsureVolumesFails(c)
  BY <1>6, NetExcused DEF EnsureVolumesFails, TypeOK
<1>7. CASE processOrchestration(c)
  <2>1. proj(c) \in Project
    BY <1>7 DEF processOrchestration, Asked, At, In
  <2>2. runs' = [runs EXCEPT ![proj(c)] = Kinds[proj(c)]]
    BY <1>7 DEF processOrchestration
  <2>3. Kinds[proj(c)] # {}
    BY <2>1, UpRunAssumption
  <2>4. runs'[proj(c)] # {}
    BY <2>1, <2>2, <2>3 DEF TypeOK
  <2>5. SomeUp'
    BY <2>1, <2>4 DEF SomeUp, Up
  <2> QED
    BY <2>5 DEF NetKept
<1>8. CASE OrchestrationFails(c)
  <2>1. cmd'[c].pc = "unattached" /\ cmd'[c].proj = proj(c)
    BY <1>8, GotoKeeps DEF OrchestrationFails, proj
  <2>2. net' = net /\ cmd[c].pc = "start"
    BY <1>8 DEF OrchestrationFails, At
  <2>3. Keeping(c) => Keeping(c)'
    BY <2>1, <2>2 DEF Keeping, At, In, proj
  <2>4. CASE why' = why /\ runs' = runs
    BY <1>0, <2>2, <2>3, <2>4, NetAside DEF SomeUp, Up
  <2>5. CASE /\ \E new : runs' = [runs EXCEPT ![proj(c)] = @ \cup new]
             /\ why' = [why EXCEPT !.reg = @ \cup {proj(c)}, !.root = TRUE]
    <3>1. why'.net = why.net
      BY <2>5 DEF TypeOK
    <3>2. SomeUp => SomeUp'
      <4>1. \A p \in Project : runs[p] \subseteq runs'[p]
        BY <2>5 DEF TypeOK
      <4> QED
        BY <4>1 DEF SomeUp, Up
    <3> QED
      BY <1>0, <2>2, <2>3, <3>1, <3>2, NetAside
  <2> QED
    BY <1>8, <2>4, <2>5 DEF OrchestrationFails
<1>9. CASE removeUnusedNetworks(c)
  <2>1. runs' = runs /\ why' = why /\ cmd[c].pc = "unattached"
    BY <1>9 DEF removeUnusedNetworks, At
  <2>2. CASE net = proj(c) /\ Unattached
    BY <1>9, <2>2 DEF removeUnusedNetworks, NetKept
  <2>3. CASE ~Unattached
    <3>1. SomeUp'
      BY <2>1, <2>3 DEF Unattached, Attached, SomeUp, Up
    <3> QED
      BY <3>1 DEF NetKept
  <2>4. CASE net # proj(c)
    <3>1. net' = net /\ ~Keeping(c)
      BY <1>9, <2>1, <2>4 DEF removeUnusedNetworks, Keeping, At, In
    <3> QED
      BY <1>0, <2>1, <3>1, NetAside DEF SomeUp, Up
  <2> QED
    BY <2>2, <2>3, <2>4
<1> QED
  BY <1>1, <1>2, <1>3, <1>4, <1>5, <1>6, <1>7, <1>8, <1>9 DEF UpCommand

LEMMA NetDown ==
  ASSUME TypeOK, Asked, NEW c \in Cmd, Down(c), NetKept
  PROVE  NetKept'
<1>0. \A d \in Cmd \ {c} : cmd'[d] = cmd[d]
  BY OthersStay
<1>1. CASE \/ StartDown(c) \/ KeepsState(c) \/ NoLeftovers(c) \/ deleteRoot(c)
           \/ removeIfHoldsNoFile(c) \/ RemoveAll(c) \/ LoadGlobalState(c, "unload", "unstore")
           \/ RemoveProject(c)
  <2>1. ~Keeping(c)
    BY <1>1 DEF Keeping, In, StartDown, Start, KeepsState, NoLeftovers, deleteRoot,
       removeIfHoldsNoFile, RemoveAll, LoadGlobalState, RemoveProject, At
  <2>2. net' = net /\ runs' = runs
    BY <1>1 DEF StartDown, Start, KeepsState, NoLeftovers, deleteRoot,
       removeIfHoldsNoFile, RemoveAll, LoadGlobalState, RemoveProject
  <2>3. why'.net = why.net
    <3>1. CASE deleteRoot(c) \/ RemoveAll(c)
      BY <3>1 DEF deleteRoot, RemoveAll, TypeOK
    <3>2. CASE RemoveProject(c)
      BY <3>2 DEF RemoveProject, SaveGlobalState, TypeOK
    <3>3. CASE UNCHANGED why
      BY <3>3
    <3> QED
      BY <1>1, <3>1, <3>2, <3>3 DEF StartDown, Start, KeepsState, NoLeftovers,
         removeIfHoldsNoFile, LoadGlobalState
  <2> QED
    BY <1>0, <2>1, <2>2, <2>3, NetAside DEF SomeUp, Up
<1>2. CASE StopProject(c)
  <2>1. At(c, "netdown")'
    BY <1>2, GotoKeeps DEF StopProject, At
  <2> QED
    BY <2>1 DEF NetKept
<1>3. CASE StopFails(c)
  BY <1>3, Blamed, NetExcused DEF StopFails
<1>4. CASE removeNetwork(c)
  <2>1. CASE Unattached
    BY <1>4, <2>1 DEF removeNetwork, NetKept
  <2>2. CASE ~Unattached
    <3>1. SomeUp'
      BY <1>4, <2>2 DEF removeNetwork, Unattached, Attached, SomeUp, Up
    <3> QED
      BY <3>1 DEF NetKept
  <2> QED
    BY <2>1, <2>2
<1> QED
  BY <1>1, <1>2, <1>3, <1>4 DEF Down

LEMMA NetClean ==
  ASSUME TypeOK, Asked, NEW c \in Cmd, Clean(c), NetKept
  PROVE  NetKept'
<1>1. \A d \in Cmd \ {c} : cmd'[d] = cmd[d]
  BY OthersStay
<1>2. ~Keeping(c)
  BY DEF Keeping, In, Clean, StartClean, Start, pruneStaleProjectStates, projectStateIsLive,
     LoadGlobalState, Deregister, At
<1>3. net' = net /\ runs' = runs
  BY DEF Clean, StartClean, Start, pruneStaleProjectStates, projectStateIsLive, LoadGlobalState,
     Deregister
<1>4. why'.net = why.net
  BY DEF Clean, StartClean, Start, pruneStaleProjectStates, projectStateIsLive, LoadGlobalState,
     Deregister, SaveGlobalState, TypeOK
<1> QED
  BY <1>1, <1>2, <1>3, <1>4, NetAside DEF SomeUp, Up

LEMMA NetKill ==
  ASSUME TypeOK, Asked, NEW c \in Cmd, Kill(c), NetKept
  PROVE  NetKept'
<1>1. CASE In(c, Locked \cup Tearing)
  BY <1>1, Blamed, NetExcused DEF Kill, Partly
<1>2. CASE ~In(c, Locked \cup Tearing)
  <2>1. \A d \in Cmd \ {c} : cmd'[d] = cmd[d]
    BY OthersStay
  <2>2. net' = net /\ runs' = runs /\ why' = why /\ ~Keeping(c)
    BY <1>2 DEF Kill, Keeping, At, In, Locked, Tearing
  <2> QED
    BY <2>1, <2>2, NetAside DEF SomeUp, Up
<1> QED
  BY <1>1, <1>2

LEMMA NetStep == TypeOK /\ Asked /\ NetKept /\ [Next]_vars => NetKept'
<1> SUFFICES ASSUME TypeOK, Asked, NetKept, [Next]_vars PROVE NetKept'
  OBVIOUS
<1>1. CASE Edit \/ UNCHANGED vars
  <2>1. UNCHANGED <<cmd, net, runs, why>>
    BY <1>1 DEF Edit, vars
  <2> QED
    BY <2>1 DEF NetKept, SomeUp, Up, At, In, proj
<1> QED
  BY <1>1, NetUp, NetDown, NetClean, NetKill DEF Next

\* All of it together is inductive.
LEMMA SharedInductive == Spec => []SharedInv
<1>1. Init => SharedInv
  <2> SUFFICES ASSUME Init PROVE SharedInv
    OBVIOUS
  <2>1. IInv /\ ~SomeUp /\ rootFile = NoFile /\ net = NoFile /\ reg = {}
    BY InitIInv DEF Init, SomeUp, Up
  <2>2. \A c \in Cmd : cmd[c].pc = "idle" /\ ~cmd[c].failed
    BY DEF Init, Idle
  <2>3. RegistryKept
    <3>1. \A p \in Project : KeptFor(p)
      BY <2>1, <2>2 DEF KeptFor, Knows, In, Entering, Leaving, Tearing, SomeUp, Up
    <3> QED
      BY <3>1 DEF RegistryKept
  <2> QED
    BY <2>1, <2>2, <2>3 DEF SharedInv, FailureKnown, RootKept, NetKept
<1>2. SharedInv /\ [Next]_vars => SharedInv'
  BY IInvStep, RegistryStep, FailureStep, RootStep, NetStep DEF SharedInv, IInv
<1> QED
  BY <1>1, <1>2, PTL DEF Spec

(***************************************************************************)
(* Between commands state.json lists exactly the projects that run, unless *)
(* one of the causes that `why` collects is to blame (global.go:119).      *)
(***************************************************************************)
THEOREM RegistryHolds == Spec => []RegistryTrue
<1>1. SharedInv => RegistryTrue
  <2> SUFFICES ASSUME SharedInv, AtRest, NEW p \in Project, p \notin why.reg
               PROVE  (p \in reg) = Up(p)
    BY DEF RegistryTrue
  <2>1. KeptFor(p)
    BY DEF SharedInv, RegistryKept
  <2>2. \A c \in Cmd : ~Owes(c, p)
    BY DEF AtRest, At, Owes, In, Entering, Leaving, Tearing
  <2> QED
    BY <2>1, <2>2 DEF KeptFor
<1> QED
  BY <1>1, SharedInductive, PTL

(***************************************************************************)
(* Between commands raioz.root.json is there exactly while a project of    *)
(* the workspace runs and the network only then, with the same proviso     *)
(* (down_tidy.go:56).                                                      *)
(***************************************************************************)
THEOREM WorkspaceHolds == Spec => []WorkspaceTrue
<1>1. SharedInv => WorkspaceTrue
  <2> SUFFICES ASSUME SharedInv, AtRest PROVE WorkspaceTrue
    BY DEF WorkspaceTrue
  <2>1. \A c \in Cmd : cmd[c].pc = "idle"
    BY DEF AtRest, At
  <2>2. ~why.root => (rootFile # NoFile) = SomeUp
    BY <2>1 DEF SharedInv, RootKept, At, In, SomeUp
  <2>3. ~why.net /\ net # NoFile => SomeUp
    BY <2>1 DEF SharedInv, NetKept, At, In
  <2> QED
    BY <2>2, <2>3 DEF WorkspaceTrue, SomeUp
<1> QED
  BY <1>1, SharedInductive, PTL

================================================================================
