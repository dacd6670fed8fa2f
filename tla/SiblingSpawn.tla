----------------------------- MODULE SiblingSpawn -----------------------------
(***************************************************************************)
(* Sibling projects as dependencies (ADR-008).  A dependency with a        *)
(* `project:` (mode A) is another raioz project, which `up` starts by      *)
(* running `raioz up` in it unless it is active; one with a                *)
(* `siblingProject:` (mode B) is served by that project if it is active    *)
(* and by a container of the consumer's own if it is not.                  *)
(*                                                                         *)
(* A run is a `raioz up` process.  A spawned run inherits a stack of the   *)
(* projects above it, which detects cycles and bypasses the project lock.  *)
(* A run that ends leaves those below it behind: the kernel sends its      *)
(* child a SIGTERM (Pdeathsig, ADR-026), which only cancels a context, and *)
(* the child goes on, with those below it, until it notices.               *)
(*                                                                         *)
(* The lock is that of ProjectLock, taken and given back in one step here: *)
(* one for all the projects of a workspace, or one for each project when   *)
(* none of them declares a workspace.                                      *)
(***************************************************************************)
CONSTANTS
    Project,
    ModeA, ModeB,   \* the siblings each project depends on
    LockOf,         \* the lock file of each project
    Root,           \* runs a user starts
    Starts,         \* the projects each user starts (a bound)
    Child,          \* runs that raioz spawns (a bound)
    Leaver,         \* projects on which a user runs `down`
    Failing,        \* projects whose `up` may fail
    Hanging,        \* projects whose spawned `up` may hang
    None            \* no project, no run

Run == Root \cup Child
Deps(p) == ModeA[p] \cup ModeB[p]
LockFile == {LockOf[p] : p \in Project}

ASSUME SiblingSpawnAssumption ==
    /\ ModeA \in [Project -> SUBSET Project]
    /\ ModeB \in [Project -> SUBSET Project]
    /\ \A p \in Project : p \notin Deps(p) /\ ModeA[p] \cap ModeB[p] = {}
    /\ Root \cap Child = {}
    /\ None \notin Run \cup Project

VARIABLES
    run,        \* the state of each process
    lock,       \* the run that holds each lock file
    active,     \* projects with a running container of their own
    image,      \* <<p, q>>: p runs its own container in place of sibling q
    deferred    \* LocalState of each project: DeferredToSibling

vars == <<run, lock, active, image, deferred>>

Verdict == {"none", "proceed", "deferred", "spawn", "up"}
NoVerdict == [q \in Project |-> "none"]

Idle == [pc |-> "free", proj |-> None, stack |-> {}, above |-> {},
         child |-> None, todo |-> {}, verdict |-> NoVerdict]

RunState == [pc : {"free", "lock", "decide", "verify", "apply", "wait",
                   "serve", "hung", "finish", "ok", "failed"},
             proj : Project \cup {None},
             stack : SUBSET Project,      \* RAIOZ_SIBLING_STACK
             above : SUBSET Run,          \* the processes above it that are there
             child : Child \cup {None},   \* the one it waits for
             todo : SUBSET Project,
             verdict : [Project -> Verdict]]

TypeOK ==
    /\ run \in [Run -> RunState]
    /\ lock \in [LockFile -> Run \cup {None}]
    /\ active \subseteq Project
    /\ image \subseteq Project \X Project
    /\ deferred \in [Project -> SUBSET Project]
    /\ \A p \in Project : deferred[p] \subseteq ModeB[p]

Init ==
    /\ run = [r \in Run |-> Idle]
    /\ lock = [f \in LockFile |-> None]
    /\ active \in SUBSET Project
    /\ image = {}
    /\ deferred = [p \in Project |-> {}]

Live(r) == run[r].pc \notin {"free", "ok", "failed"}
Spawned(r) == run[r].stack # {}

\* Its parent has ended, and Pdeathsig has cancelled its context.
Orphan(r) == Spawned(r) /\ run[r].above = {}

-----------------------------------------------------------------------------
Goto(r, where, todo) == run' = [run EXCEPT ![r].pc = where, ![r].todo = todo]

\* The run returns; if it has a parent, that waits for the result.
Ended(r, result) ==
    IF run[r].above = {} THEN Idle
    ELSE [run[r] EXCEPT !.pc = result, !.child = None, !.todo = {}, !.verdict = NoVerdict]

\* Release.
Unlock(r) == lock' = [f \in LockFile |-> IF lock[f] = r THEN None ELSE lock[f]]

End(r, result) ==
    /\ run' = [run EXCEPT ![r] = Ended(r, result)]
    /\ Unlock(r)

UserUp(r, p) ==
    /\ p \in Starts[r]
    /\ run[r].pc = "free"
    /\ run' = [run EXCEPT ![r].pc = "lock", ![r].proj = p]
    /\ UNCHANGED <<lock, active, image, deferred>>

\* acquireLock: a spawned run has none to take.
AcquireLock(r) ==
    /\ run[r].pc = "lock"
    /\ ~Spawned(r) => lock[LockOf[run[r].proj]] = None
    /\ lock' = IF Spawned(r) THEN lock ELSE [lock EXCEPT ![LockOf[run[r].proj]] = r]
    /\ Goto(r, "decide", Deps(run[r].proj))
    /\ UNCHANGED <<active, image, deferred>>

LockTaken(r) ==
    /\ run[r].pc = "lock"
    /\ ~Spawned(r)
    /\ lock[LockOf[run[r].proj]] # None
    /\ End(r, "failed")
    /\ UNCHANGED <<active, image, deferred>>

Decided(r, q, v) ==
    run' = [run EXCEPT ![r].todo = @ \ {q}, ![r].verdict[q] = v]

\* Variant: the stack is not looked at.
DecideA_NoCycleCheck(r, q) ==
    /\ run[r].pc = "decide"
    /\ q \in run[r].todo \cap ModeA[run[r].proj]
    /\ Decided(r, q, IF q \in active THEN "up" ELSE "spawn")
    /\ UNCHANGED <<lock, active, image, deferred>>

\* decideModeA.
DecideA(r, q) ==
    /\ run[r].pc = "decide"
    /\ q \in run[r].todo \cap ModeA[run[r].proj]
    /\ q \notin run[r].stack
    /\ Decided(r, q, IF q \in active THEN "up" ELSE "spawn")
    /\ UNCHANGED <<lock, active, image, deferred>>

\* checkSiblingCycle.
DecideCycle(r, q) ==
    /\ run[r].pc = "decide"
    /\ q \in run[r].todo \cap ModeA[run[r].proj]
    /\ q \in run[r].stack
    /\ End(r, "failed")
    /\ UNCHANGED <<active, image, deferred>>

\* decideModeB.
DecideB(r, q) ==
    /\ run[r].pc = "decide"
    /\ q \in run[r].todo \cap ModeB[run[r].proj]
    /\ Decided(r, q, IF q \in active THEN "deferred" ELSE "proceed")
    /\ UNCHANGED <<lock, active, image, deferred>>

\* From resolveSiblingVerdicts to verifySiblingsStillUp, and on to the loop
\* that applies the verdicts, and on to the services.
Advance(r) ==
    /\ run[r].todo = {}
    /\ \/ /\ run[r].pc = "decide"
          /\ Goto(r, "verify", {q \in Project : run[r].verdict[q] \in {"up", "deferred"}})
       \/ run[r].pc = "verify" /\ Goto(r, "apply", Deps(run[r].proj))
       \/ run[r].pc = "apply" /\ Goto(r, "serve", {})
    /\ UNCHANGED <<lock, active, image, deferred>>

Verify(r, q) ==
    /\ run[r].pc = "verify"
    /\ q \in run[r].todo \cap active
    /\ Goto(r, "verify", run[r].todo \ {q})
    /\ UNCHANGED <<lock, active, image, deferred>>

VerifyFails(r, q) ==
    /\ run[r].pc = "verify"
    /\ q \in run[r].todo \ active
    /\ End(r, "failed")
    /\ UNCHANGED <<active, image, deferred>>

\* applySiblingVerdict for a sibling that is up.
ApplySkip(r, q) ==
    /\ run[r].pc = "apply"
    /\ q \in run[r].todo
    /\ run[r].verdict[q] \in {"up", "deferred"}
    /\ Goto(r, "apply", run[r].todo \ {q})
    /\ UNCHANGED <<lock, active, image, deferred>>

\* The dependency is dispatched like any other.
ApplyProceed(r, q) ==
    /\ run[r].pc = "apply"
    /\ q \in run[r].todo
    /\ run[r].verdict[q] = "proceed"
    /\ image' = image \cup {<<run[r].proj, q>>}
    /\ Goto(r, "apply", run[r].todo \ {q})
    /\ UNCHANGED <<lock, active, deferred>>

pushSiblingStack(r, q) == run[r].stack \cup {run[r].proj, q}

\* Variant: the project lock is not held while the run waits.
Spawn_GivesLockBack(r, q, c) ==
    /\ run[r].pc = "apply"
    /\ q \in run[r].todo
    /\ run[r].verdict[q] = "spawn"
    /\ run[c].pc = "free"
    /\ run' = [run EXCEPT
         ![r].pc = "wait", ![r].child = c, ![r].todo = @ \ {q},
         ![c] = [Idle EXCEPT !.pc = "lock", !.proj = q,
                             !.stack = pushSiblingStack(r, q),
                             !.above = run[r].above \cup {r}]]
    /\ Unlock(r)
    /\ UNCHANGED <<active, image, deferred>>

\* spawnSibling: `raioz up` in the directory of the sibling.
Spawn(r, q, c) ==
    /\ run[r].pc = "apply"
    /\ q \in run[r].todo
    /\ run[r].verdict[q] = "spawn"
    /\ run[c].pc = "free"
    /\ run' = [run EXCEPT
         ![r].pc = "wait", ![r].child = c, ![r].todo = @ \ {q},
         ![c] = [Idle EXCEPT !.pc = "lock", !.proj = q,
                             !.stack = pushSiblingStack(r, q),
                             !.above = run[r].above \cup {r}]]
    /\ UNCHANGED <<lock, active, image, deferred>>

\* cmd.Wait returns without an error.
Reap(r) ==
    /\ run[r].pc = "wait"
    /\ run[run[r].child].pc = "ok"
    /\ run' = [run EXCEPT ![r].pc = "apply", ![r].child = None,
                          ![run[r].child] = Idle]
    /\ UNCHANGED <<lock, active, image, deferred>>

\* What the end of process c makes of process x: below c, it has lost c and
\* those above c, and nobody waits for its result any more.
Below(x, c) ==
    LET left == run[x].above \ (run[c].above \cup {c})
    IN  IF c \notin run[x].above THEN run[x]
        ELSE IF left = {} /\ ~Live(x) THEN Idle
        ELSE [run[x] EXCEPT !.above = left]

\* The run returns an error, and its child is not there any more.
EndWithChild(r) ==
    /\ run' = [x \in Run |-> IF x = r THEN Ended(r, "failed")
                             ELSE IF x = run[r].child THEN Idle ELSE Below(x, run[r].child)]
    /\ Unlock(r)

ReapFailed(r) ==
    /\ run[r].pc = "wait"
    /\ run[run[r].child].pc = "failed"
    /\ EndWithChild(r)
    /\ UNCHANGED <<active, image, deferred>>

\* Variant: the child gets no deadline; only a cancelled context ends the wait.
Timeout_NoDeadline(r) ==
    /\ run[r].pc = "wait"
    /\ run[run[r].child].pc \notin {"ok", "failed"}
    /\ Orphan(r)
    /\ EndWithChild(r)
    /\ UNCHANGED <<active, image, deferred>>

\* exec.CommandContext kills the child when RAIOZ_SIBLING_TIMEOUT is over, or
\* when the context of the run is cancelled.  Nobody waits for its own child.
Timeout(r) ==
    /\ run[r].pc = "wait"
    /\ run[run[r].child].pc \notin {"ok", "failed"}
    /\ EndWithChild(r)
    /\ UNCHANGED <<active, image, deferred>>

\* A user kills the run they started.  The next run takes over its lock file,
\* which has the PID of a dead process (ProjectLock).
Kill(r) ==
    /\ Live(r)
    /\ run' = [x \in Run |-> IF x = r THEN Idle ELSE Below(x, r)]
    /\ Unlock(r)
    /\ UNCHANGED <<active, image, deferred>>

\* Variant: nobody tells an orphan.
Notice_NoPdeathsig(r) == FALSE /\ UNCHANGED vars

\* A step of an orphan returns because its context is cancelled.
Notice(r) ==
    /\ Live(r) /\ Orphan(r)
    /\ run[r].pc # "wait"
    /\ End(r, "failed")
    /\ UNCHANGED <<active, image, deferred>>

\* A call of the runtime does not answer, or what the run has started does not
\* come up.
Hang(r) ==
    /\ run[r].pc \in {"decide", "serve"}
    /\ run[r].proj \in Hanging
    /\ Goto(r, "hung", {})
    /\ UNCHANGED <<lock, active, image, deferred>>

\* startServices and saveHostPIDs.
Serve(r) ==
    /\ run[r].pc = "serve"
    /\ active' = active \cup {run[r].proj}
    /\ deferred' = [deferred EXCEPT ![run[r].proj] =
                      {q \in Project : run[r].verdict[q] = "deferred"}]
    /\ Goto(r, "finish", {})
    /\ UNCHANGED <<lock, image>>

\* startServices returns an error after it has started some of them:
\* savePartialHostPIDs.
ServePartly(r) ==
    /\ run[r].pc = "serve"
    /\ run[r].proj \in Failing
    /\ active' = active \cup {run[r].proj}
    /\ deferred' = [deferred EXCEPT ![run[r].proj] =
                      {q \in Project : run[r].verdict[q] = "deferred"}]
    /\ End(r, "failed")
    /\ UNCHANGED image

Finish(r) ==
    /\ run[r].pc = "finish"
    /\ End(r, "ok")
    /\ UNCHANGED <<active, image, deferred>>

\* Any step of `up` may return an error.
Fail(r) ==
    /\ Live(r)
    /\ run[r].pc # "wait"
    /\ run[r].proj \in Failing
    /\ End(r, "failed")
    /\ UNCHANGED <<active, image, deferred>>

\* raioz down, whole: it takes no project lock, and skips the siblings that
\* the last `up` has recorded as deferred.
Down(p) ==
    /\ p \in Leaver
    /\ active' = active \ {p}
    /\ image' = {i \in image : i[1] = p => i[2] \in deferred[p]}
    /\ UNCHANGED <<run, lock, deferred>>

Step(r) ==
    \/ AcquireLock(r) \/ LockTaken(r) \/ Advance(r)
    \/ \E q \in Project : \/ DecideA(r, q) \/ DecideCycle(r, q) \/ DecideB(r, q)
                          \/ Verify(r, q) \/ VerifyFails(r, q)
                          \/ ApplySkip(r, q) \/ ApplyProceed(r, q)
                          \/ \E c \in Child : Spawn(r, q, c)
    \/ Reap(r) \/ ReapFailed(r) \/ Serve(r) \/ Finish(r)
    \/ Notice(r)

Next ==
    \/ \E r \in Root, p \in Project : UserUp(r, p)
    \/ \E r \in Root : Kill(r)
    \/ \E r \in Run : Step(r) \/ Timeout(r) \/ Fail(r) \/ ServePartly(r)
    \/ \E r \in Child : Hang(r)
    \/ \E p \in Project : Down(p)

Spec == Init /\ [][Next]_vars

(***************************************************************************)
(* Fairness: a process that can take its next step takes it, and a wait    *)
(* comes to its deadline.  Nothing makes a run fail, hang or be killed; a  *)
(* hung one goes no further unless its context is cancelled.               *)
(***************************************************************************)
FairSpec == Spec /\ \A r \in Run : WF_vars(Step(r)) /\ WF_vars(Timeout(r))

-----------------------------------------------------------------------------
\* Between acquireLock and Release.
InUp(r) == run[r].pc \in {"decide", "verify", "apply", "wait", "serve", "hung", "finish"}

\* The run of the user that a run works for: none, if a process above it has
\* ended.
RootOf(r) == Root \cap (run[r].above \cup {r})

(***************************************************************************)
(* docs/LOCKS.md: the lock serializes the `up` of one project, for the     *)
(* parent of a spawned run "already holds it".  It does among the runs     *)
(* that work for users whose projects share a lock file.  A run that has   *)
(* outlived a process above it works under no lock any more, but still     *)
(* never below a run of the same project, for checkSiblingCycle finds      *)
(* every cycle.                                                            *)
(***************************************************************************)
OneUpPerProject ==
    \A r, s \in Run :
        /\ InUp(r) /\ InUp(s) /\ run[r].proj = run[s].proj
        /\ \/ s \in run[r].above
           \/ \E u \in RootOf(r), v \in RootOf(s) : LockOf[run[u].proj] = LockOf[run[v].proj]
        => r = s

(***************************************************************************)
(* Every `up` ends, whatever the siblings refer to, and even if one of     *)
(* them hangs.                                                             *)
(***************************************************************************)
UpEnds == \A r \in Root : run[r].pc = "lock" ~> run[r].pc = "free"

(***************************************************************************)
(* ADR-026: a run that has outlived a process above it ends, however deep  *)
(* it is below that and whatever it hangs on.                              *)
(***************************************************************************)
OrphansEnd ==
    \A r \in Child : run[r].pc # "free" /\ RootOf(r) = {} ~> run[r].pc = "free"

-----------------------------------------------------------------------------
(* The inductive strengthening of OneUpPerProject.                           *)

\* A process that is not there has no state.
FreeIsIdle == \A r \in Run : run[r].pc = "free" => run[r] = Idle

\* What a verdict says of the sibling.
VerdictsRight == \A r \in Run : run[r].pc # "free" =>
    /\ run[r].proj \in Project
    /\ \A q \in Project :
          /\ run[r].verdict[q] = "spawn" => q \in ModeA[run[r].proj] \ run[r].stack
          /\ run[r].verdict[q] = "deferred" => q \in ModeB[run[r].proj]

\* The processes above x wait, the nearest for x and each other one for the
\* next; the stack of x has their projects, and none is that of x.
AboveWait == \A x \in Run : \A s \in run[x].above :
    /\ run[s].pc = "wait"
    /\ x = run[s].child \/ run[s].child \in run[x].above
    /\ run[s].above \subseteq run[x].above
    /\ run[s].proj \in run[x].stack
    /\ run[s].proj # run[x].proj

AboveChain == \A x \in Run : \A s, t \in run[x].above :
    s = t \/ s \in run[t].above \/ t \in run[s].above

WaitsForChild == \A r \in Run : run[r].pc = "wait" =>
    run[r].child \in Child /\ r \in run[run[r].child].above

OnlyChildSpawned ==
    /\ \A r \in Root : run[r].above = {} /\ ~Spawned(r)
    /\ \A r \in Child : run[r].pc # "free" => Spawned(r)

\* The runs that work for one user are a chain.
OneChain == \A x, y \in Run : RootOf(x) \cap RootOf(y) # {} =>
    x = y \/ x \in run[y].above \/ y \in run[x].above

IInv == TypeOK /\ FreeIsIdle /\ VerdictsRight /\ AboveWait /\ AboveChain
                 /\ WaitsForChild /\ OnlyChildSpawned /\ OneChain

(* What OneUpPerProject needs besides: a run in the middle of `up` that a    *)
(* user started holds its lock.                                              *)
LockHeld == \A r \in Root : InUp(r) => lock[LockOf[run[r].proj]] = r

=============================================================================
