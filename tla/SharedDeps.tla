------------------------------ MODULE SharedDeps ------------------------------
(***************************************************************************)
(* The life of the dependencies that the projects of a workspace share:    *)
(* `up` starts or reuses them and registers a reference afterwards, `down` *)
(* drops its references and tears down what nobody references any more,    *)
(* `clean` drops the references of projects that are not running.          *)
(*                                                                         *)
(* The reference counts are the atomic counters of Refcount: RefcountFile  *)
(* implements them.  What is not atomic is everything around them: `up`    *)
(* registers long after it started, and a teardown follows the DropRef     *)
(* that decided it, with no lock held.  `up` holds the lock of its         *)
(* workspace, if it has one, and of its project if not; a selective `down` *)
(* always that of its project; a spawned `up`, a whole `down` and `clean`  *)
(* hold none.                                                              *)
(***************************************************************************)
EXTENDS FiniteSets

CONSTANTS
    Project, Dep,
    Uses,         \* the shared dependencies each project dispatches
    HasService,   \* projects with a container labelled as their own
    UpLock,       \* the lock file of the `up` of each project
    DownLock,     \* the lock file of its selective `down`
    Spawned,      \* projects whose `up` a sibling runs, with no lock
    Leaver,       \* projects on which somebody runs `down`
    Cleaner,      \* `clean` commands
    Failing       \* projects and cleaners whose commands may fail or be killed

ASSUME SharedDepsAssumption ==
    /\ Uses \in [Project -> SUBSET Dep]
    /\ HasService \subseteq Project
    /\ Leaver \subseteq Project

VARIABLES
    running,    \* the dependencies whose container runs
    refs,       \* shared-deps.json: the projects that reference each
    using,      \* what the services of each project rely on, once up is done
    active,     \* projects with a running container of their own
    upPc,       \* where the `up` of each project is
    upTodo,     \* the dependencies it has yet to start, or to register
    selective,  \* projects whose `down` is selective, and holds a lock
    dropping,   \* the dependencies the `down` of each project has yet to drop
    doomed,     \* the one it has decided to tear down
    snap,       \* the references each `clean` has read and not judged
    dead,       \* those it has judged dead and not dropped
    orphan,     \* the dependency it has decided to tear down
    raced,      \* history: dependencies referenced while a teardown was due
    stray       \* history: dependencies somebody left running unreferenced

upVars == <<upPc, upTodo>>
downVars == <<selective, dropping, doomed>>
cleanVars == <<snap, dead, orphan>>
vars == <<running, refs, using, active, upVars, downVars, cleanVars,
          raced, stray>>

Refs == [Dep -> SUBSET Project]
NoRefs == [d \in Dep |-> {}]

TypeOK ==
    /\ running \subseteq Dep
    /\ refs \in Refs
    /\ using \in [Project -> SUBSET Dep]
    /\ active \subseteq HasService
    /\ upPc \in [Project -> {"idle", "start", "register", "services"}]
    /\ upTodo \in [Project -> SUBSET Dep]
    /\ selective \subseteq Project
    /\ dropping \in [Project -> SUBSET Dep]
    /\ doomed \in [Project -> SUBSET Dep]
    /\ snap \in [Cleaner -> Refs]
    /\ dead \in [Cleaner -> Refs]
    /\ orphan \in [Cleaner -> SUBSET Dep]
    /\ raced \subseteq Dep
    /\ stray \subseteq Dep

Init ==
    /\ running = {}
    /\ refs = NoRefs
    /\ using = [p \in Project |-> {}]
    /\ active = {}
    /\ upPc = [p \in Project |-> "idle"]
    /\ upTodo = [p \in Project |-> {}]
    /\ selective = {}
    /\ dropping = [p \in Project |-> {}]
    /\ doomed = [p \in Project |-> {}]
    /\ snap = [k \in Cleaner |-> NoRefs]
    /\ dead = [k \in Cleaner |-> NoRefs]
    /\ orphan = [k \in Cleaner |-> {}]
    /\ raced = {}
    /\ stray = {}

\* A teardown of d may be on its way: decided, or about to be on old evidence.
TeardownDue(d) ==
    \/ \E p \in Project : d \in doomed[p]
    \/ \E k \in Cleaner : d \in orphan[k] \/ snap[k][d] # {}

-----------------------------------------------------------------------------
(* raioz up: processOrchestration.                                         *)

UpGoto(p, where, todo) ==
    /\ upPc' = [upPc EXCEPT ![p] = where]
    /\ upTodo' = [upTodo EXCEPT ![p] = todo]

\* The projects whose command holds lock file f.
Holders(f) == {p \in Project \ Spawned : upPc[p] # "idle" /\ UpLock[p] = f}
                \cup {p \in selective : DownLock[p] = f}

\* Bound: one `up` of a project at a time.
UpBegin(p) ==
    /\ upPc[p] = "idle"
    /\ p \notin Spawned => Holders(UpLock[p]) = {}
    /\ UpGoto(p, "start", Uses[p])
    /\ UNCHANGED <<running, refs, using, active, downVars, cleanVars, raced, stray>>

\* ImageRunner.Start reuses a running container and starts a missing one.
UpStart(p, d) ==
    /\ upPc[p] = "start"
    /\ d \in upTodo[p]
    /\ running' = running \cup {d}
    /\ UpGoto(p, "start", upTodo[p] \ {d})
    /\ UNCHANGED <<refs, using, active, downVars, cleanVars, raced, stray>>

\* checkInfraHealth: a container that has vanished meanwhile is waited for,
\* and no reason to stop.
UpHealth(p) ==
    /\ upPc[p] = "start"
    /\ upTodo[p] = {}
    /\ UpGoto(p, "register", Uses[p])
    /\ UNCHANGED <<running, refs, using, active, downVars, cleanVars, raced, stray>>

\* registerSharedDepRefs, one AddRef.
UpRegister(p, d) ==
    /\ upPc[p] = "register"
    /\ d \in upTodo[p]
    /\ refs' = [refs EXCEPT ![d] = @ \cup {p}]
    /\ raced' = IF d \notin running \/ TeardownDue(d) THEN raced \cup {d} ELSE raced
    /\ stray' = stray \ {d}
    /\ UpGoto(p, "register", upTodo[p] \ {d})
    /\ UNCHANGED <<running, using, active, downVars, cleanVars>>

\* A reference that cannot be written is logged and left out.
UpRegisterFails(p, d) ==
    /\ p \in Failing
    /\ upPc[p] = "register"
    /\ d \in upTodo[p]
    /\ stray' = stray \cup {d}
    /\ UpGoto(p, "register", upTodo[p] \ {d})
    /\ UNCHANGED <<running, refs, using, active, downVars, cleanVars, raced>>

\* startServices: a project of shared dependencies only has no container
\* that carries its label.
UpServices(p) ==
    /\ upPc[p] = "register"
    /\ upTodo[p] = {}
    /\ UpGoto(p, "services", {})
    /\ active' = active \cup ({p} \cap HasService)
    /\ UNCHANGED <<running, refs, using, downVars, cleanVars, raced, stray>>

UpDone(p) ==
    /\ upPc[p] = "services"
    /\ using' = [using EXCEPT ![p] = Uses[p]]
    /\ UpGoto(p, "idle", {})
    /\ UNCHANGED <<running, refs, active, downVars, cleanVars, raced, stray>>

\* An error, a failed health check or a signal: nothing is rolled back.
UpAborts(p) ==
    /\ p \in Failing
    /\ upPc[p] # "idle"
    /\ stray' = stray \cup
          CASE upPc[p] = "start"    -> Uses[p] \ upTodo[p]
            [] upPc[p] = "register" -> upTodo[p]
            [] upPc[p] = "services" -> {}
    /\ UpGoto(p, "idle", {})
    /\ UNCHANGED <<running, refs, using, active, downVars, cleanVars, raced>>

-----------------------------------------------------------------------------
(* raioz down.                                                             *)

DownIdle(p) == dropping[p] = {} /\ doomed[p] = {}

\* downOrchestrated stops the services first.  It holds no lock, so an `up` of
\* the project may be under way.  Bound: one `down` of a project at a time.
DownBegin(p) ==
    /\ p \in Leaver \ selective
    /\ DownIdle(p)
    /\ using' = [using EXCEPT ![p] = {}]
    /\ active' = active \ {p}
    /\ dropping' = [dropping EXCEPT ![p] = Uses[p]]
    /\ UNCHANGED <<running, refs, upVars, selective, doomed, cleanVars, raced, stray>>

\* downSelectiveServices, one dependency.
DownSelective(p, d) ==
    /\ p \in Leaver \ selective
    /\ DownIdle(p)
    /\ Holders(DownLock[p]) = {}
    /\ d \in Uses[p]
    /\ selective' = selective \cup {p}
    /\ using' = [using EXCEPT ![p] = @ \ {d}]
    /\ dropping' = [dropping EXCEPT ![p] = {d}]
    /\ UNCHANGED <<running, refs, active, upVars, doomed, cleanVars, raced, stray>>

\* The loop of stopDependencyComposeProjects moves on to d, of which left
\* is what DropRef says remains.
DownDecides(p, d, left) ==
    /\ doomed[p] = {}
    /\ d \in dropping[p]
    /\ dropping' = [dropping EXCEPT ![p] = @ \ {d}]
    /\ doomed' = [doomed EXCEPT ![p] = IF left = {} THEN {d} ELSE {}]
    /\ UNCHANGED <<running, using, active, upVars, selective, cleanVars>>

\* Variant: the answer is read before the reference is dropped.
DownDrop_StaleAnswer(p, d) ==
    /\ DownDecides(p, d, refs[d])
    /\ refs' = [refs EXCEPT ![d] = @ \ {p}]
    /\ raced' = IF refs'[d] = {} THEN raced \ {d} ELSE raced
    /\ UNCHANGED stray

DownDrop(p, d) ==
    /\ DownDecides(p, d, refs[d] \ {p})
    /\ refs' = [refs EXCEPT ![d] = @ \ {p}]
    /\ raced' = IF refs'[d] = {} THEN raced \ {d} ELSE raced
    /\ UNCHANGED stray

\* A failed DropRef is logged; its answer decides all the same.
DownDropFails(p, d) ==
    /\ p \in Failing
    /\ \E left \in {{}, refs[d] \ {p}} : DownDecides(p, d, left)
    /\ raced' = raced \cup {d}
    /\ UNCHANGED <<refs, stray>>

\* The teardown the answer of DropRef has decided, whatever has changed since.
DownTearDown(p, d) ==
    /\ d \in doomed[p]
    /\ doomed' = [doomed EXCEPT ![p] = {}]
    /\ running' = running \ {d}
    /\ stray' = stray \ {d}
    /\ UNCHANGED <<refs, using, active, upVars, selective, dropping, cleanVars, raced>>

DownTearDownFails(p, d) ==
    /\ p \in Failing
    /\ d \in doomed[p]
    /\ doomed' = [doomed EXCEPT ![p] = {}]
    /\ stray' = stray \cup {d}
    /\ UNCHANGED <<running, refs, using, active, upVars, selective, dropping, cleanVars, raced>>

\* downSelectiveServices returns and releases the lock.
DownReleases(p) ==
    /\ p \in selective
    /\ DownIdle(p)
    /\ selective' = selective \ {p}
    /\ UNCHANGED <<running, refs, using, active, upVars, dropping, doomed, cleanVars, raced, stray>>

DownKilled(p) ==
    /\ p \in Failing
    /\ ~DownIdle(p)
    /\ dropping' = [dropping EXCEPT ![p] = {}]
    /\ doomed' = [doomed EXCEPT ![p] = {}]
    /\ selective' = selective \ {p}
    /\ stray' = stray \cup doomed[p]
    /\ UNCHANGED <<running, refs, using, active, upVars, cleanVars, raced>>

-----------------------------------------------------------------------------
(* raioz clean: pruneWorkspaceRefs.                                        *)

CleanIdle(k) == snap[k] = NoRefs /\ dead[k] = NoRefs /\ orphan[k] = {}

\* Snapshot, of all the dependencies of the workspace.
CleanBegin(k) ==
    /\ CleanIdle(k)
    /\ snap' = [snap EXCEPT ![k] = refs]
    /\ UNCHANGED <<running, refs, using, active, upVars, downVars, dead, orphan, raced, stray>>

\* Variant: any dead reference makes an orphan.
CleanJudge_AnyDead(k, d) ==
    /\ dead[k] = NoRefs /\ orphan[k] = {} /\ snap[k][d] # {}
    /\ \E D \in SUBSET (snap[k][d] \ active) :
          /\ dead' = [dead EXCEPT ![k][d] = D]
          /\ orphan' = [orphan EXCEPT ![k] = IF D # {} THEN {d} ELSE {}]
    /\ snap' = [snap EXCEPT ![k][d] = {}]
    /\ UNCHANGED <<running, refs, using, active, upVars, downVars, raced, stray>>

\* classifyRefs: a project whose probe fails counts as live, so any part of
\* those that are not active may be judged dead.
CleanJudge(k, d) ==
    /\ dead[k] = NoRefs /\ orphan[k] = {} /\ snap[k][d] # {}
    /\ \E D \in SUBSET (snap[k][d] \ active) :
          /\ dead' = [dead EXCEPT ![k][d] = D]
          /\ orphan' = [orphan EXCEPT ![k] = IF D = snap[k][d] THEN {d} ELSE {}]
    /\ snap' = [snap EXCEPT ![k][d] = {}]
    /\ UNCHANGED <<running, refs, using, active, upVars, downVars, raced, stray>>

\* dropRefs ignores who remains.
CleanDrop(k, d, p) ==
    /\ p \in dead[k][d]
    /\ dead' = [dead EXCEPT ![k][d] = @ \ {p}]
    /\ refs' = [refs EXCEPT ![d] = @ \ {p}]
    /\ raced' = IF refs'[d] = {} THEN raced \ {d} ELSE raced
    /\ stray' = IF refs'[d] = {} /\ d \notin orphan[k] THEN stray \cup {d} ELSE stray
    /\ UNCHANGED <<running, using, active, upVars, downVars, snap, orphan>>

CleanDropFails(k, d, p) ==
    /\ k \in Failing
    /\ p \in dead[k][d]
    /\ dead' = [dead EXCEPT ![k][d] = @ \ {p}]
    /\ raced' = raced \cup {d}
    /\ UNCHANGED <<running, refs, using, active, upVars, downVars, snap, orphan, stray>>

\* teardownOrphanDep.
CleanTearDown(k, d) ==
    /\ dead[k] = NoRefs
    /\ d \in orphan[k]
    /\ orphan' = [orphan EXCEPT ![k] = {}]
    /\ running' = running \ {d}
    /\ stray' = stray \ {d}
    /\ UNCHANGED <<refs, using, active, upVars, downVars, snap, dead, raced>>

CleanKilled(k) ==
    /\ k \in Failing
    /\ ~CleanIdle(k)
    /\ snap' = [snap EXCEPT ![k] = NoRefs]
    /\ dead' = [dead EXCEPT ![k] = NoRefs]
    /\ orphan' = [orphan EXCEPT ![k] = {}]
    /\ stray' = stray \cup orphan[k]
    /\ UNCHANGED <<running, refs, using, active, upVars, downVars, raced>>

CleanTearDownFails(k, d) ==
    /\ k \in Failing
    /\ dead[k] = NoRefs
    /\ d \in orphan[k]
    /\ orphan' = [orphan EXCEPT ![k] = {}]
    /\ stray' = stray \cup {d}
    /\ UNCHANGED <<running, refs, using, active, upVars, downVars, snap, dead, raced>>

-----------------------------------------------------------------------------
Up(p) ==
    \/ UpBegin(p) \/ UpHealth(p) \/ UpServices(p) \/ UpDone(p) \/ UpAborts(p)
    \/ \E d \in Dep : UpStart(p, d) \/ UpRegister(p, d) \/ UpRegisterFails(p, d)

Down(p) ==
    \/ DownBegin(p) \/ DownReleases(p) \/ DownKilled(p)
    \/ \E d \in Dep : \/ DownSelective(p, d)
                      \/ DownDrop(p, d)     \/ DownDropFails(p, d)
                      \/ DownTearDown(p, d) \/ DownTearDownFails(p, d)

Clean(k) ==
    \/ CleanBegin(k) \/ CleanKilled(k)
    \/ \E d \in Dep : \/ CleanJudge(k, d)
                      \/ \E p \in Project : CleanDrop(k, d, p) \/ CleanDropFails(k, d, p)
                      \/ CleanTearDown(k, d) \/ CleanTearDownFails(k, d)

Next ==
    \/ \E p \in Project : Up(p) \/ Down(p)
    \/ \E k \in Cleaner : Clean(k)

Spec == Init /\ [][Next]_vars

-----------------------------------------------------------------------------
(***************************************************************************)
(* A reference keeps its dependency up, whoever else leaves, fails or      *)
(* cleans, unless it was registered while a teardown was due, or a         *)
(* reference could not be dropped.                                         *)
(***************************************************************************)
RefKeepsDepUp == \A d \in Dep : refs[d] # {} => d \in running \cup raced

Quiet ==
    /\ \A p \in Project : upPc[p] = "idle" /\ DownIdle(p)
    /\ \A k \in Cleaner : CleanIdle(k)

(***************************************************************************)
(* Between commands an unreferenced dependency runs only because a command *)
(* failed, or because `clean` dropped the last reference of a dependency   *)
(* it had found in use: every other way out tears it down.                 *)
(***************************************************************************)
LeakHasCause == Quiet => \A d \in running : refs[d] # {} \/ d \in stray

-----------------------------------------------------------------------------
(* The inductive strengthening of RefKeepsDepUp: no teardown is due of a     *)
(* dependency that is referenced and not raced, and what `clean` takes for   *)
(* the references of one it may tear down are all it has.                    *)

NoTeardownDue == \A d \in Dep : refs[d] # {} /\ d \notin raced =>
    /\ d \in running
    /\ \A p \in Project : d \notin doomed[p]
    /\ \A k \in Cleaner : /\ snap[k][d] # {} => refs[d] \subseteq snap[k][d]
                          /\ d \in orphan[k] => refs[d] \subseteq dead[k][d]

IInv == TypeOK /\ NoTeardownDue

(* The strengthening of LeakHasCause: whoever started a dependency or took   *)
(* its last reference still has it in hand.                                  *)

\* What a command has to do is among what its project uses, and a teardown is
\* decided for one dependency at a time.
OneByOne ==
    /\ \A p \in Project : upTodo[p] \subseteq Uses[p]
    /\ \A p \in Project : \A d, e \in doomed[p] : d = e
    /\ \A k \in Cleaner : \A d, e \in orphan[k] : d = e

\* Its `up` has started d and not registered it, or its `down` is to tear d down.
Has(p, d) ==
    \/ upPc[p] = "start" /\ d \in Uses[p] \ upTodo[p]
    \/ upPc[p] = "register" /\ d \in upTodo[p]
    \/ d \in doomed[p]

InHand(d) == (\E p \in Project : Has(p, d)) \/ \E k \in Cleaner : d \in orphan[k]

Told(d) == refs[d] # {} \/ d \in stray

NoneForgotten == \A d \in running : Told(d) \/ InHand(d)

LeakInv == TypeOK /\ OneByOne /\ NoneForgotten

=============================================================================
