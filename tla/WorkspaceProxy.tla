--------------------------- MODULE WorkspaceProxy ---------------------------
(***************************************************************************)
(* The proxy that the projects of a workspace share (ADR-005, ADR-010).    *)
(* Each project has a route file; the Caddyfile is rendered from all of    *)
(* them and mounted into one container.  `up` saves its routes and then    *)
(* starts the container, or has it reload; `down` removes its routes,      *)
(* those of projects that show no sign of life, and the container with     *)
(* its directory if nobody is left.                                        *)
(*                                                                         *)
(* The lock is an flock on a file in that directory.  Files are known by   *)
(* their inode, since the directory may be removed while somebody has the  *)
(* lock file open or the container has the Caddyfile mounted.              *)
(***************************************************************************)
CONSTANTS
    Project,
    OnHost,     \* projects whose services are processes that raioz recorded
    Launched,   \* those whose containers carry no label of raioz
    Sharing,    \* projects that use the shared dependency
    NewCert,    \* projects for which the mounted certificate may be outdated
    Forcing,    \* projects whose `down` may be forced (--all, --prune-shared)
    Failing,    \* projects whose commands fail, are killed, whose services die
    Inode,      \* the identities of lock files (a bound)
    None

ASSUME WorkspaceProxyAssumption ==
    /\ OnHost \subseteq Project /\ Launched \subseteq Project \ OnHost
    /\ Sharing \subseteq Project
    /\ None \notin Project \cup Inode

VARIABLES
    services,   \* projects whose services run
    sharing,    \* projects for which the shared dependency runs
    routes,     \* projects with a route file
    caddyfile,  \* what is at its path
    caddy,      \* the container
    lockFile,   \* the .proxy.lock at its path
    held,       \* the project whose command holds each lock file
    cmd,        \* the command of each project
    served,     \* history: projects whose last command was a successful `up`
    cut,        \* history: those that a named hazard has cut off
    tidy        \* history: projects that left nothing for a `down` to find

proxyVars == <<services, sharing, routes, caddyfile, caddy, lockFile, held, cmd, served, cut, tidy>>

PC == {"free", "deps", "services", "start", "render", "write", "run",
       "open", "lock", "rewrite", "exec",
       "list", "judge", "probe", "stop", "clean"}

Op == {"none", "save", "remove", "prune", "reload"}

\* A Caddyfile is known by the projects it was rendered for; Docker makes a
\* directory of the source of a mount that is not there.
Caddyfile == [kind : {"none", "directory", "file"}, of : SUBSET Project]
NoFile == [kind |-> "none", of |-> {}]
Corrupt == [kind |-> "directory", of |-> {}]
Rendered(S) == [kind |-> "file", of |-> S]

Entry == {"routes", "Caddyfile", ".proxy.lock"}

Idle == [pc |-> "free", op |-> "none", up |-> FALSE, fd |-> None, of |-> None, buf |-> {},
         todo |-> {}, left |-> {}, force |-> FALSE, last |-> FALSE,
         gone |-> FALSE, seen |-> {}]

CmdState == [pc : PC, op : Op, up : BOOLEAN,
             fd : Inode \cup {None},        \* the lock file it has opened
             of : Project \cup {None},      \* whose route file it is about
             buf : SUBSET Project,          \* loadAllProjectRoutes
             todo : SUBSET Project,         \* route files it has to judge
             left : SUBSET Entry,           \* what RemoveAll has yet to remove
             force : BOOLEAN,
             last : BOOLEAN,                \* noRouteFiles
             gone : BOOLEAN,                \* history: its route file was removed
             seen : SUBSET Project]         \* history: served then and since

Container == [up : BOOLEAN, loaded : SUBSET Project,
              mounted : BOOLEAN,            \* its Caddyfile is the one at the path
              frozen : SUBSET Project]      \* what it says if not

ProxyTypeOK ==
    /\ services \subseteq Project /\ sharing \subseteq Sharing /\ routes \subseteq Project
    /\ caddyfile \in Caddyfile
    /\ caddy \in Container
    /\ lockFile \in Inode \cup {None}
    /\ held \in [Inode -> Project \cup {None}]
    /\ cmd \in [Project -> CmdState]
    /\ served \subseteq Project /\ cut \subseteq Project /\ tidy \subseteq Project

NoCaddy == [up |-> FALSE, loaded |-> {}, mounted |-> FALSE, frozen |-> {}]

ProxyInit ==
    /\ services = {} /\ sharing = {} /\ routes = {}
    /\ caddyfile = NoFile
    /\ caddy = NoCaddy
    /\ lockFile = None
    /\ held = [i \in Inode |-> None]
    /\ cmd = [p \in Project |-> Idle]
    /\ served = {} /\ cut = {} /\ tidy = Project

-----------------------------------------------------------------------------
At(p, where) == cmd[p].pc = where

Goto(p, where) == cmd' = [cmd EXCEPT ![p].pc = where]

\* Calls an operation that takes the workspace lock; what has been decided on
\* before is forgotten.
Enter(p, op) == cmd' = [cmd EXCEPT ![p].pc = "open", ![p].op = op, ![p].force = FALSE,
                                   ![p].last = FALSE, ![p].seen = {}]

End(p) == cmd' = [cmd EXCEPT ![p] = Idle]

disk == <<routes, caddyfile, lockFile>>
world == <<services, sharing>>
history == <<served, cut, tidy>>

-----------------------------------------------------------------------------
(* acquireWorkspaceLock.                                                     *)

Unused(i) == i # lockFile /\ \A p \in Project : cmd[p].fd # i

OpenLock(p) ==
    /\ At(p, "open")
    /\ \E i \in Inode :
          /\ IF lockFile = None THEN Unused(i) ELSE i = lockFile
          /\ lockFile' = i
          /\ cmd' = [cmd EXCEPT ![p].pc = "lock", ![p].fd = i]
    /\ UNCHANGED <<world, routes, caddyfile, caddy, held, history>>

\* The lock is to be had, for op.
Locks(p, op) == At(p, "lock") /\ cmd[p].op = op /\ held[cmd[p].fd] = None

\* A short operation: takes the lock, does its work and gives it back.
Done(p, where) == cmd' = [cmd EXCEPT ![p].pc = where, ![p].op = "none", ![p].fd = None, ![p].of = None]

SaveProjectRoutes(p) ==
    /\ Locks(p, "save")
    /\ routes' = routes \cup {p}
    /\ Done(p, "start")
    /\ UNCHANGED <<world, caddyfile, caddy, lockFile, held, history>>

\* startProxy logs the error and goes on.
SaveFails(p) ==
    /\ p \in Failing
    /\ Locks(p, "save")
    /\ Done(p, "start")
    /\ cut' = cut \cup {p}
    /\ UNCHANGED <<world, disk, caddy, held, served, tidy>>

RemoveProjectRoutes(p) ==
    /\ Locks(p, "remove")
    /\ routes' = routes \ {p}
    /\ cmd' = [cmd EXCEPT ![p].pc = "list", ![p].op = "none", ![p].fd = None, ![p].gone = TRUE]
    /\ UNCHANGED <<world, caddyfile, caddy, lockFile, held, history>>

RemoveRoutesFor(p) ==
    LET q == cmd[p].of
    IN  /\ Locks(p, "prune")
        /\ routes' = routes \ {q}
        /\ Done(p, "judge")
        /\ cut' = cut \cup ({q} \ cmd[p].seen)
        /\ tidy' = IF q \notin services \cup sharing /\ At(q, "free") THEN tidy \cup {q} ELSE tidy
        /\ UNCHANGED <<world, caddyfile, caddy, lockFile, held, served>>

-----------------------------------------------------------------------------
(* Reload: render under the lock, then have the container read the file.     *)

ReloadReads(p) ==
    /\ Locks(p, "reload")
    /\ held' = [held EXCEPT ![cmd[p].fd] = p]
    /\ cmd' = [cmd EXCEPT ![p].pc = "rewrite", ![p].buf = routes]
    /\ UNCHANGED <<world, disk, caddy, history>>

\* A `down` that comes to its end, its own route file gone.
Left(p) == IF cmd[p].gone THEN tidy \cup {p} ELSE tidy

Release(p) == held' = [i \in Inode |-> IF held[i] = p THEN None ELSE held[i]]

ReloadWrites(p) ==
    /\ At(p, "rewrite")
    /\ caddyfile # Corrupt
    /\ caddyfile' = Rendered(cmd[p].buf)
    /\ Goto(p, "exec")
    /\ UNCHANGED <<world, routes, lockFile, caddy, held, history>>

\* Whoever is not in what Caddy loads, because the file is not the one it was
\* told to read, or not what was written, or the lock excluded nobody.
Missed(p, config) ==
    IF ~caddy.mounted \/ caddyfile # Rendered(cmd[p].buf) \/ cmd[p].fd # lockFile
    THEN Project \ config ELSE {}

Config == IF caddy.mounted THEN caddyfile.of ELSE caddy.frozen

ReloadExec(p) ==
    /\ At(p, "exec")
    /\ caddy.up
    /\ caddy' = [caddy EXCEPT !.loaded = Config]
    /\ cut' = cut \cup Missed(p, Config)
    /\ served' = IF cmd[p].up THEN served \cup {p} ELSE served
    /\ tidy' = IF cmd[p].up THEN tidy ELSE Left(p)
    /\ Release(p)
    /\ End(p)
    /\ UNCHANGED <<world, disk>>

\* The Caddyfile cannot be written, or the container is gone: `up` fails and
\* `down` goes on.
ReloadFails(p) ==
    /\ \/ At(p, "rewrite") /\ caddyfile = Corrupt
       \/ At(p, "exec") /\ ~caddy.up
    /\ tidy' = IF cmd[p].up THEN tidy ELSE Left(p)
    /\ Release(p)
    /\ End(p)
    /\ UNCHANGED <<world, disk, caddy, served, cut>>

-----------------------------------------------------------------------------
(* raioz up.                                                                 *)

\* All the ups of a workspace take one project lock (see ProjectLock); the up
\* of a spawned sibling runs inside its parent's, before the steps below.
UpBegin(p) ==
    /\ At(p, "free")
    /\ \A q \in Project : ~cmd[q].up
    /\ cmd' = [q \in Project |-> IF q = p THEN [Idle EXCEPT !.pc = "deps", !.up = TRUE]
                                 ELSE [cmd[q] EXCEPT !.seen = @ \ {p}]]
    /\ served' = served \ {p} /\ cut' = cut \ {p} /\ tidy' = tidy \ {p}
    /\ UNCHANGED <<world, disk, caddy, held>>

UpDeps(p) ==
    /\ At(p, "deps")
    /\ sharing' = sharing \cup ({p} \cap Sharing)
    /\ Goto(p, "services")
    /\ UNCHANGED <<services, disk, caddy, held, history>>

\* startServices and saveHostPIDs, then startProxy.
UpServices(p) ==
    /\ At(p, "services")
    /\ services' = services \cup {p}
    /\ Enter(p, "save")
    /\ UNCHANGED <<sharing, disk, caddy, held, history>>

StartReloads(p) ==
    /\ At(p, "start")
    /\ caddy.up
    /\ Enter(p, "reload")
    /\ UNCHANGED <<world, disk, caddy, held, history>>

\* No container, or one to be replaced for its certificate.
StartCreates(p) ==
    /\ At(p, "start")
    /\ caddy.up => p \in NewCert
    /\ caddy' = NoCaddy
    /\ Goto(p, "render")
    /\ UNCHANGED <<world, disk, held, history>>

\* generateCaddyfile, outside the lock.
StartReads(p) ==
    /\ At(p, "render")
    /\ caddyfile # Corrupt
    /\ cmd' = [cmd EXCEPT ![p].pc = "write", ![p].buf = routes]
    /\ UNCHANGED <<world, disk, caddy, held, history>>

StartWrites(p) ==
    /\ At(p, "write")
    /\ caddyfile # Corrupt
    /\ caddyfile' = Rendered(cmd[p].buf)
    /\ Goto(p, "run")
    /\ UNCHANGED <<world, routes, lockFile, caddy, held, history>>

StartRuns(p) ==
    /\ At(p, "run")
    /\ caddyfile.kind = "file"
    /\ caddy' = [up |-> TRUE, loaded |-> caddyfile.of, mounted |-> TRUE, frozen |-> {}]
    /\ cut' = cut \cup (IF caddyfile # Rendered(cmd[p].buf) THEN Project \ caddyfile.of ELSE {})
    /\ served' = served \cup {p}
    /\ End(p)
    /\ UNCHANGED <<world, disk, held, tidy>>

\* Nobody gets the container that this `up` has removed.
GivesUp(p) ==
    cut' = IF cmd[p].pc \in {"render", "write", "run"} THEN cut \cup Project ELSE cut

\* The Caddyfile is not a file: Docker makes a directory of the source of a
\* mount that is not there.  A retry is another `up`; that the ports are taken
\* has the effect of Killed.
StartFails(p) ==
    /\ \/ At(p, "render") /\ caddyfile = Corrupt
       \/ At(p, "write") /\ caddyfile = Corrupt
       \/ At(p, "run") /\ caddyfile.kind # "file"
    /\ caddyfile' = IF At(p, "run") THEN Corrupt ELSE caddyfile
    /\ GivesUp(p)
    /\ End(p)
    /\ UNCHANGED <<world, routes, lockFile, caddy, held, served, tidy>>

-----------------------------------------------------------------------------
(* raioz down, from the end of the services on.                              *)

DownBegin(p, force) ==
    /\ At(p, "free")
    /\ force => p \in Forcing
    /\ services' = services \ {p} /\ sharing' = sharing \ {p}
    /\ cmd' = [cmd EXCEPT ![p].pc = "open", ![p].op = "remove", ![p].force = force]
    /\ served' = served \ {p} /\ cut' = cut \ {p}
    /\ UNCHANGED <<disk, caddy, held, tidy>>

RemoveFails(p) ==
    /\ p \in Failing
    /\ Locks(p, "remove")
    /\ Done(p, "list")
    /\ UNCHANGED <<world, disk, caddy, held, history>>

Labelled == services \ (OnHost \cup Launched)

\* ListProjectsWithRoutes and liveWorkspaceProjects.
ListOrphans(p) ==
    /\ At(p, "list")
    /\ cmd' = [cmd EXCEPT ![p].pc = "judge", ![p].todo = (routes \ {p}) \ Labelled,
                          ![p].seen = served]
    /\ tidy' = tidy \cup {q \in Project \ (services \cup sharing \cup routes) : At(q, "free")}
    /\ UNCHANGED <<world, disk, caddy, held, served, cut>>

\* Docker cannot be reached: nothing is pruned.
ListFails(p) ==
    /\ p \in Failing
    /\ At(p, "list")
    /\ Goto(p, "judge")
    /\ UNCHANGED <<world, disk, caddy, held, history>>

\* routeOwnerAliveOnHost and routeTargetAliveInDocker, which read the file.
JudgeAlive(p, q) ==
    /\ At(p, "judge")
    /\ q \in cmd[p].todo
    /\ q \in routes => q \in services \/ p \in Failing
    /\ cmd' = [cmd EXCEPT ![p].todo = @ \ {q}]
    /\ UNCHANGED <<world, disk, caddy, held, history>>

\* Variant: a project without a labelled container is dead.
JudgeDead_LabelsOnly(p, q) ==
    /\ At(p, "judge")
    /\ q \in cmd[p].todo
    /\ q \in routes
    /\ cmd' = [cmd EXCEPT ![p].pc = "open", ![p].op = "prune", ![p].of = q, ![p].todo = @ \ {q}]
    /\ UNCHANGED <<world, disk, caddy, held, history>>

JudgeDead(p, q) ==
    /\ At(p, "judge")
    /\ q \in cmd[p].todo
    /\ q \in routes /\ q \notin services
    /\ cmd' = [cmd EXCEPT ![p].pc = "open", ![p].op = "prune", ![p].of = q, ![p].todo = @ \ {q}]
    /\ UNCHANGED <<world, disk, caddy, held, history>>

RemainingProjects(p) ==
    /\ At(p, "judge")
    /\ cmd[p].todo = {}
    /\ cmd' = [cmd EXCEPT ![p].pc = "probe", ![p].last = (routes = {}), ![p].seen = served]
    /\ UNCHANGED <<world, disk, caddy, held, history>>

\* What workspaceSiblingAlive finds, and what it assumes if Docker fails:
\* the labels read as none, a target as alive.
SiblingAlive(p) ==
    \/ Labelled \ {p} # {}
    \/ sharing # {}
    \/ ((services \ OnHost) \cap routes) \ {p} # {}

SiblingUnknown(p) == (routes \ OnHost) \ {p} # {}

\* Variant: both halves of the gate, whether forced or not.
Decide_NeedsForce(p, alive) ==
    /\ At(p, "probe")
    /\ IF cmd[p].force /\ cmd[p].last /\ ~alive THEN Goto(p, "stop") ELSE Enter(p, "reload")
    /\ UNCHANGED <<world, disk, caddy, held, history>>

Decide(p, alive) ==
    /\ At(p, "probe")
    /\ IF (cmd[p].force \/ cmd[p].last) /\ ~alive THEN Goto(p, "stop") ELSE Enter(p, "reload")
    /\ UNCHANGED <<world, disk, caddy, held, history>>

SiblingProbe(p) ==
    \/ Decide(p, SiblingAlive(p))
    \/ p \in Failing /\ Decide(p, SiblingUnknown(p))

\* Who came after the decision, or whom a forced one overlooks.
Overlooked(p) == {q \in Project : q \in served \/ ~At(q, "free")} \cap
                 ((Project \ cmd[p].seen) \cup IF cmd[p].force THEN OnHost ELSE {})

Stop(p) ==
    /\ At(p, "stop")
    /\ caddy' = NoCaddy
    /\ cut' = cut \cup Overlooked(p)
    /\ cmd' = [cmd EXCEPT ![p].pc = "clean", ![p].left = Entry]
    /\ UNCHANGED <<world, disk, held, served, tidy>>

\* Status and Stop report no failure of Docker: the directory goes anyway.
StopFails(p) ==
    /\ p \in Failing
    /\ At(p, "stop")
    /\ cmd' = [cmd EXCEPT ![p].pc = "clean", ![p].left = Entry, ![p].gone = FALSE]
    /\ tidy' = tidy \ {p}
    /\ UNCHANGED <<world, disk, caddy, held, served, cut>>

\* cleanProxyDirOnDisk, in the order in which the directory lists them.
Clean(p, e) ==
    /\ At(p, "clean")
    /\ e \in cmd[p].left
    /\ routes' = IF e = "routes" THEN {} ELSE routes
    /\ caddyfile' = IF e = "Caddyfile" THEN NoFile ELSE caddyfile
    /\ caddy' = IF e = "Caddyfile" /\ caddy.mounted
                THEN [caddy EXCEPT !.mounted = FALSE, !.frozen = caddyfile.of] ELSE caddy
    /\ lockFile' = IF e = ".proxy.lock" THEN None ELSE lockFile
    /\ cut' = cut \cup Overlooked(p)
    /\ IF cmd[p].left = {e} THEN End(p) /\ tidy' = Left(p)
       ELSE cmd' = [cmd EXCEPT ![p].left = @ \ {e}] /\ tidy' = tidy
    /\ UNCHANGED <<world, held, served>>

-----------------------------------------------------------------------------
\* A command is killed: the kernel gives its lock back.
Killed(p) ==
    /\ p \in Failing
    /\ ~At(p, "free")
    /\ GivesUp(p)
    /\ tidy' = tidy \ {p}
    /\ Release(p)
    /\ End(p)
    /\ UNCHANGED <<world, disk, caddy, served>>

\* The services of a project end without a `down`.
Dies(p) ==
    /\ p \in Failing \cap services
    /\ At(p, "free")
    /\ services' = services \ {p}
    /\ served' = served \ {p}
    /\ UNCHANGED <<sharing, disk, caddy, held, cmd, cut, tidy>>

\* The container of the shared dependency ends.
DependencyDies(p) ==
    /\ p \in Failing \cap sharing
    /\ At(p, "free")
    /\ sharing' = {}
    /\ UNCHANGED <<services, disk, caddy, held, cmd, history>>

Up(p) ==
    \/ UpBegin(p) \/ UpDeps(p) \/ UpServices(p) \/ SaveProjectRoutes(p) \/ SaveFails(p)
    \/ StartReloads(p) \/ StartCreates(p) \/ StartReads(p) \/ StartWrites(p)
    \/ StartRuns(p) \/ StartFails(p)

Down(p) ==
    \/ \E force \in BOOLEAN : DownBegin(p, force)
    \/ RemoveProjectRoutes(p) \/ RemoveFails(p) \/ ListOrphans(p) \/ ListFails(p)
    \/ \E q \in Project : JudgeAlive(p, q) \/ JudgeDead(p, q)
    \/ RemoveRoutesFor(p) \/ RemainingProjects(p) \/ SiblingProbe(p) \/ Stop(p) \/ StopFails(p)
    \/ \E e \in Entry : Clean(p, e)

ProxyNext == \E p \in Project :
    \/ Up(p) \/ Down(p) \/ Killed(p) \/ Dies(p) \/ DependencyDies(p)
    \/ OpenLock(p) \/ ReloadReads(p) \/ ReloadWrites(p) \/ ReloadExec(p) \/ ReloadFails(p)

ProxySpec == ProxyInit /\ [][ProxyNext]_proxyVars

-----------------------------------------------------------------------------
Quiet == \A p \in Project : At(p, "free")

HasProxy(p) == p \in routes /\ caddy.up /\ p \in caddy.loaded

(***************************************************************************)
(* ADR-005, "each project's `up` and `down` only affects its own routes":  *)
(* between commands, a project whose `up` has succeeded is served by the   *)
(* proxy, unless one of these hazards has cut it off: its save failed, a   *)
(* `down` that had decided before it came up went on to prune or to stop,  *)
(* a forced `down` overlooked it, the Caddyfile or the lock changed under  *)
(* a reload, or an `up` removed the container and did not start another.   *)
(***************************************************************************)
ServedOrCut == Quiet => \A p \in served : HasProxy(p) \/ p \in cut

(***************************************************************************)
(* ADR-005, the last project out: when every project has come down, or has *)
(* died and was found by the `down` of another, nothing is left of it.     *)
(***************************************************************************)
LastOneOut == Quiet /\ tidy = Project => ~caddy.up /\ routes = {}

-----------------------------------------------------------------------------
(* The inductive invariant.                                                 *)

\* An `up` that has saved its routes, or failed to.
Past(q) == cmd[q].up /\ (cmd[q].pc \in {"start", "render", "write", "run"} \/ cmd[q].op = "reload")

Counted(q) == q \in served \/ Past(q)

\* Where a command is, and what it has in hand there.
InPlace(p) ==
    LET c == cmd[p]
    IN  /\ c.pc = "free" => c = Idle
        /\ c.pc \in {"deps", "services", "start", "render", "write", "run"} => c.up
        /\ c.pc \in {"free", "list", "judge", "probe", "stop", "clean"} => ~c.up
        /\ c.op = "save" => c.up /\ c.pc \in {"open", "lock"}
        /\ c.op \in {"remove", "prune"} => ~c.up /\ c.pc \in {"open", "lock"}
        /\ c.op = "reload" => c.pc \in {"open", "lock", "rewrite", "exec"}
        /\ c.pc \in {"open", "lock", "rewrite", "exec"} => c.op # "none"
        /\ c.pc \in {"lock", "rewrite", "exec"} => c.fd \in Inode
        /\ c.pc \in {"rewrite", "exec"} => c.op = "reload" /\ held[c.fd] = p
        /\ c.op = "prune" => c.of \in Project
        /\ c.up /\ c.pc \notin {"deps", "services"} => p \in services
        /\ c.up => p \notin tidy
        /\ ~c.up /\ c.pc # "free" => p \notin services \cup sharing
        /\ c.gone => ~c.up /\ p \notin routes

OneUp == \A p, q \in Project : cmd[p].up /\ cmd[q].up => p = q

ServedFree == \A p \in served : At(p, "free") /\ p \in services

\* No `down` has seen an `up` that is under way.
Unseen == \A p, r \in Project : cmd[p].up => p \notin cmd[r].seen

RoutesThere == \A q \in Project : Counted(q) => q \in routes \cup cut

\* Whoever lost the lock file it was waiting for has been overlooked.
LockStays == \A p \in Project :
    cmd[p].op = "save" /\ At(p, "lock") /\ cmd[p].fd # lockFile => p \in cut

\* Whoever is about to write the Caddyfile has read all the routes.
Renders(r) ==
    \/ cmd[r].pc \in {"write", "run"}
    \/ cmd[r].pc \in {"rewrite", "exec"} /\ cmd[r].fd = lockFile

Buffers == \A q, r \in Project : Counted(q) /\ Renders(r) => q \in cmd[r].buf \cup cut

\* What a `down` has decided on leaves those alone that it has seen served.
Decided(r) ==
    /\ At(r, "probe") /\ cmd[r].last => cmd[r].seen \cap served \subseteq cut
    /\ cmd[r].pc \in {"stop", "clean"} =>
          \A q \in cmd[r].seen \cap served : q \in cut \/ (cmd[r].force /\ q \in OnHost)
    /\ cmd[r].op = "prune" /\ cmd[r].of \in cmd[r].seen => cmd[r].of \notin served

Replacing(p) == cmd[p].pc \in {"render", "write", "run"}

Serving == \A q \in served :
    q \in cut \/ (caddy.up /\ q \in caddy.loaded) \/ \E p \in Project : Replacing(p)

TidyGone == tidy \cap (services \cup sharing \cup routes) = {}

\* A `down` that has removed its routes and leaves the container to others.
Passed(x) ==
    cmd[x].gone /\ ((At(x, "probe") /\ ~cmd[x].last) \/ cmd[x].op = "reload" \/ At(x, "clean"))

\* Whoever still has the container to stop, or will be found by who has.
Minds(x) ==
    \/ x \notin tidy /\ ~Passed(x)
    \/ cmd[x].op \in {"remove", "prune"}
    \/ cmd[x].pc \in {"list", "judge", "stop"}
    \/ At(x, "probe") /\ cmd[x].last

Someone == caddy.up => \E x \in Project : Minds(x)

ProxyInv ==
    /\ ProxyTypeOK
    /\ \A p \in Project : InPlace(p)
    /\ OneUp /\ ServedFree /\ Unseen
    /\ RoutesThere /\ LockStays /\ Buffers
    /\ \A r \in Project : Decided(r)
    /\ Serving
    /\ TidyGone /\ Someone

=============================================================================
