# A TLA+ model of raioz

raioz is a command-line meta-orchestrator: from the `raioz.yaml` of a project it
starts dependencies (images, compose files, sibling projects), services (containers
and host processes) and one HTTPS proxy per workspace. It has no daemon. Every
`raioz up`, `down`, `restart`, `dev` or `clean` is a short-lived process, and what
has to be right is what several such processes, and the ones that died half way, do
to the state they share: lock files, refcounts, route files, containers, host ports.

The specifications here are translated from the Go source; paths are relative to
the repository root.

## 1. Inventory

| Component | State it keeps | Operations | Interacts with |
|---|---|---|---|
| Project lock (`internal/lock`, `internal/app/lock_helpers.go`, `internal/app/upcase/lock.go`) | `<root>/.raioz.lock`, PID inside | `Acquire`, `replaceStaleLock`, `Release` | every state-writing command; bypassed by sibling children |
| Shared-dependency refcount (`internal/refcount`) | `shared-deps.json` per machine under `flock` | `AddRef`, `DropRef`, `Workspaces`, `Snapshot` | `up` adds, `down` and `down <dep>` drop, `clean` reconciles |
| Shared dependencies (`internal/app/upcase/refcount_wiring.go`, `internal/app/down_deps.go`, `down_selective.go`, `clean_refcount.go`, `internal/orchestrate/image_runner.go`) | containers of shared deps | start-or-reuse, tear down on last reference, orphan teardown | refcount, Docker |
| Workspace proxy (`internal/proxy`, `internal/app/down_proxy*.go`, `internal/app/upcase/orchestration_proxy.go`) | route files per project, `Caddyfile`, the Caddy container and its loaded config | `SaveProjectRoutes`, `RemoveProjectRoutes`, `RemoveRoutesFor`, `Reload`, `Start`, `Stop`, shared down, orphan GC | workspace `flock`; siblings' containers |
| Port allocation (`internal/app/upcase/port_alloc*.go`, `ports_lock.go`; `app/active_ports.go`, `down_others.go`) | `taken` map of one run, machine-wide ports `flock` | five passes over explicit and implicit services and deps; the commands that stop other projects | Docker publishes, host sockets |
| Sibling projects (`internal/app/upcase/sibling_*.go`) | `RAIOZ_SIBLING_STACK`, verdict per dep | mode A spawn, mode B defer, re-probe, cycle check | project lock bypass, recursive `up` |
| `up` flow (`internal/app/upcase`) | local state, workspace state, host PIDs | lock, conflict check, start deps, health, services, proxy, save | all of the above |
| `down` flow (`internal/app/down*.go`) | same | stop services, kill host PIDs, sweep, deps, proxy, state removal | all of the above |
| Host services (`internal/orchestrate/host_runner*.go`, `internal/host`) | `processes` and `launchers` maps, host PIDs in local state | start in background, launcher wait, stop, process tree kill | local state, `down`, `restart` |
| Start order (`internal/app/upcase/orchestration_order.go`, `internal/docker/dependencies.go`) | none | cycle check, Kahn's algorithm | `up`, validation |
| Retry (`internal/resilience`) | none between calls | attempts with backoff, cancellation | clones |
| File watcher (`internal/watch`) | debounce timers per service | event, debounce, restart callback | dispatcher |
| State (`internal/state`, `internal/root`, `internal/workspace`) | local state, global `state.json`, workspace directory with `raioz.root.json` | load, save, add and remove a project, tidy | every command |
| `dev` overrides (`internal/app/dev.go`) | overrides in local state | promote, revert, list | dispatcher, project lock |
| Meta runner (`internal/app/meta*.go`) | completed projects, router hand-off | serial sub-ups and sub-downs | `up`, `down` |
| Audit log (`internal/audit`) | append-only file with rotation | log, rotate | every command |
| Configuration and validation (`internal/config`, `internal/validate`, `upcase/filters.go`, `dependency_assist.go`) | none at run time; the checkout's own definitions may change the plan | load, bridge, filter, assist, validate, `raioz check` | decides what every `up` does |
| Detection (`internal/detect`, `app/init_scan.go`) | none | a scan to a file (`init`) or to a plan (`:auto:`) | configuration, ports |
| Environment files (`internal/env`) | `.env` of each git service | template, merge, write | services, developers who edit it |
| Working copies (`internal/git`, `upcase/git.go`) | the checkout of each git service | clone once, `--force-reclone` | `up`, developers who work in it |
| Snapshots and volumes (`internal/snapshot`, `app/volumes.go`, `app/snapshotcase`) | archives under the home directory, Docker volumes | create, restore, delete, remove, clean | containers of every project |
| Docker adapter (`internal/docker`) | none; queries the daemon | labels, networks, volumes, `IsProjectActive` | external engine |
| Tunnel, tui, cli, i18n, output, logging | mostly none | I/O around the core | - |

How they interact. No component calls another over a wire: a command is one process
that calls the components in turn, and two commands meet only in files (lock file,
`shared-deps.json`, `.raioz.state.json`, route files), in the Docker daemon
(containers, networks, published ports), in the process table of the host, and, for
spawned siblings, in the environment a parent gives its child. Every hard behaviour
below comes from that: a command decides from what it has read and acts later, while
other commands run, fail or are killed.

### Which behaviours are hard, and what makes each part correct

| Part | What is hard | What makes it correct |
|---|---|---|
| Project lock | create and write are two system calls; eviction removes by path; a PID may be reused; the age cap evicts live owners; `Release` runs twice and does not look whose file it removes | one owner at a time unless a live owner was evicted; no file left but by a crash; a dead owner never blocks the others for ever |
| Refcount file | threads of a process and other processes, kills between load and save, failing saves | each call is atomic; nobody's reference is lost; waiters are served |
| Shared dependencies | reference written long after the start, teardown after the lock is gone, a whole `down` without lock, `clean` probing first and dropping later | a referenced dependency runs; nothing runs for nobody; both but for named causes |
| Siblings | recursion through processes, lock bypass, timeouts that kill a child and leave those below it, which go on until they notice | no cycle, one `up` per project among the runs that work for a user, every `up` ends, and so does what has outlived one |
| Host services | load, act, save on one file by commands that hold different locks or none; the state file is the only way to find a process | a live process is recorded or in somebody's hands; a promotion survives until it is reverted |
| Workspace proxy | check-then-stop by the last project out, a lock file in a directory that is removed, orphan collection by probing | a project that is up keeps its routes; the proxy runs while somebody needs it |
| Port allocation | ports are chosen under a lock and bound outside it; a running service occupies the port it should keep; passes that do not see each other's choices | no two items of a run share a port; what answers is where everybody was told; a restart stays in place |
| Watcher | timer and callback race, restarts of one service overlap, a restart races the interrupt or another terminal | no change is lost, no process is left that nobody knows, Ctrl+C ends and leaves nothing |
| Meta runner | sub-processes that fail, hang or are cut; a list that replaces probes; clones that fall back | success means up; the list says the truth; the router goes last; a run ends |
| Configuration | a dozen passes that rebuild the plan; two commands that must refuse alike; answers taken after the checks | the plan is the file; `check` agrees with `up`; every service once, after what it depends on |
| Detection | names and ports inferred from files written for other tools | what a scan finds comes up |
| Environment files | read, merged and written back on every `up` by two formats' rules | nothing of the developer's is lost or changed |
| State of a workspace | read-modify-write without locks; `down` and `clean` take none; a directory removed because it seems empty | one `up` at a time; registry, root file and network agree with what runs |
| Working copies | deletion before cloning; adoption of what is there | uncommitted work goes only to the stash and back, or by `--force-reclone` |
| Snapshots and volumes | live engines, names guessed, several volumes, kills | a snapshot is one moment, of the right volumes, and stays; a restore is the snapshot; engines come back |

The file `PROJECT.json` lists these hazards at their lines, with the properties
that cover it.

## 2. Plan

Order: first the state that other components trust (locks, counters), then the
protocols over it, then the decisions of one command, then the data.

| # | Module | Models | Uses | Proofs |
|---|---|---|---|---|
| 1 | `ProjectLock` | `.raioz.lock` by system call | - | `LockProofs` |
| 2 | `Refcount` | atomic reference counters, the abstract specification | - | - |
| 3 | `RefcountFile` | mutex, file lock, load, save; implements `Refcount` | `Refcount` | `LockProofs` |
| 4 | `SharedDeps` | containers and references under up, down and clean | `Refcount`'s calls as steps | `SharedDepsAndConfigProofs` |
| 5 | `SiblingSpawn` | recursive and deferred siblings | `ProjectLock` as one step | `SiblingSpawnProofs` |
| 6 | `HostServices` | host processes, `HostPIDs`, `DevOverrides` | `ProjectLock` as one step | `HostServicesAndPortsProofs` |
| 7 | `WorkspaceProxy` | route files, Caddyfile, lock file, container, last one out | `ProjectLock` as one step | `ProxyAndWatcherProofs` |
| 8 | `PortAlloc` | ports from choice to use | the ports lock as one step | `HostServicesAndPortsProofs` |
| 9 | `Watcher` | timers, restarts, the interrupt | takes up where the watch of `HostServices` stops | `ProxyAndWatcherProofs` |
| 10 | `MetaRun` | runs over the projects of a meta file | one project's `up` as one step | `MetaRunProofs` |
| 11 | `ConfigPipeline` | file to plan to start order; `check` against `up` | `Detection`, `ServiceEnv` | `SharedDepsAndConfigProofs` |
| 12 | `UpRun` | workspace directory, registry, network, checkouts | `ProjectLock` and orchestration as steps | `UpRunProofs` |
| 13 | `Volumes` | volumes, snapshots, engines | - | `VolumesProofs` |

Left of the plan: a module over `SharedDeps` and `SiblingSpawn` together (a deferral
that replaces a container which still runs), the proxy of a single project, container
and compose services.

Four of the proof modules are about two specifications each, which have no variable in
common. Where both would bring a name into such a module, one of the two has it with a
prefix: `ProjectLock` (`LockSpec`, `LockNext`, `lockVars`), `WorkspaceProxy` (`ProxySpec`),
`PortAlloc` (`PortsSpec`) and `ConfigPipeline` (`ConfigSpec`).

There is one passing run per module that has behaviour, with at most four projects
and three processes.

## 3. The modules

### ProjectLock

`internal/lock/lock.go`, `internal/app/lock_helpers.go`, `upcase/usecase.go:294`. One
action per system call of `Acquire`, `replaceStaleLock` and `Release`: open with
`O_CREATE|O_EXCL`, read the PID, probe the process, stat the age, remove, re-open,
write the PID, remove. `lockFile` is what is at the path, known by its creator; `at`
and `seen` are the local state of each command; `armed` is `Lock.path`, which
`Release` clears, so that the second `Release` of `up --watch` does nothing. The
environment crashes commands, hands the PID of a dead one to an unrelated program,
makes a write fail, and lets the file pass the age cap. `liveEvicted` is a history
variable: it becomes true when `replaceStaleLock` removes the file of a live owner.

### Refcount and RefcountFile

`internal/refcount/refcount.go`, `internal/fsutil`. `Refcount` has the calls a
reader of the API would write down: add, drop with the answer "who is left", read.
`RefcountFile` has the steps of the code: process mutex, `flock`, load, change and
save (a rename), unlock, return; each may fail with an error, and a process may be
killed anywhere, which gives back the `flock` but completes nothing. A last
reference removes the entry, and an empty file is removed. `Asks` says which calls
each client may make. The refinement mapping takes a call as done when its save is done.

### SharedDeps

`upcase/orchestration*.go`, `upcase/refcount_wiring.go`, `app/down_deps.go`,
`down_selective.go`, `clean_refcount.go`, `orchestrate/image_runner.go`. `up` starts
or reuses its dependencies, waits for health, registers, starts services. `down`
drops its references one by one and removes what it was told nobody uses. `clean`
reads the references, probes each project, drops those it takes for dead and
removes the orphans. `raced` and `stray` are history variables that name the two
ways out of the contract: a reference registered while a teardown is due or kept by a
failing `DropRef`, and a dependency left by a command that failed, or by a `clean`
that dropped the last reference of a dependency it had seen in use.

### SiblingSpawn

`upcase/sibling_*.go`, `upcase/lock.go`, `host_lifecycle.go:147`. A run is a `raioz up`
process; `Root` runs are a user's, `Child` runs are spawned. A run takes its lock
unless spawned, decides on each sibling (mode A: active, or spawn; mode B: active,
so defer, or a container of its own), re-probes the deferred ones, applies the
verdicts, waits for children one at a time, serves and ends. `above` is the set of
processes above a run that are still there, `stack` is `RAIOZ_SIBLING_STACK`, which has the
projects of all that were. A timeout, or a cancelled context, kills the child and nothing else; `Below` is
what the end of a process leaves of those below it. They lose it and the processes above it, and run on:
the `SIGTERM` that `AttachPdeathsig` asked for is caught (`signal.NotifyContext` in
`cli/root.go`) and only cancels a context. An orphan goes on with any of its steps, brings
services up, spawns, until one of them notices (`Notice`), while the run at the root has
returned and its lock is free. `Kill` is a user who kills the run they started, `Hang` a
spawned run that gets no further by itself. On other systems than Linux nothing tells an orphan, so
`OrphansEnd` is a statement about Linux.

### HostServices

`upcase/host_lifecycle.go`, `orchestration_services.go`, `usecase.go`,
`app/restart*.go`, `dev.go`, `down_orchestrated.go`, `down_selective.go`,
`down_tidy.go`, `orchestrate/host_runner.go`, `internal/host`, `internal/state`.
`proc` says which process each PID is, `image` which dependencies run as
containers, `file` is `.raioz.state.json`. Each command keeps what it loaded (`buf`), what
it started (`mine`) and the file as it last saw it (`base`, history). `up` probes the
recorded PIDs, later adopts those that run, starts the rest, persists, and under
`--watch` goes on without the lock: change events stop and start a service and
record its PID. `restart`, `dev`, `dev --reset` and a selective `down` load, act, and save.
A whole `down` runs the stop commands, kills what is recorded of the services that
have none, clears, tears down, clears again, and tidies. `lost` is a history variable of the
processes that a *named* hazard has lost: raioz killed between start and save, a
save over a newer file, a PID overwritten or cleared while its process runs.

Statements about this module that a reader should know:

- A new process gets a PID that no running command has in memory (`Fresh`): reuse
  within the seconds of one command is left out, reuse of a PID in the file is in.
- A save of `dev`, which only prints a warning when it fails, always succeeds.
- A watch handles one restart at a time, and an interrupt comes between two restarts.
  The debouncer can do otherwise: that is the subject of `Watcher`.
- A promoted dependency runs on the host (not as a compose project).
- The lock is `ProjectLock` in one step, without eviction.

### WorkspaceProxy

`internal/proxy`, `app/down_proxy*.go`, `upcase/orchestration_proxy.go`, for the projects
of a workspace. `routes` is the set of route files, `caddyfile` what is at its path,
known by the projects it was rendered for, `caddy` the container with the configuration it has
loaded, `lockFile` the `.proxy.lock` at its path and `held` who holds each lock file
that is still open somewhere. `up` starts its services, saves its routes under the lock, and
either has the container reload (render and `exec` under the lock) or renders without the
lock and runs it. `down` removes its routes, lists the files and the containers, judges
the owner of each file, removes those of the dead one by one, counts, probes, and
either reloads or stops the container and removes the directory entry by entry, the
lock file and the mounted Caddyfile with it. A container whose Caddyfile was removed
goes on with the file that it has mounted. Projects differ in the signs of life that
their services leave: labelled containers, unlabelled ones that a route names
(`Launched`), recorded PIDs (`OnHost`).

Three history variables: `served`, the projects whose last command was a successful
`up`; `tidy`, those of which a `down` has left, or found, nothing, and which no command
that was killed has touched since; `cut`, those that a
*named* hazard has cut off:

- `SaveProjectRoutes` fails, which `startProxy` only logs;
- a `down` removes a route file, stops or cleans for a project that came up after it
  had listed or counted, or, when forced, for one on the host;
- Caddy reads another file than the one rendered for it: the mount is stale, somebody else
  has written in between (`Start` renders without the lock), or the lock is on a file that
  is gone;
- an `up` removes the container for its certificate and does not come to run another.

Each of them is needed: without any one TLC finds `ServedOrCut` violated. Further:

- One command at a time per project, and one `up` per workspace, which the project lock
  gives (`down` takes none). The `up` of a spawned sibling is over when its parent
  comes to its proxy.
- All services of a project start, end and die together; so do its labels.
- The shared dependency may die by itself; otherwise it runs while a project that uses it is up.
- An `up` whose proxy fails ends with an error; the prompt to go on without is left out.
- A `down --all` is the last of the `down`s that it runs, one after the other.

### PortAlloc

`upcase/port_alloc*.go`, `ports_lock.go`, `internal/validate` (port binds),
`orchestration_proxy.go`, `env/service_env.go`. A project is a sequence of items:
host services, container services, dependencies with one published port, `auto`
dependencies, legacy ones. `up` of a project waits for the ports lock (or goes on without
it where the directory of the lock cannot be created), runs the five passes of the
allocator with the `taken` map, probes each chosen port against who is bound (`occ`),
resolves each conflict by another port, one the user types or an abort, and releases
the lock; only then are the items started one by one. Containers bind at once, a host
service binds when it is ready. `restart` chooses again for one service without the lock. `why`
is a history variable of what happened to an item around the choice of its port: it ran
but the allocator could not see it, it was pinned or answered for after the others had
chosen, it was absent when the pin was read. An
unrelated program may bind the `Contested` ports.

The allocator is two recursive functions: `Given` goes over the items, each after those of the
passes before its own and those before it in its pass (`Earlier`), and `Served` over the
ports of one item. `taken` is what those before it have got. `PlansAssumption` says what a
configuration is, with any number of items: names are unique, fields have the types of the file, ports are
ports, and no service has the name of a dependency of the workspace (`Key` tells the two apart by
their names only).

`down --conflicting`, `down --all-projects` (also the first half of `up --exclusive`) and
`down --all` stop other projects: those that stand on a port which this one would get of an empty
machine, all of them, or all with a container in the workspace. `known` is the list of
active projects in the global state. A project that is on it is taken down by its own `down`, if
there is a `raioz.yaml` in its directory; of any other (`Elsewhere`) the containers with its label are removed.
The list is drawn up, approved and worked off in one step, while the projects on it rest; what a `down` in
the middle of an `up` may do is in `UpRun`.
`ConflictsGone` asks in every state what the command would leave.

### Watcher

`internal/watch`, `upcase/watch_setup.go`, `host_lifecycle.go`,
`app/restart*.go`. A change is a directory with a modified file; the event
loop resolves it to the service whose path is its longest prefix, sets or replaces that
service's timer, and a timer that fires starts a *job* in a goroutine. A job is cut
at each point where another can come in between: take the PID, stop, spawn, settle,
record, write the file. `Teardown` is what Ctrl+C does: stop the services with the
watcher still running, then close it. `why` holds the services with overlapping restarts,
those another terminal touched, and those the interrupt cut; `told` the version whose restart was
reported to have failed.

### MetaRun

`app/meta*.go`, `config/yaml_meta.go`, `upcase/meta_completed.go`, `internal/resilience`. One
action per step of the runner: load and order the entries, clone those that are missing (three
attempts, a deadline each, a fallback to a remote), write the routes of remotes, hand over to
the router, then per entry one raioz process that succeeds, fails, hangs or is cut, and the
list in `RAIOZ_META_COMPLETED_PROJECTS`. The mode belongs to the entry, not to the
project: a path may be there twice, and then `startOrder` and `--force-remote` mean
its last entry, as the Go maps they go through do. A sub-`up` with siblings takes the list's word and
probes the others. With `--router-off` the router has no turn and its entry, if it has one, is a
consumer like any other (`skipPath`). `down` goes backwards, the router last; `status` goes through the
router first and on when that fails, and changes nothing. `lacking` is the history of projects that started on the word of
the list with a sibling down, `gone` of those that went down since the run began.

### ConfigPipeline, Detection and ServiceEnv

`internal/config`, `internal/validate`, `upcase/filters.go`, `dependency_assist.go`,
`orchestration_order.go`, `docker/dependencies.go`, `app/yaml_check.go`,
`internal/detect`, `app/init_scan.go`, `internal/env`. A run goes through the phases of
`Execute` in their order; each is an operator from `models.Deps` to `models.Deps` and
a refusal. `Detection` has what makes a tree a configuration, for `init` and for the
configuration-less `up`; `ServiceEnv` what happens to the `.env` of a service at every
`up`, of which a run has several, with edits of the developer between them. The
state is small and the inputs are many: TLC takes every configuration of `MCInputs`
through the phases, so the run is a check of algorithms over bounded inputs against
reference definitions (the least closed set, the file itself). `Inputs` is a constant of which
`InputsAssumption` says only that it holds what a user can write or have on disk, so the proofs are about
every file and tree. `EnvVar` and `Writers` are there to give the contents of a `.env` a type (`IsEnvFile`).

### UpRun

`upcase/usecase.go`, `git.go`, `docker.go`, `state.go`, `lock.go`, `hooks.go`,
`app/down*.go`, `app/clean*.go`, `internal/root`, `internal/state`, `internal/git`,
`docker/network*.go`. A process is a program counter through `up`, `down` or `clean`,
with what it has read of the registry (`seen`, `todo`). Shared between them: the
lock file, `raioz.root.json`, the network with the label of its creator, `state.json`
and the checkouts. The lock is `ProjectLock` in one step, orchestration one step that
succeeds or leaves part of the containers. `down` takes no lock and removes the workspace
directory in two steps, look and remove. The stop before a forced reclone may stop nothing
and the run goes on. A pull puts uncommitted work into the `stash` and pops it, or fails to, so that
work is followed through both places. A kill takes effect in the middle of a step:
half of the containers, a torn root file, half a clone. `why` names what excuses a
property: a lock that was lost to a `down`, an entry of the registry that was overwritten
or cut, a root file or network left by a failure.

### Volumes

`internal/snapshot`, `app/volumes.go`, `app/snapshotcase`, `docker/volumes*.go`,
`docker/clean.go`. `snapshot create`, `restore` and `delete`, `volumes remove`,
`clean --volumes`, and the containers of the dependencies which start, write and stop around
them. The name of a volume is asked of the running container, and
otherwise guessed from the names of its time. `create` and `restore` quiesce: list
the containers that use a volume, stop them, copy, start them again, each step a step
and each able to fail or to be killed. The `WriteFile` of `snapshot.json` is cut
short by an error or a kill, and what it leaves (`torn`) takes the name, since nothing
cleans it up. `last` (which volume a container mounted last), `saved` (what the last
successful `create` archived) and `emptied` (what a restore wiped and nobody has filled) are
history. So is `why`, with two causes that excuse a loss: `overlap`, commands other than
restores that met on the name, which ends with the next `create` that meets nobody
(`NewAccount`), and the store whose `delete` was killed half way. A killed `restore` or
`create` is no excuse: the volume it left empty must have its archive on disk.

## 4. The runs

| Run | Question | Bounds |
|---|---|---|
| `project_lock` | What does the lock still guarantee, and does it recover? | three PIDs, one fallible: a crash, an eviction and a third command that profits from either |
| `refcount_file` | Is each call atomic, and does each one end? | two goroutines of one process (add and drop `a`; add `a` and read) and one of another (add and drop `b`, drop `a`), one dependency: a thread race, a process race, a last and a not-last reference. 18,650 states |
| `shared_deps` | Do references keep a dependency, and do leaks have a cause? | two projects, one without a container (so that `clean` takes it for dead), one spawned (no lock), one `clean`, failures of one project and of `clean` |
| `sibling_workspace` | Is there one run per project among those that work for users, and none below a run of the same project? Does every `up` end, and every run that has outlived a process above it? | three projects (`a` and `b` need each other, `c` needs `a` and may use `b`), one lock file, two users, who start `c` and `a`; two children, so that one is below the other, or one is an orphan and the other works for a user; one project that hangs, one that fails, one that is taken down. 58,348 states |
| `host_services` | Does every unrecorded process, and every lost promotion, have one of the named causes? | two services (one with a stop command, one that may exit), one dependency, two PIDs, one terminal that may be killed and brings things up, another that takes them down |
| `workspace_proxy` | Does a project that is up keep its proxy, and does the last one out leave nothing, but for the named causes? | two projects: one with labelled containers, whose `down` may be forced; one on the host, with the shared dependency, a new certificate, and commands that fail or are killed. Three lock files: one for each command, one at the path |
| `port_alloc` | Are the ports of two projects apart, does what was told answer, does a restart stay in place, does `down --conflicting` free what is wanted? | sixteen pairs of plans with every kind of item, ports 1 to 6, one of them contested by another program, one port the user may type, one edit of a `port:`, one project without the directory of the lock, whose file is not called raioz.yaml. 374,045 states |
| `watcher` | Is no change lost, and is nothing left behind but by a named cause? | two services, one nested in the other's directory and native; two changes, one command of another terminal, Ctrl+C at any moment |
| `meta_run` | Does success mean up, is the list true, does the edge go last, does a run end? | four projects (router, `api`, `web` on `api`, `bff` on `web`, with names and directories that cross), seven meta files of which two are refused and one has a path twice, five states of the disk, six sets of options, two commands in a row, one project that goes down by itself |
| `config` | Is the plan the file, the order a start order, `check` as strict as `up`, a scan fit to come up, the `.env` a merge? | 3,585 inputs, made so that every refusal and every filter is met alone and with the others, and so that a second `up` follows a first; 234,066 states |
| `up_run` | One `up` at a time, registry, root file and network in agreement with what runs, no work lost? | two processes, a project with containers and a service cloned from git, and one on the host, three starts (so that one follows two that met), two faults (one to do damage, one to hit its repair), one edit. 990,087 states |
| `volumes` | Is a snapshot one moment, whole and kept; is a restore the snapshot; is what is wiped saved; do engines come back? | two commands on one project, a second project, two dependencies, one write (two contents), four events of the containers, four histories: new, of an older version, two dependencies with one entry, in a workspace |

All runs pass. A property of the form "unless a named cause" says what is left of a promise that
the code does not keep in full; section 7 lists the causes. Every property of a passing run is also refuted by at least one mutation of the code's definitions, listed in
`PROJECT.json` under `mutants`.

Why the bounds are enough. The hazards are pairwise: one command reads, another
changes, the first acts. Two actors show each; a third is there where one must
profit from the damage of two others (the lock) or where threads and processes
differ (the refcounts). Data is compared for equality only, so a project or a
service is a model value or a name; one dependency suffices for `SharedDeps` since no code
relates two of them except in loops, whose order the models leave open. For the
modules with proofs (section 6) the theorems remove the bounds.
In `host_services` all commands share one lock file, which is the case without a
workspace. An `up` there is for both services (`Asked`); an `up` for one leaves the PID of the
other in place, which the map's lines show and the bound hides: the state space
with both sets is too large for a run. Symmetry is used in four runs without fairness
(`host_services`, `workspace_proxy`, `up_run`, `volumes`), on sets whose members the
configuration treats alike (PIDs, lock files, processes, commands). In
`workspace_proxy` no project is `Launched`: with the
first one so, the same properties hold on about as many states, and a third project is out of
the time of a run.

The budgets (`MaxChanges`, `MaxOutside`, `MaxCommands`, `MaxGone`, `MaxEdits`, `MaxStarts`,
`MaxFaults`, `MaxWrites`, `MaxCmds`, `MaxEvents`) bound what users and the world do, never
what the code does. Where they run out, or where an input has been
followed to its end, everything rests: that is why `port_alloc`,
`watcher`, `meta_run`, `config`, `up_run` and `volumes` do not check deadlock. In the others
users may always start another command, and deadlock is checked.

Every module has a type invariant, which is proved (section 6).

## 5. Fairness

- `ProjectLock`: a running command takes its next step and ends; a user whose command was
  refused tries again; time passes. Nothing of crashes, nor of the program that got
  the PID of a dead command: it may run for ever, and the age cap has to deal with it.
- `RefcountFile`: weak fairness of each step of a call except errors; strong fairness of
  getting a mutex or a file lock, since others take and release it for ever. Go's mutex hands over
  to a waiter that has starved for a millisecond, and `flock` waits in a queue.
- `SiblingSpawn` (`FairSpec`): weak fairness of a run's next step, which for an orphan includes to notice
  its cancelled context, and of the deadline of a wait, which is a timer of `exec.CommandContext`.
  Failures, kills and hanging are not fair: a run may hang for ever, and `UpEnds` rests on the timer then.
- `Watcher`: weak fairness of the event loop, of the teardown, and of each restart
  under way: goroutines of one process, none of which waits for another. A process
  that is told to stop does stop, since `SIGKILL` follows `SIGTERM`. Changes, exits and Ctrl+C
  are not fair.
- `MetaRun`: weak fairness of the runner and of the deadline of a sub-process. The
  sub-process itself is not fair: it may hang, and `RunEnds` rests on
  the timer of `exec.CommandContext` alone.
- The other modules state no liveness: their commands are straight lines that end when
  the calls of Docker and git do.

## 6. What is proved

All theorems hold for every value of the constants that the named assumption of the
module admits, with any number of commands, projects, dependencies.

| Theorem | Says | Argument |
|---|---|---|
| `LockProofs!LockExclusion`, `LitterFree`, `LockTypeCorrect` | two owners only after the eviction of a live one; a leftover file is a crashed command's | `ExclusionUnlessLiveEvicted` is not inductive: it needs `OwnersFile` (until an eviction the file at the path is that of every owner) and `ArmedWhileHeld` (only who is in the critical section removes). `CreateKeeps` and `WriteKeeps` treat the two steps that make an owner |
| `LockProofs!Exclusion`, `NoLostUpdate`, `TypeCorrect` | one caller at a time between load and save; what is saved is based on the file as it is | `MutexHeld` and `FlockHeld` say who holds what where; the file lock is per process, so both are needed. `CallOpen` ties the call to its position |
| `LockProofs!NoneEmpty` | no entry without a project, no file without an entry | what is read has the property, and each change of the buffer keeps it or leaves nothing, which removes the file |
| `LockProofs!Refinement` | `Spec => Abs!Spec` | `InitMaps` and `StepMaps`: a save maps to the call's atomic step, an end to its return, all else to a stutter; `FreshBuffer` gives that the save is the abstract change |
| `SharedDepsAndConfigProofs!ReferenceHolds`, `TypeCorrect` | a referenced dependency runs, but for `raced` | `NoTeardownDue`: of such a dependency no teardown is due, and what a `clean` knows of its references is all there is |
| `SharedDepsAndConfigProofs!LeaksExplained` | between commands nothing runs for nobody, but for `stray` | `LeakInv`, by kind of command: an `up` that has started a dependency is on its way to register it or to be blamed, a `down` that was told it has the last reference is on its way to tear down |
| `SiblingSpawnProofs!OneUp`, `TypeCorrect` | no project is brought up twice at once by a run and one below it, nor by runs that work for users with one lock file | `AboveWait`: the processes above a run that are there are a chain that waits, each for the next, and the stack has their projects; `VerdictsRight`: a spawn was decided for a project that is not on the stack. Both have to survive a process that ends in the middle of a chain (`Below`): what is left of `above` is again such a chain. `LockHeld`: whom a user started holds its lock from `acquireLock` to its end, so of two such users only one is past it; `OneChain`: those who work for one user are a chain. Of orphans, which work for nobody (`RootOf`), it says no more than that nobody above them is in their project, and nothing of users with different lock files (section 7) |
| `UpRunProofs!OneAtATime` | no two `up`s of a workspace are past their lock at once, until a `down` has removed the directory with the lock in it | `LockHeld`: whoever is past the lock is the one whose file is at the path. The lemma `Moves` is a table of the program counter: where each action takes its own process, with every other one left where it was (`OthersStay`); `LockMoves` needs only the table |
| `UpRunProofs!WorkSafe` | uncommitted work leaves the working tree for the stash and the stash for the working tree, and goes from both only by an `up` with `--force-reclone` for that project, which deletes under a service only if its own stop has left it running | `CheckoutSafe`: whoever is about to delete was asked to and has tried to stop the service, and whoever is cloning has a clone that is cut; it holds only while one `up` at a time clones, so it is one of two parts of the invariant that hold until the lock is lost (`why.lock`). `StashInRepo`, which always holds: a checkout that is gone or half cloned has no stash. `TreeMoves` and `TreeTurns` list the seven steps that touch either |
| `UpRunProofs!RegistryHolds`, `WorkspaceHolds` | between commands `state.json` lists the projects that run, and `raioz.root.json` and the network are there for them and for nobody, but for the causes in `why` | `SharedInv`: what is wrong meanwhile is *owed* by a command that is on its way to set it right (`Entering`, `Leaving`, `Tearing`), and at rest nobody owes anything. It took a cause that the model had not named: see `--force-reclone` in section 7 |
| `UpRunProofs!TypeCorrect` | types | per group of actions: `UpTypes`, `DownTypes`, `CleanTypes`, `KillTypes` |
| `ProxyAndWatcherProofs!NobodysHolds`, `NothingLeftHolds`, `TypeCorrect` | no process of a service slips out of the hands of raioz, nor is left when the session is over, but for the causes in `why` | per service (`Orderly`): as long as its restarts have not overlapped, at most one job restarts it, and its process is the one the runner has, the one that job has or none. The jobs are a sequence that only grows; a lemma per cut point of a restart says what it does to them. Of its assumption, `IsFiniteSet(Service)` serves to have a fresh PID |
| `MetaRunProofs!SuccessHolds` | an `up` of the workspace that reports success has brought up, or routed, everything asked for, the router's entry included when `--router-off` makes it an ordinary one | `UpSoFar`: every wanted entry is settled or still to come in `run.left`. What the loop passes over is excused by `ModesTrue` (only optional entries are skipped, a remote one has its route once the bootstrap is past it), what it has run by `ListTrue` |
| `MetaRunProofs!HintsHold` | the list is right but for namesakes and for what went down since | `ListTrue`: each name on it is that of a project on `run.ok`, which is up or has gone down during the run (`ServedStays`) |
| `MetaRunProofs!EdgeHolds` | the router is the last to go down | an action property, from `DownSoFar`: when the loop is over each project is down or has failed. It needs `OnDisk` (what runs is on disk), since `down` passes over what is not |
| `MetaRunProofs!TypeCorrect` | types | with `Places`, which says where runner and process are when |
| `VolumesProofs!MomentHolds` | a snapshot is one moment of all its volumes | `BInv`: as long as no two commands have been on one snapshot at once (`Exclusive`), what is in the directory of a running `create` is what that command wrote (`ArchTrue`). What it wrote is what the volumes held when the last container on them had stopped because nobody writes to a volume that is quiesced (`CopyTrue`, `Quiet`, in `AInv`) |
| `VolumesProofs!SavedHolds`, `WipedHolds` | what was reported saved stays; what was wiped is in an archive | also `BInv`. While no two commands have met (`Alike`), a complete snapshot has every archive it lists (`MetaTrue`) and so has what a `restore` is reading (`ReadTrue`), but for what a killed `delete` has left of that very store; whoever removes or tears a directory (`RemoveAll`, a failed or killed write) is a `create` with nothing saved there yet or a `delete` that has given up what was (`NothingToKeep`, `LosesNothing`). Of the legacy store, which no `create` touches, `MetaTrue` needs no condition, so that a new account after an overlap starts from what it archives |
| `VolumesProofs!RestoreHolds`, `TypeCorrect` | a `restore` leaves what the archive holds | `AInv`: shapes (`Base`), and of each command that nobody disturbed (`calm`) what it has stopped, copied and filled so far |
| `VolumesProofs!EnginesHold` | what a snapshot command stopped it starts again | `EnginesBack` says of each container that stands still that a command `Awaits` it; every exit of `create` and `restore` goes through the step that starts them (`defer resume`) |
| `VolumesProofs!WholeHolds` | a `create` copies the volumes last used | an action property. `LastTrue` ties the volume a dependency used last to the names by which the command looks for it |
| `HostServicesAndPortsProofs!OrphansHaveCause`, `TypeCorrect` | a process that lives is on record or in the hands of a command, but for those in `lost` | `Known`, which gives a watch no credit for what is on record as well (`Held`, `Watching`). A save is harmless because what a command has loaded of the living it still has in its buffer (`Tracked`), a clearing because a whole `down` has killed what it knew (`Cleared`), a start because whoever starts has nothing of that name in hand (`InHand`). The lemma `Change` reduces an action to what it does to one command, the file and the processes; `DiesFollows`, `StartsFollows`, `SaveFollows` and `MergeFollows` do the four kinds of change |
| `HostServicesAndPortsProofs!OverridesAreKept` | a promotion goes off the record only by its own reset, or by a save whose load is no longer the file, or of a file that no `up` has completed | an action property from the same invariant: `Tracked` for the saves (`SaveDrops`) |
| `ProxyAndWatcherProofs!UpIsServed`, `ProxyTypeCorrect` | a project whose `up` succeeded is in what a running Caddy has loaded, unless it is in `cut` or another `up` is replacing the container | `RoutesThere`, `Buffers` and `Serving` follow its route from the file over what was rendered to what is loaded; `LockStays` says that the lock file on which a command waits is the one at the path; `Decided` and `Unseen` say of a `down` that is about to stop Caddy that whoever is served among the projects it has listed is in `cut`, or is on the host and the `down` forced, and that it has listed no `up` under way |
| `ProxyAndWatcherProofs!LastTakesAll` | when all have left by a `down` that did what it had to, no container is left running | `TidyGone` (a tidy project has no routes and no services) and `Someone`: as long as the container is there a project `Minds` it: one that has yet to come down, or whose `down` is on its way to stop it and has not left it to others (`Passed`). `KeptByMoves` and `KeptByOwnStep` carry over, action by action, the parts that the action does not touch |
| `HostServicesAndPortsProofs!PortsStayApart`, `PortsTypeCorrect` | two items of a run share a host port only if one was moved after the allocator was done | `ChosenApart`: what `AllocateHostPortsOwned` chooses is apart, for any file, owned and bound ports. Later moves leave a cause (`Apart`) |
| `HostServicesAndPortsProofs!AdvertisedIsServed` | what callers and the proxy are told is where the item answers, but for the causes in the formula | `PortsInv`: the mappings of every item have the shape that its kind asks for (`AllocFits`), what runs was started with such (`LifeFits`) and is bound to its ports and to none else (`Bound`); a host service that was seen keeps the port that it holds (`HostsKept`, by `ChosenKeeps` and `Adopts`), a container keeps those that it publishes (`DepsKept`, `AbsentNoted`). Then one lemma per kind of item |
| `HostServicesAndPortsProofs!RestartsStayInPlace` | a restart puts a service back on its port | an action property: of all steps only `Restart` puts another process in the place of one that runs while its project is up (`OnlyRestarts`), and `ChosenKeeps` gives the port |
| `HostServicesAndPortsProofs!ConflictsAreGone` | what `down --conflicting` leaves is not on a wanted port, but for the two named cases | `ClearsTheWay`, from `Bound`: who is bound to a port runs, so that it is among the containers or among the recorded host services |
| `SharedDepsAndConfigProofs!ConfigStartsInOrder`, `ConfigTypes` | each service is started once, after what it depends on; what is never started is behind a cycle of an answer | `OrderInv` is that of Kahn's algorithm: whoever is in the queue has all it depends on started, and whoever has that is in the queue or started. Who is left over at the end forms a set in which each depends on another; `CycleBehind` finds a cycle in it, by a member from which the least of it can be reached. After validation there is none but through an answer (`CyclesStayExcused`, `CycleInv`) |
| `SharedDepsAndConfigProofs!ConfigFollowsFile` | the plan is what was selected of the file | `PlanInv`: from the filters on, deps is `Filtered(Configuration)` but for what is in `rewritten`. `ReachIs` shows that the walk of `ResolveDependencies`, a recursive function, gives the least closed set, and `SelectionIs` that this is the one of the property |
| `SharedDepsAndConfigProofs!ConfigCheckAgrees` | a green file is refused only for what `check` does not look at | `RefusedAgrees`: each refusal of the validation, of a plan that is a part of a file which `check` has passed |
| `SharedDepsAndConfigProofs!ConfigScanComesUp` | what a scan finds comes up | `ScanInv`: nothing is asked and nothing is brought in (`ScanAsksNothing`), no sibling is audited (`NoSiblingsNoAudit`), the file that `init` writes loads (`ScanLoads`) and is valid (`ScanValid`); with `ConfigStartsInOrder` nothing of it is left out |
| `SharedDepsAndConfigProofs!ConfigEnvIsMerged` | what is written into a `.env` is what the env files say, else what the developer wrote, else what the template gives | `EnvInv`: what the developer wrote and no env file ever said is in the file but for its quotes (`MineKept`); until the first up has written it the file is the one found (`FirstFound`), afterwards what a template has begun it keeps (`TemplateKept`). `ReadIs`, `UnwrapIs` and `WriteIs` say what reading, parsing and writing do to a value, `GeneratedOver` and `GeneratedFresh` what a written file says, over a `.env` and without one |

Each inductive invariant is a named definition (`IInv`, `ChainInv`, `LeakInv`, `SharedInv`, `LockInv`, `ProxyInv`, `PortsInv`, `ConfigInv`, `ScanInv`, `EnvInv`; `AInv`,
`BInv`, `LastTrue`), next to the properties at the end of its module, or in `VolumesProofs` and `SharedDepsAndConfigProofs` themselves. `MetaRun` also needs to know what its loading makes of
*every* file: `KeptIs` and `OrderedIs` say which entries the filtered and reordered sequence
has. Their inductions go over the set of the lengths for which the claim holds (`Least`, `Climb`),
since the library's induction theorems take an operator as their parameter.

The allocator is proved in the same way: `ServedIs` and `GivenIs` show that the two recursive functions
satisfy their equations, `Given` over the well-founded order of `Earlier`. Of `ConfigPipeline` the recursive
functions are those of `Reach` (`ReachFunction`) and of the audit's walk.

Proving corrected the models. A `down` of a tidy project that is killed before it stops Caddy
would have made `LastOneOut` false with a second fallible project: `tidy` is lost by a kill. A dependency whose
`publish:` is edited to the port that a host service holds takes it from the service at its restart
(`Claimed`). A port of a `publish:` list, or of a dependency without `expose:`, that the user
answers with another one is not, or not only, what the file says afterwards (`Misread`). TLC met none of the three
on the plans it had; those of ports are among its plans now. In `ConfigPipeline` the proofs asked what the next `up`
does after one without a file (it scans again, where the model had it load a file), which services `PlanIsTheFile` may
take from an ignore list that also names dependencies (`NotIgnored`), and which quoted values come back from a `.env` as they were
(`Escaped`).

Every invariant and every action property that a run checks is proved. Only model-checked, since it is out of
the prover's reach, is liveness: `StaleLockRecovers`, `CallsEnd`, `UpEnds`, `OrphansEnd`, `TeardownEnds`, `RunEnds`,
`NoChangeLost`.

## 7. What the models show of the code

Disagreements between the code and what the repository says of itself:

1. The lock file is created before its PID is written; a second command that reads
   it in between takes it for corrupt, evicts it, and both go on (`lock.go:153` against
   `docs/LOCKS.md:13` and the comment at `lock.go:103`).
2. `down` decides on a teardown under the refcount lock and executes it later; `up`
   registers after the health check. A live consumer can lose its dependency.
3. A spawned `up` skips the lock on the ground that its parent holds it. Without a
   workspace the parent holds another file, and two `up`s of the sibling run at once
   (`lock.go:35` and `docs/LOCKS.md:33`). `LockOf` may be any assignment of lock files:
   with a file for each project, `OneUpPerProject` without its condition on the lock files fails. With a workspace the
   same happens once a parent was killed or timed out: the lock is free while what it has spawned still works.
4. `dev` and `up` lock different files in a workspace (`dev.go:77`); `up` can overwrite a promotion.
5. The comment on `handleSharedProxyDown` says that no flag tears down a proxy that another
   project is still serving through. `--all` and `--prune-shared` do when the other's
   services are host processes: the forced gate asks for containers only (`down_proxy.go:83`).
6. `port_alloc.go:80-82` says that the ports of a run cannot collide with each other: the
   reassignment after a conflict and the pinning of running dependencies ignore `taken`.
7. `watch_setup.go:128-130` (the dispatcher has stopped what it started) does not hold for restarts
   under way. A native service, "not restarted" by `watcher.go:43` and
   `docs/CONFIG_REFERENCE.md:708`, has its files restart the watched service in whose directory it is nested.
8. `meta.go:114` says that `--no-clone` bypasses the clone half only; it skips the whole
   bootstrap, so a remote gets no route either.
9. `yaml_check.go:85-87`, "so the user never gets a green check followed by a red up":
   `check` looks neither for cycles nor for names Docker refuses, malformed profiles or a git service
   without a path.
10. `en.json:404` warns that services which depend on ignored ones "may fail";
   `validateDependencies` then refuses the run.
11. `template.go` says "only replace if it's a complete word"; `$VAR` is also replaced where it
   begins a longer name, in the order of a Go map.
12. `snapshot create` "saves every infra volume declared in raioz.yaml"; two
   dependencies with the same entry have one key in its map, and one of them is not saved.

Behaviour that the models include as it is, behind a named cause of a property or
as an input the property leaves out:

Host services and proxy.

- A whole `down` skips the recorded PID of a service with a stop command even when
  that command has failed, and clears the PID (`down_orchestrated.go:104-121`); a
  selective one falls back to the PID (`down_selective.go:110-124`).
- A whole `down` removes a state file without a project name, with the promotions in it.
- A `dev --reset` that fails or dies after it has started the container leaves the
  override: the next `up` starts the local version next to it.
- The watcher's restart ignores a failing stop, and its record replaces that of a concurrent `restart`.
- `clean` probes first, drops later; a project that came up since loses its reference.
- The re-probe of deferred siblings runs before the dependencies start, so a sibling
  that leaves during the start is missed.
- An `up` whose routes were not saved succeeds, and the proxy does not know it.
- A Docker without the Caddyfile to mount makes a directory of that name; every later
  `up` and reload fails until somebody removes it, or a last `down` does.
- `otherWorkspaceProjectsActive` takes a failing Docker for a workspace without
  containers, although the file says that every probe fails closed
  (`down_proxy_liveness.go:3`); a route target still keeps the proxy.

Ports.

- The ports lock is released when the ports are chosen, not when they are bound.
- After an edit of `port:` a re-run adopts the process on the old port and tells the new one.
- A published dependency whose host port differs from its container port gets
  the *host* port as its detected port (`service_env.go:95`), and the proxy, a
  container, is sent to that port of the container, where nothing listens
  (`orchestration_proxy.go:335`).
- The `port:` of a Dockerfile service is published without having been allocated.
- A restart, or an `up` again, of a service that does not listen yet, or sits below the port it
  wanted, or whose port another now claims, moves it or tells another port.
- `raioz dev` bumps the port of an auto-published dependency; a legacy `8080:6379` is not
  `Explicit`, so that reuse may rewrite it; a host is told the container port of legacy `ports:`
  (which a comment admits).
- The owner of a shared dependency in the list of conflicts is its workspace
  (`active_ports.go:135`), of which `stopProjects` finds neither a directory nor a container: one that this
  project does not declare keeps its port.
- `downProjectAt` looks for `raioz.yaml` only, though `raioz.yml` and `-f` are accepted
  elsewhere: of such a project the containers go, the host services stay with their ports.
  So do those of a project whose first `up` failed, which is not on record.
- `docs/LOCKS.md:168` has each `down` that is spawned so take its project's lock; for a
  `raioz.yaml` it takes none.

Watcher.

- Paths are compared as strings (`resolver.go:38`): `web2` belongs to `web`. Directories made
  after the start are not watched; a service whose own directory is called `build` or `dist` never is.
- Restarts of one service overlap when the second change comes before the first has
  settled: the second fails on the port, or leaves a process that nobody knows.
- After a restart in another terminal the watcher keeps a PID that is no longer there.

Meta runner.

- The list of completed projects has names of directories; consumers look for `project:` names.
- The route file of a remote has no project directory, so that nothing prunes it, and the last one out
  finds the proxy still in use without `--all`.
- A mode-A dependency on a project that was forced to its remote spawns it locally.
- Clones ignore profiles. A clone killed by its deadline leaves half a tree that the
  next run takes for local; the retries hardly ever apply, since git's output is not retryable text.
- `meta down` of a required project that was never cloned reports a failure.

Configuration, detection, environment.

- The dependency assistant brings back a service that the ignore list or `--only` took out, and may
  add a service with the name of a dependency. Definitions from its answers come after the check for
  cycles: services behind a cycle are silently never started.
- A service with `command` and `stop` skips the check of profiles; `branch:` without
  `git:` is dropped silently.
- `raioz init` pairs compose keys with images by position. A directory named like an
  inferred dependency makes its file refused, while `:auto:` goes on. `inferPortFromPackageJSON` iterates a Go map.
- `${VAR:-default}` is not defaulted when `VAR` is unset. A quote in a value gets one more
  backslash at every `up`; comments and other lines are lost; variables removed from
  the sources stay; a kill during the write leaves a partial file that the next `up`
  adopts; `raioz env`, which only shows, writes a file.

`up`, workspace, volumes.

- A whole `down` of an orchestrated project takes no lock (it has returned before
  `acquireLock`, `down.go:80`, `:105`), and may delete a lock file just created, with the directory.
- `root.Save` is not atomic; a torn file is regenerated. A failed volume step leaves the network.
- The conflict check of `ValidatePorts`, `GetNetworkProjects` and `GetVolumeProjects` read
  `.state.json`, which nothing writes since ADR-011.
- `--force-reclone` stops the service before it clones: when that fails the service is down and
  still registered, and, if it was the last of the workspace, root file and network outlive it. It deletes the directory also under a service whose PID is not on record or that could not be
  stopped (`host_lifecycle.go:197`, `:214`). Half a clone is adopted as a working copy.
- The pull of a working copy pops its stash with the pull's own context: when that has timed out,
  or the pop conflicts, the uncommitted work stays in the stash and a warning says so (`branch.go:75`).
- `raioz snapshot` and `raioz volumes` never set the prefix of a workspace, so they know
  neither its containers nor its volumes: a create says that the project was never started, or archives a
  volume of an older naming scheme, and a remove reports what it has not done.
- A killed create leaves a directory without `snapshot.json` which hides a legacy snapshot; so does a
  new one of its name. When the write of `snapshot.json` itself is cut short the torn file stays
  (`snapshot.go:153`): `create` takes it for a snapshot and refuses, `restore` cannot read it, `list`
  leaves it out, and only `delete` helps. None of these commands takes a lock, and of two at once on a name
  one may destroy what the other reports saved.

## 8. What is not modelled

- Not among the hazards of `PROJECT.json`, since no property reaches it: `DeferredToSibling` overwritten while the container of the first start
  runs (`host_lifecycle.go:147`); it takes `SharedDeps` and `SiblingSpawn` in one module.
- Container and compose services, launchers and their limits: their state is Docker's, and each
  operation is one call. In the models a service is on the host or its container appears and goes.
- `service_conflict.go` is unreachable since the records it reads are not written; the legacy
  `.raioz.json` flow and its `global.env` serve files that are no longer created.
- Of `ConfigPipeline`: feature flags, mocks, dry runs, the probing of ports by `check`, paths as
  strings, legacy names of env files, `ignore add` and `remove`.
- Of `Volumes`: pruning of images and networks, volumes of services, bind mounts.
- Of `Watcher`: the launcher pattern, container runners, custom stop commands (`HostServices` has these).
- Of `UpRun`: the drift report, `UpdateReposIfBranchChanged` and read-only clones, which no `raioz.yaml` reaches.
- The proxy of a single project without a workspace: it is `WorkspaceProxy` with one project.
- Audit log, tunnel, clone, migrate, exec, logs, TUI, CLI, i18n, output: I/O around the core.
- Docker, git, Caddy, the runtimes of services: external; what they answer is a choice in the models.
- Windows: its lock and process calls differ and are not translated.
