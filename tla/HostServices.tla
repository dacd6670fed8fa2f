---------------------------- MODULE HostServices ----------------------------
(***************************************************************************)
(* Services that run on the host as processes, and the only record raioz   *)
(* has of them: HostPIDs in `.raioz.state.json` (LocalState), next to the  *)
(* dependencies that `raioz dev` has promoted to a local process           *)
(* (DevOverrides).  A command loads the file, stops and starts processes,  *)
(* and saves what it has loaded with its own changes: everything between   *)
(* its load and its save is open to the commands it does not exclude.      *)
(*                                                                         *)
(* `up` takes the project lock of the workspace; restart, dev and a        *)
(* selective down take the one named after the project; a whole down and   *)
(* the watch phase of `up --watch` take none.  The lock is that of         *)
(* ProjectLock in one step.  Promoted dependencies are of the kind that    *)
(* runs on the host.                                                       *)
(***************************************************************************)
CONSTANTS
    Service, Dep,
    CustomStop,         \* services with a `stop:` command
    Fragile,            \* those whose process may exit by itself (a bound)
    Swept,              \* services whose leftovers sweepLauncherOrphans finds
    Asked,              \* the sets of services that an `up` may be for (a bound)
    Pid,                \* process ids (a bound)
    Command,            \* raioz processes (a bound)
    KindOf,             \* the commands each of them runs (a bound)
    Mortal,             \* commands that may be killed (a bound)
    UpLock, MutLock,    \* the lock files of `up` and of the state mutators
    NoPid, NoFile, None

Kind == {"up", "restart", "promote", "reset", "stop", "down"}

Name == Service \cup Dep

LocalState == [pids : [Name -> Pid \cup {NoPid}],   \* HostPIDs
               devs : SUBSET Dep,                   \* DevOverrides
               named : BOOLEAN]                     \* Project # ""

ASSUME HostServicesAssumption ==
    /\ Service \cap Dep = {}
    /\ CustomStop \subseteq Service /\ Swept \subseteq Service /\ Fragile \subseteq Name
    /\ Asked \subseteq SUBSET Service /\ Mortal \subseteq Command
    /\ KindOf \in [Command -> SUBSET Kind]
    /\ NoPid \notin Pid /\ None \notin Name \cup Command /\ NoFile \notin LocalState

VARIABLES
    proc,       \* what each live process is
    image,      \* dependencies whose container runs
    file,       \* .raioz.state.json
    lock,
    cmd,        \* the state of each command
    lost        \* history: processes that a named hazard has lost track of

vars == <<proc, image, file, lock, cmd, lost>>

NoPids == [n \in Name |-> NoPid]
NoState == [pids |-> NoPids, devs |-> {}, named |-> FALSE]

Idle == [kind |-> "none", pc |-> "free", name |-> None, todo |-> {}, mine |-> NoPids,
         running |-> NoPids, devs |-> {}, buf |-> NoState, base |-> NoFile, ok |-> TRUE]

PC == {"free", "load", "probed", "depsLoad", "deps", "depLoad", "depSave",
       "persist", "watch", "tickLoad", "tick",
       "stop", "start", "save", "kill", "clear", "teardown", "clearAgain", "tidy"}

CmdState == [kind : Kind \cup {"none"}, pc : PC, name : Name \cup {None},
             todo : SUBSET Name,                    \* what `up` has to start, or watches
             mine : [Name -> Pid \cup {NoPid}],     \* the dispatcher's processes
             running : [Name -> Pid \cup {NoPid}],  \* runningHostServices
             devs : SUBSET Dep,                     \* loadDevOverrides
             buf : LocalState,
             base : LocalState \cup {NoFile},       \* history: the file as last seen
             ok : BOOLEAN]                          \* no step has failed

TypeOK ==
    /\ proc \in [Pid -> Name \cup {None}]
    /\ image \subseteq Dep
    /\ file \in LocalState \cup {NoFile}
    /\ lock \in [{UpLock, MutLock} -> Command \cup {None}]
    /\ cmd \in [Command -> CmdState]
    /\ lost \subseteq Pid

Init ==
    /\ proc = [p \in Pid |-> None]
    /\ image = {}
    /\ file = NoFile
    /\ lock = [f \in {UpLock, MutLock} |-> None]
    /\ cmd = [c \in Command |-> Idle]
    /\ lost = {}

-----------------------------------------------------------------------------
(* Processes.                                                                *)

\* IsProcessAlive and ProcessRunsIn: the process still stands for n.
Stands(p, n) == p \in Pid /\ proc[p] = n

Without(P) == [p \in Pid |-> IF p \in P THEN None ELSE proc[p]]

Dies(P) == proc' = Without(P) /\ lost' = lost \ P

ProcessesOf(n) == {p \in Pid : proc[p] = n}

\* killProcessGroup of a recorded PID, whatever it is now, and the sweep.
Killed(n, p) == {p} \cup (IF n \in Swept /\ p # NoPid THEN ProcessesOf(n) ELSE {})

\* The id may be that of a dead process in the file, but not one that a
\* running command has just seen.
Fresh(p) ==
    /\ proc[p] = None
    /\ \A c \in Command, n \in Name :
          /\ p \notin {cmd[c].buf.pids[n], cmd[c].mine[n], cmd[c].running[n]}
          /\ cmd[c].base # NoFile => cmd[c].base.pids[n] # p

\* HostRunner.Start, the settle window over.
Starts(n, p) == Fresh(p) /\ proc' = [proc EXCEPT ![p] = n]

Exit(p) ==
    /\ proc[p] \in Fragile
    /\ Dies({p})
    /\ UNCHANGED <<image, file, lock, cmd>>

-----------------------------------------------------------------------------
(* The state file.                                                           *)

\* LoadLocalState.
Loaded == IF file = NoFile THEN NoState ELSE file

Goto(c, where) == cmd' = [cmd EXCEPT ![c].pc = where]

LoadTo(c, from, where) ==
    /\ cmd[c].pc = from
    /\ cmd' = [cmd EXCEPT ![c].pc = where, ![c].buf = Loaded, ![c].base = file]
    /\ UNCHANGED <<proc, image, file, lock, lost>>

Unrecorded(p, n) == Stands(p, n) /\ Loaded.pids[n] # p

\* Processes recorded since the load.
Missed(c) ==
    {p \in Pid : \E n \in Name :
        Loaded.pids[n] = p /\ (cmd[c].base = NoFile \/ cmd[c].base.pids[n] # p)}

\* SaveLocalState or RemoveLocalState.  The save overwrites what was recorded
\* since the load, and knowingly the entries of P.
Save(c, content, P) ==
    /\ file' = content
    /\ lost' = lost \cup {p \in Missed(c) \cup P : proc[p] # None}

\* What has been loaded is no longer needed.
Forget(c) == [cmd EXCEPT ![c].buf = NoState, ![c].base = NoFile]

\* Live processes that another takes the entry of.
Replaced(c, pids) ==
    {p \in Pid : \E n \in Name :
        cmd[c].buf.pids[n] = p /\ pids[n] \notin {p, NoPid} /\ Stands(p, n)}

-----------------------------------------------------------------------------
LockFile(kind) == IF kind = "up" THEN UpLock ELSE MutLock

Unlocked(c) == [f \in {UpLock, MutLock} |-> IF lock[f] = c THEN None ELSE lock[f]]

End(c) == cmd' = [cmd EXCEPT ![c] = Idle] /\ lock' = Unlocked(c)

\* A command takes its lock and makes its first load.
Begin(c, kind, n, todo, where) ==
    /\ cmd[c].pc = "free"
    /\ kind \in KindOf[c]
    /\ lock[LockFile(kind)] = None
    /\ lock' = [lock EXCEPT ![LockFile(kind)] = c]
    /\ cmd' = [cmd EXCEPT ![c] = [Idle EXCEPT !.kind = kind, !.name = n, !.todo = todo,
                                   !.pc = where, !.buf = Loaded, !.base = file]]
    /\ UNCHANGED <<proc, image, file, lost>>

\* raioz is killed, or `up` fails with nothing to persist.
Quit(c) ==
    /\ c \in Mortal /\ cmd[c].pc # "free"
    /\ End(c)
    /\ lost' = lost \cup {p \in Pid : \E n \in Name : cmd[c].mine[n] = p /\ Unrecorded(p, n)}
    /\ UNCHANGED <<proc, image, file>>

-----------------------------------------------------------------------------
(* raioz up.                                                                 *)

\* up of the services S.
UpBegins(c, S) == Begin(c, "up", None, S \cup Dep, "probed")

UpLoad(c) ==
    \/ LoadTo(c, "depLoad", "depSave")
    \/ LoadTo(c, "tickLoad", "tick")

\* runningHostServices, from its load on: dead entries are dropped.
UpProbe(c) ==
    LET S == cmd[c].todo \cap Service
        pids == [n \in Name |-> IF n \in S /\ ~Stands(cmd[c].buf.pids[n], n)
                                THEN NoPid ELSE cmd[c].buf.pids[n]]
    IN  /\ cmd[c].pc = "probed"
        /\ IF pids = cmd[c].buf.pids
           THEN UNCHANGED <<file, lost>>
           ELSE Save(c, [cmd[c].buf EXCEPT !.pids = pids], {})
        /\ cmd' = [Forget(c) EXCEPT ![c].pc = "depsLoad",
                     ![c].running = [n \in Name |-> IF n \in S THEN pids[n] ELSE NoPid]]
        /\ UNCHANGED <<proc, image, lock>>

\* loadDevOverrides.
UpOverrides(c) ==
    /\ cmd[c].pc = "depsLoad"
    /\ cmd' = [cmd EXCEPT ![c].pc = "deps", ![c].devs = Loaded.devs]
    /\ UNCHANGED <<proc, image, file, lock, lost>>

\* A dependency starts from its image, or is promoted and runs already.
UpDep(c, d) ==
    /\ cmd[c].pc = "deps"
    /\ d \in cmd[c].todo
    /\ d \in cmd[c].devs => Stands(Loaded.pids[d], d)
    /\ image' = IF d \in cmd[c].devs THEN image ELSE image \cup {d}
    /\ cmd' = [cmd EXCEPT ![c].todo = @ \ {d}]
    /\ UNCHANGED <<proc, file, lock, lost>>

\* It is promoted and does not run.
UpPromotedDep(c, d, p) ==
    /\ cmd[c].pc = "deps"
    /\ d \in cmd[c].todo \cap cmd[c].devs
    /\ ~Stands(Loaded.pids[d], d)
    /\ Starts(d, p)
    /\ cmd' = [cmd EXCEPT ![c].todo = @ \ {d}, ![c].pc = "depLoad", ![c].name = d,
                          ![c].mine[d] = p]
    /\ UNCHANGED <<image, file, lock, lost>>

\* updateHostPID of a dependency and of a service that the watcher restarts.
UpdateHostPID(c) ==
    LET n == cmd[c].name
        pids == [cmd[c].buf.pids EXCEPT ![n] = cmd[c].mine[n]]
    IN  /\ cmd[c].pc \in {"depSave", "tick"}
        /\ Save(c, [cmd[c].buf EXCEPT !.pids = pids], Replaced(c, pids))
        /\ cmd' = [Forget(c) EXCEPT ![c].pc = IF @ = "tick" THEN "watch" ELSE "deps",
                                    ![c].name = None,
                                    ![c].mine[n] = IF n \in Dep THEN NoPid ELSE @]
        /\ UNCHANGED <<proc, image, lock>>

AtServices(c) == cmd[c].pc = "deps" /\ cmd[c].todo \cap Dep = {}

UpAdopts(c, s) ==
    /\ AtServices(c)
    /\ s \in cmd[c].todo
    /\ cmd[c].running[s] # NoPid
    /\ cmd' = [cmd EXCEPT ![c].todo = @ \ {s}, ![c].mine[s] = cmd[c].running[s]]
    /\ UNCHANGED <<proc, image, file, lock, lost>>

UpStarts(c, s, p) ==
    /\ AtServices(c)
    /\ s \in cmd[c].todo
    /\ cmd[c].running[s] = NoPid
    /\ Starts(s, p)
    /\ cmd' = [cmd EXCEPT ![c].todo = @ \ {s}, ![c].mine[s] = p]
    /\ UNCHANGED <<image, file, lock, lost>>

\* startServices has started all, or has failed: the load of persistHostPIDs.
UpPersists(c) ==
    /\ AtServices(c)
    /\ cmd[c].todo = {} \/ cmd[c].mine # NoPids
    /\ cmd' = [cmd EXCEPT ![c].pc = "persist", ![c].buf = Loaded, ![c].base = file,
                          ![c].running = NoPids, ![c].devs = {},
                          ![c].ok = (cmd[c].todo = {}), ![c].todo = {}]
    /\ UNCHANGED <<proc, image, file, lock, lost>>

Persisted_Wipes(c) ==
    [n \in Name |-> IF n \in Service THEN cmd[c].mine[n] ELSE cmd[c].buf.pids[n]]

\* persistHostPIDs: what this run started is merged into what was loaded.
Persisted(c) ==
    [n \in Name |-> IF n \in Service /\ cmd[c].mine[n] # NoPid
                    THEN cmd[c].mine[n] ELSE cmd[c].buf.pids[n]]

\* Then `up` returns or, with the lock released, watches.
UpPersist(c) ==
    /\ cmd[c].pc = "persist"
    /\ Save(c, [cmd[c].buf EXCEPT !.pids = Persisted(c), !.named = TRUE],
            Replaced(c, Persisted(c)))
    /\ \/ End(c)
       \/ /\ cmd[c].ok
          /\ cmd' = [Forget(c) EXCEPT ![c].pc = "watch",
                                      ![c].todo = {s \in Service : cmd[c].mine[s] # NoPid}]
          /\ lock' = Unlocked(c)
    /\ UNCHANGED <<proc, image>>

-----------------------------------------------------------------------------
(* The watch phase.                                                          *)

\* HostRunner.Restart, up to its Start.
WatchStops(c, s) ==
    /\ cmd[c].pc = "watch"
    /\ s \in cmd[c].todo
    /\ Dies(IF s \in CustomStop THEN ProcessesOf(s) ELSE {cmd[c].mine[s]})
    /\ cmd' = [cmd EXCEPT ![c].name = s, ![c].pc = "start", ![c].mine[s] = NoPid]
    /\ UNCHANGED <<image, file, lock>>

\* Its stop command fails, and the Start comes nevertheless.
WatchStopFails(c, s) ==
    /\ cmd[c].pc = "watch"
    /\ s \in cmd[c].todo \cap CustomStop
    /\ cmd' = [cmd EXCEPT ![c].name = s, ![c].pc = "start"]
    /\ UNCHANGED <<proc, image, file, lock, lost>>

\* Its Start, and Start of a `raioz restart`.
ServiceStarts(c, p) ==
    /\ cmd[c].pc = "start"
    /\ cmd[c].kind \in {"up", "restart"}
    /\ Starts(cmd[c].name, p)
    /\ cmd' = [cmd EXCEPT ![c].pc = IF cmd[c].kind = "up" THEN "tickLoad" ELSE "save",
                          ![c].mine[cmd[c].name] = p]
    /\ UNCHANGED <<image, file, lock, lost>>

\* The relaunch fails: the watcher goes on, and restart returns.
ServiceFails(c) ==
    /\ cmd[c].pc = "start"
    /\ \/ cmd[c].kind = "up" /\ Goto(c, "watch") /\ UNCHANGED lock
       \/ cmd[c].kind = "restart" /\ End(c)
    /\ UNCHANGED <<proc, image, file, lost>>

\* Ctrl+C: stopAllServicesForShutdown, where the stop commands of S work, and
\* then the project's own down.
Interrupt(c, S) ==
    /\ cmd[c].pc = "watch"
    /\ S \subseteq cmd[c].todo
    /\ Dies({cmd[c].mine[s] : s \in cmd[c].todo \ CustomStop} \cup UNION {ProcessesOf(s) : s \in S})
    /\ cmd' = [cmd EXCEPT ![c] = [Idle EXCEPT !.kind = "down", !.pc = "stop"]]
    /\ UNCHANGED <<image, file, lock>>

-----------------------------------------------------------------------------
(* raioz restart, dev and down of a service: the state mutators.             *)

MutatorBegins(c, n) ==
    \/ n \in Service /\ \E kind \in {"restart", "stop"} : Begin(c, kind, n, {}, "stop")
    \/ n \in Dep /\ \E kind \in {"promote", "reset"} : Begin(c, kind, n, {}, "stop")

\* A stop command that works stops the service; if it fails the PID is killed,
\* by restart without the sweep.
StopService(c) ==
    LET s == cmd[c].name
        sweeps == cmd[c].kind = "stop" \/ s \notin CustomStop
    IN  /\ cmd[c].pc = "stop"
        /\ cmd[c].kind \in {"restart", "stop"}
        /\ \/ Dies(IF sweeps THEN Killed(s, cmd[c].buf.pids[s]) ELSE {cmd[c].buf.pids[s]})
           \/ s \in CustomStop /\ Dies(ProcessesOf(s))
        /\ cmd' = [cmd EXCEPT ![c].buf.pids[s] = NoPid,
                              ![c].pc = IF cmd[c].kind = "restart" THEN "start" ELSE "save"]
        /\ UNCHANGED <<image, file, lock>>

\* promote: the container stops.
PromoteStops(c) ==
    /\ cmd[c].pc = "stop"
    /\ cmd[c].kind = "promote"
    /\ cmd[c].name \in image
    /\ image' = image \ {cmd[c].name}
    /\ Goto(c, "start")
    /\ UNCHANGED <<proc, file, lock, lost>>

PromoteStarts(c, p) ==
    /\ cmd[c].pc = "start"
    /\ cmd[c].kind = "promote"
    /\ Starts(cmd[c].name, p)
    /\ cmd' = [cmd EXCEPT ![c].pc = "save", ![c].mine[cmd[c].name] = p,
                          ![c].buf.devs = @ \cup {cmd[c].name}]
    /\ UNCHANGED <<image, file, lock, lost>>

\* The local version fails, and the container may not come back either.
PromoteFails(c) ==
    /\ cmd[c].pc = "start"
    /\ cmd[c].kind = "promote"
    /\ image' \in {image, image \cup {cmd[c].name}}
    /\ End(c)
    /\ UNCHANGED <<proc, file, lost>>

\* resetOverride: the local version stops.
ResetStops(c) ==
    LET d == cmd[c].name
    IN  /\ cmd[c].pc = "stop"
        /\ cmd[c].kind = "reset"
        /\ d \in cmd[c].buf.devs
        /\ Dies({cmd[c].buf.pids[d]})
        /\ cmd' = [cmd EXCEPT ![c].pc = "start", ![c].buf.pids[d] = NoPid]
        /\ UNCHANGED <<image, file, lock>>

\* The container starts.
ResetStarts(c) ==
    /\ cmd[c].pc = "start"
    /\ cmd[c].kind = "reset"
    /\ image' = image \cup {cmd[c].name}
    /\ cmd' = [cmd EXCEPT ![c].pc = "save", ![c].buf.devs = @ \ {cmd[c].name}]
    /\ UNCHANGED <<proc, file, lock, lost>>

\* A dependency that does not run, or is not promoted, or does not start.
DevRefuses(c) ==
    /\ \/ cmd[c].kind = "promote" /\ cmd[c].pc = "stop" /\ cmd[c].name \notin image
       \/ cmd[c].kind = "reset" /\ cmd[c].pc = "stop" /\ cmd[c].name \notin cmd[c].buf.devs
       \/ cmd[c].kind = "reset" /\ cmd[c].pc = "start"
    /\ End(c)
    /\ UNCHANGED <<proc, image, file, lost>>

\* What the mutator saves.
Mutated(c) ==
    [n \in Name |-> IF cmd[c].mine[n] # NoPid THEN cmd[c].mine[n] ELSE cmd[c].buf.pids[n]]

MutatorSave(c) ==
    /\ cmd[c].pc = "save"
    /\ Save(c, [cmd[c].buf EXCEPT !.pids = Mutated(c)], Replaced(c, Mutated(c)))
    /\ End(c)
    /\ UNCHANGED <<proc, image>>

-----------------------------------------------------------------------------
(* raioz down of the whole project.                                          *)

\* runCustomStopCommands: those of S work.
DownStops(c, S) ==
    /\ \/ cmd[c].pc = "free" /\ "down" \in KindOf[c]
       \/ cmd[c].pc = "stop" /\ cmd[c].kind = "down"
    /\ S \subseteq CustomStop
    /\ Dies(UNION {ProcessesOf(s) : s \in S})
    /\ cmd' = [cmd EXCEPT ![c] = [Idle EXCEPT !.kind = "down", !.pc = "load",
                                              !.ok = (S = CustomStop)]]
    /\ UNCHANGED <<image, file, lock>>

DownLoad(c) == cmd[c].kind = "down" /\ LoadTo(c, "load", "kill")

\* The recorded processes, but for the services that have a stop command.
DownKills(c) ==
    /\ cmd[c].pc = "kill"
    /\ Dies(UNION {Killed(n, cmd[c].buf.pids[n]) : n \in Name \ CustomStop})
    /\ Goto(c, "clear")
    /\ UNCHANGED <<image, file, lock>>

\* Both saves of the cleared state.  A file without a project is removed.
DownClears(c) ==
    LET content == IF cmd[c].buf.named THEN [cmd[c].buf EXCEPT !.pids = NoPids] ELSE NoFile
    IN  /\ cmd[c].pc \in {"clear", "clearAgain"}
        /\ Save(c, content, {cmd[c].buf.pids[s] : s \in CustomStop} \ {NoPid})
        /\ cmd' = [cmd EXCEPT ![c].pc = IF cmd[c].pc = "clear" THEN "teardown" ELSE "tidy",
                              ![c].buf.pids = NoPids,
                              ![c].base = content]
        /\ UNCHANGED <<proc, image, lock>>

DownTearsDown(c) ==
    /\ cmd[c].pc = "teardown"
    /\ image' = {}
    /\ Goto(c, "clearAgain")
    /\ UNCHANGED <<proc, file, lock, lost>>

DownTidies_Promoted(c) ==
    /\ cmd[c].pc = "tidy"
    /\ \/ cmd[c].ok /\ Save(c, NoFile, {})
       \/ UNCHANGED <<file, lost>>
    /\ End(c)
    /\ UNCHANGED <<proc, image>>

\* tidyAfterDown, unless a stop command has failed or a container is left.
DownTidies(c) ==
    /\ cmd[c].pc = "tidy"
    /\ \/ cmd[c].ok /\ cmd[c].buf.devs = {} /\ Save(c, NoFile, {})
       \/ UNCHANGED <<file, lost>>
    /\ End(c)
    /\ UNCHANGED <<proc, image>>

-----------------------------------------------------------------------------
Next ==
    \/ \E p \in Pid : Exit(p)
    \/ \E c \in Command :
        \/ \E S \in Asked : UpBegins(c, S)
        \/ \E n \in Name : MutatorBegins(c, n)
        \/ Quit(c)
        \/ UpLoad(c) \/ UpProbe(c) \/ UpOverrides(c) \/ UpdateHostPID(c)
        \/ UpPersists(c) \/ UpPersist(c)
        \/ \E d \in Dep : UpDep(c, d) \/ \E p \in Pid : UpPromotedDep(c, d, p)
        \/ \E s \in Service : UpAdopts(c, s) \/ WatchStops(c, s) \/ \E p \in Pid : UpStarts(c, s, p)
        \/ \E p \in Pid : ServiceStarts(c, p) \/ PromoteStarts(c, p)
        \/ ServiceFails(c) \/ \E s \in Service : WatchStopFails(c, s)
        \/ StopService(c) \/ PromoteStops(c) \/ PromoteFails(c)
        \/ ResetStops(c) \/ ResetStarts(c) \/ DevRefuses(c) \/ MutatorSave(c)
        \/ \E S \in SUBSET CustomStop : Interrupt(c, S) \/ DownStops(c, S)
        \/ DownLoad(c) \/ DownKills(c) \/ DownClears(c) \/ DownTearsDown(c) \/ DownTidies(c)

Spec == Init /\ [][Next]_vars

-----------------------------------------------------------------------------
(***************************************************************************)
(* host_lifecycle.go: "an unrecorded one is a live process nobody can stop *)
(* or even report".  Every live process is recorded or in the hands of a   *)
(* command, unless raioz was killed between start and save, a save was     *)
(* made from a stale load or of a stale PID, or a stop command failed.     *)
(***************************************************************************)
OrphanHasCause == \A p \in Pid, n \in Name : Unrecorded(p, n) =>
    p \in lost \/ \E c \in Command : cmd[c].mine[n] = p

(***************************************************************************)
(* A promoted dependency stays promoted until `raioz dev --reset`, across  *)
(* up and down, unless a save was made from a stale load or no `up` has    *)
(* ever completed the file.                                                *)
(***************************************************************************)
Drops(c, d) == \/ cmd[c].kind = "reset" /\ cmd[c].name = d
               \/ cmd[c].base # file
               \/ ~Loaded.named

OverrideKept == [][\A d \in Loaded.devs \ Loaded'.devs :
                       \E c \in Command : cmd'[c] # cmd[c] /\ Drops(c, d)]_vars

-----------------------------------------------------------------------------
(* The inductive invariant.                                                  *)

\* A watch has its processes in hand but not as the only one: they are on
\* record, but for the one that it has just started.
Watching(c, n) ==
    \/ cmd[c].pc = "watch"
    \/ cmd[c].pc = "start" /\ cmd[c].kind = "up"
    \/ cmd[c].pc \in {"tickLoad", "tick"} /\ n # cmd[c].name

Held(c, n, p) == cmd[c].mine[n] = p /\ ~Watching(c, n)

Known == \A p \in Pid, n \in Name : Unrecorded(p, n) =>
    p \in lost \/ \E c \in Command : Held(c, n, p)

\* What runs of what it has loaded a command still knows, also of the names
\* that it has changed, and so with what `raioz dev` has promoted.
Tracked(c) == cmd[c].base # NoFile =>
    /\ \A n \in Name : Stands(cmd[c].base.pids[n], n) => cmd[c].buf.pids[n] = cmd[c].base.pids[n]
    /\ cmd[c].base.devs \subseteq
         cmd[c].buf.devs \cup (IF cmd[c].kind = "reset" THEN {cmd[c].name} ELSE {})
    /\ cmd[c].buf.named = cmd[c].base.named

\* A `down` has nothing left to lose once it has killed, and cleared.
Cleared(c) == cmd[c].base # NoFile =>
    /\ cmd[c].pc = "clear" => \A n \in Name \ CustomStop : ~Stands(cmd[c].base.pids[n], n)
    /\ cmd[c].pc \in {"teardown", "clearAgain", "tidy"} => cmd[c].base.pids = NoPids

UpPC == {"probed", "depsLoad", "deps", "depLoad", "depSave", "persist", "watch", "tickLoad", "tick"}

\* Which processes a command has in hand at each of its steps.
InHand(k) ==
    /\ k.pc \in UpPC => k.kind = "up"
    /\ k.pc \in {"depLoad", "depSave", "tickLoad", "tick"} => k.name \in Name /\ k.mine[k.name] # NoPid
    /\ k.pc \in {"start", "save"} => k.name \in Name
    /\ k.pc \in {"stop", "start", "save"} /\ k.kind \in {"promote", "reset"} => k.name \in Dep
    /\ k.pc = "stop" /\ k.kind \in {"restart", "stop"} => k.name \in Name
    /\ \/ k.pc \in {"deps", "persist"} \cup UpPC \cup {"save"}
       \/ k.pc = "start" /\ k.kind = "up"
       \/ k.mine = NoPids
    /\ k.pc \in {"probed", "depsLoad"} => k.mine = NoPids
    /\ k.pc \in {"deps", "persist"} => \A n \in Dep \cup k.todo : k.mine[n] = NoPid
    /\ k.pc \in {"depLoad", "depSave"} =>
         k.name \in Dep /\ \A n \in (Dep \cup k.todo) \ {k.name} : k.mine[n] = NoPid

IInv ==
    /\ TypeOK /\ Known
    /\ \A c \in Command : Tracked(c) /\ Cleared(c) /\ InHand(cmd[c])

=============================================================================
