------------------------------ MODULE Volumes ------------------------------
(***************************************************************************)
(* The data of the dependencies: the Docker volumes their containers       *)
(* mount, `raioz snapshot create/restore/delete` (internal/snapshot),      *)
(* `raioz volumes remove` (app/volumes.go) and `raioz clean --volumes`.    *)
(* None of these commands takes a lock, so any two of them, and the `up`   *)
(* and `down` of every project of the workspace, interleave here.          *)
(*                                                                         *)
(* What is data here: a volume holds a number, 0 while it is empty; each   *)
(* write of an engine is a higher one, and Torn is what a copy taken under *)
(* a running engine is worth.  An engine holds what it wrote in memory and *)
(* brings it to the volume when it stops.  The commands are those of one   *)
(* project, Me, for one snapshot name.                                     *)
(***************************************************************************)
EXTENDS Naturals, Sequences, FiniteSets, Functions, SequencesExt

CONSTANTS Cmd,       \* raioz processes running one of the commands
          Me,        \* the project they are run in
          Projects,  \* the projects of the workspace
          Deps,      \* the dependencies they share, one container each
          Starts,    \* what is there: a workspace or none, the `volumes:`
                     \* entry of each dependency, and what older versions
                     \* left, volumes and those of a legacy snapshot
          MaxWrites, \* bounds: writes of the engines,
          MaxCmds,   \* commands begun,
          MaxEvents  \* starts and removals of containers, and faults, together

ASSUME ProjectsAssumption == Me \in Projects
ASSUME StartsAssumption == \A s \in Starts : DOMAIN s.entry = Deps
ASSUME BoundsAssumption == {MaxWrites, MaxCmds, MaxEvents} \subseteq Nat

Torn == MaxWrites + 1
Data == 0..Torn

VARIABLES ws,      \* whether Me is in a workspace, never changed
          entry,   \* the `volumes:` entries of this history, never changed
          cont,    \* the container of each dependency
          disk,    \* the volumes that exist and what they hold
          labelled,\* those of them compose created, with raioz's labels
          store,   \* the snapshot's directory in the two stores
          cmd,     \* the commands
          clock,   \* writes so far
          used,    \* of MaxCmds and MaxEvents
          last,    \* history: the volume each container mounted last
          saved,   \* history: what the last create that succeeded archived
          emptied, \* history: volumes a restore wiped and did not fill again, and
                   \* whose snapshot nobody has asked to delete since
          why      \* history: what happened that a property excuses

vars == <<ws, entry, cont, disk, labelled, store, cmd, clock, used, last, saved, emptied, why>>

-----------------------------------------------------------------------------
(* Names: docker.DepVolume and the compose file of orchestrate.            *)

\* What compose is given for dependency d when project p runs `up`: the name
\* normalised, in the compose project of d, which in a workspace is of no
\* project: <<scheme, dependency, project, name>>.
NormalizeVolumeName(d) == entry[d].norm

composeVolume(p, d) == <<IF ws THEN "shared" ELSE "own", d, p, NormalizeVolumeName(d)>>

\* Where these commands look, newest scheme first.  They never set the prefix
\* of the workspace, and take the name as raioz.yaml has it.
candidates(d) ==
  LET src == entry[d].src IN
  <<<<"own", d, Me, src>>, <<"bare", "", Me, src>>, <<"plain", "", "", src>>>>

\* Of the entries only those that name a volume have one behind them.
NamedDeps == {d \in Deps : entry[d].kind = "named"}

Volume ==
  UNION {Range(candidates(d)) \cup {composeVolume(p, d) : p \in Projects} : d \in NamedDeps}

Mounting(v) == {d \in Deps : cont[d].st # "none" /\ cont[d].vol = v}
Running(v) == {d \in Mounting(v) : cont[d].st = "running"}

\* The first name there is a volume of, else the newest scheme's.
FirstThere(d) ==
  LET there == {i \in 1..3 : candidates(d)[i] \in DOMAIN disk} IN
  [exists |-> there # {},
   name |-> candidates(d)[IF there = {} THEN 1 ELSE CHOOSE i \in there : \A j \in there : i <= j]]

\* Mutant: the container is not asked.
DepVolume_ByName(d) == FirstThere(d)

\* The volume of one entry: the container knows, where it is found by the name
\* that only a project without a workspace gives it.
mountedVolume(d) == [exists |-> TRUE, name |-> cont[d].vol]

DepVolume(d) ==
  IF ~ws /\ cont[d].st # "none" THEN mountedVolume(d) ELSE FirstThere(d)

\* collectInfraVolumes is a map from the entry to its dependency: of two
\* dependencies that write the same entry one is left, whichever came last.
collectInfraVolumes ==
  {S \in SUBSET Deps :
     /\ \A d \in Deps : \E e \in S : entry[e] = entry[d]
     /\ \A d, e \in S : entry[e] = entry[d] => d = e}

-----------------------------------------------------------------------------
(* The parts of the state.                                                 *)

NoContainer == [st |-> "none", vol |-> <<>>, mem |-> 0]

\* A snapshot's directory: its snapshot.json, whole (`done`), with the volumes
\* it names, or cut short (`torn`), and its archives.
NoDir == [there |-> FALSE, done |-> FALSE, torn |-> FALSE, meta |-> {}, arch |-> <<>>]

Stores == {"current", "legacy"}

\* A command as it begins: `vols` the volumes it is about, `left` those it has
\* not handled, `stops` the containers it stopped, `dir` the store it uses,
\* `now` the one it is importing, `ok` that nothing failed, `calm` that nobody
\* touched its volumes meanwhile, `moment` what they held when its containers
\* had stopped or, in a restore, what was unpacked into them.
Started(op, pc, vols, dir) ==
  [op |-> op, pc |-> pc, vols |-> vols, left |-> vols, stops |-> {}, now |-> {},
   dir |-> dir, ok |-> TRUE, calm |-> TRUE, moment |-> <<>>]

Idle == Started("none", "idle", {}, "current")

\* f with its volumes in S set to x.
Put(f, S, x) == [v \in DOMAIN f \cup S |-> IF v \in S THEN x ELSE f[v]]
Without(f, S) == Restrict(f, DOMAIN f \ S)

\* The commands after somebody else than those of C started an engine on, or
\* changed, volumes of S.
Disturbed(C, S) ==
  [k \in Cmd |-> IF k \notin C /\ cmd[k].pc # "idle" /\ cmd[k].vols \cap S # {}
                   THEN [cmd[k] EXCEPT !.calm = FALSE] ELSE cmd[k]]

\* Another command is at work on the snapshot, and not both only read it.
Meets(c) == \E k \in Cmd \ {c} : /\ cmd[k].op \in {"create", "restore", "delete"}
                               /\ {cmd[k].op, cmd'[c].op} # {"restore"}

Noticing(c) == why' = IF Meets(c) THEN why \cup {"overlap"} ELSE why

\* The archive of v is in that store, or should be, for all that a delete which
\* was killed half way has left of it.
Archived(s, v) == store[s].done /\ (v \in DOMAIN store[s].arch \/ s \in why)

\* A create that meets nobody and finds no snapshot begins a new account: what
\* commands that met before did to the old one is not held against it.
NewAccount(c) ==
  IF Meets(c) THEN why' = why \cup {"overlap"} /\ UNCHANGED <<saved, emptied>>
  ELSE /\ why' = why \ {"overlap", "current"}
       /\ IF "overlap" \in why
            THEN saved' = <<>> /\ emptied' = {v \in emptied : Archived("legacy", v)}
            ELSE UNCHANGED <<saved, emptied>>

Goto(c, p) == cmd' = [cmd EXCEPT ![c].pc = p]
Fail(c, p) == cmd' = [cmd EXCEPT ![c].pc = p, ![c].ok = FALSE]

Bounded == used.events < MaxEvents /\ used' = [used EXCEPT !.events = @ + 1]

Fault(e) == Bounded /\ why' = why \cup {e}

-----------------------------------------------------------------------------
Init ==
  /\ \E s \in Starts :
       /\ ws = s.ws /\ entry = s.entry
       /\ disk = [v \in s.volumes \cap Volume |-> 0]
       /\ store = [current |-> NoDir,
                   legacy |-> IF s.legacy = {} THEN NoDir
                              ELSE [there |-> TRUE, done |-> TRUE, torn |-> FALSE,
                                    meta |-> s.legacy \cap Volume,
                                    arch |-> [v \in s.legacy \cap Volume |-> 0]]]
  /\ cont = [d \in Deps |-> NoContainer]
  /\ labelled = {}
  /\ cmd = [c \in Cmd |-> Idle]
  /\ clock = 0 /\ used = [cmds |-> 0, events |-> 0]
  /\ last = <<>> /\ saved = <<>> /\ emptied = {} /\ why = {}

-----------------------------------------------------------------------------
(* The engines: image_runner.go, and Docker.                               *)

\* Compose labels the volumes it creates, never one that is there already.
declareTopLevelVolumes(v) == IF v \in DOMAIN disk THEN labelled ELSE labelled \cup {v}

\* Start: a running container is left alone; any other is put on the volume
\* of the project that runs `up`, which compose creates with the labels.  In a
\* workspace the container is shared, and the volume follows who starts it.
StartDep(p, d) ==
  LET v == composeVolume(p, d)
      d1 == IF v \in DOMAIN disk THEN disk ELSE Put(disk, {v}, 0) IN
  /\ d \in NamedDeps /\ cont[d].st # "running" /\ (ws \/ p = Me)
  /\ Bounded
  /\ disk' = d1
  /\ labelled' = declareTopLevelVolumes(v)
  /\ cont' = [cont EXCEPT ![d] = [st |-> "running", vol |-> v, mem |-> d1[v]]]
  /\ last' = Put(last, {d}, v)
  /\ cmd' = Disturbed({}, {v})
  /\ UNCHANGED <<ws, entry, store, clock, saved, emptied, why>>

\* What stopping the containers of S leaves on the volumes.
Flushed(S) ==
  [v \in DOMAIN disk |->
     IF Running(v) \cap S # {} THEN cont[CHOOSE d \in Running(v) \cap S : TRUE].mem
     ELSE disk[v]]

\* `down` of the last consumer: the container goes, its volume stays.
RemoveDep(d) ==
  /\ cont[d].st # "none"
  /\ Bounded
  /\ disk' = Flushed({d})
  /\ cont' = [cont EXCEPT ![d] = NoContainer]
  /\ UNCHANGED <<ws, entry, labelled, store, cmd, clock, last, saved, emptied, why>>

\* External: an engine writes; the volume has it when the engine stops.
Write(d) ==
  /\ cont[d].st = "running" /\ clock < MaxWrites
  /\ clock' = clock + 1
  /\ cont' = [cont EXCEPT ![d].mem = clock']
  /\ emptied' = emptied \ {cont[d].vol}
  /\ UNCHANGED <<ws, entry, disk, labelled, store, cmd, used, last, saved, why>>

-----------------------------------------------------------------------------
(* Commands.                                                               *)

\* A command of the given kind begins: its first reads are of one action.
Begin(c) ==
  /\ cmd[c].pc = "idle" /\ used.cmds < MaxCmds
  /\ used' = [used EXCEPT !.cmds = @ + 1]

\* Create: every volume is resolved before anything is written, and an existing
\* snapshot is never replaced, nor a torn one; a directory without snapshot.json
\* is none.
ResolvedVolumes(S) == {DepVolume(d) : d \in S \cap NamedDeps}

\* Mutant: an existing snapshot is replaced.
CreateAccepts_Replaces(found) == found # {} /\ \A f \in found : f.exists

CreateAccepts(found) ==
  found # {} /\ (\A f \in found : f.exists) /\ ~store.current.done /\ ~store.current.torn

Create(c) ==
  /\ Begin(c)
  /\ \E S \in collectInfraVolumes :
       LET found == ResolvedVolumes(S)
           vols == {f.name : f \in found} IN
       /\ CreateAccepts(found)
       /\ cmd' = [cmd EXCEPT ![c] = Started("create", "list", vols, "current")]
  /\ store' = [store EXCEPT !.current.there = TRUE]
  /\ NewAccount(c)
  /\ UNCHANGED <<ws, entry, cont, disk, labelled, clock, last>>

\* Mutant: only the containers of one of the volumes are asked for.
QuiesceList_One(c) ==
  /\ cmd[c].pc = "list"
  /\ LET v == CHOOSE x \in cmd[c].vols : TRUE
     IN cmd' = [cmd EXCEPT ![c].stops = Running(v), ![c].pc = "stop"]
  /\ UNCHANGED <<ws, entry, cont, disk, labelled, store, clock, used, last, saved, emptied, why>>

\* Mutant: only a create stops the containers.
QuiesceList_Create(c) ==
  /\ cmd[c].pc = "list"
  /\ cmd' = [cmd EXCEPT ![c].pc = "stop", ![c].stops =
               IF cmd[c].op = "create" THEN UNION {Running(v) : v \in cmd[c].vols} ELSE {}]
  /\ UNCHANGED <<ws, entry, cont, disk, labelled, store, clock, used, last, saved, emptied, why>>

\* quiesce, first half: the running containers that mount one of the volumes.
QuiesceList(c) ==
  /\ cmd[c].pc = "list"
  /\ cmd' = [cmd EXCEPT ![c].stops = UNION {Running(v) : v \in cmd[c].vols}, ![c].pc = "stop"]
  /\ UNCHANGED <<ws, entry, cont, disk, labelled, store, clock, used, last, saved, emptied, why>>

StopContainers(S) ==
  [d \in Deps |-> IF d \in S /\ cont[d].st = "running" THEN [cont[d] EXCEPT !.st = "stopped"]
                  ELSE cont[d]]

\* quiesce, second half: one `docker stop` of them all.  One that is gone, or
\* does not stop, fails the command; those already stopped stay stopped.
QuiesceStop(c) ==
  LET here == {d \in cmd[c].stops : cont[d].st # "none"}
      next == IF cmd[c].op = "create" THEN "export" ELSE "wipe" IN
  /\ cmd[c].pc = "stop"
  /\ \/ /\ here = cmd[c].stops
        /\ cont' = StopContainers(here) /\ disk' = Flushed(here)
        /\ cmd' = [cmd EXCEPT ![c].pc = next, ![c].moment = Restrict(disk', cmd[c].vols \cap DOMAIN disk')]
        /\ UNCHANGED <<used, why>>
     \/ \E S \in SUBSET here :
        /\ IF here # cmd[c].stops THEN S = here /\ UNCHANGED used /\ why' = why \cup {"stop"}
           ELSE Fault("stop")
        /\ cont' = StopContainers(S) /\ disk' = Flushed(S)
        /\ cmd' = [cmd EXCEPT ![c] = IF @.op = "create"
                                          THEN [@ EXCEPT !.pc = "remove", !.ok = FALSE, !.stops = {}]
                                          ELSE Idle]
  /\ UNCHANGED <<ws, entry, labelled, store, clock, last, saved, emptied>>

\* `docker run -v` of a volume that is gone creates an empty one; a copy made
\* under a running engine is torn.
exportVolume(v) ==
  IF v \notin DOMAIN disk THEN 0 ELSE IF Running(v) # {} THEN Torn ELSE disk[v]

Export(c, v) ==
  /\ cmd[c].pc = "export" /\ v \in cmd[c].left
  /\ disk' = IF v \in DOMAIN disk THEN disk ELSE Put(disk, {v}, 0)
  /\ store' = [store EXCEPT !.current.arch = Put(@, {v}, exportVolume(v)),
                            !.current.there = TRUE]
  /\ cmd' = [cmd EXCEPT ![c].left = @ \ {v},
               ![c].pc = IF cmd[c].left = {v} THEN "meta" ELSE "export"]
  /\ UNCHANGED <<ws, entry, cont, labelled, clock, used, last, saved, emptied, why>>

\* Mutant: the containers are not started again when an export fails.
ExportFails_NoResume(c) ==
  /\ cmd[c].pc = "export"
  /\ Fault("failed")
  /\ cmd' = [cmd EXCEPT ![c].pc = "remove", ![c].ok = FALSE, ![c].stops = {}]
  /\ UNCHANGED <<ws, entry, cont, disk, labelled, store, clock, last, saved, emptied>>

\* Mutant: a volume that cannot be exported is left out.
ExportFails_Skips(c) ==
  /\ cmd[c].pc = "export"
  /\ Fault("failed")
  /\ Goto(c, "meta")
  /\ UNCHANGED <<ws, entry, cont, disk, labelled, store, clock, last, saved, emptied>>

ExportFails(c) ==
  /\ cmd[c].pc = "export"
  /\ Fault("failed")
  /\ Fail(c, "remove")
  /\ UNCHANGED <<ws, entry, cont, disk, labelled, store, clock, last, saved, emptied>>

\* The metadata is written last; it is what makes the directory a snapshot.
CreateMeta(c) ==
  /\ cmd[c].pc = "meta"
  /\ IF store.current.there
       THEN /\ store' = [store EXCEPT !.current.done = TRUE, !.current.torn = FALSE,
                                      !.current.meta = cmd[c].vols]
            /\ saved' = Restrict(store.current.arch, cmd[c].vols \cap DOMAIN store.current.arch)
            /\ Goto(c, "resume")
       ELSE Fail(c, "resume") /\ UNCHANGED <<store, saved>>
  /\ UNCHANGED <<ws, entry, cont, disk, labelled, clock, used, last, emptied, why>>

\* os.WriteFile that is cut short, by an error or a kill.
TornMeta == [store EXCEPT !.current.done = FALSE, !.current.torn = TRUE, !.current.meta = {}]

\* Of all failures the one that leaves the directory, with what was written.
CreateMetaFails(c) ==
  /\ cmd[c].pc = "meta" /\ store.current.there
  /\ Fault("failed")
  /\ Fail(c, "resume")
  /\ store' = store \/ store' = TornMeta
  /\ UNCHANGED <<ws, entry, cont, disk, labelled, clock, last, saved, emptied>>

\* os.RemoveAll, of a create that failed or of a delete; only a kill, below,
\* leaves it half done.
RemoveAll(c) ==
  /\ cmd[c].pc = "remove"
  /\ store' = [store EXCEPT ![cmd[c].dir] = NoDir]
  /\ Goto(c, "resume")
  /\ UNCHANGED <<ws, entry, cont, disk, labelled, clock, used, last, saved, emptied, why>>

\* Containers that start again: the engine reads what its volume holds.
\* `docker start` fails on one that is gone, starts the others, and warns.
Resume(c) ==
  LET here == {d \in cmd[c].stops : cont[d].st = "stopped"} IN
  /\ cmd[c].pc = "resume"
  /\ \E S \in SUBSET here :
       /\ IF S = here THEN UNCHANGED <<used, why>> ELSE Fault("start")
       /\ cont' = [d \in Deps |->
                     IF d \in S THEN [cont[d] EXCEPT !.st = "running", !.mem = disk[cont[d].vol]]
                     ELSE cont[d]]
       /\ cmd' = [Disturbed({c}, {cont[d].vol : d \in S}) EXCEPT ![c] = Idle]
  /\ UNCHANGED <<ws, entry, disk, labelled, store, clock, last, saved, emptied>>

\* snapshotDir: the current store's directory, even one without metadata,
\* before the legacy one.
snapshotDir == IF store.current.there \/ ~store.legacy.there THEN "current" ELSE "legacy"

Restore(c) ==
  /\ Begin(c)
  /\ store[snapshotDir].done
  /\ cmd' = [cmd EXCEPT ![c] = Started("restore", "list", store[snapshotDir].meta, snapshotDir)]
  /\ Noticing(c)
  /\ UNCHANGED <<ws, entry, cont, disk, labelled, store, clock, last, saved, emptied>>

\* importVolume: everything in the volume is removed first, then the archive is
\* unpacked; one that is missing fails the command, its volume empty by then.
Wipe(c, v) ==
  /\ cmd[c].pc = "wipe" /\ v \in cmd[c].left
  /\ disk' = Put(disk, {v}, 0)
  /\ cmd' = [Disturbed({c}, {v}) EXCEPT ![c].pc = "untar", ![c].left = @ \ {v},
               ![c].now = {v}]
  /\ emptied' = emptied \cup {v}
  /\ UNCHANGED <<ws, entry, cont, labelled, store, clock, used, last, saved, why>>

Untar(c) ==
  LET v == CHOOSE x \in cmd[c].now : TRUE
      arch == store[cmd[c].dir].arch IN
  /\ cmd[c].pc = "untar"
  /\ \/ /\ v \in DOMAIN arch
        /\ disk' = Put(disk, {v}, arch[v])
        /\ cmd' = [Disturbed({c}, {v}) EXCEPT ![c].moment = Put(@, {v}, arch[v]),
                     ![c].now = {}, ![c].pc = IF cmd[c].left = {} THEN "resume" ELSE "wipe"]
        /\ emptied' = emptied \ {v}
        /\ UNCHANGED <<used, why>>
     \/ /\ IF v \in DOMAIN arch THEN Fault("failed") ELSE UNCHANGED <<used, why>>
        /\ Fail(c, "resume")
        /\ UNCHANGED <<disk, emptied>>
  /\ UNCHANGED <<ws, entry, cont, labelled, store, clock, last, saved>>

Delete(c) ==
  /\ Begin(c)
  /\ store[snapshotDir].there
  /\ cmd' = [cmd EXCEPT ![c] = Started("delete", "remove", {}, snapshotDir)]
  /\ saved' = <<>>
  /\ emptied' = {v \in emptied : \E s \in Stores \ {snapshotDir} : Archived(s, v)}
  /\ Noticing(c)
  /\ UNCHANGED <<ws, entry, cont, disk, labelled, store, clock, last>>

\* `raioz volumes remove`: of the volumes of the file all, or those named.
collectVolumes == {DepVolume(d).name : d \in NamedDeps}

filterSpecificVolumes == (SUBSET collectVolumes) \ {{}}

RemoveVolumes(c) ==
  /\ Begin(c)
  /\ \E S \in filterSpecificVolumes :
       cmd' = [cmd EXCEPT ![c] = Started("volumes", "rm", S, "current")]
  /\ UNCHANGED <<ws, entry, cont, disk, labelled, store, clock, last, saved, emptied, why>>

\* Docker keeps a volume that a container mounts, stopped or not.
RemoveVolumeWithContext(v) == IF Mounting(v) = {} THEN {v} ELSE {}

\* One volume after the other, whether or not the last could be removed.
RemoveVolume(c, v) ==
  LET gone == RemoveVolumeWithContext(v)
      less == cmd[c].left \ {v} IN
  /\ cmd[c].pc = "rm" /\ v \in cmd[c].left
  /\ disk' = Without(disk, gone) /\ labelled' = labelled \ gone /\ emptied' = emptied \ gone
  /\ cmd' = [Disturbed({c}, gone) EXCEPT
               ![c] = IF less = {} THEN Idle ELSE [@ EXCEPT !.left = less]]
  /\ UNCHANGED <<ws, entry, cont, store, clock, used, last, saved, why>>

\* What `raioz clean` may touch: raioz's own volumes, those of this project or,
\* with --all, of every one.
cleanScope(all) == {v \in labelled : all \/ v[3] = Me}

\* Docker's prune of those that no container mounts.
CleanUnusedVolumes(all) == {v \in cleanScope(all) : Mounting(v) = {}}

\* `raioz clean --volumes`, confirmed or forced.
CleanVolumes(c) ==
  /\ Begin(c)
  /\ \E all \in BOOLEAN :
       LET gone == CleanUnusedVolumes(all) IN
       /\ disk' = Without(disk, gone) /\ labelled' = labelled \ gone
       /\ emptied' = emptied \ gone
       /\ cmd' = Disturbed({c}, gone)
  /\ UNCHANGED <<ws, entry, cont, store, clock, last, saved, why>>

\* The process is killed; an export under way leaves part of an archive, a
\* WriteFile part of the metadata, a RemoveAll some of the files.
Kill(c) ==
  LET d == store[cmd[c].dir] IN
  /\ cmd[c].pc # "idle"
  /\ Bounded
  /\ why' = why \cup {"killed"} \cup
              (IF cmd[c].op = "delete" /\ cmd[c].pc = "remove" THEN {cmd[c].dir} ELSE {})
  /\ \/ UNCHANGED store
     \/ cmd[c].pc = "meta" /\ d.there /\ store' = TornMeta
     \/ /\ cmd[c].pc = "export" /\ d.there
        /\ \E v \in cmd[c].left : store' = [store EXCEPT !.current.arch = Put(@, {v}, Torn)]
     \/ /\ cmd[c].pc = "remove"
        /\ \E S \in SUBSET DOMAIN d.arch, keep \in BOOLEAN :
             store' = [store EXCEPT ![cmd[c].dir].arch = Without(@, S),
                         ![cmd[c].dir].done = keep /\ @,
                         ![cmd[c].dir].torn = keep /\ @,
                         ![cmd[c].dir].meta = IF keep THEN @ ELSE {}]
  /\ cmd' = [cmd EXCEPT ![c] = Idle]
  /\ UNCHANGED <<ws, entry, cont, disk, labelled, clock, last, saved, emptied>>

Step(c) ==
  \/ Create(c) \/ QuiesceList(c) \/ QuiesceStop(c)
  \/ \E v \in Volume : Export(c, v) \/ Wipe(c, v) \/ RemoveVolume(c, v)
  \/ ExportFails(c) \/ CreateMeta(c) \/ CreateMetaFails(c) \/ RemoveAll(c) \/ Resume(c)
  \/ Restore(c) \/ Untar(c) \/ Delete(c) \/ RemoveVolumes(c) \/ CleanVolumes(c)
  \/ Kill(c)

Next ==
  \/ \E c \in Cmd : Step(c)
  \/ \E d \in Deps : (\E p \in Projects : StartDep(p, d)) \/ RemoveDep(d) \/ Write(d)

Spec == Init /\ [][Next]_vars

-----------------------------------------------------------------------------
(* Properties.                                                             *)

\* Every variable has its type, and what containers and commands hold exists.
TypeOK ==
  /\ DOMAIN disk \subseteq Volume /\ Range(disk) \subseteq Data
  /\ labelled \subseteq DOMAIN disk /\ emptied \subseteq DOMAIN disk
  /\ \A d \in Deps : cont[d].st # "none" =>
       cont[d].st \in {"running", "stopped"} /\ cont[d].vol \in DOMAIN disk /\ cont[d].mem \in Data
  /\ \A s \in Stores : /\ (store[s].there \/ store[s] = NoDir)
                        /\ Range(store[s].arch) \subseteq Data
                        /\ store[s].meta \cup DOMAIN store[s].arch \subseteq Volume
  /\ \A c \in Cmd : cmd[c].pc # "idle" => cmd[c].stops \subseteq Deps /\ cmd[c].vols \subseteq Volume

Succeeding(c, op) == cmd[c].op = op /\ cmd[c].pc = "resume" /\ cmd[c].ok

\* A snapshot is one moment of all its volumes, taken with their engines
\* stopped: what it holds of each is what the volume held when the containers
\* had stopped, unless somebody started one of them, or changed a volume,
\* before the last copy was made, or worked on the same snapshot (quiesce.go).
SnapshotIsOneMoment ==
  \A c \in Cmd : Succeeding(c, "create") /\ cmd[c].calm /\ "overlap" \notin why =>
    \A v \in cmd[c].vols : store.current.arch[v] = cmd[c].moment[v]

\* A snapshot is of the data the dependencies work on: the volume each of them
\* used last is among those it copies, except in a workspace, where the command
\* does not know the names, for a dependency whose entry another one repeats,
\* and for one whose container is gone and whose entry compose was given in
\* another form.
SnapshotIsWhole ==
  [][\A c \in Cmd : cmd[c].pc = "idle" /\ cmd'[c].op = "create" =>
       \A d \in NamedDeps \cap DOMAIN last :
         \/ last[d] \in cmd'[c].vols
         \/ last[d] \notin DOMAIN disk
         \/ ws
         \/ cont[d].st = "none" /\ entry[d].norm # entry[d].src
         \/ \E e \in Deps \ {d} : entry[e] = entry[d]]_vars

\* What a create reported saved stays, file by file, until it is deleted: no
\* later create, failure or kill touches it.  When two commands were at work on
\* the name at once, other than restores, nothing is promised of it any more,
\* until a create that meets nobody begins a new one.
SavedStays ==
  saved # <<>> =>
    \/ /\ store.current.done /\ DOMAIN saved \subseteq DOMAIN store.current.arch
       /\ Restrict(store.current.arch, DOMAIN saved) = saved
    \/ "overlap" \in why

\* A restore that succeeds leaves in every volume what the archive holds, and
\* no engine that would write something else over it, unless somebody started
\* one, or changed a volume, meanwhile.
RestoreIsTheSnapshot ==
  \A c \in Cmd : Succeeding(c, "restore") /\ cmd[c].calm =>
    \A v \in cmd[c].vols : disk[v] = cmd[c].moment[v] /\ Running(v) = {}

\* What a restore wiped and did not fill again, since it failed or was killed, is
\* not lost: a snapshot on disk has its archive (listed or, a legacy one, shadowed
\* by a later create), unless a delete of that snapshot was asked for, and killed
\* half way if it is still there, or two commands worked on the name at once and
\* no create that met nobody has begun since.
WipedIsSaved ==
  \A v \in emptied : (\E s \in Stores : Archived(s, v)) \/ "overlap" \in why

\* A container that a snapshot command stopped runs again when the command is
\* over, whatever it came to, unless the command was killed, `docker stop` had
\* stopped only some of them, or `docker start` failed.
EnginesBack ==
  \A d \in Deps : cont[d].st = "stopped" =>
    \/ \E c \in Cmd : cmd[c].pc \in {"export", "meta", "wipe", "untar", "remove", "resume"}
                      /\ d \in cmd[c].stops
    \/ why \cap {"killed", "stop", "start"} # {}
=============================================================================
