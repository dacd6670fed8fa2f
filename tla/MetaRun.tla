-------------------------------- MODULE MetaRun --------------------------------
(***************************************************************************)
(* A `raioz.yaml` of `kind: meta` (ADR-041): `up`, `down` and `status` of  *)
(* a whole workspace, delegated to one raioz process for each project.     *)
(* `up` first clones the projects that are not on disk (ADR-048),          *)
(* publishes a route for those served elsewhere (ADR-049) and starts the   *)
(* edge router (ADR-037).  Each project it has brought up goes on a list   *)
(* for the ones that follow, which then start without a look at the        *)
(* siblings on the list.                                                   *)
(***************************************************************************)
EXTENDS Naturals, Sequences, FiniteSets, SequencesExt

CONSTANTS
    Project,     \* the project directories
    Base,        \* the last name of each path, which is what the list holds
    Named,       \* the `project:` each raioz.yaml declares
    Sibling,     \* the projects each one has as `project:` dependencies
    Launcher,    \* projects whose container appears after their `up` is over
    Unhygienic,  \* projects that ADR-036's gates turn down
    Configs,     \* meta configs as written
    Disks,       \* what is on disk to begin with
    Options,     \* the flags of `up`
    MaxCommands, \* how many commands the user runs
    MaxGone      \* how many projects go down by themselves or by another command

Mode == {"unset", "local", "clone", "skip", "remote"}

\* An entry of `projects:`; its mode is set when the file is loaded.
EntryOfFile ==
    [path : Project, git : BOOLEAN, branch : BOOLEAN, remote : STRING, hostname : BOOLEAN,
     optional : BOOLEAN, profiles : SUBSET STRING, mode : Mode]

ASSUME MetaRunAssumption ==
    /\ Base \in [Project -> STRING] /\ Named \in [Project -> STRING]
    /\ Sibling \in [Project -> SUBSET Project]
    /\ \A p \in Project : p \notin Sibling[p]
    /\ "" \notin Project
    /\ Launcher \subseteq Project
    /\ Disks \subseteq [Project -> {"absent", "half", "full"}]

ASSUME ConfigsAssumption ==
    \A raw \in Configs : raw.projects \in Seq(EntryOfFile) /\ raw.startOrder \in Seq(Project)

MaxAttempts == 3     \* of a clone (GitRetryConfig)

VARIABLES
    cfg,     \* the meta config
    disk,    \* a clone that was killed leaves half a working tree
    state,   \* what runs of each project
    routes,  \* projects with a route file written for a remote
    run,     \* the runner
    sub,     \* the raioz process of the project at hand
    count,   \* commands so far
    gone,    \* history: projects that went down since the run began
    lacking  \* history: <<p, q>>: p started on the word of the list with q down

vars == <<cfg, disk, state, routes, run, sub, count, gone, lacking>>
world == <<cfg, disk, state, routes, gone, lacking>>

--------------------------------------------------------------------------------
(* Loading: LoadMetaConfig *)

Paths(raw) == {raw.projects[k].path : k \in DOMAIN raw.projects}

\* An http or https URL with a host.
validateRemoteURL(remote) == remote \in {"none", "url"}

resolveMetaProject(e) ==
    /\ e.branch => e.git
    /\ e.hostname => e.remote # "none"
    /\ validateRemoteURL(e.remote)

Valid(raw) ==
    /\ raw.projects # <<>>
    /\ \A k \in DOMAIN raw.projects : resolveMetaProject(raw.projects[k])
    /\ Range(raw.startOrder) \subseteq Paths(raw)
    /\ IsInjective(raw.startOrder)

decideMetaMode(e) ==
    CASE disk[e.path] # "absent" -> "local"
      [] disk[e.path] = "absent" /\ e.git -> "clone"
      [] disk[e.path] = "absent" /\ ~e.git /\ e.remote # "none" -> "remote"
      [] disk[e.path] = "absent" /\ ~e.git /\ e.remote = "none" ->
            IF e.optional THEN "skip" ELSE "local"

\* The elements of s that are in K, in their order.
Kept(s, K) ==
    LET upTo[k \in 0..Len(s)] ==
          IF k = 0 THEN <<>>
          ELSE IF s[k] \in K THEN Append(upTo[k - 1], s[k]) ELSE upTo[k - 1]
    IN upTo[Len(s)]

LastOf(K) == CHOOSE k \in K : \A j \in K : j <= k

\* A path that is there twice stands for the last of its entries.
byPath(raw, p) == LastOf({k \in DOMAIN raw.projects : raw.projects[k].path = p})

\* The projects as the run has them: the pinned ones first, the others in the
\* order of the file.
Ordered(raw) ==
    LET pinned == [k \in DOMAIN raw.startOrder |-> byPath(raw, raw.startOrder[k])]
        rest == Kept([k \in DOMAIN raw.projects |-> k], Nat \ Range(pinned))
        order == pinned \o rest
    IN [k \in DOMAIN order |->
          [raw.projects[order[k]] EXCEPT !.mode = decideMetaMode(raw.projects[order[k]])]]

shouldIncludeMetaProject(e, active) == e.profiles = {} \/ e.profiles \cap active # {}

Included(projects, active) ==
    Kept(projects, {e \in Range(projects) : shouldIncludeMetaProject(e, active)})

\* The router has a turn of its own, before the others or, of a `down`, after
\* them; with --router-off it has none, and its entry is one as any other.
skipPath(kind, opts) == IF kind = "up" /\ opts.routerOff THEN "" ELSE cfg.router

Consumers_AndRouter(projects, kind, opts) ==
    IF kind = "down" THEN Reverse(projects) ELSE Included(projects, opts.active)

Consumers_NeverRouter(projects, kind, opts) ==
    LET others == Kept(projects, {e \in Range(projects) : e.path # cfg.router})
    IN IF kind = "down" THEN Reverse(others) ELSE Included(others, opts.active)

\* What a command goes through: `down` takes every profile, in reverse.
Consumers(projects, kind, opts) ==
    LET others == Kept(projects, {e \in Range(projects) : e.path # skipPath(kind, opts)})
    IN IF kind = "down" THEN Reverse(others) ELSE Included(others, opts.active)

NoOptions == [active |-> {}, noClone |-> FALSE, force |-> {}, audit |-> FALSE, routerOff |-> FALSE]
NoRun == [kind |-> "none", at |-> "idle", opts |-> NoOptions, projects |-> <<>>, next |-> 1,
          left |-> <<>>, tries |-> 0, hint |-> {}, ok |-> {}, failed |-> {}, error |-> FALSE,
          cancelled |-> FALSE]
NoSub == [proj |-> "", at |-> "none", trusted |-> {}, found |-> {}, spawn |-> {}]

Init ==
    /\ cfg \in Configs
    /\ disk \in Disks
    /\ state = [p \in Project |-> "down"]
    /\ routes = {}
    /\ run = NoRun
    /\ sub = NoSub
    /\ count = 0
    /\ gone = {}
    /\ lacking = {}

--------------------------------------------------------------------------------
(* The runner *)

Goto(where) == run' = [run EXCEPT !.at = where]
Abort(p) == run' = [run EXCEPT !.at = "end", !.error = TRUE, !.failed = @ \cup {p}]

tryHandleMeta(kind, opts) ==
    /\ run.at = "idle" /\ count < MaxCommands
    /\ count' = count + 1
    /\ run' = IF ~Valid(cfg) THEN [NoRun EXCEPT !.kind = kind, !.at = "end", !.error = TRUE]
              ELSE [NoRun EXCEPT !.kind = kind, !.opts = opts, !.projects = Ordered(cfg),
                                 !.at = CASE kind = "up" -> "audit"
                                          [] kind = "status" -> "router"
                                          [] kind = "down" -> "subs",
                                 !.left = IF kind = "down"
                                          THEN Consumers(Ordered(cfg), "down", NoOptions) ELSE <<>>]
    /\ UNCHANGED <<world, sub>>

\* --audit-siblings: every project that has a raioz.yaml must pass the gates.
auditMetaTargets ==
    LET targets == {p \in Paths(cfg) \cup {cfg.router} : p \in Project /\ disk[p] = "full"} IN
    /\ run.at = "audit"
    /\ IF run.opts.audit /\ targets \cap Unhygienic # {}
       THEN \E p \in targets \cap Unhygienic : Abort(p)
       ELSE Goto("force")
    /\ UNCHANGED <<world, sub, count>>

\* --force-remote, a name that is unknown or has no remote being an error; of
\* two projects with the name the last one is meant.
byName(n) == LastOf({k \in DOMAIN run.projects : Base[run.projects[k].path] = n})

applyForceRemote ==
    LET names == {Base[run.projects[k].path] : k \in DOMAIN run.projects}
        forced == {byName(n) : n \in run.opts.force \cap names}
        fails == \/ ~(run.opts.force \subseteq names)
                 \/ \E k \in forced : run.projects[k].remote = "none" IN
    /\ run.at = "force"
    /\ IF fails THEN run' = [run EXCEPT !.at = "end", !.error = TRUE]
       ELSE run' = [run EXCEPT
              !.projects = [k \in DOMAIN @ |->
                              IF k \in forced THEN [@[k] EXCEPT !.mode = "remote"] ELSE @[k]],
              !.at = IF run.opts.noClone THEN "router" ELSE "bootstrap"]
    /\ UNCHANGED <<world, sub, count>>

\* The bootstrap goes through every project, whatever its profile.
Cloning == run.projects[run.next]
Bootstrapping(mode) ==
    run.at = "bootstrap" /\ run.next \in DOMAIN run.projects /\ Cloning.mode = mode
SetMode(mode) == run' = [run EXCEPT !.projects[run.next].mode = mode, !.tries = 0]
NextEntry(mode) ==
    run' = [run EXCEPT !.projects[run.next].mode = mode, !.tries = 0, !.next = @ + 1]

bootstrapPass ==
    /\ run.at = "bootstrap"
    /\ IF run.next \notin DOMAIN run.projects THEN Goto("router")
       ELSE Cloning.mode \in {"local", "skip"} /\ run' = [run EXCEPT !.next = @ + 1]
    /\ UNCHANGED <<world, sub, count>>

\* git removes what it made when it fails, and cannot when the time is up and
\* it is killed.  Only a failure that looks transient is tried again.
cloneOK ==
    /\ Bootstrapping("clone")
    /\ disk' = [disk EXCEPT ![Cloning.path] = "full"]
    /\ SetMode("local")
    /\ UNCHANGED <<cfg, state, routes, gone, lacking, sub, count>>

cloneAgain ==
    /\ Bootstrapping("clone") /\ run.tries + 1 < MaxAttempts
    /\ run' = [run EXCEPT !.tries = @ + 1]
    /\ UNCHANGED <<world, sub, count>>

cloneFails_Unpublished == \E left \in {"absent", "half", "full"} :
    /\ Bootstrapping("clone")
    /\ disk' = [disk EXCEPT ![Cloning.path] = left]
    /\ CASE Cloning.remote # "none" -> NextEntry("remote")
         [] Cloning.remote = "none" /\ Cloning.optional -> NextEntry("skip")
         [] Cloning.remote = "none" /\ ~Cloning.optional -> Abort(Cloning.path)
    /\ UNCHANGED <<cfg, state, routes, gone, lacking, sub, count>>

\* The clone fails, is killed, or is there and its branch cannot be verified.
cloneFails == \E left \in {"absent", "half", "full"} :
    /\ Bootstrapping("clone")
    /\ disk' = [disk EXCEPT ![Cloning.path] = left]
    /\ CASE Cloning.remote # "none" -> SetMode("remote")
         [] Cloning.remote = "none" /\ Cloning.optional -> NextEntry("skip")
         [] Cloning.remote = "none" /\ ~Cloning.optional -> Abort(Cloning.path)
    /\ UNCHANGED <<cfg, state, routes, gone, lacking, sub, count>>

\* The route file takes a workspace; writing it may fail as well.
publishRemote == \E ok \in BOOLEAN :
    /\ Bootstrapping("remote") /\ (ok => cfg.workspace)
    /\ routes' = IF ok THEN routes \cup {Cloning.path} ELSE routes
    /\ CASE ok -> NextEntry("remote")
         [] ~ok /\ Cloning.optional -> NextEntry("skip")
         [] ~ok /\ ~Cloning.optional -> Abort(Cloning.path)
    /\ UNCHANGED <<cfg, disk, state, gone, lacking, sub, count>>

\* A process in the directory of the project, unless it is not there or the
\* context is cancelled.
runSingle(p, where) ==
    /\ sub' = [NoSub EXCEPT !.proj = p,
                            !.at = IF run.cancelled \/ disk[p] = "absent" THEN "failed"
                                   ELSE IF run.kind = "up" THEN "decide" ELSE run.kind]
    /\ Goto(where)

\* The loop over the projects begins.
Loop(ran) == [ran EXCEPT !.at = "subs",
                         !.left = Consumers(ran.projects, ran.kind, ran.opts)]

Router ==
    /\ run.at = "router" /\ sub.at = "none"
    /\ IF cfg.router \in Project /\ ~run.opts.routerOff
       THEN runSingle(cfg.router, "routing")
       ELSE run' = Loop(run) /\ UNCHANGED sub
    /\ UNCHANGED <<world, count>>

\* Without the router `up` is over; `status` only reports it.
RouterDone ==
    /\ run.at = "routing" /\ sub.at \in {"ok", "failed"}
    /\ CASE run.kind = "up" /\ sub.at = "failed" -> Abort(sub.proj)
         [] run.kind = "up" /\ sub.at = "ok" ->
              run' = Loop([run EXCEPT !.hint = @ \cup {Base[sub.proj]}, !.ok = @ \cup {sub.proj}])
         [] run.kind = "status" /\ sub.at = "failed" ->
              run' = Loop([run EXCEPT !.failed = @ \cup {sub.proj}, !.error = TRUE])
         [] run.kind = "status" /\ sub.at = "ok" ->
              run' = Loop([run EXCEPT !.ok = @ \cup {sub.proj}])
    /\ sub' = NoSub
    /\ UNCHANGED <<world, count>>

Entry == Head(run.left)

\* One turn of the loop.  What the bootstrap dropped or published is passed
\* over; so is a project that is not there and is optional.
Turn ==
    /\ run.at = "subs" /\ sub.at = "none" /\ run.left # <<>>
    /\ LET e == Entry IN
       IF \/ e.mode \in {"skip", "remote"}
          \/ disk[e.path] = "absent" /\ e.optional
       THEN run' = [run EXCEPT !.left = Tail(@)] /\ UNCHANGED sub
       ELSE runSingle(e.path, "subs")
    /\ UNCHANGED <<world, count>>

Return_FailedToo ==
    LET e == Entry IN
    /\ run.at = "subs" /\ sub.at \in {"ok", "failed"} /\ run.left # <<>>
    /\ sub' = NoSub
    /\ CASE sub.at = "ok" \/ (run.kind = "up" /\ e.optional) ->
              run' = [run EXCEPT !.left = Tail(@), !.ok = @ \cup {e.path},
                                 !.hint = IF run.kind = "up" THEN @ \cup {Base[e.path]} ELSE @]
         [] sub.at = "failed" /\ run.kind # "up" ->
              run' = [run EXCEPT !.left = Tail(@), !.failed = @ \cup {e.path}, !.error = TRUE]
         [] sub.at = "failed" /\ run.kind = "up" /\ ~e.optional -> Abort(e.path)
    /\ UNCHANGED <<world, count>>

\* A failure is tolerated in an optional project, and in any by `down` and
\* `status`; the first other one ends the run.
Return ==
    LET e == Entry IN
    /\ run.at = "subs" /\ sub.at \in {"ok", "failed"} /\ run.left # <<>>
    /\ sub' = NoSub
    /\ CASE sub.at = "ok" ->
              run' = [run EXCEPT !.left = Tail(@), !.ok = @ \cup {e.path},
                                 !.hint = IF run.kind = "up" THEN @ \cup {Base[e.path]} ELSE @]
         [] sub.at = "failed" /\ run.kind = "up" /\ e.optional ->
              run' = [run EXCEPT !.left = Tail(@), !.failed = @ \cup {e.path}]
         [] sub.at = "failed" /\ run.kind # "up" ->
              run' = [run EXCEPT !.left = Tail(@), !.failed = @ \cup {e.path}, !.error = TRUE]
         [] sub.at = "failed" /\ run.kind = "up" /\ ~e.optional -> Abort(e.path)
    /\ UNCHANGED <<world, count>>

\* `down` ends with the router.
LastTurn ==
    /\ run.at = "subs" /\ sub.at = "none" /\ run.left = <<>>
    /\ IF run.kind = "down" /\ cfg.router \in Project
       THEN runSingle(cfg.router, "edge")
       ELSE Goto("end") /\ UNCHANGED sub
    /\ UNCHANGED <<world, count>>

EdgeDone ==
    /\ run.at = "edge" /\ sub.at \in {"ok", "failed"}
    /\ IF sub.at = "failed" THEN Abort(sub.proj) ELSE Goto("end")
    /\ sub' = NoSub
    /\ UNCHANGED <<world, count>>

Done ==
    /\ run.at = "end"
    /\ run' = NoRun
    /\ gone' = {} /\ lacking' = {}
    /\ UNCHANGED <<cfg, disk, state, routes, sub, count>>

Runner ==
    \/ auditMetaTargets \/ applyForceRemote \/ bootstrapPass \/ cloneOK \/ cloneAgain
    \/ cloneFails \/ publishRemote \/ Router \/ RouterDone \/ Turn \/ Return \/ LastTurn
    \/ EdgeDone \/ Done

--------------------------------------------------------------------------------
(* The process of one project *)

Started(p) == IF p \in Launcher THEN "starting" ELSE "up"
SubGoto(where) == sub' = [sub EXCEPT !.at = where]
Stays == UNCHANGED <<cfg, disk, routes, run, count, gone>>

metaAlreadyCompleted(q) == Named[q] \in run.hint

\* Siblings on the list are taken for up; the others are looked at.
decideModeA ==
    /\ sub.at = "decide"
    /\ LET deps == Sibling[sub.proj]
           trusted == {q \in deps : metaAlreadyCompleted(q)}
           found == {q \in deps \ trusted : state[q] = "up"} IN
       IF disk[sub.proj] = "half" \/ \E q \in deps : disk[q] # "full"
       THEN SubGoto("failed")
       ELSE sub' = [sub EXCEPT !.at = "verify", !.trusted = trusted, !.found = found,
                               !.spawn = deps \ (trusted \cup found)]
    /\ Stays /\ UNCHANGED <<state, lacking>>

verifySiblingsStillUp ==
    /\ sub.at = "verify"
    /\ SubGoto(IF \A q \in sub.found : state[q] = "up" THEN "start" ELSE "failed")
    /\ Stays /\ UNCHANGED <<state, lacking>>

spawnSibling == \E q \in sub.spawn, ok \in BOOLEAN :
    /\ sub.at = "start"
    /\ state' = IF ok THEN [state EXCEPT ![q] = Started(q)] ELSE state
    /\ sub' = IF ok THEN [sub EXCEPT !.spawn = @ \ {q}] ELSE [sub EXCEPT !.at = "failed"]
    /\ Stays /\ UNCHANGED lacking

\* The services start, or one of them does not.
SubStarts == \E ok \in BOOLEAN :
    /\ sub.at = "start" /\ sub.spawn = {}
    /\ SubGoto(IF ok THEN "ok" ELSE "failed")
    /\ state' = IF ok THEN [state EXCEPT ![sub.proj] = Started(sub.proj)] ELSE state
    /\ lacking' = lacking \cup {<<sub.proj, q>> : q \in {r \in sub.trusted : state[r] = "down"}}
    /\ Stays

SubStops == \E ok \in BOOLEAN :
    /\ sub.at = "down"
    /\ SubGoto(IF ok THEN "ok" ELSE "failed")
    /\ state' = IF ok THEN [state EXCEPT ![sub.proj] = "down"] ELSE state
    /\ Stays /\ UNCHANGED lacking

SubReports == \E ok \in BOOLEAN :
    /\ sub.at = "status"
    /\ SubGoto(IF ok THEN "ok" ELSE "failed")
    /\ Stays /\ UNCHANGED <<state, lacking>>

Working == sub.at \in {"decide", "verify", "start", "down", "status"}

Deadline_Never == FALSE /\ UNCHANGED vars

\* RAIOZ_META_SUB_TIMEOUT: the process is killed, whatever it has done so far.
Deadline ==
    /\ Working
    /\ SubGoto("failed")
    /\ \E partly \in BOOLEAN :
          state' = IF partly /\ sub.at = "start" THEN [state EXCEPT ![sub.proj] = Started(sub.proj)]
                   ELSE IF partly /\ sub.at = "down" THEN [state EXCEPT ![sub.proj] = "down"]
                   ELSE state
    /\ Stays /\ UNCHANGED lacking

\* Ctrl+C reaches the process at hand as well; the runner goes on.
Interrupt ==
    /\ run.at \notin {"idle", "end"} /\ ~run.cancelled
    /\ run' = [run EXCEPT !.cancelled = TRUE]
    /\ SubGoto(IF Working THEN "failed" ELSE sub.at)
    /\ UNCHANGED <<world, count>>

--------------------------------------------------------------------------------
(* Other commands, and projects by themselves *)

Materialise(p) ==
    /\ state[p] = "starting"
    /\ state' = [state EXCEPT ![p] = "up"]
    /\ UNCHANGED <<cfg, disk, routes, run, sub, count, gone, lacking>>

GoesDown(p) ==
    /\ state[p] # "down" /\ Cardinality(gone) < MaxGone /\ run.at # "idle"
    /\ state' = [state EXCEPT ![p] = "down"]
    /\ gone' = gone \cup {p}
    /\ UNCHANGED <<cfg, disk, routes, run, sub, count, lacking>>

Child == decideModeA \/ verifySiblingsStillUp \/ spawnSibling \/ SubStarts \/ SubStops \/ SubReports

Next ==
    \/ \E o \in Options : tryHandleMeta("up", o)
    \/ tryHandleMeta("down", NoOptions) \/ tryHandleMeta("status", NoOptions)
    \/ Runner \/ Child \/ Deadline \/ Interrupt
    \/ \E p \in Project : Materialise(p) \/ GoesDown(p)

\* The runner goes on and its deadline comes; a process may hang for ever.
Spec == Init /\ [][Next]_vars /\ WF_vars(Runner) /\ WF_vars(Deadline)

--------------------------------------------------------------------------------
(* Properties *)

Run ==
    [kind : {"none", "up", "down", "status"},
     at : {"idle", "audit", "force", "bootstrap", "router", "routing", "subs", "edge", "end"},
     opts : Options \cup {NoOptions}, projects : Seq(EntryOfFile), next : Nat,
     left : Seq(EntryOfFile), tries : 0..MaxAttempts - 1, hint : SUBSET STRING,
     ok : SUBSET Project, failed : SUBSET Project, error : BOOLEAN, cancelled : BOOLEAN]

Sub ==
    [proj : Project \cup {""},
     at : {"none", "decide", "verify", "start", "down", "status", "ok", "failed"},
     trusted : SUBSET Project, found : SUBSET Project, spawn : SUBSET Project]

TypeOK ==
    /\ cfg \in Configs
    /\ disk \in [Project -> {"absent", "half", "full"}]
    /\ state \in [Project -> {"down", "starting", "up"}]
    /\ routes \subseteq Project
    /\ run \in Run
    /\ sub \in Sub
    /\ count \in Nat
    /\ gone \subseteq Project
    /\ lacking \subseteq Project \X Project

\* An `up` of the workspace that reports success has brought up the router,
\* unless it was turned off, and every project that was asked for and is not
\* optional, the router's among them whether it was turned off or not, or has
\* published a route to where the project is served; a project may have gone
\* down since.  The exception is --no-clone, which drops the routes too.
SuccessMeansUp ==
    run.kind = "up" /\ run.at = "end" /\ ~run.error =>
        /\ cfg.router \in Project /\ ~run.opts.routerOff =>
              state[cfg.router] # "down" \/ cfg.router \in gone
        /\ \A e \in Range(run.projects) :
              shouldIncludeMetaProject(e, run.opts.active) /\ ~e.optional =>
                 \/ state[e.path] # "down"
                 \/ e.path \in gone
                 \/ e.mode = "remote" /\ (e.path \in routes \/ run.opts.noClone)

\* A project that starts without a look at a sibling, because the list says
\* that it is up, finds it up; the sibling may have gone down since, or it may
\* be another one, with the name that a project on the list has for directory.
HintHolds ==
    \A d \in lacking :
        \/ d[2] \in gone
        \/ \E x \in run.ok : x # d[2] /\ Base[x] = Named[d[2]]

\* The router is the last to go: when `down` stops it, no project of the
\* workspace is up, but for one whose own `down` failed.
EdgeOutlives ==
    [][cfg.router \in Project /\ run.kind = "down" /\ sub.proj = cfg.router
            /\ state[cfg.router] # "down" /\ state'[cfg.router] = "down" =>
         \A p \in Paths(cfg) : p = cfg.router \/ state[p] = "down" \/ p \in run.failed]_vars

\* A command ends although a project may hang.
RunEnds == run.at # "idle" ~> run.at = "idle"

--------------------------------------------------------------------------------
(* The inductive invariant of the safety properties. *)

\* The runner and the process at hand are where each says that the other is.
Places ==
    /\ run.kind = "none" <=> run.at = "idle"
    /\ run.at = "idle" => lacking = {}
    /\ run.at \in {"audit", "force", "bootstrap"} => run.kind = "up"
    /\ run.at \in {"router", "routing"} => run.kind \in {"up", "status"}
    /\ run.at = "edge" => run.kind = "down"
    /\ sub.at = "none" => sub = NoSub
    /\ sub.at # "none" => run.at \in {"routing", "subs", "edge"} /\ sub.proj \in Project
    /\ sub.at \in {"decide", "verify", "start"} => run.kind = "up"
    /\ sub.at \in {"down", "status"} => run.kind = sub.at
    /\ run.at \in {"routing", "edge"} => sub.at # "none" /\ sub.proj = cfg.router
    /\ run.at = "subs" /\ sub.at # "none" => run.left # <<>> /\ sub.proj = Entry.path
    /\ run.at = "subs" /\ run.kind = "down" =>
          \A k \in DOMAIN run.left : run.left[k].path # cfg.router

\* What runs is on disk, and so is what is about to start.
OnDisk ==
    /\ \A p \in Project : state[p] # "down" => disk[p] = "full"
    /\ sub.at = "decide" => disk[sub.proj] # "absent"
    /\ sub.at \in {"verify", "start"} =>
          disk[sub.proj] = "full" /\ \A q \in sub.spawn : disk[q] = "full"

\* p is up, or was during this run.
Served(p) == state[p] # "down" \/ p \in gone

\* The list has the names of what the run has brought up.
ListTrue ==
    /\ \A h \in run.hint : \E x \in run.ok : Base[x] = h
    /\ sub.at \in {"verify", "start"} => \A q \in sub.trusted : Named[q] \in run.hint
    /\ run.kind = "up" => \A x \in run.ok : Served(x)
    /\ run.kind = "up" /\ sub.at = "ok" => Served(sub.proj)
    /\ run.kind = "down" /\ sub.at = "ok" => state[sub.proj] = "down"

\* Only what is optional is dropped, what is to be cloned is down, and what is
\* served elsewhere has its route once the bootstrap has passed it; `down`
\* passes over what is not there.
ModesTrue ==
    /\ run.next >= 1 /\ (run.at \in {"audit", "force"} => run.next = 1)
    /\ \A k \in DOMAIN run.projects : run.projects[k].mode = "skip" => run.projects[k].optional
    /\ run.at \in {"audit", "force", "bootstrap"} => \A k \in DOMAIN run.projects :
          run.projects[k].mode = "clone" => state[run.projects[k].path] = "down"
    /\ run.kind = "up" =>
          \A k \in DOMAIN run.projects : run.projects[k].mode = "remote" =>
             \/ run.projects[k].path \in routes
             \/ run.opts.noClone \/ run.error
             \/ run.at \in {"audit", "force"}
             \/ run.at = "bootstrap" /\ run.next <= k
    /\ run.kind = "down" => \A k \in DOMAIN run.left :
          run.left[k].mode \in {"skip", "remote"} => disk[run.left[k].path] = "absent"

\* What the options of an `up` ask for, and whether it has been seen to.
Wanted(e) == shouldIncludeMetaProject(e, run.opts.active) /\ ~e.optional

Settled(e) ==
    \/ Served(e.path)
    \/ e.mode = "remote" /\ (e.path \in routes \/ run.opts.noClone)

\* What the loop has passed is settled, and when it is over all is.
UpSoFar ==
    run.kind = "up" /\ run.at \in {"subs", "end"} /\ ~run.error =>
        /\ cfg.router \in Project /\ ~run.opts.routerOff => Served(cfg.router)
        /\ \A k \in DOMAIN run.projects : Wanted(run.projects[k]) =>
              \/ Settled(run.projects[k])
              \/ run.at = "subs" /\ run.projects[k] \in Range(run.left)

\* The same of `down`.
DownSoFar ==
    run.kind = "down" /\ run.at \in {"subs", "edge"} =>
        \A p \in Paths(cfg) :
            \/ p = cfg.router \/ state[p] = "down" \/ p \in run.failed
            \/ run.at = "subs" /\ \E k \in DOMAIN run.left : run.left[k].path = p

IInv == TypeOK /\ Places /\ OnDisk /\ ListTrue /\ ModesTrue /\ UpSoFar /\ DownSoFar /\ HintHolds
================================================================================
