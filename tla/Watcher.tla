-------------------------------- MODULE Watcher --------------------------------
(***************************************************************************)
(* `raioz up --watch`: files change, a debouncer turns the changes into    *)
(* restarts that run in goroutines of their own, and Ctrl+C takes the      *)
(* project down while some of them are still on their way.                 *)
(*                                                                         *)
(* A job is one timer of the debouncer and the callback it runs.  What a   *)
(* job does to a host service is cut at each point where another job, the  *)
(* teardown or a command in another terminal can come in between: taking   *)
(* the PID, stopping, spawning, the settle window, recording the PID and   *)
(* writing it to the state file.                                           *)
(***************************************************************************)
EXTENDS Naturals, Sequences, FiniteSets, SequencesExt, Functions

CONSTANTS
    Service,
    Path,        \* the directory of each service, a sequence of names
    Mode,        \* "watch", "native" or "off"
    Ported,      \* services that bind a fixed port
    Tree,        \* the directories that exist when the watch begins
    excludedDirs,
    Starts,      \* pairs of names of which the second begins like the first
    MaxChanges,  \* how many files are saved
    MaxOutside   \* how many services commands in another terminal have touched
                 \* before no more is run there

ASSUME WatcherAssumption ==
    /\ IsFiniteSet(Service)
    /\ Path \in [Service -> Seq(STRING)]
    /\ Mode \in [Service -> {"watch", "native", "off"}]
    /\ Ported \subseteq Service
    /\ \E s \in Service : Mode[s] = "watch"

VARIABLES
    src,       \* how often the sources of each service changed
    events,    \* directories with a change that the event loop has not read
    timers,    \* the debouncer's map: the job of each service, 0 for none
    jobs,      \* what every timer so far is doing
    procs,     \* host processes that are alive, by PID
    lastPid,
    recorded,  \* HostRunner.processes, 0 for none
    saved,     \* HostPIDs of the local state file
    file,      \* whether there is a local state file
    session,   \* where startWatcher is
    todo,      \* services that the teardown has not stopped yet
    told,      \* history: the version whose restart was reported to have failed
    why        \* history: services with restarts that overlapped, that a
               \* command in another terminal touched or that Ctrl+C cut short

vars == <<src, events, timers, jobs, procs, lastPid, recorded, saved, file,
          session, todo, told, why>>

--------------------------------------------------------------------------------
(* Which directory belongs to which service. *)

Inside(dir, root) ==
    /\ Len(root) <= Len(dir)
    /\ \A k \in DOMAIN root : dir[k] = root[k]

\* Every directory below the root of a watched service; a directory with an
\* excluded name is left out with all it holds.
addRecursive(root) ==
    {d \in Tree : /\ Inside(d, root)
                  /\ \A k \in Len(root)..Len(d) : k > 0 => d[k] \notin excludedDirs}

Watched == UNION {addRecursive(Path[s]) : s \in {t \in Service : Mode[t] = "watch"}}

\* The paths are compared as strings: the last name need only begin alike.
HasPrefix(dir, root) ==
    /\ root # <<>> => Len(root) <= Len(dir)
    /\ \A k \in DOMAIN root :
          \/ dir[k] = root[k]
          \/ k = Len(root) /\ <<root[k], dir[k]>> \in Starts

\* The service with the longest path, "" when there is none.
Resolve(dir) ==
    LET match == {s \in Service : Mode[s] # "off" /\ HasPrefix(dir, Path[s])}
        best == {s \in match : \A t \in match : Len(Path[t]) <= Len(Path[s])}
    IN IF best = {} THEN "" ELSE CHOOSE s \in best : TRUE

\* Whose sources a directory holds.
Owner(dir) ==
    LET match == {s \in Service : Inside(dir, Path[s])}
    IN {s \in match : \A t \in match : Len(Path[t]) <= Len(Path[s])}

Watching == {s \in Service : Mode[s] = "watch"}

--------------------------------------------------------------------------------
Job == [svc : Service, at : {"pending", "cancelled", "taking", "stopping", "spawning",
                             "settling", "cancelling", "recording", "saving",
                             "clearing", "done"},
        pid : Nat]

\* A restart that holds a service in its hands.
Busy(k) == jobs[k].at \notin {"pending", "cancelled", "clearing", "done"}
Step(k, where, pid) ==
    jobs' = [jobs EXCEPT ![k] = [svc |-> @.svc, at |-> where, pid |-> pid]]
Kill(P) == procs' = [x \in DOMAIN procs \ P |-> procs[x]]

\* A process for s, once those of P are dead.
Spawn(s, P) ==
    /\ lastPid' = lastPid + 1
    /\ procs' = [x \in (DOMAIN procs \ P) \cup {lastPid + 1} |->
                    IF x = lastPid + 1 THEN [svc |-> s, ver |-> src[s]] ELSE procs[x]]
Blame(S, cause) == why' = why \cup [svc : S, cause : {cause}]
Restarting(s) == \E k \in DOMAIN jobs : Busy(k) /\ jobs[k].svc = s

\* The session begins when `up` has started every service and released the
\* project lock.
Init ==
    /\ src = [s \in Service |-> 0]
    /\ events = {}
    /\ timers = [s \in Service |-> 0]
    /\ jobs = <<>>
    /\ lastPid = Cardinality(Service)
    /\ recorded = CHOOSE f \in Bijection(Service, 1..lastPid) : TRUE
    /\ procs = [x \in 1..lastPid |-> [svc |-> CHOOSE s \in Service : recorded[s] = x, ver |-> 0]]
    /\ saved = recorded
    /\ file = TRUE
    /\ session = "watching"
    /\ todo = {}
    /\ told = [s \in Service |-> 0]
    /\ why = {}

--------------------------------------------------------------------------------
(* Changes and the debouncer. *)

runRest == <<procs, lastPid, recorded, saved, file, session, todo>>

total == FoldFunction(+, 0, src)

\* Somebody saves a file, which no build wrote.  fsnotify reports it when the
\* directory is watched.
Change(dir) ==
    /\ session = "watching"
    /\ Range(dir) \cap excludedDirs = {}
    /\ total < MaxChanges
    /\ src' = [s \in Service |-> IF s \in Owner(dir) THEN src[s] + 1 ELSE src[s]]
    /\ events' = IF dir \in Watched THEN events \cup {dir} ELSE events
    /\ UNCHANGED <<timers, jobs, runRest, told, why>>

Trigger_OnceAtATime(s) ==
    /\ jobs' = IF timers[s] > 0 THEN jobs ELSE Append(jobs, [svc |-> s, at |-> "pending", pid |-> 0])
    /\ timers' = IF timers[s] > 0 THEN timers ELSE [timers EXCEPT ![s] = Len(jobs) + 1]

\* The timer of the service, if any, is stopped; one that has fired already
\* goes on.  A new one is set in any case.
Trigger(s) ==
    /\ jobs' = Append([k \in DOMAIN jobs |->
                          IF k = timers[s] /\ jobs[k].at = "pending"
                          THEN [jobs[k] EXCEPT !.at = "cancelled"] ELSE jobs[k]],
                      [svc |-> s, at |-> "pending", pid |-> 0])
    /\ timers' = [timers EXCEPT ![s] = Len(jobs) + 1]

\* One turn of the loop of Run, which ends with the context.
Run == \E dir \in events :
    /\ session = "watching"
    /\ events' = events \ {dir}
    /\ IF Resolve(dir) # "" THEN Trigger(Resolve(dir)) ELSE UNCHANGED <<jobs, timers>>
    /\ UNCHANGED <<src, runRest, told, why>>

--------------------------------------------------------------------------------
(* A restart.  The process of raioz is gone when the session is over, and  *)
(* its jobs with it.                                                       *)

Alive(k) == session # "over" /\ k \in DOMAIN jobs
watchRest == <<src, events, timers, session, todo>>

\* The timer fires; it stays in the map while its callback runs.
Fire(k) ==
    /\ Alive(k) /\ jobs[k].at = "pending"
    /\ Step(k, "taking", 0)
    /\ Blame({s \in {jobs[k].svc} : Restarting(s)}, "overlap")
    /\ UNCHANGED <<watchRest, procs, lastPid, recorded, saved, file, told>>

takePID(k) ==
    LET s == jobs[k].svc IN
    /\ Alive(k) /\ jobs[k].at = "taking"
    /\ Step(k, IF recorded[s] = 0 THEN "spawning" ELSE "stopping", recorded[s])
    /\ recorded' = [recorded EXCEPT ![s] = 0]
    /\ UNCHANGED <<watchRest, procs, lastPid, saved, file, told, why>>

StopProcessTree_LeaderOnly(k) ==
    /\ Alive(k) /\ jobs[k].at = "stopping"
    /\ Step(k, "spawning", 0)
    /\ UNCHANGED <<watchRest, procs, lastPid, recorded, saved, file, told, why>>

StopProcessTree(k) ==
    /\ Alive(k) /\ jobs[k].at = "stopping"
    /\ Kill({jobs[k].pid})
    /\ Step(k, "spawning", 0)
    /\ UNCHANGED <<watchRest, lastPid, recorded, saved, file, told, why>>

\* The child is not bound to the context: it is spawned after Ctrl+C as well,
\* and then killed by the first look at the context.
Start(k) ==
    /\ Alive(k) /\ jobs[k].at = "spawning"
    /\ Spawn(jobs[k].svc, {})
    /\ Step(k, IF session = "watching" THEN "settling" ELSE "cancelling", lastPid + 1)
    /\ UNCHANGED <<watchRest, recorded, saved, file, told, why>>

\* An earlier process of the service has the port.
PortHeld(k) ==
    /\ jobs[k].svc \in Ported
    /\ \E x \in DOMAIN procs : x < jobs[k].pid /\ procs[x].svc = jobs[k].svc

Settled(k) ==
    /\ Alive(k) /\ jobs[k].at = "settling"
    /\ jobs[k].pid \in DOMAIN procs /\ ~PortHeld(k)
    /\ Step(k, "recording", jobs[k].pid)
    /\ UNCHANGED <<watchRest, procs, lastPid, recorded, saved, file, told, why>>

\* The process ends within the settle window, which is reported.
ExitsEarly(k) ==
    /\ Alive(k) /\ jobs[k].at = "settling"
    /\ Kill({jobs[k].pid})
    /\ Step(k, "clearing", 0)
    /\ told' = [told EXCEPT ![jobs[k].svc] = src[jobs[k].svc]]
    /\ UNCHANGED <<watchRest, lastPid, recorded, saved, file, why>>

\* Ctrl+C within the window.
Cancelled(k) ==
    /\ Alive(k) /\ session # "watching"
    /\ jobs[k].at \in {"settling", "cancelling"}
    /\ Kill({jobs[k].pid})
    /\ Step(k, "clearing", 0)
    /\ UNCHANGED <<watchRest, lastPid, recorded, saved, file, told, why>>

recordPID(k) ==
    /\ Alive(k) /\ jobs[k].at = "recording"
    /\ recorded' = [recorded EXCEPT ![jobs[k].svc] = jobs[k].pid]
    /\ Step(k, "saving", 0)
    /\ UNCHANGED <<watchRest, procs, lastPid, saved, file, told, why>>

\* Whatever PID the runner has by now; nothing when there is none, or no file.
updateHostPID(k) ==
    LET s == jobs[k].svc IN
    /\ Alive(k) /\ jobs[k].at = "saving"
    /\ saved' = IF recorded[s] > 0 /\ file THEN [saved EXCEPT ![s] = recorded[s]] ELSE saved
    /\ Step(k, "clearing", 0)
    /\ UNCHANGED <<watchRest, procs, lastPid, recorded, file, told, why>>

\* The callback is over: the service's timer leaves the map, whichever it is.
Clear(k) ==
    /\ Alive(k) /\ jobs[k].at = "clearing"
    /\ timers' = [timers EXCEPT ![jobs[k].svc] = 0]
    /\ Step(k, "done", 0)
    /\ UNCHANGED <<src, events, session, todo, procs, lastPid, recorded, saved, file, told, why>>

Restart(k) ==
    \/ Fire(k) \/ takePID(k) \/ StopProcessTree(k) \/ Start(k) \/ Settled(k)
    \/ ExitsEarly(k) \/ Cancelled(k) \/ recordPID(k) \/ updateHostPID(k) \/ Clear(k)

--------------------------------------------------------------------------------
(* Ctrl+C cancels the context and wakes startWatcher. *)

Interrupt ==
    /\ session = "watching"
    /\ session' = "stopping"
    /\ todo' = Service
    /\ Blame({s \in Service : Restarting(s)}, "cut")
    /\ UNCHANGED <<src, events, timers, jobs, procs, lastPid, recorded, saved, file, told>>

stopAll_WaitsForPID == \E s \in todo :
    /\ session = "stopping" /\ recorded[s] > 0
    /\ todo' = todo \ {s}
    /\ Kill({recorded[s]})
    /\ recorded' = [recorded EXCEPT ![s] = 0]
    /\ UNCHANGED <<src, events, timers, jobs, lastPid, saved, file, session, told, why>>

stopAllServicesForShutdown == \E s \in todo :
    /\ session = "stopping"
    /\ todo' = todo \ {s}
    /\ Kill({recorded[s]})
    /\ recorded' = [recorded EXCEPT ![s] = 0]
    /\ UNCHANGED <<src, events, timers, jobs, lastPid, saved, file, session, told, why>>

ProjectDown_Nothing ==
    /\ session = "stopping" /\ todo = {}
    /\ session' = "closing"
    /\ UNCHANGED <<src, events, timers, jobs, procs, lastPid, recorded, saved, file, todo,
                   told, why>>

\* The project's own `down`: every PID of the state file, then the file.
ProjectDown ==
    /\ session = "stopping" /\ todo = {}
    /\ Kill({saved[s] : s \in Service})
    /\ saved' = [s \in Service |-> 0]
    /\ file' = FALSE
    /\ session' = "closing"
    /\ UNCHANGED <<src, events, timers, jobs, lastPid, recorded, todo, told, why>>

\* Close stops the timers of the map.
Close ==
    /\ session = "closing"
    /\ jobs' = [k \in DOMAIN jobs |->
                   IF jobs[k].at = "pending" /\ timers[jobs[k].svc] = k
                   THEN [jobs[k] EXCEPT !.at = "cancelled"] ELSE jobs[k]]
    /\ timers' = [s \in Service |-> 0]
    /\ session' = "closed"
    /\ Blame({s \in Service : Restarting(s)}, "cut")
    /\ UNCHANGED <<src, events, procs, lastPid, recorded, saved, file, todo, told>>

Exit ==
    /\ session = "closed"
    /\ session' = "over"
    /\ Blame({s \in Service : Restarting(s)}, "cut")
    /\ UNCHANGED <<src, events, timers, jobs, procs, lastPid, recorded, saved, file, todo, told>>

--------------------------------------------------------------------------------
(* Another terminal: `raioz restart s` and `raioz down` go by the state    *)
(* file and know nothing of the PIDs that the watching process keeps.      *)

outside == Cardinality({w \in why : w.cause \in {"restarted", "downed"}})

RestartElsewhere(s) ==
    /\ session = "watching" /\ file /\ outside < MaxOutside
    /\ Spawn(s, {saved[s]})
    /\ saved' = [saved EXCEPT ![s] = lastPid + 1]
    /\ why' = why \cup {[svc |-> s, cause |-> "restarted"]}
                  \cup [svc : {t \in {s} : Restarting(t)}, cause : {"overlap"}]
    /\ UNCHANGED <<src, events, timers, jobs, recorded, file, session, todo, told>>

DownElsewhere ==
    /\ session = "watching" /\ file /\ outside < MaxOutside
    /\ Kill({saved[s] : s \in Service})
    /\ saved' = [s \in Service |-> 0]
    /\ file' = FALSE
    /\ Blame(Service, "downed")
    /\ UNCHANGED <<src, events, timers, jobs, lastPid, recorded, session, todo, told>>

Teardown == stopAllServicesForShutdown \/ ProjectDown \/ Close \/ Exit

Next ==
    \/ \E dir \in Tree : Change(dir)
    \/ Run \/ Interrupt \/ Teardown \/ DownElsewhere
    \/ \E k \in DOMAIN jobs : Restart(k)
    \/ \E s \in Service : RestartElsewhere(s)

\* The event loop, the timers and the goroutines go on; the teardown has a
\* deadline.  Nobody has to save a file, press Ctrl+C or run a command.
Fairness ==
    /\ WF_vars(Run) /\ WF_vars(Teardown)
    /\ \A k \in 1..MaxChanges : WF_vars(k \in DOMAIN jobs /\ Restart(k))

Spec == Init /\ [][Next]_vars /\ Fairness

--------------------------------------------------------------------------------
(* Properties *)

Pid == 0..lastPid

JobsOK ==
    /\ jobs \in Seq(Job) /\ \A k \in DOMAIN jobs : jobs[k].pid \in Pid
    /\ timers \in [Service -> 0..Len(jobs)]
    /\ \A s \in Service : timers[s] > 0 => jobs[timers[s]].svc = s

ProcsOK ==
    /\ lastPid \in Nat
    /\ DOMAIN procs \subseteq 1..lastPid
    /\ procs \in [DOMAIN procs -> [svc : Service, ver : Nat]]
    /\ recorded \in [Service -> Pid] /\ saved \in [Service -> Pid]

WhyOK == why \subseteq [svc : Service, cause : {"overlap", "cut", "restarted", "downed"}]

TypeOK ==
    /\ JobsOK /\ ProcsOK /\ WhyOK
    /\ src \in [Service -> Nat] /\ told \in [Service -> Nat]
    /\ events \subseteq Tree
    /\ session \in {"watching", "stopping", "closing", "closed", "over"}
    /\ file \in BOOLEAN
    /\ todo \subseteq Service

Because(s, causes) == \E c \in causes : [svc |-> s, cause |-> c] \in why

\* A process that neither the runner nor the state file nor a restart under
\* way knows of, so that no command will ever stop it, comes from restarts of
\* one service that overlapped, or from a command in another terminal.
NobodysProcess ==
    session = "watching" =>
        \A x \in DOMAIN procs :
            LET s == procs[x].svc IN
            \/ x \in {recorded[s], saved[s]}
            \/ \E k \in DOMAIN jobs : Busy(k) /\ jobs[k].pid = x
            \/ Because(s, {"overlap"})
            \/ Because(s, {"restarted"}) /\ s \notin Ported

\* Leaving a watch session takes everything down, but for a service whose
\* restart was under way and for one that had slipped out before.
NothingLeftBehind ==
    session = "over" =>
        \A x \in DOMAIN procs :
            \/ Because(procs[x].svc, {"cut", "overlap"})
            \/ Because(procs[x].svc, {"restarted"}) /\ procs[x].svc \notin Ported

\* No change is lost: a service that is watched comes to run what was saved,
\* or its restart is reported to have failed, or the session ends.
NoChangeLost ==
    \A s \in Watching : \A v \in 1..MaxChanges :
        src[s] = v ~> \/ session # "watching"
                      \/ told[s] >= v \/ Because(s, {"downed"})
                      \/ \E x \in DOMAIN procs : procs[x].svc = s /\ procs[x].ver >= v

\* Ctrl+C ends the session.
TeardownEnds == session = "stopping" ~> session = "over"

--------------------------------------------------------------------------------
(* The inductive strengthening of NobodysProcess and NothingLeftBehind, one  *)
(* service at a time.                                                        *)

\* What holds of a service that no overlap and no Ctrl+C in the middle of a
\* restart has disturbed.
Calm(s) == ~Because(s, {"overlap", "cut"})
Apart(s) == Because(s, {"restarted"}) => s \in Ported

Hands(s) == {k \in DOMAIN jobs : Busy(k) /\ jobs[k].svc = s}
ProcsOf(s) == {x \in DOMAIN procs : procs[x].svc = s}
Owned(s) == {recorded[s]} \cup {jobs[k].pid : k \in Hands(s)}

OneRestart(s) == \A j, k \in Hands(s) : j = k

\* From the moment a restart takes the PID to the moment it records the next
\* one the runner has none, and the restart has it only while it lives.
HandedOver(s) == \A k \in Hands(s) :
    /\ jobs[k].at \in {"taking", "spawning", "saving"} => jobs[k].pid = 0
    /\ jobs[k].at \notin {"taking", "saving"} => recorded[s] = 0

\* Within the settle window a service has no younger process.
Youngest(s) == \A k \in Hands(s) :
    jobs[k].at = "settling" => \A x \in ProcsOf(s) : x <= jobs[k].pid

\* Past the window a restart, and without a restart elsewhere any service, has
\* only the process that the runner or the restart knows of.
AllOwned(s) ==
    (\/ ~Because(s, {"restarted"})
     \/ s \in Ported /\ \E k \in Hands(s) : jobs[k].at \in {"recording", "saving"})
    => ProcsOf(s) \subseteq Owned(s)

AllKnown(s) == Apart(s) => ProcsOf(s) \subseteq Owned(s) \cup {saved[s]}

\* Once Ctrl+C is pressed no restart comes past the spawn, and the runner loses
\* the PIDs one by one.
Leaving(s) == session # "watching" =>
    /\ \A k \in Hands(s) : jobs[k].at \in {"taking", "stopping", "spawning", "cancelling"}
    /\ s \notin todo => recorded[s] = 0

Gone(s) == session = "over" => Hands(s) = {}

Orderly(s) == /\ OneRestart(s) /\ HandedOver(s) /\ Youngest(s)
              /\ AllOwned(s) /\ AllKnown(s) /\ Leaving(s) /\ Gone(s)

NotCutYet == session = "watching" => \A s \in Service : ~Because(s, {"cut"})

Emptied == session \in {"closing", "closed", "over"} =>
    todo = {} /\ ~file /\ saved = [s \in Service |-> 0]

IInv == /\ TypeOK /\ NotCutYet /\ Emptied
        /\ \A s \in Service : Calm(s) => Orderly(s)

================================================================================
