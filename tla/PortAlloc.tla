------------------------------- MODULE PortAlloc -------------------------------
(***************************************************************************)
(* Host ports: which port each service and published dependency of a       *)
(* project gets, and what becomes of that choice.                          *)
(*                                                                         *)
(* `up` chooses under a lock that is global to the machine, asks the user  *)
(* about the ports that are bound by others, and releases the lock.  Only  *)
(* then does it start containers, which bind at once, and host processes,  *)
(* which bind when they are ready.  `restart` chooses again, with no lock  *)
(* and for one service.                                                    *)
(*                                                                         *)
(* `down --conflicting`, `down --all-projects` and `down --all` stop other *)
(* projects, as far as Docker lists them or the global state records them. *)
(*                                                                         *)
(* The configuration of a project is a sequence of items in the order of   *)
(* their names, each made by one of the operators HostService to           *)
(* LegacyDep.                                                              *)
(***************************************************************************)
EXTENDS Naturals, Sequences, FiniteSets, SequencesExt

CONSTANTS
    Project,
    Plans,       \* what the projects may be configured as, a set of functions
    Shared,      \* names of the dependencies that a workspace has one of
    Ceiling,     \* privilegedPortCeiling: lower ports are not for raioz
    LastPort,    \* 65535
    NoLockDir,   \* projects whose user cannot create the lock file
    Elsewhere,   \* projects whose configuration is not called raioz.yaml
    Typed,       \* the ports a user may type when asked for one
    MaxEdits,    \* how often somebody edits a configuration
    Contested,   \* the ports that an unrelated program may bind
    Workspace, Nobody, Intruder

ASSUME PortAllocAssumption ==
    /\ LastPort \in Nat /\ Ceiling \in 1..LastPort
    /\ NoLockDir \cup Elsewhere \subseteq Project
    /\ Typed \cup Contested \subseteq 1..LastPort
    /\ {Workspace, Nobody, Intruder} \cap Project = {}

VARIABLES
    cfg,       \* raioz.yaml of each project
    occ,       \* who is bound to each port
    known,     \* the active projects in the global state
    life,      \* what runs: on, the ports it was told, what it was made from
    portsLock,      \* who holds ports.lock
    pc,        \* where the `up` of each project is
    alloc,     \* PortAllocResult of its last `up`
    todo,      \* port bind conflicts not yet resolved
    left,      \* items not yet started
    adopted,   \* host services that ran already when the `up` began
    why,       \* history: what happened to an item around the choice of its port
    edits

portVars == <<cfg, occ, known, life, portsLock, pc, alloc, todo, left, adopted, why, edits>>

Port == 1..LastPort

--------------------------------------------------------------------------------
(* What a configuration may declare. *)

HostService(name, port, infer) ==
    [name |-> name, kind |-> "host", port |-> port, infer |-> infer]
DockerService(name, port) ==
    [name |-> name, kind |-> "docker", port |-> port]
PinnedDep(name, hosts, expose) ==
    [name |-> name, kind |-> "pinned", hosts |-> hosts, expose |-> expose]
AutoDep(name, expose) ==
    [name |-> name, kind |-> "auto", expose |-> expose]
\* A spec of the old `ports:` list; host = 0 when it names no host port,
\* plain = FALSE for the shapes that the allocator leaves alone.
LegacyDep(name, specs) ==
    [name |-> name, kind |-> "legacy", specs |-> specs]
SiblingDep(name) ==
    [name |-> name, kind |-> "sibling"]

Names(c) == {c[k].name : k \in DOMAIN c}
ItemOf(c, n) == CHOOSE i \in Range(c) : i.name = n
IsService(i) == i.kind \in {"host", "docker"}
IsDep(i) == ~IsService(i)

Lowest(S) == IF S = {} THEN 0 ELSE CHOOSE x \in S : \A y \in S : x <= y

\* The first of the declared ports, the .env file and the default of the
\* runtime that says something; 0 when none does.
inferServicePort(i) ==
    LET said == {k \in DOMAIN i.infer : i.infer[k] > 0}
    IN IF said = {} THEN 0 ELSE i.infer[Lowest(said)]

\* The container, or process, that an item of a project stands for.
Key(p, n) == [owner |-> IF n \in Shared THEN Workspace ELSE p, name |-> n]
Keys == {Key(p, n) : p \in Project,
                     n \in UNION {Names(f[q]) : f \in Plans, q \in Project}}

DeclaredPort == 0..LastPort

\* The fields of an item are of the types of the file, with ports that exist,
\* and a service does not bear the name of a dependency of the workspace.
Item(i) ==
    CASE i.kind = "host" ->
            /\ i \in [name : {i.name}, kind : {"host"}, port : DeclaredPort, infer : Seq(DeclaredPort)]
            /\ i.name \notin Shared
      [] i.kind = "docker" ->
            /\ i \in [name : {i.name}, kind : {"docker"}, port : DeclaredPort]
            /\ i.name \notin Shared
      [] i.kind = "pinned" ->
            /\ i \in [name : {i.name}, kind : {"pinned"}, hosts : Seq(Port), expose : Seq(Port)]
            /\ i.hosts # <<>>
      [] i.kind = "auto" -> i \in [name : {i.name}, kind : {"auto"}, expose : Seq(Port)]
      [] i.kind = "legacy" ->
            /\ i \in [name : {i.name}, kind : {"legacy"},
                      specs : Seq([host : DeclaredPort, cont : Port, plain : BOOLEAN])]
            /\ i.specs # <<>>
      [] OTHER -> i \in [name : {i.name}, kind : {"sibling"}]

\* Names are unique in a file.
Config(c) ==
    /\ c \in Seq(Range(c))
    /\ \A k \in DOMAIN c : Item(c[k])
    /\ \A j, k \in DOMAIN c : c[j].name = c[k].name => j = k

ASSUME PlansAssumption ==
    /\ \A f \in Plans : DOMAIN f = Project /\ \A p \in Project : Config(f[p])
    /\ {Nobody, Intruder} \cap Keys = {}

--------------------------------------------------------------------------------
(* The allocator.  A request is a host port, 0 if it is negotiable, and    *)
(* the port that is wanted, or the one inside the container.               *)

parseLegacyPortSpec(s) == s.plain

Pass(i) ==
    CASE i.kind = "host" /\ i.port > 0 -> 1
      [] i.kind = "pinned" -> 2
      [] i.kind = "host" /\ i.port = 0 /\ inferServicePort(i) > 0 -> 3
      [] i.kind = "auto" -> 4
      [] i.kind = "legacy" /\ \A k \in DOMAIN i.specs : parseLegacyPortSpec(i.specs[k]) -> 5
      [] OTHER -> 0

assignExplicitDepPorts(i) ==
    [k \in DOMAIN i.hosts |->
        [host |-> i.hosts[k],
         cont |-> IF k \in DOMAIN i.expose THEN i.expose[k] ELSE i.hosts[k]]]
assignAutoDepPorts(i) ==
    [k \in DOMAIN i.expose |-> [host |-> 0, cont |-> i.expose[k]]]
assignLegacyDepPorts(i) ==
    [k \in DOMAIN i.specs |-> [host |-> i.specs[k].host, cont |-> i.specs[k].cont]]

Requests(i) ==
    CASE i.kind = "host" ->
            <<[host |-> i.port, cont |-> IF i.port > 0 THEN i.port ELSE inferServicePort(i)]>>
      [] i.kind = "pinned" -> assignExplicitDepPorts(i)
      [] i.kind = "auto" -> assignAutoDepPorts(i)
      [] i.kind = "legacy" -> assignLegacyDepPorts(i)
      [] OTHER -> <<>>

\* The passes go one after another over the items, each in the order of names.
Earlier(c, k) ==
    {j \in DOMAIN c : /\ Pass(c[j]) > 0
                      /\ Pass(c[j]) < Pass(c[k]) \/ (Pass(c[j]) = Pass(c[k]) /\ j < k)}

findFreePort(wanted, taken, busy) ==
    Lowest({x \in Port : x >= wanted /\ x >= Ceiling /\ x \notin taken /\ x \notin busy})

heldPort_Taken(owned, wanted, taken) == Lowest({x \in owned : x >= wanted})
heldPort_Nothing(owned, wanted, taken) == 0

heldPort(owned, wanted, taken) ==
    Lowest({x \in owned : x >= wanted /\ x \notin taken})

\* The port a request gets, 0 when it gets none and `up` fails.
Grant(i, q, taken, owned, busy) ==
    LET held == IF Pass(i) = 3 THEN heldPort(owned, q.cont, taken) ELSE 0
    IN IF q.host > 0 THEN IF q.host \in taken THEN 0 ELSE q.host
       ELSE IF held > 0 THEN held ELSE findFreePort(q.cont, taken, busy)

\* The ports of an item, each found with the ones before it taken.
Served(i, taken, owned, busy) ==
    LET got[h \in DOMAIN Requests(i)] ==
            Grant(i, Requests(i)[h], taken \cup {got[g] : g \in 1..(h - 1)}, owned, busy)
    IN IF Pass(i) = 0 THEN <<>> ELSE got

Given(c, owned, busy) ==
    LET given[k \in DOMAIN c] ==
            Served(c[k], UNION {Range(given[j]) : j \in Earlier(c, k)},
                   owned[c[k].name], busy)
    IN given

AllocateHostPortsOwned(c, owned, busy) ==
    LET given == Given(c, owned, busy)
        Ports(k) == [h \in DOMAIN given[k] |->
                        [host |-> given[k][h], cont |-> Requests(c[k])[h].cont]]
    IN [ok |-> \A k \in DOMAIN c : 0 \notin Range(given[k]),
        ports |-> [n \in Names(c) |-> Ports(CHOOSE k \in DOMAIN c : c[k].name = n)]]

--------------------------------------------------------------------------------
(* The machine. *)

NoPorts == [n \in {} |-> <<>>]
Off == [on |-> FALSE, ports |-> <<>>, from |-> Nobody]
Hosts(ports) == {ports[k].host : k \in DOMAIN ports}
\* CheckPortInUse tries to bind: the privileged ports count as taken.
Busy == {x \in Port : x < Ceiling \/ occ[x] # Nobody}
Listens(k) == {x \in Port : occ[x] = k}

\* The ports a host service listens on, nothing for what does not run.
runningHostPorts(p) ==
    [n \in Names(cfg[p]) |-> IF life[Key(p, n)].on THEN Listens(Key(p, n)) ELSE {}]

Allocation(p) == AllocateHostPortsOwned(cfg[p], runningHostPorts(p), Busy)

PortsInit ==
    /\ cfg \in Plans
    /\ occ = [x \in Port |-> Nobody]
    /\ known = {}
    /\ life = [k \in Keys |-> Off]
    /\ portsLock = Nobody
    /\ pc = [p \in Project |-> "idle"]
    /\ alloc = [p \in Project |-> NoPorts]
    /\ todo = [p \in Project |-> {}]
    /\ left = [p \in Project |-> {}]
    /\ adopted = [p \in Project |-> {}]
    /\ why = [p \in Project |-> {}]
    /\ edits = 0

--------------------------------------------------------------------------------
(* `up` *)

upRest == <<cfg, occ, known, life, edits>>

\* Which of its host services run is read before anything is locked.
runningHostServices(p) ==
    /\ pc[p] \in {"idle", "up"}
    /\ pc' = [pc EXCEPT ![p] = "waiting"]
    /\ adopted' = [adopted EXCEPT ![p] =
            {n \in Names(cfg[p]) : ItemOf(cfg[p], n).kind = "host" /\ life[Key(p, n)].on}]
    /\ why' = [why EXCEPT ![p] = {}]
    /\ alloc' = [alloc EXCEPT ![p] = NoPorts]
    /\ UNCHANGED <<upRest, portsLock, todo, left>>

acquirePortsLock(p) ==
    /\ pc[p] = "waiting"
    /\ IF p \in NoLockDir THEN UNCHANGED portsLock ELSE portsLock = Nobody /\ portsLock' = p
    /\ pc' = [pc EXCEPT ![p] = "choosing"]
    /\ UNCHANGED <<upRest, alloc, todo, left, adopted, why>>

Note(p, names, cause) ==
    why' = [why EXCEPT ![p] = @ \cup [name : names, cause : {cause}]]
Is(p, n, cause) == [name |-> n, cause |-> cause] \in why[p]

\* A port that an item is given before those that can do with another.
Claimed(p, x) == \E j \in Range(cfg[p]) :
    (j.kind = "host" /\ j.port = x) \/ (j.kind = "pinned" /\ x \in Range(j.hosts))

\* A host service that runs and that heldPort does not find: it does not
\* listen yet, or below the port it wants, where the user put it, or where the
\* configuration puts another item by now.
Unseen(p, n) ==
    LET i == ItemOf(cfg[p], n)
    IN /\ i.kind = "host" /\ i.port = 0 /\ life[Key(p, n)].on
       /\ \A x \in Listens(Key(p, n)) : x < inferServicePort(i) \/ Claimed(p, x)

\* The process ends, and what it knew with it.
Ends(p) ==
    /\ alloc' = [alloc EXCEPT ![p] = NoPorts]
    /\ todo' = [todo EXCEPT ![p] = {}]
    /\ left' = [left EXCEPT ![p] = {}]
    /\ adopted' = [adopted EXCEPT ![p] = {}]
    /\ why' = [why EXCEPT ![p] = {}]

\* What every way out of allocatePortsLocked does.
Release(p, where) ==
    /\ portsLock' = IF portsLock = p THEN Nobody ELSE portsLock
    /\ pc' = [pc EXCEPT ![p] = where]

Choose(p) ==
    /\ pc[p] = "choosing"
    /\ IF Allocation(p).ok
       THEN /\ alloc' = [alloc EXCEPT ![p] = Allocation(p).ports]
            /\ UNCHANGED <<portsLock, todo, left, adopted>>
            /\ Note(p, {n \in Names(cfg[p]) : Unseen(p, n)}, "unseen")
            /\ pc' = [pc EXCEPT ![p] = "reusing"]
       ELSE Release(p, "idle") /\ Ends(p)
    /\ UNCHANGED upRest

\* The port on which a container publishes a port of its own, 0 if it does not.
GetPublishedHostPort(k, cont) ==
    LET at == {j \in DOMAIN life[k].ports : life[k].ports[j].cont = cont}
    IN IF life[k].on /\ at # {} THEN life[k].ports[Lowest(at)].host ELSE 0

Explicit(i) == i.kind = "pinned" \/ (IsService(i) /\ i.port > 0)

Reused_Never(p, n) == alloc[p][n]

Reused(p, n) ==
    LET was == alloc[p][n] IN
    IF IsService(ItemOf(cfg[p], n)) \/ Explicit(ItemOf(cfg[p], n)) THEN was
    ELSE [k \in DOMAIN was |->
            LET live == GetPublishedHostPort(Key(p, n), was[k].cont)
            IN IF live = 0 THEN was[k] ELSE [was[k] EXCEPT !.host = live]]

reuseRunningDepHostPorts(p) ==
    /\ pc[p] = "reusing"
    /\ alloc' = [alloc EXCEPT ![p] = [n \in DOMAIN @ |-> Reused(p, n)]]
    /\ why' = [why EXCEPT ![p] = @ \cup
            [name : {n \in DOMAIN alloc[p] : Reused(p, n) # alloc[p][n]}, cause : {"pinned"}]
            \cup [name : {n \in DOMAIN alloc[p] : n \in Shared /\ ~life[Key(p, n)].on},
                  cause : {"absent"}]]
    /\ pc' = [pc EXCEPT ![p] = "checking"]
    /\ UNCHANGED <<upRest, portsLock, todo, left, adopted>>

checkPortBindConflicts(p) ==
    /\ pc[p] = "checking"
    /\ todo' = [todo EXCEPT ![p] =
            {[name |-> n, port |-> x] : n \in DOMAIN alloc[p], x \in Busy}
            \cap UNION {{[name |-> n, port |-> x] : x \in Hosts(alloc[p][n])}
                            : n \in DOMAIN alloc[p]}]
    /\ pc' = [pc EXCEPT ![p] = "resolving"]
    /\ UNCHANGED <<upRest, portsLock, alloc, left, adopted, why>>

\* By what occupies the port; which item asks for it is not looked at.
isOwnContainer(p, x) ==
    /\ occ[x] \in Keys
    /\ life[occ[x]].from.kind # "host"
    /\ \/ occ[x].owner = p
       \/ /\ occ[x].owner = Workspace
          /\ occ[x].name \in {n \in Names(cfg[p]) : IsDep(ItemOf(cfg[p], n))}

ownHostServicePID(p, c) ==
    /\ ItemOf(cfg[p], c.name).kind = "host"
    /\ life[Key(p, c.name)].on
    /\ occ[c.port] = Key(p, c.name)

\* It is ours: nothing to resolve.
Reuse(p) == \E c \in todo[p] :
    /\ pc[p] = "resolving"
    /\ isOwnContainer(p, c.port) \/ ownHostServicePID(p, c)
    /\ todo' = [todo EXCEPT ![p] = @ \ {c}]
    /\ adopted' = [adopted EXCEPT ![p] =
            IF isOwnContainer(p, c.port) THEN @ ELSE @ \cup {c.name}]
    /\ UNCHANGED <<upRest, portsLock, pc, alloc, left, why>>

\* UpdatePort finds a `port: N` or a `publish: N` line; a list it does not.
UpdatePort(i, old, new) ==
    CASE i.kind = "host" /\ i.port = old -> [i EXCEPT !.port = new]
      [] i.kind = "pinned" /\ i.hosts = <<old>> -> [i EXCEPT !.hosts = <<new>>]
      [] OTHER -> i

applyPortChange(p, c, new) ==
    LET was == alloc[p][c.name]
        at == Lowest({k \in DOMAIN was : was[k].host = c.port})
    IN /\ alloc' = [alloc EXCEPT ![p][c.name] =
                        IF at = 0 THEN was ELSE [was EXCEPT ![at].host = new]]
       /\ cfg' = [cfg EXCEPT ![p] =
                        [k \in DOMAIN @ |-> IF @[k].name = c.name
                                            THEN UpdatePort(@[k], c.port, new) ELSE @[k]]]
       /\ Note(p, {c.name}, "answered")

FindAlternativePort(x) == Lowest({y \in Port \ Busy : y > x})

\* The user takes the next port that nobody is bound to, or types one.
Reassign(p) == \E c \in todo[p], new \in Port \ Busy :
    /\ pc[p] = "resolving"
    /\ ~(isOwnContainer(p, c.port) \/ ownHostServicePID(p, c))
    /\ new = FindAlternativePort(c.port) \/ new \in Typed
    /\ applyPortChange(p, c, new)
    /\ todo' = [todo EXCEPT ![p] = @ \ {c}]
    /\ UNCHANGED <<occ, known, life, portsLock, pc, left, adopted, edits>>

\* The user skips, or there is no user, or no port is free.
GiveUp(p) == \E c \in todo[p] :
    /\ pc[p] = "resolving"
    /\ ~(isOwnContainer(p, c.port) \/ ownHostServicePID(p, c))
    /\ Release(p, "idle")
    /\ Ends(p)
    /\ UNCHANGED upRest

Resolved(p) ==
    /\ pc[p] = "resolving" /\ todo[p] = {}
    /\ Release(p, "starting")
    /\ left' = [left EXCEPT ![p] = {n \in Names(cfg[p]) : ItemOf(cfg[p], n).kind # "sibling"}]
    /\ UNCHANGED <<upRest, alloc, todo, adopted, why>>

\* What the configuration says, word for word.
declaredPorts(i) ==
    CASE i.kind = "legacy" -> assignLegacyDepPorts(i)
      [] i.kind = "docker" /\ i.port > 0 -> <<[host |-> i.port, cont |-> i.port]>>
      [] OTHER -> <<>>

\* The mappings an item is started with: those of the allocator, if any.
resolveDepPublishPorts(p, i) ==
    IF alloc[p][i.name] # <<>> THEN alloc[p][i.name] ELSE declaredPorts(i)

\* What `up` tells the others of an item: the port inside its container and the
\* one on the host, 0 for none.  The old `ports:` list that the allocator leaves
\* alone gives the first container port for both.
applyInlineDepEndpoint(i) == [port |-> i.specs[1].cont, hostPort |-> i.specs[1].cont]

\* A dependency that publishes nothing is told to containers only.
applyInternalDepPort(i) ==
    [port |-> IF i.expose = <<>> THEN 0 ELSE i.expose[1], hostPort |-> 0]

buildEndpoints(p, n) ==
    LET i == ItemOf(cfg[p], n)
        first == alloc[p][n][1]
        published == alloc[p][n] # <<>>
    IN CASE i.kind = "host" -> [port |-> IF published THEN first.host ELSE 0, hostPort |-> 0]
         [] i.kind = "docker" -> [port |-> i.port, hostPort |-> 0]
         [] IsDep(i) /\ published -> [port |-> first.cont, hostPort |-> first.host]
         [] i.kind = "legacy" /\ ~published -> applyInlineDepEndpoint(i)
         [] i.kind \in {"auto", "pinned"} /\ ~published -> applyInternalDepPort(i)

ContainerOnly(i, p) == i.kind \in {"auto", "pinned"} /\ alloc[p][i.name] = <<>>

\* The port a caller gets, by where it runs.
GenerateEnvVars(p, n, onHost) ==
    LET i == ItemOf(cfg[p], n)
        e == buildEndpoints(p, n)
    IN CASE onHost /\ ContainerOnly(i, p) -> 0
         [] onHost /\ i.kind # "host" /\ e.hostPort > 0 -> e.hostPort
         [] OTHER -> e.port

\* Where a port given so leads: to a host process, or by way of localhost, it
\* is one that is bound on the host, between containers one inside.
resolveHost(i, onHost) == IF onHost \/ i.kind = "host" THEN "host" ELSE "network"

\* detection.Port: what the allocator gave, else what the item listens on.
applyPortAllocs(p, i) ==
    CASE alloc[p][i.name] # <<>> -> alloc[p][i.name][1].host
      [] i.kind = "host" /\ alloc[p][i.name] = <<>> -> inferServicePort(i)
      [] i.kind = "docker" -> i.port
      [] OTHER -> buildEndpoints(p, i.name).port

\* Where the proxy, a container, sends a request for an item that it routes and
\* for which the file names no target of its own: to detection.Port, which of a
\* published dependency is the port on the host.
buildProxyRoute(p, i) == [at |-> resolveHost(i, FALSE), port |-> applyPortAllocs(p, i)]

Started(i, ports) == [on |-> TRUE, ports |-> ports, from |-> i]

\* Dependencies first, each reused if its container runs.
StartContainer(p) == \E n \in left[p] :
    LET i == ItemOf(cfg[p], n)
        ports == resolveDepPublishPorts(p, i)
    IN /\ pc[p] = "starting"
       /\ i.kind # "host"
       /\ IsService(i) => \A m \in left[p] : IsService(ItemOf(cfg[p], m))
       /\ IF life[Key(p, n)].on
          THEN UNCHANGED <<life, occ, why>>
          ELSE /\ Hosts(ports) \cap Busy = {}
               /\ life' = [life EXCEPT ![Key(p, n)] = Started(i, ports)]
               /\ occ' = [x \in Port |-> IF x \in Hosts(ports) THEN Key(p, n) ELSE occ[x]]
               /\ why' = [why EXCEPT ![p] = @ \ {[name |-> n, cause |-> "absent"]}]
       /\ left' = [left EXCEPT ![p] = @ \ {n}]
       /\ UNCHANGED <<cfg, known, portsLock, pc, alloc, todo, adopted, edits>>

\* Somebody else is bound to the port by now: docker refuses, `up` ends.
StartFails(p) == \E n \in left[p] :
    /\ pc[p] = "starting"
    /\ ItemOf(cfg[p], n).kind # "host"
    /\ ~life[Key(p, n)].on
    /\ Hosts(resolveDepPublishPorts(p, ItemOf(cfg[p], n))) \cap Busy # {}
    /\ pc' = [pc EXCEPT ![p] = "idle"]
    /\ Ends(p)
    /\ UNCHANGED <<upRest, portsLock>>

StartService(p) == \E n \in left[p] :
    LET i == ItemOf(cfg[p], n) IN
    /\ pc[p] = "starting"
    /\ i.kind = "host"
    /\ \A m \in left[p] : IsService(ItemOf(cfg[p], m))
    /\ left' = [left EXCEPT ![p] = @ \ {n}]
    /\ life' = IF n \in adopted[p] THEN life
               ELSE [life EXCEPT ![Key(p, n)] = Started(i, alloc[p][n])]
    /\ UNCHANGED <<cfg, occ, known, portsLock, pc, alloc, todo, adopted, why, edits>>

Finish(p) ==
    /\ pc[p] = "starting" /\ left[p] = {}
    /\ pc' = [pc EXCEPT ![p] = "up"]
    /\ known' = known \cup {p}
    /\ Ends(p)
    /\ UNCHANGED <<cfg, occ, life, edits, portsLock>>

--------------------------------------------------------------------------------
(* After and around `up`. *)

runRest == <<portsLock, todo, left, adopted, why>>

\* A host process binds the port it was told when it is ready, and ends when
\* somebody else has it.
Bind(k) ==
    /\ life[k].on /\ life[k].ports # <<>>
    /\ life[k].from.kind = "host" /\ life[k].ports[1].host \in Port
    /\ Listens(k) = {}
    /\ LET x == life[k].ports[1].host IN
       \/ /\ occ[x] = Nobody
          /\ occ' = [occ EXCEPT ![x] = k]
          /\ UNCHANGED life
       \/ /\ occ[x] # Nobody
          /\ life' = [life EXCEPT ![k] = Off]
          /\ UNCHANGED occ
    /\ UNCHANGED <<cfg, known, pc, alloc, runRest, edits>>

Freed(K) == [x \in Port |-> IF occ[x] \in K THEN Nobody ELSE occ[x]]

\* What ends with the projects of D: all of theirs, and the shared dependencies
\* unless another project is up or on its way.
downOrchestrated(D) ==
    {k \in Keys : k.owner \in D
                  \/ (D # {} /\ k.owner = Workspace /\ \A q \in Project \ D : pc[q] = "idle")}

Ended(gone, D) ==
    /\ life' = [k \in Keys |-> IF k \in gone THEN Off ELSE life[k]]
    /\ occ' = Freed(gone)
    /\ pc' = [q \in Project |-> IF q \in D THEN "idle" ELSE pc[q]]
    /\ known' = known \ D
    /\ UNCHANGED <<cfg, alloc, runRest, edits>>

Resting(p) == pc[p] \in {"idle", "up"}

Down(p) ==
    /\ Resting(p)
    /\ \E k \in downOrchestrated({p}) : life[k].on
    /\ Ended(downOrchestrated({p}), {p})

\* The port of a process that is told none, 0 if nobody knows it.
OwnPort(i) == <<[host |-> inferServicePort(i), cont |-> 0]>>

\* `restart` of a host service: its port is worked out while it runs, with no
\* lock and no look at what is bound; without an allocation it is its own.
Restart(p, n) ==
    LET i == ItemOf(cfg[p], n)
    IN /\ pc[p] = "up"
       /\ i.kind = "host" /\ life[Key(p, n)].on
       /\ life' = [life EXCEPT ![Key(p, n)] =
                Started(i, IF Allocation(p).ok THEN Allocation(p).ports[n] ELSE OwnPort(i))]
       /\ occ' = Freed({Key(p, n)})
       /\ UNCHANGED <<cfg, known, pc, alloc, runRest, edits>>

--------------------------------------------------------------------------------
(* Making room.  The commands ask before they stop another project, and do *)
(* nothing, or go on without, when the answer is no.                       *)

Runs(k, kind) == life[k].on /\ (life[k].from.kind = "host") = (kind = "host")

WantedHostPorts_Bumped(p) ==
    LET want == AllocateHostPortsOwned(cfg[p], [n \in Names(cfg[p]) |-> {}], Busy)
    IN IF want.ok THEN UNION {Hosts(want.ports[n]) : n \in Names(cfg[p])} ELSE {}

\* What the project would get of a machine on which nothing is bound.
WantedHostPorts(p) ==
    LET want == AllocateHostPortsOwned(cfg[p], [n \in Names(cfg[p]) |-> {}], {})
    IN IF want.ok THEN UNION {Hosts(want.ports[n]) : n \in Names(cfg[p])} ELSE {}

ListManagedPublishedPorts == {x \in Port : occ[x] \in Keys /\ Runs(occ[x], "container")}

\* The ports of containers, which Docker knows, and of the host services of the
\* projects that are recorded.  Who is bound to one tells its owner.
collectActiveEndpoints ==
    ListManagedPublishedPorts
        \cup UNION {Listens(k) : k \in {k \in Keys : k.owner \in known /\ Runs(k, "host")}}

ownEndpoint(p, k) ==
    \/ k.owner = p
    \/ k.owner = Workspace /\ k.name \in Names(cfg[p]) /\ IsDep(ItemOf(cfg[p], k.name))

\* The owner of a shared dependency is its workspace: no project has that name.
findPortConflicts(p) ==
    {occ[x] : x \in {x \in WantedHostPorts(p) \cap collectActiveEndpoints :
                        ~ownEndpoint(p, occ[x])}}
uniqueConflictingProjects(p) == {k.owner : k \in findPortConflicts(p)} \ {p}

ListActiveProjects == {k.owner : k \in {k \in Keys : Runs(k, "container")}} \cap Project
otherProjects(p) == (ListActiveProjects \cup known) \ {p}

\* `raioz down` in the directory that is on record, where there is a raioz.yaml;
\* of the others the containers that bear their name are removed.
downProjectAt(names) == names \cap (known \ Elsewhere)
StopProjectContainers(names) == {k \in Keys : k.owner \in names \cap Project /\ Runs(k, "container")}

stopProjects(names) ==
    downOrchestrated(downProjectAt(names)) \cup StopProjectContainers(names)

approveStopping(p, names) ==
    /\ Resting(p)
    /\ names # {} /\ \A q \in names \cap Project : Resting(q)

Stop(p, names) ==
    /\ approveStopping(p, names)
    /\ Ended(stopProjects(names), downProjectAt(names))

DownConflictingProjects(p) == Stop(p, uniqueConflictingProjects(p))
\* `up --exclusive` is this and then an `up`.
DownAllOtherProjects(p) == Stop(p, otherProjects(p))

\* `down --all`: first the others of which containers run, then this one.
downOtherWorkspaceProjects(p) ==
    LET names == ListActiveProjects \ {p}
        D == downProjectAt(names) \cup {p}
    IN /\ approveStopping(p, names)
       /\ Ended(downOrchestrated(D) \cup StopProjectContainers(names), D)

--------------------------------------------------------------------------------

Edit(p) ==
    /\ edits < MaxEdits
    /\ pc[p] \in {"idle", "up"}
    /\ \E f \in Plans : /\ f[p] # cfg[p]
                       /\ \A q \in Project : Names(f[q]) = Names(cfg[q])
                       /\ cfg' = [cfg EXCEPT ![p] = f[p]]
    /\ edits' = edits + 1
    /\ UNCHANGED <<occ, known, life, pc, alloc, runRest>>

Intrude(x) ==
    /\ edits < MaxEdits
    /\ occ[x] = Nobody
    /\ occ' = [occ EXCEPT ![x] = Intruder]
    /\ edits' = edits + 1
    /\ UNCHANGED <<cfg, known, life, pc, alloc, runRest>>

Up(p) ==
    \/ runningHostServices(p) \/ acquirePortsLock(p) \/ Choose(p) \/ reuseRunningDepHostPorts(p)
    \/ checkPortBindConflicts(p) \/ Reuse(p) \/ Reassign(p) \/ GiveUp(p) \/ Resolved(p)
    \/ StartContainer(p) \/ StartFails(p) \/ StartService(p) \/ Finish(p)

PortsNext ==
    \/ \E p \in Project : Up(p) \/ Down(p) \/ Edit(p)
    \/ \E p \in Project : DownConflictingProjects(p) \/ DownAllOtherProjects(p)
                           \/ downOtherWorkspaceProjects(p)
    \/ \E p \in Project : \E n \in Names(cfg[p]) : Restart(p, n)
    \/ \E k \in Keys : Bind(k)
    \/ \E x \in Contested : Intrude(x)

PortsSpec == PortsInit /\ [][PortsNext]_portVars

--------------------------------------------------------------------------------
(* Properties *)

Causes == {"unseen", "pinned", "absent", "answered"}
PortsPC == {"idle", "waiting", "choosing", "reusing", "checking", "resolving", "starting", "up"}
HasPorts(p) == pc[p] \in {"reusing", "checking", "resolving", "starting"}

RunTypeOK(p) ==
    /\ Config(cfg[p]) /\ \A n \in Names(cfg[p]) : Key(p, n) \in Keys
    /\ todo[p] \subseteq [name : Names(cfg[p]), port : Port]
    /\ left[p] \cup adopted[p] \subseteq Names(cfg[p])
    /\ why[p] \subseteq [name : Names(cfg[p]), cause : Causes]
    /\ HasPorts(p) => DOMAIN alloc[p] = Names(cfg[p])

LifeTypeOK(k) ==
    \/ life[k] = Off
    \/ /\ life[k].on = TRUE /\ DOMAIN life[k] = DOMAIN Off
       /\ Item(life[k].from) /\ life[k].from.name = k.name
       /\ life[k].from.kind = "host" => k.owner \in Project

\* Types, with what an item may be and what is chosen while an `up` is on its
\* way: files of unique names, ports for each of them, and what runs made from
\* an item of its name.
PortsTypeOK ==
    /\ known \subseteq Project
    /\ portsLock \in Project \cup {Nobody}
    /\ pc \in [Project -> PortsPC]
    /\ DOMAIN cfg = Project /\ DOMAIN alloc = Project /\ DOMAIN todo = Project
    /\ DOMAIN left = Project /\ DOMAIN adopted = Project /\ DOMAIN why = Project
    /\ \A p \in Project : RunTypeOK(p)
    /\ DOMAIN occ = Port /\ \A x \in Port : occ[x] \in Keys \cup {Nobody, Intruder}
    /\ DOMAIN life = Keys /\ \A k \in Keys : LifeTypeOK(k)

ItemPorts(p, n) == Hosts(alloc[p][n])

\* Two items of one run share a host port only when one of them was moved
\* after the allocator had kept them apart: pinned to the port on which its
\* container runs already, or reassigned.
PortsApart ==
    \A p \in Project : pc[p] \in {"resolving", "starting"} =>
        \A m, n \in DOMAIN alloc[p] :
            (m # n /\ ItemPorts(p, m) \cap ItemPorts(p, n) # {}) =>
                \E x \in {m, n} : Is(p, x, "pinned") \/ Is(p, x, "answered")

Doubled(p, n) ==
    \E m \in DOMAIN alloc[p] \ {n} : ItemPorts(p, m) \cap ItemPorts(p, n) # {}
Changed(p, n) == life[Key(p, n)].from # ItemOf(cfg[p], n)
\* Restarted when there was no allocation to be had.
Unallocated(p, n) == \E k \in DOMAIN life[Key(p, n)].ports : life[Key(p, n)].ports[k].cont = 0

\* Started on a port that the user gave, of which the file says something else:
\* an answer for one of a list is not written to it, and one for a dependency
\* without `expose:` is read as the port inside the container as well.
Misread(p, n) ==
    LET i == ItemOf(cfg[p], n)
    IN i.kind = "pinned" /\ life[Key(p, n)].ports # assignExplicitDepPorts(i)

\* The ports on which a container, or process, that was started answers.
Answers(l, where) ==
    IF where = "host" THEN Hosts(l.ports)
    ELSE {l.ports[k].cont : k \in DOMAIN l.ports}
         \cup (IF "expose" \in DOMAIN l.from THEN Range(l.from.expose) ELSE {})

\* The first ports of an item differ inside and outside of its container: such a
\* dependency is routed wrong, and one with an old `ports:` is told wrong.
Split(p, i) ==
    LET ports == resolveDepPublishPorts(p, i)
    IN IsDep(i) /\ ports # <<>> /\ ports[1].host # ports[1].cont

\* When `up` is done, what runs answers on the port that the others are told, be
\* they containers or processes of the host, and on the one that the proxy sends
\* requests to, unless it was started from another configuration, it could not
\* be seen to run, or a shared dependency came up after the choice, or runs on a
\* port that was answered and is misread; or it is a dependency published on
\* another port than its own.
ServedAsAdvertised ==
    \A p \in Project : (pc[p] = "starting" /\ left[p] = {}) =>
        \A n \in DOMAIN alloc[p] :
            LET i == ItemOf(cfg[p], n)
                l == life[Key(p, n)]
                route == buildProxyRoute(p, i)
                Told(onHost) == GenerateEnvVars(p, n, onHost)
            IN (i.kind # "sibling" /\ l.on) =>
                \/ Changed(p, n) \/ Doubled(p, n) \/ Unallocated(p, n) \/ Misread(p, n)
                \/ Is(p, n, "unseen") \/ Is(p, n, "absent")
                \/ /\ \A onHost \in BOOLEAN :
                        \/ Told(onHost) \in Answers(l, resolveHost(i, onHost)) \cup {0}
                        \/ i.kind = "legacy" /\ alloc[p][n] = <<>> /\ Split(p, i)
                   /\ route.port \in Answers(l, route.at) \cup {0} \/ Split(p, i)

\* A restart puts a service back on the port it had, though that is bound (by
\* the service itself) while the port is chosen.
RestartedInPlace ==
    [][\A p \in Project : \A n \in Names(cfg[p]) :
          LET k == Key(p, n) IN
          (pc[p] = "up" /\ life[k].on /\ life'[k] # life[k] /\ life'[k].on) =>
              \/ Hosts(life'[k].ports) = Hosts(life[k].ports)
              \/ Changed(p, n) \/ Unseen(p, n) \/ Unallocated(p, n) \/ ~Allocation(p).ok]_portVars

\* Whenever `down --conflicting` is run, no other project holds after it a port
\* that an `up` of this one asks for first, but for two cases: a dependency of
\* the workspace that this project does not declare, and a host service of a
\* project that is not recorded or whose `down` cannot be run.  What is this
\* project's own stays, and a shared dependency stays while it is up.
ConflictsGone ==
    \A p \in Project :
        LET first == AllocateHostPortsOwned(cfg[p], [n \in Names(cfg[p]) |-> {}], {})
            names == uniqueConflictingProjects(p)
            gone == stopProjects(names)
            OutOfReach(k) ==
                \/ k.owner = Workspace
                \/ Runs(k, "host") /\ k.owner \notin known \ Elsewhere
        IN (Resting(p) /\ \A q \in names \cap Project : Resting(q)) =>
            /\ \A k \in gone : k.owner # p /\ (k.owner = Workspace => pc[p] = "idle")
            /\ first.ok => \A n \in Names(cfg[p]) : \A x \in Hosts(first.ports[n]) :
                  occ[x] \in Keys \ gone => occ[x].owner = p \/ OutOfReach(occ[x])

--------------------------------------------------------------------------------
(* The inductive invariant.                                                    *)

\* The mappings that the allocator, and the user, may find for an item.
Fits(i, ports) ==
    /\ ports \in Seq([host : Port, cont : Port])
    /\ DOMAIN ports = DOMAIN Requests(i)
    /\ i.kind \in {"auto", "legacy"} =>
          \A h \in DOMAIN ports : ports[h].cont = Requests(i)[h].cont
    /\ Explicit(i) /\ Len(ports) = 1 => ports[1].host = Requests(i)[1].host

\* What it is started with.
StartsWith(i, ports) ==
    \/ IF Pass(i) = 0 THEN ports = declaredPorts(i) ELSE Fits(i, ports)
    \/ i.kind = "host" /\ ports = OwnPort(i)

LifeFits == \A k \in Keys : life[k].on => StartsWith(life[k].from, life[k].ports)

\* Who is bound to a port runs and was told it, and containers are bound to all
\* of theirs.
Bound ==
    /\ \A x \in Port : occ[x] \in Keys => life[occ[x]].on /\ x \in Hosts(life[occ[x]].ports)
    /\ \A k \in Keys : life[k].on /\ life[k].from.kind # "host" =>
          \A x \in Hosts(life[k].ports) \cap Port : occ[x] = k

AllocFits(p) == HasPorts(p) => \A n \in Names(cfg[p]) :
    LET i == ItemOf(cfg[p], n)
    IN /\ IF Pass(i) = 0 THEN alloc[p][n] = <<>> ELSE Fits(i, alloc[p][n])
       /\ pc[p] = "reusing" /\ i.kind = "pinned" => alloc[p][n] = assignExplicitDepPorts(i)

\* Until its turn to start comes, a host service that runs is adopted.
Adopts(p) == pc[p] \notin {"idle", "up"} => \A n \in Names(cfg[p]) :
    /\ ItemOf(cfg[p], n).kind = "host" /\ life[Key(p, n)].on
    /\ pc[p] = "starting" => n \in left[p]
    => n \in adopted[p]

Apart(p) == HasPorts(p) => \A m, n \in Names(cfg[p]) :
    (m # n /\ ItemPorts(p, m) \cap ItemPorts(p, n) # {}) =>
        \E x \in {m, n} : Is(p, x, "pinned") \/ Is(p, x, "answered")

\* A host service that ran, and was seen, keeps its port.
HostsKept(p) == HasPorts(p) => \A n \in Names(cfg[p]) :
    LET i == ItemOf(cfg[p], n)
    IN (i.kind = "host" /\ life[Key(p, n)].on /\ ~Changed(p, n) /\ ~Unallocated(p, n)
                        /\ ~Is(p, n, "unseen")) =>
          /\ ItemPorts(p, n) = Hosts(life[Key(p, n)].ports)
          /\ pc[p] # "starting" /\ i.port = 0 => \A x \in ItemPorts(p, n) : occ[x] = Key(p, n)

HasReused(p) == pc[p] \in {"checking", "resolving", "starting"}

Insides(ports) == {ports[k].cont : k \in DOMAIN ports}

\* So does a container that ran when its ports were looked up.
DepsKept(p) == HasReused(p) => \A n \in Names(cfg[p]) :
    (/\ ItemOf(cfg[p], n).kind # "host" /\ life[Key(p, n)].on
     /\ ~Changed(p, n) /\ ~Misread(p, n) /\ ~Is(p, n, "absent"))
    => /\ ItemPorts(p, n) \subseteq Hosts(life[Key(p, n)].ports)
       /\ Insides(alloc[p][n]) \subseteq Insides(life[Key(p, n)].ports)

AbsentNoted(p) == HasReused(p) => \A n \in Names(cfg[p]) \cap Shared :
    ~life[Key(p, n)].on => Is(p, n, "absent")

RunInv(p) ==
    /\ AllocFits(p) /\ Adopts(p) /\ Apart(p)
    /\ HostsKept(p) /\ DepsKept(p) /\ AbsentNoted(p)

PortsInv == PortsTypeOK /\ LifeFits /\ Bound /\ \A p \in Project : RunInv(p)

================================================================================
