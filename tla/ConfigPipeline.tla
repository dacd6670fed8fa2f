--------------------------- MODULE ConfigPipeline ---------------------------
(***************************************************************************)
(* A raioz.yaml on its way through `raioz up`: decoded and checked by      *)
(* internal/config, turned into models.Deps, filtered by the ignore list   *)
(* and --only, its siblings audited, validated by internal/validate,       *)
(* amended by the answers about legacy .raioz.json files found in the      *)
(* services' checkouts, given the .env of a service with a template, and   *)
(* finally put into an order and started.  Beside it the other reader of   *)
(* the same file, `raioz check`, and the other two ways to a configuration *)
(* than writing one: `raioz init`, and an up with none (":auto:").         *)
(*                                                                         *)
(* What is data here: a path is one of "inside" the project, "outside" it  *)
(* (but under its parent) or "system"; a command is "bare" or such a path; *)
(* a caps declaration is "none", "own", "root" (the root-level one) or     *)
(* "bad".  `rest` of a service stands for the fields no step looks at.     *)
(***************************************************************************)
EXTENDS Detection, ServiceEnv

CONSTANTS Names,      \* names of services and dependencies
          BadNames,   \* names of them docker.ValidateName refuses
          Inputs,     \* what an `up` finds: file or tree, flags, machine, checkouts
          Dirs,       \* directories a sibling reference may name
          SiblingFile \* the raioz.yaml of each of them, or NoFile

NoFile == [kind |-> "none"]

ASSUME NamesAssumption == BadNames \subseteq Names /\ IsFiniteSet(Names)
ASSUME SiblingAssumption == DOMAIN SiblingFile = Dirs /\ IsFiniteSet(Dirs)

NoProxy == [enabled |-> FALSE]
NoDeps == [services |-> <<>>, infra |-> <<>>]

VARIABLES in,       \* the input of this run, never changed
          pc,       \* the phase of Execute the run is in
          cause,    \* why it was refused, "" while it was not
          deps,     \* the models.Deps as the phases rewrite it
          queue,    \* Kahn's queue
          started,  \* services started, in order
          rewritten,\* services whose definition an answer brought in
          green,    \* what `raioz check` said: "unasked", "green", "red"
          env       \* the .env of the service with a template, and its history

configVars == <<in, pc, cause, deps, queue, started, rewritten, green, env>>

-----------------------------------------------------------------------------
(* What a decoded file is made of: the types of config/yaml_types.go.      *)

Path == {"", "inside", "outside", "system"}
Command == Path \cup {"bare"}
Caps == {"none", "own", "root", "bad"}

YAMLService ==
  [path : Path, git : {"", "repo", "fork"}, branch : {"", "main", "dev"},
   dependsOn : SUBSET Names, env : Path, compose : Path, command : Command,
   stop : Command, ports : BOOLEAN, runtime : {"", "known", "bad"},
   profiles : {"none", "ok", "bad"}, auth : {"", "inherit", "gh", "ssh", "bad"},
   resources : Caps, rest : {"plain", "watched"}]

YAMLDependency ==
  [image : {"", "pinned", "latest", "untagged"}, compose : Path,
   project : Dirs \cup {""}, sibling : Dirs \cup {""}, required : BOOLEAN,
   env : Path, dev : Path, ports : BOOLEAN, hostname : {"", "own"},
   proxy : BOOLEAN, volume : {"none", "named", "system"}, resources : Caps]

YAMLNetwork == [name : {"", "own"}, subnet : {"", "wide", "narrow"}]

ProxyConfig ==
  [enabled : BOOLEAN, tls : {"", "mkcert", "letsencrypt"},
   ip : {"", "fits", "wrong"}, publish : BOOLEAN, resources : Caps]

\* Every field of a raioz.yaml the steps below tell apart.
IsRaiozConfig(f) ==
  /\ f.syntax \in {"ok", "unknown", "bad"} /\ f.secret \in BOOLEAN
  /\ f.version \in {"", "0", "1", "2", "x"} /\ f.kind \in {"", "meta"}
  /\ f.project \in Names \cup {""} /\ f.workspace \in {"", "acme"}
  /\ f.wsRoot \in {"", "parent", "system"} /\ f.network \in YAMLNetwork
  /\ f.proxy \in ProxyConfig /\ f.resources \in Caps
  /\ f.router \in {"none", "empty", "other", "system"}
  /\ \A h \in {f.pre, f.preUp, f.post} : h \in Seq(Command)
  /\ Range(f.services) \subseteq YAMLService /\ DOMAIN f.services \subseteq Names
  /\ Range(f.deps) \subseteq YAMLDependency /\ DOMAIN f.deps \subseteq Names

-----------------------------------------------------------------------------
(* The loader: internal/config.                                            *)

InsideRoot(f, p) == p \in {"", "inside"} \/ (p = "outside" /\ f.wsRoot = "parent")

pathFromCommand(c) == IF c = "bare" THEN "" ELSE c

\* The paths raioz reads or runs, and those that only name another project.
PathsRead(f) ==
  (UNION {{s.path, s.env, s.compose, pathFromCommand(s.command),
           pathFromCommand(s.stop)} : s \in Range(f.services)})
    \cup (UNION {{d.env, d.compose, d.dev} : d \in Range(f.deps)})
    \cup {pathFromCommand(c) : c \in Range(f.pre) \cup Range(f.preUp) \cup Range(f.post)}

validatePathSafety(f) ==
  /\ f.wsRoot # "system"
  /\ \A p \in PathsRead(f) : InsideRoot(f, p)
  /\ f.router # "system"

ValidateServiceRuntime(s) == s.runtime # "bad"

validateService(s) ==
  /\ s.path # "" \/ s.git # ""
  /\ s.resources # "bad"
  /\ ValidateServiceRuntime(s)

validateSiblingDependency(d) ==
  LET image == d.image # "" compose == d.compose # "" IN
  /\ ~(d.project # "" /\ d.sibling # "")
  /\ d.project # "" => ~image /\ ~compose
  /\ d.sibling # "" => image \/ compose
  /\ d.required => d.project # "" \/ d.sibling # ""

validateDependency(d) ==
  /\ validateSiblingDependency(d)
  /\ d.resources # "bad"
  /\ d.project # "" \/ d.image # "" \/ d.compose # ""

validateDependsOnRefs(f) ==
  \A s \in Range(f.services) : s.dependsOn \subseteq DOMAIN f.services \cup DOMAIN f.deps

validateAuthValues(f) == \A s \in Range(f.services) : s.auth \in {"", "inherit", "gh", "ssh"}

validateYAMLConfig(f) ==
  /\ f.project # ""
  /\ DOMAIN f.services # {} \/ DOMAIN f.deps # {}
  /\ \A s \in Range(f.services) : validateService(s)
  /\ f.resources # "bad" /\ f.proxy.resources # "bad"
  /\ \A d \in Range(f.deps) : validateDependency(d)
  /\ validateDependsOnRefs(f)
  /\ validateAuthValues(f)

ScanForSecrets(f) == ~f.secret

\* Whether the file loads, in the order the loader asks.
LoadYAML(f) ==
  /\ ScanForSecrets(f)
  /\ f.syntax # "bad"
  /\ validateYAMLConfig(f)
  /\ validatePathSafety(f)
  /\ f.router # "empty"

unknownFieldWarnings(f) == IF f.syntax = "unknown" THEN {<<"unknown_field", "">>} ELSE {}
schemaVersionWarnings(f) == IF f.version = "1" THEN {} ELSE {<<"version", f.version>>}
yamlDeprecationWarnings(f) ==
  {<<"legacy_ports", n>> : n \in {m \in DOMAIN f.deps :
     f.deps[m].ports /\ f.deps[m].hostname = "" /\ ~f.deps[m].proxy}}
imagePinningWarnings(f) ==
  {<<"unpinned", n>> : n \in {m \in DOMAIN f.deps : f.deps[m].image \in {"untagged", "latest"}}}
systemVolumeWarnings(f) ==
  {<<"system_volume", n>> : n \in {m \in DOMAIN f.deps : f.deps[m].volume = "system"}}
authWarnings(f) ==
  {<<"auth", n>> : n \in {m \in DOMAIN f.services : f.services[m].auth # "" /\ f.services[m].git = ""}}

Warnings(f) ==
  schemaVersionWarnings(f) \cup yamlDeprecationWarnings(f) \cup imagePinningWarnings(f)
    \cup systemVolumeWarnings(f) \cup authWarnings(f) \cup unknownFieldWarnings(f)

-----------------------------------------------------------------------------
(* The bridge from the file to models.Deps: config/yaml_bridge.go.         *)

OrDefault(r, root) == IF r = "none" THEN root ELSE r

resolveNetworkConfig(f) ==
  [name |-> IF f.network.name # "" THEN f.network.name
            ELSE IF f.workspace # "" THEN <<f.workspace, "net">> ELSE <<f.project, "net">>,
   isObject |-> f.network.subnet # "", subnet |-> f.network.subnet]

yamlServiceToService(f, s) ==
  [kind |-> IF s.git # "" THEN "git" ELSE "local", path |-> s.path, repo |-> s.git,
   branch |-> IF s.git # "" THEN s.branch ELSE "",
   access |-> IF s.git # "" THEN "editable" ELSE "",
   auth |-> IF s.git # "" THEN s.auth ELSE "",
   command |-> s.command, compose |-> s.compose, runtime |-> s.runtime,
   commands |-> s.stop # "", docker |-> s.ports, dependsOn |-> s.dependsOn,
   profiles |-> s.profiles, resources |-> OrDefault(s.resources, f.resources),
   inherited |-> s.resources = "none", rest |-> s.rest]

yamlDependencyToInfra(f, d) ==
  [image |-> d.image, compose |-> d.compose, project |-> d.project,
   sibling |-> d.sibling, required |-> d.required, hostname |-> d.hostname,
   resources |-> IF d.compose = "" THEN OrDefault(d.resources, f.resources) ELSE d.resources]

\* What YAMLToDeps refuses on top of LoadYAML.
BridgeAccepts(f) ==
  /\ DOMAIN f.services \cap DOMAIN f.deps = {}
  /\ \A d \in Range(f.deps) : ~(d.image # "" /\ d.compose # "")

\* A hook is the list of commands that `&&` joins.
YAMLToDeps(f) ==
  [project |-> f.project, workspace |-> f.workspace,
   network |-> resolveNetworkConfig(f),
   proxy |-> IF f.proxy.enabled
               THEN [f.proxy EXCEPT !.resources = OrDefault(@, f.resources)]
               ELSE NoProxy,
   preHook |-> f.pre, preUpHook |-> f.preUp, postHook |-> f.post,
   services |-> [n \in DOMAIN f.services |-> yamlServiceToService(f, f.services[n])],
   infra |-> [n \in DOMAIN f.deps |-> yamlDependencyToInfra(f, f.deps[n])]]

LoadDepsFromYAML(f) == LoadYAML(f) /\ BridgeAccepts(f)

-----------------------------------------------------------------------------
(* Filters: upcase/filters.go.  A raioz.yaml sets neither profiles nor     *)
(* feature flags of its own, so the ignore list and --only are what is     *)
(* left of them.                                                           *)

\* Everything `names` leads to along dependsOn, themselves included.
Reach(d, names) ==
  LET Step(S) == S \cup UNION {d.services[n].dependsOn : n \in S \cap DOMAIN d.services}
      R[k \in 0..Cardinality(Names)] == IF k = 0 THEN names ELSE Step(R[k - 1])
  IN R[Cardinality(Names)]

CheckIgnoredDependencies(d, ignored) ==
  {n \in DOMAIN d.services \ ignored : d.services[n].dependsOn \cap ignored # {}}

\* Mutant: the copy forgets a hook.
FilterIgnoredServices_NoPreUp(d, ignored) ==
  [project |-> d.project, workspace |-> d.workspace, network |-> d.network,
   proxy |-> d.proxy, preHook |-> d.preHook, preUpHook |-> <<>>,
   postHook |-> d.postHook, infra |-> d.infra,
   services |-> Restrict(d.services, DOMAIN d.services \ ignored)]

\* The list names every setting it keeps: one it forgets is lost.
FilterIgnoredServices(d, ignored) ==
  [project |-> d.project, workspace |-> d.workspace, network |-> d.network,
   proxy |-> d.proxy, preHook |-> d.preHook, preUpHook |-> d.preUpHook,
   postHook |-> d.postHook, infra |-> d.infra,
   services |-> Restrict(d.services, DOMAIN d.services \ ignored)]

ResolveDependencies(d, only) == Reach(d, only)

FilterByServices(d, names) ==
  [d EXCEPT !.services = Restrict(@, names \cap DOMAIN @),
            !.infra = Restrict(@, names \cap DOMAIN @)]

\* The project's own list and the one of older versions, which is of them all.
ForProject(p) ==
  in.ignored.services \cup
    (IF p \in DOMAIN in.ignored.projects THEN in.ignored.projects[p] ELSE {})

Filtered(d) ==
  LET i == FilterIgnoredServices(d, ForProject(d.project))
  IN IF in.only = {} THEN i ELSE FilterByServices(i, ResolveDependencies(i, in.only))

\* --only of something that is not there, or nothing left to start.
FiltersAccept(d) ==
  /\ in.only \subseteq (DOMAIN d.services \ ForProject(d.project)) \cup DOMAIN d.infra
  /\ DOMAIN Filtered(d).services \cup DOMAIN Filtered(d).infra # {}

-----------------------------------------------------------------------------
(* --audit-siblings: every raioz.yaml a sibling reference leads to.        *)

siblingDirOf(d) == IF d.project # "" THEN d.project ELSE d.sibling

seedAuditQueue(d) == {siblingDirOf(x) : x \in Range(d.infra)} \ {""}

nestedAuditTargets(dir) ==
  IF SiblingFile[dir] = NoFile THEN {}
  ELSE {siblingDirOf(x) : x \in Range(SiblingFile[dir].deps)} \ {""}

ResolveSibling(dir) ==
  /\ SiblingFile[dir] # NoFile
  /\ SiblingFile[dir].kind # "meta"
  /\ LoadYAML(SiblingFile[dir])

AuditYAMLStrict(f) == LoadYAML(f) /\ imagePinningWarnings(f) = {}

\* A breadth-first walk that visits a file once and stops at the first bad one.
auditSiblingYAMLs(d) ==
  LET Walk[k \in 0..Cardinality(Dirs)] ==
        IF k = 0 THEN seedAuditQueue(d)
        ELSE Walk[k - 1] \cup UNION {nestedAuditTargets(x) : x \in Walk[k - 1]}
  IN \A x \in Walk[Cardinality(Dirs)] : ResolveSibling(x) /\ AuditYAMLStrict(SiblingFile[x])

-----------------------------------------------------------------------------
(* Validation: internal/validate and upcase/validation.go.                 *)

validateProject(d) == d.project \notin BadNames

\* Of a git service the branch may be left to the remote, the path may not.
GitServiceValid(s) == s.path # "" /\ s.repo # ""

\* Services that leave the loop early keep their profiles unchecked.
RunsOnHost(s) == s.command # "" \/ (s.commands /\ ~s.docker)
ProfilesChecked(s) == ~RunsOnHost(s) /\ (s.kind = "git" => s.docker)

validateServices(d) ==
  \A n \in DOMAIN d.services :
    LET s == d.services[n] IN
    /\ n \notin BadNames
    /\ s.kind = "git" => GitServiceValid(s)
    /\ ProfilesChecked(s) => s.profiles # "bad"

validateInfra(d) ==
  \A n \in DOMAIN d.infra :
    /\ n \notin BadNames
    /\ d.infra[n].image # "" \/ d.infra[n].compose # "" \/ d.infra[n].project # ""

Dangling(d) ==
  (UNION {d.services[n].dependsOn : n \in DOMAIN d.services})
    \ (DOMAIN d.services \cup DOMAIN d.infra)

\* The services from which a name that nothing defines can be reached.
validateTransitiveDependencies(d) ==
  {n \in DOMAIN d.services : Reach(d, {n}) \cap Dangling(d) # {}}

\* The services on a cycle of dependsOn.
OnCycle(d) == {n \in DOMAIN d.services : n \in Reach(d, d.services[n].dependsOn)}

\* Mutant: only a service that depends on itself is a cycle.
ValidateDependencyCycle_SelfOnly(d) ==
  \A n \in DOMAIN d.services : n \notin d.services[n].dependsOn

ValidateDependencyCycle(d) == OnCycle(d) = {}

checkProxyAddress(d) ==
  IF d.proxy.ip # "" THEN d.proxy.ip = "fits" /\ d.network.subnet # ""
  ELSE d.proxy.publish \/ d.network.subnet = "wide"

CheckProxyRequirements(d) ==
  d.proxy.enabled =>
    /\ checkProxyAddress(d)
    /\ d.proxy.tls \in {"", "mkcert"} => in.mkcert

\* Why `up` refuses, {} when it does not.
ValidateRefusals(d) ==
  {c \in {"preflight", "project", "services", "infra", "dangling", "cycle", "proxy"} :
     CASE c = "preflight" -> ~in.docker
       [] c = "project" -> ~validateProject(d)
       [] c = "services" -> ~validateServices(d)
       [] c = "infra" -> ~validateInfra(d)
       [] c = "dangling" -> Dangling(d) # {} \/ validateTransitiveDependencies(d) # {}
       [] c = "cycle" -> ~ValidateDependencyCycle(d)
       [] c = "proxy" -> ~CheckProxyRequirements(d)}

\* `raioz check`: a runtime is known if declared, overridden or recognised.
ResolveServiceDetection(d, n) ==
  LET s == d.services[n] IN
  \/ s.compose # "" \/ s.command # "" \/ s.runtime # ""
  \/ s.path # "" /\ n \in DOMAIN in.tree.dirs /\ Recognised(in.tree.dirs[n])

awaitingClone(d, n) ==
  d.services[n].kind = "git" /\ d.services[n].path # "" /\ n \notin DOMAIN in.checkout

\* Mutant: the proxy's requirements are not checked.
CheckYAML_NoProxy(f) ==
  LET d == YAMLToDeps(f) IN
  /\ LoadDepsFromYAML(f)
  /\ Warnings(f) \cap unknownFieldWarnings(f) = {}
  /\ \A n \in DOMAIN d.services : ResolveServiceDetection(d, n) \/ awaitingClone(d, n)
  /\ Dangling(d) = {}

CheckYAML(f) ==
  LET d == YAMLToDeps(f) IN
  /\ LoadDepsFromYAML(f)
  /\ Warnings(f) \cap unknownFieldWarnings(f) = {}
  /\ \A n \in DOMAIN d.services : ResolveServiceDetection(d, n) \/ awaitingClone(d, n)
  /\ Dangling(d) = {}
  /\ CheckProxyRequirements(d)

-----------------------------------------------------------------------------
(* Without a file: app/init_scan.go, which writes one, and                 *)
(* config/auto_detect.go, which goes on without.                           *)

\* The directories a service is made of; without any, the root itself.
ScannedServices(t) ==
  LET below == {n \in DOMAIN t.dirs \ IgnoredDirs : Recognised(t.dirs[n])}
  IN IF below = {} /\ Recognised(t.root) THEN {t.name} ELSE below

ScannedDir(t, n) == IF n \in DOMAIN t.dirs \ IgnoredDirs /\ Recognised(t.dirs[n])
                      THEN t.dirs[n] ELSE t.root

LinksFrom(t, n) == {l[2] : l \in {x \in InferDepsFromEnv(t).links : x[1] = n}}

\* Only a port that was inferred is written.
buildServiceFromDetection(t, n) ==
  LET found == Detect(ScannedDir(t, n)) IN
  [path |-> "inside", git |-> "", branch |-> "", dependsOn |-> LinksFrom(t, n), env |-> "",
   compose |-> "", command |-> "", stop |-> "", ports |-> found.port, runtime |-> "",
   profiles |-> "none", auth |-> "", resources |-> "none",
   rest |-> IF found.hot THEN "watched" ELSE "plain"]

scannedDependency(image) ==
  [image |-> image, compose |-> "", project |-> "", sibling |-> "", required |-> FALSE,
   env |-> "", dev |-> "", ports |-> FALSE, hostname |-> "", proxy |-> FALSE,
   volume |-> "none", resources |-> "none"]

\* What the env files speak of comes before what the root's compose file holds.
scanRootCompose(t) ==
  LET composed == InferDepsFromCompose(t.compose)
      inferred == InferDepsFromEnv(t).deps
  IN [n \in inferred \cup DOMAIN composed |->
        scannedDependency(IF n \in inferred THEN KnownImage(n)
                          ELSE IF composed[n] = "" THEN "" ELSE "untagged")]

InitScan(t) ==
  [syntax |-> "ok", secret |-> FALSE, version |-> "1", kind |-> "", project |-> t.name,
   workspace |-> "", wsRoot |-> "", network |-> [name |-> "", subnet |-> ""],
   proxy |-> [enabled |-> FALSE, tls |-> "", ip |-> "", publish |-> TRUE, resources |-> "none"],
   resources |-> "none", router |-> "none", pre |-> <<>>, preUp |-> <<>>, post |-> <<>>,
   services |-> [n \in ScannedServices(t) |-> buildServiceFromDetection(t, n)],
   deps |-> scanRootCompose(t)]

\* No compose file is read, no port written, and a root that is the service is
\* not watched.
autoService(t, n) ==
  [buildServiceFromDetection(t, n) EXCEPT
     !.ports = FALSE, !.rest = IF ScannedDir(t, n) = t.root THEN "plain" ELSE @]

AutoFile(t) ==
  [InitScan(t) EXCEPT
     !.services = [n \in ScannedServices(t) |-> autoService(t, n)],
     !.deps = [n \in InferDepsFromEnv(t).deps |-> scannedDependency(KnownImage(n))]]

AutoDetect(t) == YAMLToDeps(AutoFile(t))

NothingFound(t) == ScannedServices(t) = {} /\ InferDepsFromEnv(t).deps = {}

\* The file of this run, and the configuration it, or the scan, stands for.
File == IF in.way = "init" THEN InitScan(in.tree) ELSE in.file
Configuration == IF in.way = "auto" THEN AutoDetect(in.tree) ELSE YAMLToDeps(File)

\* What an `up` finds.  The dependencies a scan infers are those raioz has in a
\* table of its own, whose names Docker takes; a checkout defines services.
ASSUME InputsAssumption ==
  \A i \in Inputs :
    /\ i.way \in {"file", "init", "auto"}
    /\ IsRaiozConfig(i.file) /\ IsRaiozConfig(InitScan(i.tree))
    /\ i.tree.name # "" /\ i.tree.compose \in Seq([name : STRING, image : STRING])
    /\ InferDepsFromEnv(i.tree).deps \cap BadNames = {}
    /\ \A n \in DOMAIN i.checkout : \A m \in DOMAIN i.checkout[n] :
         m \in Names /\ i.checkout[n][m].dependsOn \subseteq Names
    /\ i.dotenv.files \in Seq(Range(i.dotenv.files)) /\ i.dotenv.files # <<>>
    /\ \A files \in Range(i.dotenv.files) :
         files \in Seq(Range(files)) /\ \A f \in Range(files) : IsEnvFile(f)
    /\ i.dotenv.template = NoTemplate \/ IsEnvTemplate(i.dotenv.template)
    /\ i.dotenv.start = NoEnv \/ IsEnvFile(i.dotenv.start)
    /\ \A e \in i.dotenv.edits : IsEnvFile(e)

-----------------------------------------------------------------------------
(* The .raioz.json of a service's checkout: upcase/dependency_assist.go.   *)
(* in.checkout[n] is what the checkout of git service n defines.           *)

FindServiceConfig(d, n) ==
  IF d.services[n].kind = "git" /\ n \in DOMAIN in.checkout THEN in.checkout[n] ELSE <<>>

Differences(root, own) ==
  {x \in {"branch", "repo", "docker"} : root[x] # own[x]}

DetectDependencyConflicts(d) ==
  {n \in DOMAIN d.services :
     /\ n \in DOMAIN FindServiceConfig(d, n)
     /\ Differences(d.services[n], FindServiceConfig(d, n)[n]) # {}}

\* A name that is missing, who needs it, and its definition where one was found.
DetectMissingDependencies(d) ==
  (UNION {{[name |-> m, by |-> n, found |-> FALSE] : m \in d.services[n].dependsOn
             \ (DOMAIN d.services \cup DOMAIN d.infra)} : n \in DOMAIN d.services})
  \cup
  (UNION {{[name |-> m, by |-> n, found |-> TRUE] : m \in DOMAIN FindServiceConfig(d, n)
             \ DOMAIN d.services} : n \in DOMAIN d.services})

\* The definitions chosen for `names`, put over those of d.
WithServices(d, defs) ==
  [d EXCEPT !.services = [n \in DOMAIN @ \cup DOMAIN defs |->
                            IF n \in DOMAIN defs THEN defs[n] ELSE @[n]]]

-----------------------------------------------------------------------------
(* The run: the phases of Execute that decide what is started.             *)

ConfigInit ==
  /\ in \in Inputs
  /\ pc = (IF in.way = "file" THEN "load" ELSE "scan") /\ cause = "" /\ deps = NoDeps
  /\ queue = <<>> /\ started = <<>> /\ rewritten = {} /\ green = "unasked"
  /\ env = [file |-> in.dotenv.start, ups |-> 1, fresh |-> FALSE, cut |-> FALSE,
            mine |-> IF in.dotenv.start = NoEnv THEN <<>> ELSE in.dotenv.start]

Goto(p) == pc' = p /\ UNCHANGED <<in, cause, queue, started, green>>

Refuse(c) ==
  pc' = "refused" /\ cause' = c
  /\ UNCHANGED <<in, deps, queue, started, rewritten, green, env>>

\* `raioz check` on the same file, before the up.
Check ==
  /\ pc = "load" /\ green = "unasked"
  /\ green' = IF CheckYAML(File) THEN "green" ELSE "red"
  /\ UNCHANGED <<in, pc, cause, deps, queue, started, rewritten, env>>

\* `raioz init`; it writes no file when it found nothing.
ScanToFile ==
  /\ pc = "scan" /\ in.way = "init"
  /\ IF DOMAIN File.services \cup DOMAIN File.deps = {} THEN Refuse("nothing")
     ELSE Goto("load") /\ UNCHANGED <<deps, rewritten, env>>

\* `raioz up` where there is no file: what is scanned is not checked like one.
ScanAndGo ==
  /\ pc = "scan" /\ in.way = "auto"
  /\ IF NothingFound(in.tree) THEN Refuse("nothing")
     ELSE Goto("filter") /\ deps' = Configuration /\ UNCHANGED <<rewritten, env>>

Load ==
  /\ pc = "load"
  /\ \/ /\ LoadDepsFromYAML(File)
        /\ Goto("filter") /\ deps' = YAMLToDeps(File) /\ UNCHANGED <<rewritten, env>>
     \/ ~LoadDepsFromYAML(File) /\ Refuse("load")

ApplyFilters ==
  /\ pc = "filter"
  /\ \/ FiltersAccept(deps) /\ Goto("audit") /\ deps' = Filtered(deps) /\ UNCHANGED <<rewritten, env>>
     \/ ~FiltersAccept(deps) /\ Refuse("selection")

AuditSiblings ==
  /\ pc = "audit"
  /\ \/ (in.audit => auditSiblingYAMLs(deps)) /\ Goto("validate") /\ UNCHANGED <<deps, rewritten, env>>
     \/ in.audit /\ ~auditSiblingYAMLs(deps) /\ Refuse("audit")

Validate ==
  /\ pc = "validate"
  /\ \/ ValidateRefusals(deps) = {} /\ Goto("conflicts") /\ UNCHANGED <<deps, rewritten, env>>
     \/ \E c \in ValidateRefusals(deps) : Refuse(c)

\* Each conflict is answered: keep the root's definition, take the checkout's,
\* or abort; without a terminal any conflict ends the run.
HandleDependencyConflicts ==
  LET conflicts == DetectDependencyConflicts(deps) IN
  /\ pc = "conflicts"
  /\ \/ \E R \in SUBSET conflicts :
          /\ conflicts = {} \/ in.tty
          /\ deps' = WithServices(deps, [n \in R |-> in.checkout[n][n]])
          /\ rewritten' = rewritten \cup R
          /\ Goto("assist") /\ UNCHANGED env
     \/ conflicts # {} /\ Refuse("answers")

\* Each missing service is added, with the definition found, or ignored.
HandleDependencyAssist ==
  LET missing == DetectMissingDependencies(deps)
      found == {m \in missing : m.found} IN
  /\ pc = "assist"
  /\ \/ \E A \in SUBSET found :
          LET names == {m.name : m \in A} IN
          /\ missing = {} \/ in.tty
          /\ \E by \in [names -> {m.by : m \in A}] :
               /\ \A n \in names : [name |-> n, by |-> by[n], found |-> TRUE] \in A
               /\ deps' = WithServices(deps, [n \in names |-> in.checkout[by[n]][n]])
          /\ rewritten' = rewritten \cup names
          /\ Goto("env") /\ UNCHANGED env
     \/ missing # {} /\ ~in.tty /\ Refuse("answers")

\* Only a git service has its .env written, where its checkout has a template.
HasTemplate ==
  /\ in.dotenv.template # NoTemplate /\ in.dotenv.service \in DOMAIN deps.services
  /\ deps.services[in.dotenv.service].kind = "git"

EnvFiles == in.dotenv.files[env.ups]
Generated == GenerateEnvFromTemplate(in.dotenv.template, EnvFiles, env.file)

generateEnvFilesFromTemplates ==
  /\ pc = "env"
  /\ IF HasTemplate
       THEN \E f \in Generated : env' = [env EXCEPT !.file = f, !.fresh = env.file = NoEnv]
       ELSE UNCHANGED env
  /\ Goto("order") /\ UNCHANGED <<deps, rewritten>>

\* Killed while it writes: the file is truncated before it is written.
KilledInWrite ==
  /\ pc = "env" /\ HasTemplate
  /\ \E f \in Generated : \E S \in SUBSET DOMAIN f :
       env' = [env EXCEPT !.file = Restrict(f, S), !.cut = TRUE]
  /\ Goto("killed") /\ UNCHANGED <<deps, rewritten>>

\* The developer sets a variable of the .env between two ups.
Edit ==
  /\ pc \in {"done", "killed"} /\ env.file # NoEnv
  /\ \E e \in in.dotenv.edits :
       env' = [env EXCEPT !.file = Merged(@, e), !.mine = Merged(@, e)]
  /\ UNCHANGED <<in, pc, cause, deps, queue, started, rewritten, green>>

\* The next up, with the env files as they are by then; without a file it scans
\* again, and after `raioz init` there is one.
Again ==
  /\ pc \in {"done", "killed"} /\ env.ups < Len(in.dotenv.files)
  /\ pc' = (IF in.way = "auto" THEN "scan" ELSE "load")
  /\ deps' = NoDeps /\ started' = <<>> /\ queue' = <<>> /\ rewritten' = {}
  /\ env' = [env EXCEPT !.ups = @ + 1, !.fresh = FALSE]
  /\ UNCHANGED <<in, cause, green>>

ServiceDeps(n) == deps.services[n].dependsOn \cap DOMAIN deps.services

\* Kahn's algorithm over the edges between services, in the random order of
\* Go's maps; processOrchestration starts the services in this order.
OrderBegin ==
  /\ pc = "order"
  /\ \E q \in SetToSeqs({n \in DOMAIN deps.services : ServiceDeps(n) = {}}) : queue' = q
  /\ pc' = "start"
  /\ UNCHANGED <<in, cause, deps, started, rewritten, green, env>>

StartNext ==
  LET n == Head(queue)
      Freed == {m \in DOMAIN deps.services : /\ n \in ServiceDeps(m)
                                             /\ ServiceDeps(m) \ Range(started) = {n}} IN
  /\ pc = "start" /\ queue # <<>>
  /\ \E q \in SetToSeqs(Freed) : queue' = Tail(queue) \o q
  /\ started' = Append(started, n)
  /\ UNCHANGED <<in, pc, cause, deps, rewritten, green, env>>

Done ==
  /\ pc = "start" /\ queue = <<>>
  /\ pc' = "done"
  /\ UNCHANGED <<in, cause, deps, queue, started, rewritten, green, env>>

ConfigNext ==
  \/ Check \/ ScanToFile \/ ScanAndGo \/ Load \/ ApplyFilters \/ AuditSiblings \/ Validate
  \/ HandleDependencyConflicts \/ HandleDependencyAssist
  \/ generateEnvFilesFromTemplates \/ KilledInWrite \/ Edit \/ Again
  \/ OrderBegin \/ StartNext \/ Done

ConfigSpec == ConfigInit /\ [][ConfigNext]_configVars

-----------------------------------------------------------------------------
(* Properties.                                                             *)

\* Every variable has its type.
ConfigTypeOK ==
  /\ pc \in {"scan", "load", "filter", "audit", "validate", "conflicts", "assist", "env",
             "order", "start", "done", "refused", "killed"}
  /\ green \in {"unasked", "green", "red"}
  /\ DOMAIN deps.services \subseteq Names /\ DOMAIN deps.infra \subseteq Names
  /\ in.way # "auto" => DOMAIN deps.services \cap DOMAIN deps.infra \subseteq rewritten
  /\ Range(queue) \cup Range(started) \cup rewritten \subseteq DOMAIN deps.services
  /\ (pc = "refused") = (cause # "")

\* orderedServiceNames starts no service twice and none before a service it
\* depends on; and an up that ends has started every service it planned,
\* except those behind a cycle that an answer, taken after the cycle check,
\* brought in: those are dropped without a word.
StartedInOrder ==
  /\ \A i \in DOMAIN started :
       ServiceDeps(started[i]) \subseteq {started[j] : j \in 1..(i - 1)}
  /\ IsInjective(started)
  /\ pc = "done" =>
       \A n \in DOMAIN deps.services \ Range(started) :
         \E c \in Reach(deps, {n}) \cap OnCycle(deps) :
           Reach(deps, {c}) \cap rewritten # {}

NotIgnored(whole) == DOMAIN whole.services \ ForProject(whole.project)

\* The least set that holds what --only names (or everything that is not
\* ignored) and what it depends on.
Selection(whole) ==
  LET svcs == NotIgnored(whole)
      all == svcs \cup DOMAIN whole.infra
      Closed(S) == \A n \in S \cap svcs : whole.services[n].dependsOn \cap all \subseteq S
  IN IF in.only = {} THEN all
     ELSE {n \in all : \A S \in SUBSET all : in.only \subseteq S /\ Closed(S) => n \in S}

\* deps is that part of the configuration, and but for the answers nothing else.
Follows(whole, plan) ==
  LET Rest(d) == [x \in DOMAIN d \ {"services", "infra"} |-> d[x]]
  IN /\ DOMAIN deps.services \ rewritten = (plan \cap NotIgnored(whole)) \ rewritten
     /\ DOMAIN deps.infra = plan \cap DOMAIN whole.infra
     /\ \A n \in DOMAIN deps.services \ rewritten : deps.services[n] = whole.services[n]
     /\ \A n \in DOMAIN deps.infra : deps.infra[n] = whole.infra[n]
     /\ Rest(deps) = Rest(whole)

FollowsConfiguration(whole) == Follows(whole, Selection(whole))

AuthKept(file) ==
  \A n \in DOMAIN deps.services \ rewritten :
    deps.services[n].auth = file.services[n].auth \/ <<"auth", n>> \in Warnings(file)

\* What is started is the file, whatever passes rewrote it: what was selected,
\* each service with the definition the file gives it, under the
\* file's network, proxy, hooks and workspace.  Only what an answer brought in
\* is added or defined otherwise, and an `auth:` that has no clone to apply to
\* is not dropped in silence.
PlanIsTheFile ==
  pc \in {"validate", "conflicts", "assist", "env", "order", "start", "done"} =>
    /\ FollowsConfiguration(Configuration)
    /\ in.way # "auto" => AuthKept(File)

\* A file that `raioz check` calls green is refused by `raioz up` only for what
\* check never looks at: the machine, the flags, the answers, the siblings,
\* and of the file itself a cycle, a name Docker refuses, a git service without
\* a path and a malformed profile.
CheckAgrees ==
  green = "green" /\ pc = "refused" =>
    \/ cause \in {"preflight", "selection", "audit", "answers", "cycle"}
    \/ cause = "dangling" /\ CheckIgnoredDependencies(YAMLToDeps(File), ForProject(File.project)) # {}
    \/ cause \in {"project", "services", "infra"} /\
         LET d == YAMLToDeps(File) IN
         \/ BadNames \cap ({d.project} \cup DOMAIN d.services \cup DOMAIN d.infra) # {}
         \/ \E s \in Range(d.services) : s.profiles = "bad" \/ (s.kind = "git" /\ s.path = "")

\* What a scan finds comes up: every directory with a program becomes a service
\* that is started, with every dependency its .env files speak of beside it, be
\* it by way of the file `raioz init` writes or without one; unless a name is
\* one Docker refuses, a service is named like a dependency, the compose file
\* has a service with no image (so that the next one's may be paired with it,
\* or nothing with the last), or there is nothing.
ScanComesUp ==
  LET t == in.tree
      speaksOf == [n \in DOMAIN t.dirs |-> UNION {scanEnvFile(t.dirs[n].env[f]) :
                     f \in DOMAIN t.dirs[n].env \cap {".env", ".env.local", ".env.development", ".env.dev"}}]
      names == {t.name} \cup DOMAIN t.dirs \cup {t.compose[i].name : i \in DOMAIN t.compose}
  IN in.way # "file" /\ in.only = {} =>
       /\ pc = "done" =>
            \A n \in DOMAIN t.dirs \ (IgnoredDirs \cup ForProject(t.name)) :
              Recognised(t.dirs[n]) =>
                /\ n \in Range(started)
                /\ speaksOf[n] \subseteq deps.services[n].dependsOn \cap DOMAIN deps.infra
       /\ pc = "refused" =>
            \/ cause \in {"nothing", "preflight", "selection"}
            \/ names \cap BadNames # {}
            \/ DOMAIN Configuration.services \cap DOMAIN Configuration.infra # {}
            \/ \E i \in DOMAIN t.compose : t.compose[i].image = ""

\* A quote with a backslash before it: written, read and written again it is not
\* the same.
Escaped(v) == v.quote /\ v.esc > 0

\* When the .env of a service has been written it says, to who reads it, what the
\* env files of raioz.yaml say now and, for what they never said, what the
\* developer wrote or else what the template gives, with its references resolved:
\* but a quote with a backslash before it gets another one, a quote of the
\* developer's own with every up that reads it back, a reference without braces
\* may be taken for that of a shorter name, and what a killed write cut off stays
\* off.
EnvIsMerged ==
  pc \in {"order", "start"} /\ HasTemplate =>
    LET told == LoadFiles(EnvFiles)
        ever == UNION {DOMAIN LoadFiles(in.dotenv.files[u]) : u \in 1..env.ups}
        read == loadSingleFile(env.file)
        t == in.dotenv.template
        Same(k, v) == k \in DOMAIN read /\ (read[k] = v \/ Escaped(v))
    IN /\ \A k \in DOMAIN told : Same(k, told[k])
       /\ \A k \in DOMAIN env.mine \ ever :
            \/ k \in DOMAIN read /\ read[k] = loadSingleFile(env.mine)[k]
            \/ env.mine[k].quote
                 /\ (env.mine[k].wrapped \/ Escaped(env.mine[k]) \/ env.ups > 1)
            \/ env.cut
       /\ in.dotenv.start = NoEnv => DOMAIN t \subseteq DOMAIN read \/ env.cut
       /\ env.fresh => \A k \in DOMAIN t \ DOMAIN told :
            t[k].kind # "value" /\ t[k].ref \in DOMAIN told =>
              Same(k, told[t[k].ref]) \/ \E p \in DOMAIN told : <<p, t[k].ref>> \in NamePrefixes
=============================================================================
