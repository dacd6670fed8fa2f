-------------------------- MODULE MCConfigPipeline --------------------------
(***************************************************************************)
(* Small raioz.yaml files for ConfigPipeline: one valid file and what      *)
(* becomes of it when one aspect changes (its graph and the selection, the *)
(* fields of a service, a dependency or the file, the machine, the         *)
(* .raioz.json of a checkout, the siblings); small directories to scan; and *)
(* the .env of a service over two ups.                                     *)
(***************************************************************************)
EXTENDS ConfigPipeline

MCEnvVar == {"K", "M", "U", "URL", "W"}
MCWriters == {"raioz", "u", "later", "me", "edit"}

MCNames == {"a", "b", "c", "d", "e", "x", "shop", "_", "docs", "postgres", "redis"}
MCBadNames == {"_"}
MCDirs == {"s1", "s2", "s3", "s4", "gone", "meta"}

Svc == [path |-> "inside", git |-> "", branch |-> "", dependsOn |-> {}, env |-> "",
        compose |-> "", command |-> "", stop |-> "", ports |-> FALSE, runtime |-> "",
        profiles |-> "none", auth |-> "", resources |-> "none", rest |-> "plain"]
GitSvc == [Svc EXCEPT !.git = "repo", !.branch = "main"]
Dep == [image |-> "pinned", compose |-> "", project |-> "", sibling |-> "",
        required |-> FALSE, env |-> "", dev |-> "", ports |-> FALSE, hostname |-> "",
        proxy |-> FALSE, volume |-> "none", resources |-> "none"]
SibDep(dir) == [Dep EXCEPT !.image = "", !.project = dir]

FileOf(svcs, ds) ==
  [syntax |-> "ok", secret |-> FALSE, version |-> "1", kind |-> "", project |-> "shop",
   workspace |-> "acme", wsRoot |-> "", network |-> [name |-> "", subnet |-> "wide"],
   proxy |-> [enabled |-> TRUE, tls |-> "", ip |-> "", publish |-> TRUE, resources |-> "none"],
   resources |-> "root", router |-> "none",
   pre |-> <<"bare">>, preUp |-> <<"bare", "inside">>, post |-> <<"inside">>,
   services |-> svcs, deps |-> ds]

Shop == FileOf([n \in {"a", "b", "c"} |->
                 CASE n = "a" -> [Svc EXCEPT !.dependsOn = {"b", "d"}]
                   [] n = "b" -> GitSvc
                   [] n = "c" -> Svc],
              [n \in {"d"} |-> Dep])

\* s1 and s2 refer to each other; s3 leads to s4, which does not pin its image.
Sib(dir) == FileOf(<<>>, [n \in {"d"} |-> SibDep(dir)])
MCSiblingFile ==
  [dir \in MCDirs |->
     CASE dir = "s1" -> Sib("s2")
       [] dir = "s2" -> Sib("s1")
       [] dir = "s3" -> Sib("s4")
       [] dir = "s4" -> FileOf(<<>>, [n \in {"d"} |-> [Dep EXCEPT !.image = "latest"]])
       [] dir = "gone" -> NoFile
       [] dir = "meta" -> [Shop EXCEPT !.kind = "meta"]]

\* Directories: with a Go program, with nothing, with a package.json.
Empty == [files |-> {}, scripts |-> {}, env |-> <<>>]
Go == [Empty EXCEPT !.files = {"go.mod"}]
NPM == [Empty EXCEPT !.files = {"package.json"}]
GoTree(names) ==
  [name |-> "shop", root |-> Empty, dirs |-> [n \in names |-> Go], compose |-> <<>>]

NoTemplates ==
  [service |-> "b", template |-> NoTemplate, files |-> << <<>> >>, start |-> NoEnv, edits |-> {}]

Input(f) ==
  [way |-> "file", file |-> f, tree |-> GoTree({"a", "b", "c"}),
   ignored |-> [services |-> {}, projects |-> <<>>], only |-> {}, audit |-> FALSE, tty |-> TRUE,
   mkcert |-> TRUE, docker |-> TRUE, checkout |-> <<>>, dotenv |-> NoTemplates]

WithService(n, s) == [Shop EXCEPT !.services[n] = s]
WithDep(d) == [Shop EXCEPT !.deps["d"] = d]

Graphs ==
  {[Input([Shop EXCEPT !.services = [n \in {"a", "b", "c"} |->
       [Shop.services[n] EXCEPT !.dependsOn =
          CASE n = "a" -> da [] n = "b" -> db [] n = "c" -> dc]]])
     EXCEPT !.ignored.services = i, !.only = o] :
   da \in {{}, {"b"}, {"c", "d"}, {"b", "c"}}, db \in {{}, {"c"}, {"a", "d"}, {"b"}},
   dc \in {{}, {"a"}, {"x"}}, i \in {{}, {"b"}, {"c", "x"}, {"a", "b", "c"}},
   o \in {{}, {"a"}, {"b", "d"}, {"x"}}}

Services ==
  {Input(WithService("a", s)) : s \in
     {[Svc EXCEPT !.path = p, !.git = g, !.command = c] :
        p \in Path, g \in {"", "repo"}, c \in {"", "bare", "system"}}
     \cup {[Svc EXCEPT !.runtime = r, !.resources = c] : r \in {"", "known", "bad"}, c \in Caps}
     \cup {[GitSvc EXCEPT !.profiles = p, !.ports = x, !.stop = s] :
             p \in {"none", "ok", "bad"}, x \in BOOLEAN, s \in {"", "bare"}}
     \cup {[Svc EXCEPT !.profiles = "bad", !.stop = "bare", !.ports = x] : x \in BOOLEAN}
     \cup {[Svc EXCEPT !.auth = a, !.env = p] : a \in {"", "gh", "bad"}, p \in Path}}

Deps ==
  {Input(WithDep(d)) : d \in
     {[Dep EXCEPT !.image = i, !.compose = c, !.resources = r] :
        i \in {"", "pinned", "latest", "untagged"}, c \in {"", "inside", "outside"},
        r \in {"none", "own", "bad"}}
     \cup {[Dep EXCEPT !.image = i, !.project = p, !.sibling = s, !.required = q] :
             i \in {"", "pinned"}, p \in {"", "s1"}, s \in {"", "s2"}, q \in BOOLEAN}
     \cup {[Dep EXCEPT !.ports = TRUE, !.hostname = h, !.volume = v, !.dev = p] :
             h \in {"", "own"}, v \in {"none", "system"}, p \in {"", "system"}}}

Globals ==
  {Input(f) : f \in
     {[Shop EXCEPT !.syntax = x, !.secret = s, !.version = v] :
        x \in {"ok", "unknown", "bad"}, s \in BOOLEAN, v \in {"1", "2"}}
     \cup {[Shop EXCEPT !.project = p, !.workspace = w, !.network = n] :
             p \in {"shop", "", "_"}, w \in {"", "acme"},
             n \in [name : {"", "own"}, subnet : {"", "wide"}]}
     \cup {[Shop EXCEPT !.services = <<>>, !.deps = ds, !.kind = k] :
             ds \in {<<>>, Shop.deps}, k \in {"", "meta"}}
     \cup {[Shop EXCEPT !.deps = [n \in {m} |-> Dep], !.services["a"].dependsOn = {"b", m}] :
             m \in {"c", "_"}}
     \cup {[Shop EXCEPT !.router = r, !.wsRoot = w, !.services["a"].path = p,
              !.resources = c] :
             r \in {"none", "empty", "other", "system"}, w \in {"", "parent", "system"},
             p \in {"inside", "outside"}, c \in {"none", "bad"}}}

Machines ==
  {[Input([Shop EXCEPT !.proxy = [enabled |-> e, tls |-> t, ip |-> i, publish |-> u,
                                   resources |-> "none"],
                        !.network.subnet = s])
     EXCEPT !.mkcert = m, !.docker = k, !.tree = GoTree({"a", "c"})] :
   e \in BOOLEAN, t \in {"", "letsencrypt"}, i \in {"", "fits", "wrong"}, u \in BOOLEAN,
   s \in {"", "wide", "narrow"}, m \in BOOLEAN, k \in BOOLEAN}

\* The definitions a checkout may give: of its own service, of others.
Own == {[yamlServiceToService(Shop, GitSvc) EXCEPT !.branch = br, !.dependsOn = ds] :
          br \in {"main", "dev"}, ds \in {{}, {"a"}, {"x"}}}
Other == {yamlServiceToService(Shop, [Svc EXCEPT !.dependsOn = ds]) : ds \in {{}, {"b"}}}

Checkouts ==
  {[Input(Shop) EXCEPT !.checkout = [n \in {"b"} |-> [m \in D |-> IF m = "b" THEN own ELSE other]],
                        !.tty = t, !.ignored.projects = ("shop" :> i), !.only = o] :
   D \in SUBSET {"b", "c", "d", "x"}, own \in Own, other \in Other, t \in BOOLEAN,
   i \in {{}, {"c"}}, o \in {{}, {"a"}}}

Audits ==
  {[Input([Shop EXCEPT !.deps = [n \in {"d", "e"} |->
              IF n = "d" THEN Dep ELSE SibDep(dir)]])
     EXCEPT !.audit = a, !.only = o] :
   dir \in MCDirs, a \in BOOLEAN, o \in {{}, {"a"}}}

\* Directories for `init` and ":auto:".
Env(f, lines) == f :> lines
Speaks(n) == {[name |-> n, urls |-> {}], [name |-> "", urls |-> {n}]}
Hot == {[port |-> FALSE, framework |-> TRUE, hot |-> TRUE]}
Layouts ==
  {<<>>,
   "a" :> [Go EXCEPT !.env = Env(".env", Speaks("postgres"))],
   ("a" :> [NPM EXCEPT !.scripts = Hot, !.env = Env(".env.dev", {[name |-> "", urls |-> {"postgres", "redis"}]})])
     @@ ("b" :> [Empty EXCEPT !.files = {"Dockerfile", "package.json"}, !.scripts = Hot])
     @@ ("docs" :> [Go EXCEPT !.env = Env(".env.example", Speaks("redis"))])
     @@ ("x" :> [Empty EXCEPT !.env = Env(".env", Speaks("redis"))]),
   ("postgres" :> Go) @@ ("a" :> [Go EXCEPT !.files = {"go.mod", ".air.toml"},
                                          !.env = Env(".env.local", Speaks("postgres"))])}
Key(n, i) == [name |-> n, image |-> i]
Composes ==
  {<<>>, <<Key("redis", "redis")>>, <<Key("a", ""), Key("d", "postgres"), Key("x", "app")>>,
   <<Key("x", "app"), Key("d", "postgres"), Key("d", "redis")>>, <<Key("d", "")>>}

Scans ==
  {[Input(Shop) EXCEPT !.way = w, !.ignored.services = i, !.docker = k,
      !.dotenv.files = IF k THEN << <<>>, <<>> >> ELSE << <<>> >>,
      !.tree = [name |-> nm, root |-> r, dirs |-> d, compose |-> c]] :
   w \in {"init", "auto"}, i \in {{}, {"a"}, {"postgres"}}, k \in BOOLEAN, nm \in {"shop", "_"},
   r \in {Empty, [NPM EXCEPT !.scripts = Hot, !.env = Env(".env", Speaks("redis"))]},
   d \in Layouts, c \in Composes}

\* A service with a template, its .env over two ups.
Quoted(by) == [PlainValue(by) EXCEPT !.quote = TRUE]
Value(v) == [kind |-> "value", value |-> v]
Templates ==
  {[K |-> Value(PlainValue("template")), W |-> [kind |-> k, ref |-> "URL"]] :
   k \in {"bare", "braces"}}
Files == {<<>>, <<[URL |-> PlainValue("raioz")]>>, <<[URL |-> Quoted("raioz"), U |-> PlainValue("u")]>>,
          <<[URL |-> [Quoted("raioz") EXCEPT !.esc = 1]]>>,
          <<[URL |-> PlainValue("raioz")], [K |-> PlainValue("raioz"), URL |-> PlainValue("later")]>>}
Starts == {NoEnv, [K |-> PlainValue("me")], [URL |-> PlainValue("me"), M |-> Quoted("me")],
           [M |-> [Quoted("me") EXCEPT !.esc = 1, !.wrapped = TRUE]], [M |-> [Quoted("me") EXCEPT !.esc = 1]]}

Envs ==
  {[Input(FileOf("b" :> GitSvc, <<>>)) EXCEPT
      !.dotenv = [service |-> "b", template |-> t, files |-> fs, start |-> s, edits |-> e]] :
   t \in Templates, fs \in {<<f, g>> : f \in Files, g \in Files}, s \in Starts,
   e \in {{}, {[K |-> PlainValue("edit"), W |-> Quoted("edit")]}}}

MCInputs == Scans \cup Envs \cup Graphs \cup Services \cup Deps \cup Globals \cup Machines \cup Checkouts \cup Audits

MCInfraNames == {"d", "postgres", "redis"}
MCInfraImages == {"postgres", "redis"}
MCIgnoredDirs == {"docs"}
MCNamePrefixes == {<<"U", "URL">>}
=============================================================================
