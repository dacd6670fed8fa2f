----------------------------- MODULE Detection -----------------------------
(***************************************************************************)
(* What raioz makes of a directory tree without a raioz.yaml: the program  *)
(* a directory holds (detect.Detect), the dependencies its `.env` files    *)
(* and a compose file speak of (detect/infer_deps.go).                     *)
(*                                                                         *)
(* What is data here: a directory is the set of its marker files, the      *)
(* scripts of its package.json and its `.env` files; a line of those names *)
(* known services, by its variable or by URLs in its value; a compose file *)
(* is the sequence of its keys two spaces in, with their images.           *)
(***************************************************************************)
EXTENDS Naturals, Sequences, FiniteSets, Functions, SequencesExt

CONSTANTS InfraNames,  \* names that sound like infrastructure: db, cache, ...
          InfraImages, \* images that are: postgres, redis, ...
          IgnoredDirs  \* node_modules, dist, docs, ...

-----------------------------------------------------------------------------
(* detect.Detect: the first rule that matches.                             *)

\* Files that give a program away, its runtime, whether it has a default port,
\* and the files that mean it reloads itself.
Rule(files, runtime, port, hot) ==
  [files |-> files, runtime |-> runtime, port |-> port, hot |-> hot]

BuiltRules ==
  <<Rule({"compose.yml"}, "compose", FALSE, {}),
    Rule({"Dockerfile"}, "dockerfile", FALSE, {}),
    Rule({"package.json"}, "npm", FALSE, {})>>

ToolRules ==
  <<Rule({"go.mod"}, "go", FALSE, {".air.toml", ".air.conf"}),
    Rule({"Makefile"}, "make", FALSE, {}),
    Rule({"justfile"}, "just", FALSE, {}),
    Rule({"Taskfile.yml"}, "task", FALSE, {}),
    Rule({"pyproject.toml", "requirements.txt"}, "python", FALSE, {}),
    Rule({"Cargo.toml"}, "rust", FALSE, {}),
    Rule({"composer.json"}, "php", TRUE, {}),
    Rule({"pom.xml", "build.gradle", "build.gradle.kts"}, "java", TRUE, {})>>

LanguageRules ==
  <<Rule({"x.csproj", "x.sln"}, "dotnet", TRUE, {"x.csproj", "x.sln"}),
    Rule({"Gemfile"}, "ruby", TRUE, {}),
    Rule({"mix.exs"}, "elixir", TRUE, {"mix.exs"}),
    Rule({"pubspec.yaml"}, "dart", TRUE, {}),
    Rule({"Package.swift"}, "swift", TRUE, {}),
    Rule({"build.sbt"}, "scala", TRUE, {}),
    Rule({"deps.edn", "project.clj"}, "clojure", TRUE, {}),
    Rule({"build.zig"}, "zig", TRUE, {}),
    Rule({"gleam.toml"}, "gleam", TRUE, {}),
    Rule({"stack.yaml", "x.cabal"}, "haskell", TRUE, {}),
    Rule({"deno.json", "deno.jsonc"}, "deno", TRUE, {"deno.json", "deno.jsonc"}),
    Rule({"bunfig.toml", "bun.lockb"}, "bun", TRUE, {"bunfig.toml", "bun.lockb"})>>

Rules == BuiltRules \o ToolRules \o LanguageRules

\* Of the scripts of a package.json any may name a port or a framework with one.
inferPortFromPackageJSON(d) == \E s \in d.scripts : s.port \/ s.framework

hasHotReload(d) == \E s \in d.scripts : s.hot

\* A Dockerfile takes its port from the package.json beside it.
HasPort(d, r) ==
  \/ r.port
  \/ r.runtime \in {"dockerfile", "npm"} /\ "package.json" \in d.files /\ inferPortFromPackageJSON(d)

Detect(d) ==
  LET match == {i \in DOMAIN Rules : Rules[i].files \cap d.files # {}}
      By(r) == [runtime |-> r.runtime, port |-> HasPort(d, r),
                hot |-> r.hot \cap d.files # {} \/ (r.runtime = "npm" /\ hasHotReload(d))]
  IN IF match = {} THEN [runtime |-> "unknown", port |-> FALSE, hot |-> FALSE]
     ELSE By(Rules[CHOOSE i \in match : \A j \in match : i <= j])

Recognised(d) == Detect(d).runtime # "unknown"

-----------------------------------------------------------------------------
(* Dependencies: detect/infer_deps.go.                                     *)

\* The image raioz has for a service it knows, and whether that is pinned.
KnownImage(n) == IF n \in {"nats", "kafka"} THEN "latest" ELSE "pinned"

\* Of the `.env` files of a directory only these four are read.
findEnvFiles(d) == DOMAIN d.env \cap {".env", ".env.local", ".env.development", ".env.dev"}

scanEnvFile(lines) == UNION {({l.name} \ {""}) \cup l.urls : l \in lines}

Mentions(d) == UNION {scanEnvFile(d.env[f]) : f \in findEnvFiles(d)}

\* Mutant: what the root's files speak of is taken for the whole tree's.
InferDepsFromEnv_RootFirst(t) ==
  [deps |-> IF findEnvFiles(t.root) # {} THEN Mentions(t.root)
            ELSE UNION {Mentions(t.dirs[n]) : n \in DOMAIN t.dirs},
   links |-> {l \in (DOMAIN t.dirs) \X UNION {Mentions(t.dirs[n]) : n \in DOMAIN t.dirs} :
                l[2] \in Mentions(t.dirs[l[1]])}]

\* The root and every directory in it, those no service comes from included;
\* a directory is linked to what its own files speak of.
InferDepsFromEnv(t) ==
  LET below == UNION {Mentions(t.dirs[n]) : n \in DOMAIN t.dirs} IN
  [deps |-> Mentions(t.root) \cup below,
   links |-> {l \in (DOMAIN t.dirs) \X below : l[2] \in Mentions(t.dirs[l[1]])}]

\* The keys and the images of the file are two lists, paired by position: the
\* images behind a service that is built, not pulled, go to the wrong keys.
ComposeImage(file, i) ==
  LET pulled == {j \in DOMAIN file : file[j].image # ""}
      Nth(j) == Cardinality({k \in pulled : k <= j}) = i
  IN IF i <= Cardinality(pulled) THEN file[CHOOSE j \in pulled : Nth(j)].image ELSE ""

\* What looks like infrastructure, by its image or by its name; the first of
\* two keys with the same name wins.
InferDepsFromCompose(file) ==
  LET infra == {i \in DOMAIN file : \/ ComposeImage(file, i) \in InfraImages
                                    \/ file[i].name \in InfraNames}
      First(n) == CHOOSE i \in infra : /\ file[i].name = n
                                       /\ \A j \in infra : file[j].name = n => i <= j
  IN [n \in {file[i].name : i \in infra} |-> ComposeImage(file, First(n))]
=============================================================================
