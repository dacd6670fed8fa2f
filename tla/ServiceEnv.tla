----------------------------- MODULE ServiceEnv -----------------------------
(***************************************************************************)
(* The `.env` that `up` writes into the checkout of a git service that has *)
(* a template (.env.example): internal/env/template.go.                    *)
(*                                                                         *)
(* What is data here: a file is a function from its variables to values;   *)
(* a value is who wrote it, whether there is a quote in it, how many       *)
(* backslashes stand before that quote, and whether the whole is wrapped   *)
(* in quotes.  A template gives a variable a value or a reference to       *)
(* another one.                                                            *)
(***************************************************************************)
EXTENDS Naturals, Sequences, FiniteSets, Functions, FiniteSetsExt

CONSTANTS EnvVar,       \* names of variables
          NamePrefixes, \* pairs of them the first of which begins the second
          Writers,      \* who writes values: the env files, the developer
          NoEnv,        \* what there is where there is no .env
          NoTemplate    \* and where there is no template

Author == Writers \cup {"template", "garbled"}

\* A backslash counts only before a quote.
EnvValue ==
  [by : Author, quote : {TRUE}, esc : Nat, wrapped : BOOLEAN]
    \cup [by : Author, quote : {FALSE}, esc : {0}, wrapped : BOOLEAN]
EnvEntry ==
  [kind : {"value"}, value : EnvValue] \cup [kind : {"braces", "bare"}, ref : EnvVar]

IsEnvFile(f) == \E vars \in SUBSET EnvVar : f \in [vars -> EnvValue]
IsEnvTemplate(t) == \E vars \in SUBSET EnvVar : t \in [vars -> EnvEntry]

ASSUME NoEnvAssumption == \A vars \in SUBSET EnvVar : NoEnv \notin [vars -> EnvValue]

PlainValue(by) == [by |-> by, quote |-> FALSE, esc |-> 0, wrapped |-> FALSE]
Unresolved == PlainValue("template")
Garbled == PlainValue("garbled")

\* How a file of raioz.yaml is read: strconv.Unquote takes a backslash off where
\* what is between the wrapping quotes is well formed.
loadSingleFile(file) ==
  [k \in DOMAIN file |->
     LET v == file[k] IN
     [v EXCEPT !.wrapped = FALSE, !.esc = IF v.wrapped /\ @ % 2 = 1 THEN @ \div 2 ELSE @]]

\* Of two files a later one wins.
LoadFiles(files) ==
  [k \in UNION {DOMAIN f : f \in Range(files)} |->
     LET i == Max({j \in DOMAIN files : k \in DOMAIN files[j]})
     IN loadSingleFile(files[i])[k]]

\* How the service's own .env is read: the wrapping quotes go, backslashes stay.
parseEnvContent(file) == [k \in DOMAIN file |-> [file[k] EXCEPT !.wrapped = FALSE]]

writeEnvFile(values) ==
  [k \in DOMAIN values |->
     IF values[k].quote THEN [values[k] EXCEPT !.esc = @ + 1, !.wrapped = TRUE] ELSE values[k]]

\* The values an entry of the template may come out with.  A reference is
\* replaced where its variable is set, one without braces also where a variable
\* is set whose name begins its name, whichever Go's map brings up first; no
\* default is ever used.
processEntry(e, values) ==
  LET shorter == {p \in DOMAIN values : <<p, e.ref>> \in NamePrefixes} IN
  CASE e.kind = "value" -> {e.value}
    [] e.kind = "braces" -> {IF e.ref \in DOMAIN values THEN values[e.ref] ELSE Unresolved}
    [] e.kind = "bare" ->
         (IF e.ref \in DOMAIN values THEN {values[e.ref]} ELSE {})
         \cup (IF shorter # {} THEN {Garbled} ELSE {})
         \cup (IF e.ref \notin DOMAIN values /\ shorter = {} THEN {Unresolved} ELSE {})

processTemplate(t, values) ==
  {f \in [DOMAIN t -> UNION {processEntry(t[k], values) : k \in DOMAIN t}] :
     \A k \in DOMAIN t : f[k] \in processEntry(t[k], values)}

\* g over f.
Merged(f, g) == [k \in DOMAIN f \cup DOMAIN g |-> IF k \in DOMAIN g THEN g[k] ELSE f[k]]

\* Mutant: what is in the service's .env wins.
Existing_Wins(file, values) == {Merged(values, parseEnvContent(file))}

\* A .env that is there keeps what it has, however little that is: only the
\* variables of the env files are put over it.
Existing(file, values) == {Merged(parseEnvContent(file), values)}

Fresh(t, values) == {Merged(f, values) : f \in processTemplate(t, values)}

\* The contents the .env may come out with.
GenerateEnvFromTemplate(t, files, file) ==
  LET values == LoadFiles(files) IN
  {writeEnvFile(f) : f \in IF file = NoEnv THEN Fresh(t, values) ELSE Existing(file, values)}
=============================================================================
