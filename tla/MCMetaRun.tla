------------------------------- MODULE MCMetaRun -------------------------------
(* `edge` is the router, `api` a project that `web` needs, which `bff` needs; *)
(* bff is in a directory called api, and api in one called backend.           *)
EXTENDS MetaRun

MCBase == [edge |-> "edge", api |-> "backend", web |-> "web", bff |-> "api"]
MCNamed == [edge |-> "edge", api |-> "api", web |-> "web", bff |-> "bff"]
MCSibling == [edge |-> {}, api |-> {}, web |-> {"api"}, bff |-> {"web"}]

E(path) == [path |-> path, git |-> FALSE, branch |-> FALSE, remote |-> "none",
            hostname |-> FALSE, optional |-> FALSE, profiles |-> {}, mode |-> "unset"]
Raw(projects, order, router, workspace) ==
    [projects |-> projects, startOrder |-> order, router |-> router, workspace |-> workspace]

MCConfigs ==
    {Raw(<<E("edge"), [E("web") EXCEPT !.optional = TRUE], E("api")>>, <<"api">>, "edge", TRUE),
     Raw(<<E("bff"), [E("api") EXCEPT !.optional = TRUE, !.git = TRUE], E("web")>>, <<>>, "", TRUE),
     Raw(<<[E("api") EXCEPT !.git = TRUE, !.branch = TRUE, !.remote = "url"],
           [E("web") EXCEPT !.profiles = {"ui"}], [E("bff") EXCEPT !.remote = "url", !.optional = TRUE]>>,
         <<>>, "", TRUE),
     Raw(<<[E("api") EXCEPT !.git = TRUE], [E("bff") EXCEPT !.remote = "url"]>>, <<"bff", "api">>, "", FALSE),
     Raw(<<[E("web") EXCEPT !.optional = TRUE], E("bff")>>, <<>>, "", TRUE),
     Raw(<<[E("web") EXCEPT !.optional = TRUE], E("api"), E("web")>>, <<"web">>, "", TRUE),
     Raw(<<[E("web") EXCEPT !.branch = TRUE]>>, <<>>, "", TRUE)}

D(absent) == [p \in Project |-> IF p \in absent THEN "absent" ELSE "full"]
MCDisks == {D({}), D({"api"}), D({"web"}), D({"api", "bff"}), D({"edge"})}

MCOptions ==
    {NoOptions, [NoOptions EXCEPT !.active = {"ui"}], [NoOptions EXCEPT !.noClone = TRUE],
     [NoOptions EXCEPT !.force = {"api"}, !.active = {"ui"}],
     [NoOptions EXCEPT !.force = {"api"}, !.noClone = TRUE],
     [NoOptions EXCEPT !.audit = TRUE, !.routerOff = TRUE]}
================================================================================
