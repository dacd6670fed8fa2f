-------------------------------- MODULE MCUpRun --------------------------------
(* `api` has containers and a service cloned from git, `web` a host service. *)
EXTENDS UpRun, TLC

MCKinds == [api |-> {"container", "host"}, web |-> {"host"}]
Sym == Permutations(Cmd)
================================================================================
