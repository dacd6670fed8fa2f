----------------------------- MODULE MCVolumes -----------------------------
(* Instances of Volumes for TLC. *)
EXTENDS Volumes, TLC

CONSTANTS c1, c2, me, other, db, queue

named(src) == [kind |-> "named", src |-> src, norm |-> src]
odd(src) == [kind |-> "named", src |-> src, norm |-> "normal"]
bind == [kind |-> "bind", src |-> "./jobs", norm |-> "./jobs"]

distinct == db :> named("data") @@ queue :> named("jobs")
old == {<<"bare", "", me, "data">>}

\* A new project; one with volumes and a snapshot of older versions, whose entry
\* is not in normal form; one whose dependencies write the same entry; one of
\* a workspace.
MCStarts ==
  {[ws |-> FALSE, entry |-> distinct, volumes |-> {}, legacy |-> {}],
   [ws |-> FALSE, entry |-> db :> odd("data") @@ queue :> bind, volumes |-> old, legacy |-> old],
   [ws |-> FALSE, entry |-> db :> named("data") @@ queue :> named("data"),
    volumes |-> {}, legacy |-> {}],
   [ws |-> TRUE, entry |-> distinct, volumes |-> old \cup {<<"plain", "", "", "jobs">>},
    legacy |-> {}]}

Symmetry == Permutations({c1, c2})
=============================================================================
