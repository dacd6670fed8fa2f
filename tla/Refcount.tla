------------------------------- MODULE Refcount -------------------------------
(***************************************************************************)
(* What internal/refcount promises its callers: for each shared dependency *)
(* a set of projects that reference it, and three operations that read or  *)
(* change it at once.  A call may fail and a caller may be killed at any   *)
(* time; neither leaves a change half done.                                *)
(*                                                                         *)
(* A Dep is a key of shared-deps.json: a workspace and a dependency.       *)
(***************************************************************************)
CONSTANTS Client, Project, Dep,
          NoCall    \* the client has no call open

VARIABLES
    refs,    \* the projects that reference each dependency
    call,    \* the call each client has open
    done,    \* the clients whose call has taken effect, or failed
    reply    \* what it answers: the references it saw or left

absVars == <<refs, call, done, reply>>

Refs == [Dep -> SUBSET Project]
NoRefs == [d \in Dep |-> {}]

Call == [op: {"AddRef", "DropRef", "Snapshot"}, dep: Dep, project: Project]

\* The references after a call.
Apply(r, k) ==
    CASE k.op = "AddRef"   -> [r EXCEPT ![k.dep] = @ \cup {k.project}]
      [] k.op = "DropRef"  -> [r EXCEPT ![k.dep] = @ \ {k.project}]
      [] k.op = "Snapshot" -> r

\* Its answer: DropRef says who is left on that one dependency.
Answer(r, k) ==
    CASE k.op = "AddRef"   -> NoRefs
      [] k.op = "DropRef"  -> [NoRefs EXCEPT ![k.dep] = r[k.dep] \ {k.project}]
      [] k.op = "Snapshot" -> r

Init ==
    /\ refs = NoRefs
    /\ call = [c \in Client |-> NoCall]
    /\ done = {}
    /\ reply = [c \in Client |-> NoRefs]

Invoke(c, k) ==
    /\ call[c] = NoCall
    /\ call' = [call EXCEPT ![c] = k]
    /\ UNCHANGED <<refs, done, reply>>

\* The whole effect of a call, in one step.
Do(c) ==
    /\ call[c] # NoCall
    /\ c \notin done
    /\ refs' = Apply(refs, call[c])
    /\ reply' = [reply EXCEPT ![c] = Answer(refs, call[c])]
    /\ done' = done \cup {c}
    /\ UNCHANGED call

\* A failed call changes nothing.  It answers either nobody, which the callers
\* of DropRef take for "no reference left", or what it would have left.
Fail(c) ==
    /\ call[c] # NoCall
    /\ c \notin done
    /\ \E answer \in {NoRefs, Answer(refs, call[c])} :
          reply' = [reply EXCEPT ![c] = answer]
    /\ done' = done \cup {c}
    /\ UNCHANGED <<refs, call>>

\* The answer is delivered, or the callers of a process die with it.
End(C) ==
    /\ call'  = [c \in Client |-> IF c \in C THEN NoCall ELSE call[c]]
    /\ done'  = done \ C
    /\ reply' = [c \in Client |-> IF c \in C THEN NoRefs ELSE reply[c]]
    /\ UNCHANGED refs

Next ==
    \/ \E c \in Client :
          \/ \E k \in Call : Invoke(c, k)
          \/ Do(c)
          \/ Fail(c)
    \/ \E C \in SUBSET Client : End(C)

Spec == Init /\ [][Next]_absVars

=============================================================================
