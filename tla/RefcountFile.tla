----------------------------- MODULE RefcountFile -----------------------------
(***************************************************************************)
(* internal/refcount as it is written: a JSON file that every call locks,  *)
(* loads, changes and saves.  Clients are goroutines of raioz processes.   *)
(* The advisory file lock is taken to exclude processes only, as the       *)
(* package says of it, and a mutex in each process its own goroutines.     *)
(* A process may be killed between any two steps: the kernel frees its     *)
(* file lock, and WriteFileAtomic leaves the old file or the new one.      *)
(***************************************************************************)
CONSTANTS
    Client,         \* callers of the package
    Process,        \* raioz processes
    ProcOf,         \* the process of each client
    Project, Dep,
    Asks,           \* the calls each client may make
    NoCall,         \* the client has no call open
    NoFile,         \* there is no shared-deps.json
    Nobody          \* a free lock

Call == [op: {"AddRef", "DropRef", "Snapshot"}, dep: Dep, project: Project]

ASSUME RefcountFileAssumption ==
    /\ ProcOf \in [Client -> Process]
    /\ Asks \in [Client -> SUBSET Call]
    /\ Nobody \notin Client \cup Process
    /\ NoFile \notin [Dep -> SUBSET Project]
    /\ NoCall \notin Call

VARIABLES
    file,    \* shared-deps.json
    flock,   \* the process that holds .shared-deps.lock
    mutex,   \* for each process, the client that holds its processMu
    pc,      \* where in withLock each client is
    buf,     \* the state it has loaded
    call,    \* the call it is making
    reply    \* the answer it has computed

vars == <<file, flock, mutex, pc, buf, call, reply>>

Refs == [Dep -> SUBSET Project]
NoRefs == [d \in Dep |-> {}]

\* A missing file is an empty state.
content == IF file = NoFile THEN NoRefs ELSE file

\* The call has taken effect, or failed, from the unlocking on.
finished == {c \in Client : pc[c] \in {"unlock", "leave", "answer"}}

Abs == INSTANCE Refcount WITH refs <- content, done <- finished

PC == {"idle", "mutex", "flock", "load", "save", "unlock", "leave", "answer"}

\* The clients between FileLockExclusive and FileUnlock.
Locked(c) == pc[c] \in {"load", "save", "unlock"}

TypeOK ==
    /\ file \in Refs \cup {NoFile}
    /\ flock \in Process \cup {Nobody}
    /\ mutex \in [Process -> Client \cup {Nobody}]
    /\ pc \in [Client -> PC]
    /\ buf \in [Client -> Refs]
    /\ call \in [Client -> Abs!Call \cup {NoCall}]
    /\ reply \in [Client -> Refs]

Init ==
    /\ file = NoFile
    /\ flock = Nobody
    /\ mutex = [p \in Process |-> Nobody]
    /\ pc = [c \in Client |-> "idle"]
    /\ buf = [c \in Client |-> NoRefs]
    /\ call = [c \in Client |-> NoCall]
    /\ reply = [c \in Client |-> NoRefs]

-----------------------------------------------------------------------------
Goto(c, where) == pc' = [pc EXCEPT ![c] = where]

Invoke(c, k) ==
    /\ pc[c] = "idle"
    /\ call' = [call EXCEPT ![c] = k]
    /\ Goto(c, "mutex")
    /\ UNCHANGED <<file, flock, mutex, buf, reply>>

\* processMu.Lock.
LockMutex(c) ==
    /\ pc[c] = "mutex"
    /\ mutex[ProcOf[c]] = Nobody
    /\ mutex' = [mutex EXCEPT ![ProcOf[c]] = c]
    /\ Goto(c, "flock")
    /\ UNCHANGED <<file, flock, buf, call, reply>>

\* FileLockExclusive blocks while another process has the lock.
LockFile(c) ==
    /\ pc[c] = "flock"
    /\ flock \in {Nobody, ProcOf[c]}
    /\ flock' = ProcOf[c]
    /\ Goto(c, "load")
    /\ UNCHANGED <<file, mutex, buf, call, reply>>

\* The lock file cannot be opened or locked: withLock returns the error.
LockFileFails(c) ==
    /\ pc[c] = "flock"
    /\ Goto(c, "leave")
    /\ UNCHANGED <<file, flock, mutex, buf, call, reply>>

Load(c) ==
    /\ pc[c] = "load"
    /\ call[c].op # "Snapshot"
    /\ buf' = [buf EXCEPT ![c] = content]
    /\ Goto(c, "save")
    /\ UNCHANGED <<file, flock, mutex, call, reply>>

\* Snapshot and Workspaces copy what they load and write nothing.
LoadSnapshot(c) ==
    /\ pc[c] = "load"
    /\ call[c].op = "Snapshot"
    /\ reply' = [reply EXCEPT ![c] = content]
    /\ Goto(c, "unlock")
    /\ UNCHANGED <<file, flock, mutex, buf, call>>

\* The file cannot be read or parsed: an error, and nothing in the answer.
LoadFails(c) ==
    /\ pc[c] = "load"
    /\ Goto(c, "unlock")
    /\ UNCHANGED <<file, flock, mutex, buf, call, reply>>

\* save deletes the file when no reference is left.
ToFile(r) == IF r = NoRefs THEN NoFile ELSE r

Save(c) ==
    /\ pc[c] = "save"
    /\ file' = ToFile(Abs!Apply(buf[c], call[c]))
    /\ reply' = [reply EXCEPT ![c] = Abs!Answer(buf[c], call[c])]
    /\ buf' = [buf EXCEPT ![c] = NoRefs]
    /\ Goto(c, "unlock")
    /\ UNCHANGED <<flock, mutex, call>>

\* Variant: the write is not atomic, and a failed one loses the file.
SaveFails_Truncates(c) ==
    /\ pc[c] = "save"
    /\ file' = NoFile
    /\ reply' = [reply EXCEPT ![c] = Abs!Answer(buf[c], call[c])]
    /\ buf' = [buf EXCEPT ![c] = NoRefs]
    /\ Goto(c, "unlock")
    /\ UNCHANGED <<flock, mutex, call>>

\* The write fails after DropRef has worked out who remains.
SaveFails(c) ==
    /\ pc[c] = "save"
    /\ reply' = [reply EXCEPT ![c] = Abs!Answer(buf[c], call[c])]
    /\ buf' = [buf EXCEPT ![c] = NoRefs]
    /\ Goto(c, "unlock")
    /\ UNCHANGED <<file, flock, mutex, call>>

\* The deferred calls, last first: FileUnlock and Close, then the mutex.
UnlockFile(c) ==
    /\ pc[c] = "unlock"
    /\ flock' = Nobody
    /\ Goto(c, "leave")
    /\ UNCHANGED <<file, mutex, buf, call, reply>>

UnlockMutex(c) ==
    /\ pc[c] = "leave"
    /\ mutex' = [mutex EXCEPT ![ProcOf[c]] = Nobody]
    /\ Goto(c, "answer")
    /\ UNCHANGED <<file, flock, buf, call, reply>>

\* Everything of the clients in C is forgotten.
Forget(C) ==
    /\ pc' = [c \in Client |-> IF c \in C THEN "idle" ELSE pc[c]]
    /\ buf' = [c \in Client |-> IF c \in C THEN NoRefs ELSE buf[c]]
    /\ call' = [c \in Client |-> IF c \in C THEN NoCall ELSE call[c]]
    /\ reply' = [c \in Client |-> IF c \in C THEN NoRefs ELSE reply[c]]

Return(c) ==
    /\ pc[c] = "answer"
    /\ Forget({c})
    /\ UNCHANGED <<file, flock, mutex>>

\* Variant: the lock file outlives its process.
Kill_KeepsLock(p) ==
    /\ Forget({c \in Client : ProcOf[c] = p})
    /\ mutex' = [mutex EXCEPT ![p] = Nobody]
    /\ UNCHANGED <<file, flock>>

\* A process is killed and its locks go with it.
Kill(p) ==
    /\ Forget({c \in Client : ProcOf[c] = p})
    /\ flock' = IF flock = p THEN Nobody ELSE flock
    /\ mutex' = [mutex EXCEPT ![p] = Nobody]
    /\ UNCHANGED file

Proceed(c) ==
    \/ LockFile(c)   \/ Load(c)         \/ LoadSnapshot(c) \/ Save(c)
    \/ UnlockFile(c) \/ UnlockMutex(c)  \/ Return(c)

Fails(c) == LockFileFails(c) \/ LoadFails(c) \/ SaveFails(c)

Step(c) == Proceed(c) \/ Fails(c)

Next ==
    \/ \E c \in Client :
          \/ \E k \in Asks[c] : Invoke(c, k)
          \/ LockMutex(c)
          \/ Step(c)
    \/ \E p \in Process : Kill(p)

Spec == Init /\ [][Next]_vars

(***************************************************************************)
(* Fairness: a call proceeds, and owes nothing to an error that would cut  *)
(* it short; the kernel and the Go runtime do not pass over the same       *)
(* waiter for ever.                                                        *)
(***************************************************************************)
Fairness == \A c \in Client :
    WF_vars(Proceed(c)) /\ SF_vars(LockMutex(c)) /\ SF_vars(LockFile(c))

FairSpec == Spec /\ Fairness

-----------------------------------------------------------------------------
(***************************************************************************)
(* The locks exclude: one client at a time is between taking the file lock *)
(* and giving it back, among all processes and their goroutines.           *)
(***************************************************************************)
OneLocked == \A c, e \in Client : Locked(c) /\ Locked(e) => c = e

(***************************************************************************)
(* No lost update: what a client is about to write back is based on what   *)
(* the file still says.                                                    *)
(***************************************************************************)
FreshBuffer == \A c \in Client : pc[c] = "save" => buf[c] = content

(***************************************************************************)
(* A clean teardown leaves no file behind (refcount.go, "save": ADR-023).  *)
(***************************************************************************)
NoEmptyFile == file # NoRefs

(***************************************************************************)
(* The file, its locks and its crashes together behave like the counters   *)
(* of Refcount: every call takes effect at once or not at all.             *)
(***************************************************************************)
Atomic == Abs!Spec

(***************************************************************************)
(* Every call is answered unless its process dies, whoever else dies with  *)
(* the lock held.                                                          *)
(***************************************************************************)
CallsEnd == \A c \in Client : pc[c] = "mutex" ~> pc[c] = "idle"

-----------------------------------------------------------------------------
(* The inductive strengthening: who holds which lock where.                *)

\* Clients past LockMutex hold the mutex of their process.
MutexHeld == \A c \in Client :
    pc[c] \in {"flock", "load", "save", "unlock", "leave"} => mutex[ProcOf[c]] = c

FlockHeld == \A c \in Client : Locked(c) => flock = ProcOf[c]

CallOpen == \A c \in Client :
    /\ pc[c] = "idle" <=> call[c] = NoCall
    /\ pc[c] = "save" => call[c].op # "Snapshot"
    /\ pc[c] \in {"idle", "mutex", "flock", "load", "save"} => reply[c] = NoRefs

IInv == TypeOK /\ MutexHeld /\ FlockHeld /\ CallOpen /\ FreshBuffer

=============================================================================
