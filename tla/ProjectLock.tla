----------------------------- MODULE ProjectLock -----------------------------
(***************************************************************************)
(* The command lock of raioz: the file <workspace root>/.raioz.lock,       *)
(* opened with O_CREATE|O_EXCL by lock.Acquire, holding the PID of its     *)
(* creator, and removed by Lock.Release.                                   *)
(*                                                                         *)
(* Every system call that reads or writes the path is a step of its own:   *)
(* open, read the PID, probe the PID, stat the age, remove, re-open, write *)
(* the PID, remove.  The environment crashes commands, gives the PID of a  *)
(* dead command to an unrelated program, and lets the file grow older than *)
(* staleLockMaxAge.  (LockProofs extends RefcountFile as well: hence the   *)
(* "Lock" in the names that every specification has.)                      *)
(***************************************************************************)
CONSTANTS
    Proc,       \* PIDs under which the raioz commands that share the file run
    Fallible,   \* those that may crash, fail to write, or have their PID reused
    MayExpire,  \* whether the file may reach the age of staleLockMaxAge
    NoLock,     \* no file at the path
    NoPid       \* no "pid=" line: file not written yet, or gone when read

ASSUME ProjectLockAssumption ==
    /\ Fallible \subseteq Proc
    /\ MayExpire \in BOOLEAN
    /\ NoPid \notin Proc
    /\ NoLock \notin [creator: Proc, pid: Proc \cup {NoPid}, expired: BOOLEAN]

VARIABLES
    lockFile,    \* what is at the path: NoFile, or the file there
    at,          \* where the command with each PID is
    seen,        \* the PID readLockPID returned to the command
    armed,       \* Lock.path # "": Release has still to remove the file
    liveEvicted  \* history: replaceStaleLock has removed the file of a live owner

lockVars == <<lockFile, at, seen, armed, liveEvicted>>

(***************************************************************************)
(* A file is known by its creator: a command has at most one descriptor    *)
(* open, so the file at the path is the one p writes to iff p created it.  *)
(***************************************************************************)
File == [creator: Proc, pid: Proc \cup {NoPid}, expired: BOOLEAN]

(***************************************************************************)
(* "gone": no program has this PID; "other": an unrelated program has it;  *)
(* "tail": a command that released its lock and is still running in the    *)
(* foreground (up --attach, up --watch), its deferred Release to come.     *)
(***************************************************************************)
LockPC == {"gone", "other", "open", "read", "probe", "age", "evict", "reopen",
       "write", "held", "tail"}

\* The commands that own the lock: Acquire has created their file.
Owner(p) == at[p] \in {"write", "held"}

\* The file at the path is that of a command that owns the lock.
OwnedFile == lockFile # NoLock /\ Owner(lockFile.creator)

isProcessRunning(p) == at[p] # "gone"

isLockExpired_NoAgeCap == FALSE    \* variant: the PID alone decides

isLockExpired == lockFile # NoLock /\ lockFile.expired

LockTypeOK ==
    /\ lockFile \in File \cup {NoLock}
    /\ at \in [Proc -> LockPC]
    /\ seen \in [Proc -> Proc \cup {NoPid}]
    /\ armed \in [Proc -> BOOLEAN]
    /\ liveEvicted \in BOOLEAN

LockInit ==
    /\ lockFile = NoLock
    /\ at = [p \in Proc |-> "gone"]
    /\ seen = [p \in Proc |-> NoPid]
    /\ armed = [p \in Proc |-> FALSE]
    /\ liveEvicted = FALSE

-----------------------------------------------------------------------------
StepTo(p, where) == at' = [at EXCEPT ![p] = where]

\* OpenFile(O_CREATE|O_EXCL): a new, empty file of p.
CreateExclusive(p) ==
    /\ lockFile = NoLock
    /\ lockFile' = [creator |-> p, pid |-> NoPid, expired |-> FALSE]

\* The user starts a command that takes the lock.
Start(p) ==
    /\ at[p] = "gone"
    /\ StepTo(p, "open")
    /\ UNCHANGED <<lockFile, seen, armed, liveEvicted>>

OpenCreates(p) ==
    /\ at[p] = "open"
    /\ CreateExclusive(p)
    /\ StepTo(p, "write")
    /\ UNCHANGED <<seen, armed, liveEvicted>>

OpenFinds(p) ==
    /\ at[p] = "open"
    /\ lockFile # NoLock
    /\ StepTo(p, "read")
    /\ UNCHANGED <<lockFile, seen, armed, liveEvicted>>

\* No PID to be read, or no file any more: "treat as corrupt / stale".
ReadNoPid(p) ==
    /\ at[p] = "read"
    /\ lockFile # NoLock => lockFile.pid = NoPid
    /\ seen' = [seen EXCEPT ![p] = NoPid]
    /\ StepTo(p, "evict")
    /\ UNCHANGED <<lockFile, armed, liveEvicted>>

ReadPid(p) ==
    /\ at[p] = "read"
    /\ lockFile # NoLock
    /\ lockFile.pid # NoPid
    /\ seen' = [seen EXCEPT ![p] = lockFile.pid]
    /\ StepTo(p, "probe")
    /\ UNCHANGED <<lockFile, armed, liveEvicted>>

\* The signal-0 probe of the PID that was read, whatever is at the path now.
Probe(p) ==
    /\ at[p] = "probe"
    /\ StepTo(p, IF isProcessRunning(seen[p]) THEN "age" ELSE "evict")
    /\ UNCHANGED <<lockFile, seen, armed, liveEvicted>>

\* Not expired: lock_already_held, and the command ends.
CheckAge(p) ==
    /\ at[p] = "age"
    /\ StepTo(p, IF isLockExpired THEN "evict" ELSE "gone")
    /\ UNCHANGED <<lockFile, seen, armed, liveEvicted>>

\* replaceStaleLock, os.Remove: it takes away whatever file is there by now.
RemoveStale(p) ==
    /\ at[p] = "evict"
    /\ liveEvicted' = (liveEvicted \/ OwnedFile)
    /\ lockFile' = NoLock
    /\ StepTo(p, "reopen")
    /\ UNCHANGED <<seen, armed>>

ReopenCreates(p) ==
    /\ at[p] = "reopen"
    /\ CreateExclusive(p)
    /\ StepTo(p, "write")
    /\ UNCHANGED <<seen, armed, liveEvicted>>

\* Another command took the slot: lock_concurrent_acquire, or the generic
\* error when its PID cannot be read or is dead.  Either way p gives up.
ReopenRaced(p) ==
    /\ at[p] = "reopen"
    /\ lockFile # NoLock
    /\ StepTo(p, "gone")
    /\ UNCHANGED <<lockFile, seen, armed, liveEvicted>>

\* WriteString goes to the descriptor: to nothing visible once p's file has
\* been removed from the path.
WritePid(p) ==
    /\ at[p] = "write"
    /\ lockFile' = IF lockFile # NoLock /\ lockFile.creator = p
                   THEN [lockFile EXCEPT !.pid = p, !.expired = FALSE]
                   ELSE lockFile
    /\ armed' = [armed EXCEPT ![p] = TRUE]
    /\ StepTo(p, "held")
    /\ UNCHANGED <<seen, liveEvicted>>

\* The write fails: Close, Remove, error.
WriteFails(p) ==
    /\ p \in Fallible
    /\ at[p] = "write"
    /\ lockFile' = NoLock
    /\ StepTo(p, "gone")
    /\ UNCHANGED <<seen, armed, liveEvicted>>

\* Variant: Release does not clear l.path, and the second call removes again.
Release_NotIdempotent(p) ==
    /\ lockFile' = NoLock
    /\ armed' = [armed EXCEPT ![p] = FALSE]

\* Lock.Release: the first call removes what is at the path, later ones do
\* nothing.
Release(p) ==
    /\ lockFile' = IF armed[p] THEN NoLock ELSE lockFile
    /\ armed' = [armed EXCEPT ![p] = FALSE]

\* `up --attach` and `up --watch` release before their foreground phase.
ReleaseEarly(p) ==
    /\ at[p] = "held"
    /\ Release(p)
    /\ StepTo(p, "tail")
    /\ UNCHANGED <<seen, liveEvicted>>

\* The deferred Release, and the end of the command.
ReleaseDeferred(p) ==
    /\ at[p] \in {"held", "tail"}
    /\ Release(p)
    /\ StepTo(p, "gone")
    /\ UNCHANGED <<seen, liveEvicted>>

-----------------------------------------------------------------------------
\* SIGKILL, or an error return that removes nothing: the file survives.
Crash(p) ==
    /\ p \in Fallible
    /\ at[p] \notin {"gone", "other"}
    /\ armed' = [armed EXCEPT ![p] = FALSE]
    /\ StepTo(p, "gone")
    /\ UNCHANGED <<lockFile, seen, liveEvicted>>

\* The kernel gives the PID of a dead command to an unrelated program.
ReusePid(p) ==
    /\ p \in Fallible
    /\ at[p] = "gone"
    /\ StepTo(p, "other")
    /\ UNCHANGED <<lockFile, seen, armed, liveEvicted>>

OtherExits(p) ==
    /\ at[p] = "other"
    /\ StepTo(p, "gone")
    /\ UNCHANGED <<lockFile, seen, armed, liveEvicted>>

\* staleLockMaxAge elapses since the file was last written.
Age ==
    /\ MayExpire
    /\ lockFile # NoLock
    /\ lockFile' = [lockFile EXCEPT !.expired = TRUE]
    /\ UNCHANGED <<at, seen, armed, liveEvicted>>

Acquire(p) ==
    \/ OpenCreates(p)   \/ OpenFinds(p)
    \/ ReadNoPid(p)     \/ ReadPid(p)
    \/ Probe(p)         \/ CheckAge(p)
    \/ RemoveStale(p)   \/ ReopenCreates(p)  \/ ReopenRaced(p)
    \/ WritePid(p)

LockNext ==
    \/ \E p \in Proc :
          \/ Start(p)       \/ Acquire(p)
          \/ WriteFails(p)  \/ ReleaseEarly(p) \/ ReleaseDeferred(p)
          \/ Crash(p)       \/ ReusePid(p)     \/ OtherExits(p)
    \/ Age

LockSpec == LockInit /\ [][LockNext]_lockVars

(***************************************************************************)
(* Fairness: a running command takes its next step and ends; time passes;  *)
(* and the user of a command that does not crash retries it.  Nothing is   *)
(* assumed of crashes, nor of the program that got a dead command's PID:   *)
(* it may run for ever.                                                    *)
(***************************************************************************)
LockFairness ==
    /\ \A p \in Proc : WF_lockVars(Acquire(p)) /\ WF_lockVars(ReleaseDeferred(p))
    /\ \A p \in Proc \ Fallible : WF_lockVars(Start(p))
    /\ WF_lockVars(Age)

FairLockSpec == LockSpec /\ LockFairness

-----------------------------------------------------------------------------
(***************************************************************************)
(* At most one command at a time owns the project lock (docs/LOCKS.md, "At *)
(* a glance": it protects "`raioz up` lifecycle / state writes for one     *)
(* project").                                                              *)
(***************************************************************************)
MutualExclusion == \A p, q \in Proc : Owner(p) /\ Owner(q) => p = q

(***************************************************************************)
(* Mutual exclusion is lost in one way only: replaceStaleLock removing the *)
(* file of a command that still owns the lock.  Neither the removal in     *)
(* Release, which does not look whose file it removes, nor the second,     *)
(* deferred Release, nor a failed write ever breaks it by itself.          *)
(***************************************************************************)
ExclusionUnlessLiveEvicted == ~liveEvicted => MutualExclusion

(***************************************************************************)
(* No litter: when no file owner is running, a file at the path is that of *)
(* a command that crashed.  Whatever the commands that end normally do to  *)
(* each other's files, they leave none behind.                             *)
(***************************************************************************)
NoLitter ==
    lockFile # NoLock =>
        Owner(lockFile.creator) \/ lockFile.creator \in Fallible

\* Until a live owner is evicted, the file is that of every owner, and only
\* a command in its critical section has a path left to remove.
OwnersFile ==
    ~liveEvicted =>
        \A p \in Proc : Owner(p) => lockFile # NoLock /\ lockFile.creator = p

ArmedWhileHeld == \A p \in Proc : armed[p] <=> at[p] = "held"

LockInv == LockTypeOK /\ ArmedWhileHeld /\ OwnersFile /\ NoLitter

\* A file that no running command owns: its creator crashed.
Orphaned == lockFile # NoLock /\ ~Owner(lockFile.creator)

(***************************************************************************)
(* The lock of a dead command does not block the project for ever, even if *)
(* an unrelated program keeps its PID alive (the age cap of isLockExpired, *)
(* docs/LOCKS.md "parent SIGKILL and stale project lock").                 *)
(***************************************************************************)
StaleLockRecovers == Orphaned ~> ~Orphaned

=============================================================================
