------------------------------ MODULE LockProofs ------------------------------
(***************************************************************************)
(* The two locks of raioz, for every number of processes and goroutines.   *)
(* RefcountFile: the locks of refcount.go exclude, no update is lost, and  *)
(* the file implements Refcount.  ProjectLock: whom .raioz.lock excludes.  *)
(***************************************************************************)
EXTENDS RefcountFile, ProjectLock, TLAPS

(***************************************************************************)
(* The operators of Refcount yield reference maps.                         *)
(***************************************************************************)
LEMMA ApplyType ==
  ASSUME NEW r \in Refs, NEW k \in Abs!Call
  PROVE  Abs!Apply(r, k) \in Refs /\ Abs!Answer(r, k) \in Refs
<1>0. /\ k.op \in {"AddRef", "DropRef", "Snapshot"}
      /\ k.dep \in Dep
      /\ k.project \in Project
  BY DEF Abs!Call
<1>1. CASE k.op = "AddRef"
  BY <1>0, <1>1 DEF Abs!Apply, Abs!Answer, Abs!NoRefs, Refs
<1>2. CASE k.op = "DropRef"
  BY <1>0, <1>2 DEF Abs!Apply, Abs!Answer, Abs!NoRefs, Refs
<1>3. CASE k.op = "Snapshot"
  BY <1>0, <1>3 DEF Abs!Apply, Abs!Answer, Abs!NoRefs, Refs
<1> QED
  BY <1>0, <1>1, <1>2, <1>3

\* What a client may ask is a call of Refcount, and never the absent one.
LEMMA AsksType ==
  /\ NoCall \notin Abs!Call
  /\ \A c \in Client : \A k \in Asks[c] : k \in Abs!Call
  BY RefcountFileAssumption DEF Call, Abs!Call

LEMMA ContentType == TypeOK => content \in Refs
  BY DEF TypeOK, content, NoRefs, Refs

LEMMA InitIInv == Init => IInv
  BY RefcountFileAssumption
  DEF Init, IInv, TypeOK, PC, Refs, NoRefs, MutexHeld, FlockHeld, CallOpen,
      FreshBuffer, Locked

LEMMA TypeStep == IInv /\ [Next]_vars => TypeOK'
<1> SUFFICES ASSUME IInv, [Next]_vars PROVE TypeOK'
  OBVIOUS
<1>0. content \in Refs /\ NoRefs \in Refs
  BY ContentType DEF IInv, NoRefs, Refs
<1> USE RefcountFileAssumption, <1>0 DEF IInv, TypeOK, PC, Goto
<1>1. ASSUME NEW c \in Client, NEW k \in Abs!Call, Invoke(c, k) PROVE TypeOK'
  BY <1>1 DEF Invoke
<1>2. ASSUME NEW c \in Client, LockMutex(c) PROVE TypeOK'
  BY <1>2 DEF LockMutex
<1>3. ASSUME NEW c \in Client, Step(c) PROVE TypeOK'
  <2>1. CASE LockFile(c)       BY <2>1 DEF LockFile
  <2>2. CASE LockFileFails(c)  BY <2>2 DEF LockFileFails
  <2>3. CASE Load(c)           BY <2>3 DEF Load
  <2>4. CASE LoadSnapshot(c)   BY <2>4 DEF LoadSnapshot
  <2>5. CASE LoadFails(c)      BY <2>5 DEF LoadFails
  <2>6. CASE Save(c) \/ SaveFails(c)
    <3>1. call[c] \in Abs!Call /\ buf[c] \in Refs
      BY <2>6 DEF Save, SaveFails, CallOpen
    <3>2. /\ Abs!Apply(buf[c], call[c]) \in Refs
          /\ Abs!Answer(buf[c], call[c]) \in Refs
      BY <3>1, ApplyType
    <3>3. ToFile(Abs!Apply(buf[c], call[c])) \in Refs \cup {NoFile}
      BY <3>2 DEF ToFile
    <3> QED
      BY <2>6, <3>2, <3>3 DEF Save, SaveFails
  <2>7. CASE UnlockFile(c)     BY <2>7 DEF UnlockFile
  <2>8. CASE UnlockMutex(c)    BY <2>8 DEF UnlockMutex
  <2>9. CASE Return(c)         BY <2>9 DEF Return, Forget
  <2> QED
    BY <1>3, <2>1, <2>2, <2>3, <2>4, <2>5, <2>6, <2>7, <2>8, <2>9 DEF Step, Proceed, Fails
<1>4. ASSUME NEW p \in Process, Kill(p) PROVE TypeOK'
  BY <1>4 DEF Kill, Forget
<1>5. CASE UNCHANGED vars
  BY <1>5 DEF vars
<1> QED
  BY <1>1, <1>2, <1>3, <1>4, <1>5, AsksType DEF Next

(***************************************************************************)
(* Two clients with the file lock are in one process, which has one mutex. *)
(***************************************************************************)
LEMMA HeldExcludes == MutexHeld /\ FlockHeld => OneLocked
  BY DEF MutexHeld, FlockHeld, OneLocked, Locked

(***************************************************************************)
(* Each lock is held where the invariant says: a step moves one client     *)
(* between places, and only the holder or a kill frees a lock.             *)
(***************************************************************************)
LEMMA LocksStep == IInv /\ [Next]_vars => (MutexHeld /\ FlockHeld)'
<1> SUFFICES ASSUME IInv, [Next]_vars PROVE (MutexHeld /\ FlockHeld)'
  OBVIOUS
<1>0. OneLocked
  BY HeldExcludes DEF IInv
<1> USE RefcountFileAssumption, <1>0
    DEF IInv, TypeOK, PC, Goto, MutexHeld, FlockHeld, OneLocked, Locked
<1>1. ASSUME NEW c \in Client, NEW k \in Abs!Call, Invoke(c, k)
      PROVE  (MutexHeld /\ FlockHeld)'
  BY <1>1 DEF Invoke
<1>2. ASSUME NEW c \in Client, LockMutex(c) PROVE (MutexHeld /\ FlockHeld)'
  BY <1>2 DEF LockMutex
<1>3. ASSUME NEW c \in Client, Step(c) PROVE (MutexHeld /\ FlockHeld)'
  <2>1. CASE LockFile(c)       BY <2>1 DEF LockFile
  <2>2. CASE LockFileFails(c)  BY <2>2 DEF LockFileFails
  <2>3. CASE Load(c)           BY <2>3 DEF Load
  <2>4. CASE LoadSnapshot(c)   BY <2>4 DEF LoadSnapshot
  <2>5. CASE LoadFails(c)      BY <2>5 DEF LoadFails
  <2>6. CASE Save(c)           BY <2>6 DEF Save
  <2>7. CASE SaveFails(c)      BY <2>7 DEF SaveFails
  <2>8. CASE UnlockFile(c)     BY <2>8 DEF UnlockFile
  <2>9. CASE UnlockMutex(c)    BY <2>9 DEF UnlockMutex
  <2>10. CASE Return(c)        BY <2>10 DEF Return, Forget
  <2> QED
    BY <1>3, <2>1, <2>2, <2>3, <2>4, <2>5, <2>6, <2>7, <2>8, <2>9, <2>10 DEF Step, Proceed, Fails
<1>4. ASSUME NEW p \in Process, Kill(p) PROVE (MutexHeld /\ FlockHeld)'
  BY <1>4 DEF Kill, Forget
<1>5. CASE UNCHANGED vars
  BY <1>5 DEF vars
<1> QED
  BY <1>1, <1>2, <1>3, <1>4, <1>5, AsksType DEF Next

LEMMA CallOpenStep == IInv /\ [Next]_vars => CallOpen'
<1> SUFFICES ASSUME IInv, [Next]_vars PROVE CallOpen'
  OBVIOUS
<1> USE RefcountFileAssumption
    DEF IInv, TypeOK, PC, Goto, CallOpen
<1>1. ASSUME NEW c \in Client, NEW k \in Abs!Call, Invoke(c, k) PROVE CallOpen'
  <2>1. k # NoCall
    BY AsksType
  <2> QED
    BY <1>1, <2>1 DEF Invoke
<1>2. ASSUME NEW c \in Client, LockMutex(c) PROVE CallOpen'
  BY <1>2 DEF LockMutex
<1>3. ASSUME NEW c \in Client, Step(c) PROVE CallOpen'
  <2>1. CASE LockFile(c)       BY <2>1 DEF LockFile
  <2>2. CASE LockFileFails(c)  BY <2>2 DEF LockFileFails
  <2>3. CASE Load(c)           BY <2>3 DEF Load
  <2>4. CASE LoadSnapshot(c)   BY <2>4 DEF LoadSnapshot
  <2>5. CASE LoadFails(c)      BY <2>5 DEF LoadFails
  <2>6. CASE Save(c)           BY <2>6 DEF Save
  <2>7. CASE SaveFails(c)      BY <2>7 DEF SaveFails
  <2>8. CASE UnlockFile(c)     BY <2>8 DEF UnlockFile
  <2>9. CASE UnlockMutex(c)    BY <2>9 DEF UnlockMutex
  <2>10. CASE Return(c)        BY <2>10 DEF Return, Forget
  <2> QED
    BY <1>3, <2>1, <2>2, <2>3, <2>4, <2>5, <2>6, <2>7, <2>8, <2>9, <2>10 DEF Step, Proceed, Fails
<1>4. ASSUME NEW p \in Process, Kill(p) PROVE CallOpen'
  BY <1>4 DEF Kill, Forget
<1>5. CASE UNCHANGED vars
  BY <1>5 DEF vars
<1> QED
  BY <1>1, <1>2, <1>3, <1>4, <1>5, AsksType DEF Next

(***************************************************************************)
(* Only a client with the file lock writes the file, so the file does not  *)
(* change between the load and the save of another.                        *)
(***************************************************************************)
LEMMA FreshStep == IInv /\ [Next]_vars => FreshBuffer'
<1> SUFFICES ASSUME IInv, [Next]_vars PROVE FreshBuffer'
  OBVIOUS
<1>0. OneLocked
  BY HeldExcludes DEF IInv
<1> USE DEF IInv, TypeOK, PC, Goto, FreshBuffer, content
<1>1. ASSUME NEW c \in Client, NEW k \in Abs!Call, Invoke(c, k) PROVE FreshBuffer'
  BY <1>1 DEF Invoke
<1>2. ASSUME NEW c \in Client, LockMutex(c) PROVE FreshBuffer'
  BY <1>2 DEF LockMutex
<1>3. ASSUME NEW c \in Client, Step(c) PROVE FreshBuffer'
  <2>1. CASE LockFile(c)       BY <2>1 DEF LockFile
  <2>2. CASE LockFileFails(c)  BY <2>2 DEF LockFileFails
  <2>3. CASE Load(c)           BY <2>3 DEF Load
  <2>4. CASE LoadSnapshot(c)   BY <2>4 DEF LoadSnapshot
  <2>5. CASE LoadFails(c)      BY <2>5 DEF LoadFails
  <2>6. CASE Save(c)
    BY <2>6, <1>0 DEF Save, OneLocked, Locked
  <2>7. CASE SaveFails(c)      BY <2>7 DEF SaveFails
  <2>8. CASE UnlockFile(c)     BY <2>8 DEF UnlockFile
  <2>9. CASE UnlockMutex(c)    BY <2>9 DEF UnlockMutex
  <2>10. CASE Return(c)        BY <2>10 DEF Return, Forget
  <2> QED
    BY <1>3, <2>1, <2>2, <2>3, <2>4, <2>5, <2>6, <2>7, <2>8, <2>9, <2>10 DEF Step, Proceed, Fails
<1>4. ASSUME NEW p \in Process, Kill(p) PROVE FreshBuffer'
  BY <1>4 DEF Kill, Forget
<1>5. CASE UNCHANGED vars
  BY <1>5 DEF vars
<1> QED
  BY <1>1, <1>2, <1>3, <1>4, <1>5, AsksType DEF Next

LEMMA Inductive == Spec => []IInv
<1>1. IInv /\ [Next]_vars => IInv'
  BY TypeStep, LocksStep, CallOpenStep, FreshStep DEF IInv
<1> QED
  BY InitIInv, <1>1, PTL DEF Spec

(***************************************************************************)
(* Every variable of the file, its locks and its clients keeps its type.   *)
(***************************************************************************)
THEOREM TypeCorrect == Spec => []TypeOK
<1>1. IInv => TypeOK
  BY DEF IInv
<1> QED
  BY <1>1, Inductive, PTL

(***************************************************************************)
(* withLock: processMu and the file lock together exclude every two calls, *)
(* although the file lock alone excludes only processes.                   *)
(***************************************************************************)
THEOREM Exclusion == Spec => []OneLocked
<1>1. IInv => OneLocked
  BY HeldExcludes DEF IInv
<1> QED
  BY <1>1, Inductive, PTL

(***************************************************************************)
(* AddRef and DropRef: what is written back was loaded from the file as it *)
(* still is, so no update is lost.                                         *)
(***************************************************************************)
THEOREM NoLostUpdate == Spec => []FreshBuffer
<1>1. IInv => FreshBuffer
  BY DEF IInv
<1> QED
  BY <1>1, Inductive, PTL

\* Only Save writes the file, and it has ToFile delete what is empty.
LEMMA EmptyStep == NoEmptyFile /\ [Next]_vars => NoEmptyFile'
<1> SUFFICES ASSUME NoEmptyFile, [Next]_vars PROVE NoEmptyFile'
  OBVIOUS
<1>0. NoFile # NoRefs
  BY RefcountFileAssumption DEF NoRefs
<1>1. ASSUME NEW c \in Client, Save(c) PROVE NoEmptyFile'
  BY <1>0, <1>1 DEF Save, ToFile, NoEmptyFile, NoRefs
<1>2. UNCHANGED file => NoEmptyFile'
  BY DEF NoEmptyFile, NoRefs
<1>3. ASSUME NEW c \in Client, Step(c), ~Save(c) PROVE UNCHANGED file
  BY <1>3 DEF Step, Proceed, Fails, LockFile, LockFileFails, Load, LoadSnapshot,
      LoadFails, SaveFails, UnlockFile, UnlockMutex, Return
<1>4. ASSUME NEW c \in Client, \/ \E k \in Asks[c] : Invoke(c, k)
                               \/ LockMutex(c)
      PROVE  UNCHANGED file
  BY <1>4 DEF Invoke, LockMutex
<1>5. ASSUME NEW p \in Process, Kill(p) PROVE UNCHANGED file
  BY <1>5 DEF Kill
<1>6. CASE UNCHANGED vars
  BY <1>2, <1>6 DEF vars
<1> QED
  BY <1>1, <1>2, <1>3, <1>4, <1>5, <1>6 DEF Next

(***************************************************************************)
(* save: a file without a reference never stays, so Workspaces names only  *)
(* those in use, however the last references go.                           *)
(***************************************************************************)
THEOREM NoneEmpty == Spec => []NoEmptyFile
<1>1. Init => NoEmptyFile
  BY RefcountFileAssumption DEF Init, NoEmptyFile, NoRefs
<1> QED
  BY <1>1, EmptyStep, PTL DEF Spec

(***************************************************************************)
(* Every step of the file is a step of Refcount or leaves it as it is: a   *)
(* call takes effect when its file is written (or read, for a Snapshot).   *)
(***************************************************************************)
LEMMA InitMaps == Init => Abs!Init
<1> SUFFICES ASSUME Init PROVE Abs!Init
  OBVIOUS
<1>1. content = Abs!NoRefs
  BY DEF Init, content, NoRefs, Abs!NoRefs
<1>2. finished = {}
  BY DEF Init, finished
<1>3. call = [c \in Client |-> NoCall] /\ reply = [c \in Client |-> Abs!NoRefs]
  BY DEF Init, NoRefs, Abs!NoRefs
<1> QED
  BY <1>1, <1>2, <1>3 DEF Abs!Init

\* Forgetting clients, with the file left alone, is an End of Refcount.
LEMMA ForgetMaps ==
  ASSUME NEW C \in SUBSET Client, TypeOK, Forget(C), UNCHANGED content
  PROVE  Abs!End(C)
<1>1. finished' = finished \ C
  BY DEF Forget, finished
<1>2. call' = [c \in Client |-> IF c \in C THEN NoCall ELSE call[c]]
  BY DEF Forget
<1>3. reply' = [c \in Client |-> IF c \in C THEN Abs!NoRefs ELSE reply[c]]
  BY DEF Forget, NoRefs, Abs!NoRefs
<1> QED
  BY <1>1, <1>2, <1>3 DEF Abs!End

LEMMA StepMaps == IInv /\ [Next]_vars => [Abs!Next]_(Abs!absVars)
<1> SUFFICES ASSUME IInv, [Next]_vars PROVE [Abs!Next]_(Abs!absVars)
  OBVIOUS
<1>0. content \in Refs /\ NoRefs = Abs!NoRefs
  BY ContentType DEF IInv, NoRefs, Abs!NoRefs
<1> USE DEF IInv, TypeOK, PC, Goto, CallOpen
\* A step that changes neither the file nor what a call answers.
<1> DEFINE Hidden == UNCHANGED <<file, call, reply>> /\ finished' = finished
<1>1. Hidden => [Abs!Next]_(Abs!absVars)
  BY DEF Abs!absVars, content
<1>2. ASSUME NEW c \in Client, NEW k \in Abs!Call, Invoke(c, k)
      PROVE  Abs!Next
  <2>1. finished' = finished
    BY <1>2 DEF Invoke, finished
  <2>2. Abs!Invoke(c, k)
    BY <1>2, <2>1 DEF Invoke, Abs!Invoke, content
  <2> QED
    BY <2>2 DEF Abs!Next
<1>3. ASSUME NEW c \in Client, LockMutex(c) PROVE Hidden
  BY <1>3 DEF LockMutex, finished
<1>4. ASSUME NEW c \in Client, Step(c) PROVE [Abs!Next]_(Abs!absVars)
  <2>1. CASE LockFile(c)
    <3>1. Hidden
      BY <2>1 DEF LockFile, finished
    <3> QED BY <3>1, <1>1
  <2>2. CASE LockFileFails(c) \/ LoadFails(c)
    <3>1. c \notin finished /\ finished' = finished \cup {c}
      BY <2>2 DEF LockFileFails, LoadFails, finished
    <3>2. call[c] # NoCall /\ reply' = [reply EXCEPT ![c] = Abs!NoRefs]
      BY <2>2, <1>0 DEF LockFileFails, LoadFails
    <3>3. UNCHANGED <<content, call>>
      BY <2>2 DEF LockFileFails, LoadFails, content
    <3>4. Abs!Fail(c)
      BY <3>1, <3>2, <3>3 DEF Abs!Fail
    <3> QED BY <3>4 DEF Abs!Next
  <2>3. CASE Load(c)
    <3>1. Hidden
      BY <2>3 DEF Load, finished
    <3> QED BY <3>1, <1>1
  <2>4. CASE LoadSnapshot(c)
    <3>1. c \notin finished /\ finished' = finished \cup {c}
      BY <2>4 DEF LoadSnapshot, finished
    <3>2. call[c] \in Abs!Call /\ call[c].op = "Snapshot" /\ call[c] # NoCall
      BY <2>4, RefcountFileAssumption DEF LoadSnapshot, Abs!Call
    <3>3. Abs!Apply(content, call[c]) = content /\ Abs!Answer(content, call[c]) = content
      BY <3>2 DEF Abs!Apply, Abs!Answer
    <3>4. Abs!Do(c)
      BY <2>4, <3>1, <3>2, <3>3 DEF LoadSnapshot, Abs!Do, content
    <3> QED BY <3>4 DEF Abs!Next
  <2>5. CASE Save(c)
    <3>1. c \notin finished /\ finished' = finished \cup {c}
      BY <2>5 DEF Save, finished
    <3>2. call[c] \in Abs!Call /\ call[c] # NoCall /\ buf[c] = content
      BY <2>5 DEF Save, FreshBuffer
    <3>3. Abs!Apply(content, call[c]) \in Refs
      BY <3>2, <1>0, ApplyType
    <3>4. content' = Abs!Apply(content, call[c])
      <4>1. file' = ToFile(Abs!Apply(content, call[c]))
        BY <2>5, <3>2 DEF Save
      <4> QED
        BY <4>1, <3>3, RefcountFileAssumption DEF ToFile, content, Refs
    <3>5. Abs!Do(c)
      BY <2>5, <3>1, <3>2, <3>4 DEF Save, Abs!Do
    <3> QED BY <3>5 DEF Abs!Next
  <2>6. CASE SaveFails(c)
    <3>1. c \notin finished /\ finished' = finished \cup {c}
      BY <2>6 DEF SaveFails, finished
    <3>2. call[c] # NoCall /\ buf[c] = content
      BY <2>6 DEF SaveFails, FreshBuffer
    <3>3. Abs!Fail(c)
      BY <2>6, <3>1, <3>2 DEF SaveFails, Abs!Fail, content
    <3> QED BY <3>3 DEF Abs!Next
  <2>7. CASE UnlockFile(c)
    <3>1. Hidden
      BY <2>7 DEF UnlockFile, finished
    <3> QED BY <3>1, <1>1
  <2>8. CASE UnlockMutex(c)
    <3>1. Hidden
      BY <2>8 DEF UnlockMutex, finished
    <3> QED BY <3>1, <1>1
  <2>9. CASE Return(c)
    <3>1. Abs!End({c})
      BY <2>9, ForgetMaps, <1>0 DEF Return, content
    <3> QED BY <3>1 DEF Abs!Next
  <2> QED
    BY <1>4, <2>1, <2>2, <2>3, <2>4, <2>5, <2>6, <2>7, <2>8, <2>9 DEF Step, Proceed, Fails
<1>5. ASSUME NEW p \in Process, Kill(p) PROVE Abs!Next
  <2> DEFINE C == {c \in Client : ProcOf[c] = p}
  <2>1. Abs!End(C)
    BY <1>5, ForgetMaps DEF Kill, content
  <2> QED BY <2>1 DEF Abs!Next
<1>6. CASE UNCHANGED vars
  <2>1. Hidden
    BY <1>6 DEF vars, finished
  <2> QED BY <2>1, <1>1
<1> QED
  BY <1>1, <1>2, <1>3, <1>4, <1>5, <1>6, AsksType DEF Next

(***************************************************************************)
(* refcount.go implements Refcount: for its callers AddRef, DropRef and    *)
(* Snapshot are atomic, whatever processes interleave or are killed.       *)
(***************************************************************************)
THEOREM Refinement == Spec => Atomic
<1>1. Init => Abs!Init
  BY InitMaps
<1>2. IInv /\ [Next]_vars => [Abs!Next]_(Abs!absVars)
  BY StepMaps
<1> QED
  BY <1>1, <1>2, Inductive, PTL DEF Spec, Atomic, Abs!Spec

-----------------------------------------------------------------------------
(* The project lock, for every set of commands: the types, and that mutual *)
(* exclusion is lost only by evicting the file of a command that still     *)
(* owns the lock.                                                          *)

USE DEF File

LEMMA LockInitInv == LockInit => LockInv
  BY ProjectLockAssumption
  DEF LockInit, LockInv, LockTypeOK, LockPC, ArmedWhileHeld, OwnersFile, NoLitter, Owner

(***************************************************************************)
(* The types are preserved by every step.                                  *)
(***************************************************************************)
LEMMA LockTypeStep == LockTypeOK /\ [LockNext]_lockVars => LockTypeOK'
<1> SUFFICES ASSUME LockTypeOK, [LockNext]_lockVars PROVE LockTypeOK'
  OBVIOUS
<1> USE ProjectLockAssumption
    DEF LockTypeOK, LockPC, StepTo, CreateExclusive, Release
<1>1. ASSUME NEW p \in Proc, Acquire(p) PROVE LockTypeOK'
  <2>1. CASE OpenCreates(p)    BY <2>1 DEF OpenCreates
  <2>2. CASE OpenFinds(p)      BY <2>2 DEF OpenFinds
  <2>3. CASE ReadNoPid(p)      BY <2>3 DEF ReadNoPid
  <2>4. CASE ReadPid(p)        BY <2>4 DEF ReadPid
  <2>5. CASE Probe(p)          BY <2>5 DEF Probe
  <2>6. CASE CheckAge(p)       BY <2>6 DEF CheckAge
  <2>7. CASE RemoveStale(p)    BY <2>7 DEF RemoveStale, OwnedFile, Owner
  <2>8. CASE ReopenCreates(p)  BY <2>8 DEF ReopenCreates
  <2>9. CASE ReopenRaced(p)    BY <2>9 DEF ReopenRaced
  <2>10. CASE WritePid(p)      BY <2>10 DEF WritePid
  <2> QED BY <1>1, <2>1, <2>2, <2>3, <2>4, <2>5, <2>6, <2>7, <2>8, <2>9, <2>10
          DEF Acquire
<1>2. ASSUME NEW p \in Proc, Start(p) PROVE LockTypeOK'
  BY <1>2 DEF Start
<1>3. ASSUME NEW p \in Proc, WriteFails(p) PROVE LockTypeOK'
  BY <1>3 DEF WriteFails
<1>4. ASSUME NEW p \in Proc, ReleaseEarly(p) \/ ReleaseDeferred(p) PROVE LockTypeOK'
  BY <1>4 DEF ReleaseEarly, ReleaseDeferred
<1>5. ASSUME NEW p \in Proc, Crash(p) PROVE LockTypeOK'
  BY <1>5 DEF Crash
<1>6. ASSUME NEW p \in Proc, ReusePid(p) \/ OtherExits(p) PROVE LockTypeOK'
  BY <1>6 DEF ReusePid, OtherExits
<1>7. CASE Age
  BY <1>7 DEF Age
<1>8. CASE UNCHANGED lockVars
  BY <1>8 DEF lockVars
<1> QED
  BY <1>1, <1>2, <1>3, <1>4, <1>5, <1>6, <1>7, <1>8 DEF LockNext

\* O_CREATE|O_EXCL gives p the path when, unless one was evicted alive,
\* nobody owns the lock.
LEMMA CreateKeeps ==
  ASSUME NEW p \in Proc, LockInv, at[p] \in {"open", "reopen"},
         CreateExclusive(p), StepTo(p, "write"), UNCHANGED <<armed, liveEvicted>>
  PROVE  (ArmedWhileHeld /\ OwnersFile /\ NoLitter)'
<1> USE DEF Owner, LockInv, LockTypeOK
<1>1. lockFile = NoLock /\ lockFile' = [creator |-> p, pid |-> NoPid, expired |-> FALSE]
  BY DEF CreateExclusive
<1>2. lockFile' \in File
  BY <1>1
<1>3. lockFile' # NoLock /\ lockFile'.creator = p
  BY <1>1, <1>2, ProjectLockAssumption
<1>4. at' = [at EXCEPT ![p] = "write"]
  BY DEF StepTo
<1>5. Owner(p)' /\ \A q \in Proc : q # p => at'[q] = at[q]
  BY <1>4
<1>6. ArmedWhileHeld'
  BY <1>4 DEF ArmedWhileHeld
<1>7. OwnersFile'
  BY <1>1, <1>3, <1>5 DEF OwnersFile
<1>8. NoLitter'
  BY <1>3, <1>5 DEF NoLitter
<1> QED
  BY <1>6, <1>7, <1>8

\* Writing the PID changes neither who owns the lock nor whose file it is.
LEMMA WriteKeeps ==
  ASSUME NEW p \in Proc, LockInv, WritePid(p)
  PROVE  (ArmedWhileHeld /\ OwnersFile /\ NoLitter)'
<1> USE DEF LockInv, LockTypeOK
<1>1. at[p] = "write" /\ at' = [at EXCEPT ![p] = "held"]
      /\ armed' = [armed EXCEPT ![p] = TRUE] /\ liveEvicted' = liveEvicted
  BY DEF WritePid, StepTo
<1>2. /\ lockFile' # NoLock <=> lockFile # NoLock
      /\ lockFile # NoLock => lockFile'.creator = lockFile.creator
  <2>1. CASE lockFile # NoLock /\ lockFile.creator = p
    <3>1. lockFile' = [lockFile EXCEPT !.pid = p, !.expired = FALSE]
      BY <2>1 DEF WritePid
    <3>2. lockFile \in File /\ lockFile' \in File
      BY <2>1, <3>1
    <3> QED
      BY <2>1, <3>1, <3>2, ProjectLockAssumption
  <2>2. CASE ~(lockFile # NoLock /\ lockFile.creator = p)
    BY <2>2 DEF WritePid
  <2> QED
    BY <2>1, <2>2
<1>3. \A q \in Proc : Owner(q)' <=> Owner(q)
  BY <1>1 DEF Owner
<1>4. ArmedWhileHeld'
  BY <1>1 DEF ArmedWhileHeld
<1>5. OwnersFile'
  BY <1>1, <1>2, <1>3 DEF OwnersFile
<1>6. NoLitter'
  <2>1. lockFile # NoLock => lockFile.creator \in Proc
    OBVIOUS
  <2> QED
    BY <1>2, <1>3, <2>1 DEF NoLitter
<1> QED
  BY <1>4, <1>5, <1>6

(***************************************************************************)
(* The inductive step of the rest.  An owner's file can go only by its own *)
(* release, by a release of another owner (there is none until a live      *)
(* owner is evicted: both would be the creator of the file), or by an      *)
(* eviction, which liveEvicted records.                                    *)
(***************************************************************************)
LEMMA LockStep == LockInv /\ [LockNext]_lockVars => LockInv'
<1> SUFFICES ASSUME LockInv, [LockNext]_lockVars PROVE LockInv'
  OBVIOUS
<1>0. LockTypeOK' /\ LockTypeOK
  BY LockTypeStep DEF LockInv
<1> DEFINE Rest == ArmedWhileHeld /\ OwnersFile /\ NoLitter
<1> SUFFICES Rest'
  BY <1>0 DEF LockInv
<1> USE <1>0, ProjectLockAssumption
    DEF LockInv, LockTypeOK, LockPC, StepTo, CreateExclusive, Release,
        ArmedWhileHeld, OwnersFile, NoLitter, Owner
<1>1. ASSUME NEW p \in Proc, Acquire(p) PROVE Rest'
  <2>1. CASE OpenCreates(p)
    BY <2>1, CreateKeeps DEF OpenCreates
  <2>2. CASE OpenFinds(p)      BY <2>2 DEF OpenFinds
  <2>3. CASE ReadNoPid(p)      BY <2>3 DEF ReadNoPid
  <2>4. CASE ReadPid(p)        BY <2>4 DEF ReadPid
  <2>5. CASE Probe(p)          BY <2>5 DEF Probe
  <2>6. CASE CheckAge(p)       BY <2>6 DEF CheckAge
  <2>7. CASE RemoveStale(p)    BY <2>7 DEF RemoveStale, OwnedFile
  <2>8. CASE ReopenCreates(p)
    BY <2>8, CreateKeeps DEF ReopenCreates
  <2>9. CASE ReopenRaced(p)    BY <2>9 DEF ReopenRaced
  <2>10. CASE WritePid(p)
    BY <2>10, WriteKeeps DEF WritePid
  <2> QED BY <1>1, <2>1, <2>2, <2>3, <2>4, <2>5, <2>6, <2>7, <2>8, <2>9, <2>10
          DEF Acquire
<1>2. ASSUME NEW p \in Proc, Start(p) PROVE Rest'
  BY <1>2 DEF Start
<1>3. ASSUME NEW p \in Proc, WriteFails(p) PROVE Rest'
  BY <1>3 DEF WriteFails
<1>4. ASSUME NEW p \in Proc, ReleaseEarly(p) \/ ReleaseDeferred(p) PROVE Rest'
  BY <1>4 DEF ReleaseEarly, ReleaseDeferred
<1>5. ASSUME NEW p \in Proc, Crash(p) PROVE Rest'
  BY <1>5 DEF Crash
<1>6. ASSUME NEW p \in Proc, ReusePid(p) \/ OtherExits(p) PROVE Rest'
  BY <1>6 DEF ReusePid, OtherExits
<1>7. CASE Age
  BY <1>7 DEF Age
<1>8. CASE UNCHANGED lockVars
  BY <1>8 DEF lockVars
<1> QED
  BY <1>1, <1>2, <1>3, <1>4, <1>5, <1>6, <1>7, <1>8 DEF LockNext

LEMMA LockInductive == LockSpec => []LockInv
  BY LockInitInv, LockStep, PTL DEF LockSpec

(***************************************************************************)
(* Every variable keeps its type, whatever commands, crashes and ages.     *)
(***************************************************************************)
THEOREM LockTypeCorrect == LockSpec => []LockTypeOK
<1>1. LockInv => LockTypeOK
  BY DEF LockInv
<1> QED
  BY <1>1, LockInductive, PTL

(***************************************************************************)
(* lock.Acquire / Lock.Release: as long as replaceStaleLock has removed no *)
(* live owner's file, two commands never own the project lock together.    *)
(***************************************************************************)
THEOREM LockExclusion == LockSpec => []ExclusionUnlessLiveEvicted
<1>1. LockInv => ExclusionUnlessLiveEvicted
  BY DEF LockInv, OwnersFile, ExclusionUnlessLiveEvicted, MutualExclusion
<1> QED
  BY <1>1, LockInductive, PTL

(***************************************************************************)
(* Lock.Release and the failed acquisitions: only a command that crashed   *)
(* leaves a lock file behind.                                              *)
(***************************************************************************)
THEOREM LitterFree == LockSpec => []NoLitter
<1>1. LockInv => NoLitter
  BY DEF LockInv
<1> QED
  BY <1>1, LockInductive, PTL

=============================================================================
