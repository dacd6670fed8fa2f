------------------------ MODULE ProxyAndWatcherProofs ------------------------
(***************************************************************************)
(* Proofs about Watcher, for any services, directories and numbers of      *)
(* changes and of commands in another terminal; and about WorkspaceProxy,  *)
(* for any projects, lock files and failures.                              *)
(***************************************************************************)
EXTENDS Watcher, WorkspaceProxy, TLAPS, FiniteSetTheorems, FunctionTheorems, SequenceTheorems

-----------------------------------------------------------------------------
(* The jobs. *)

\* Where a job can be once its timer has fired.
Under == {"taking", "stopping", "spawning", "settling", "cancelling",
          "recording", "saving", "clearing", "done"}

LEMMA StepJobs ==
  ASSUME jobs \in Seq(Job), NEW k \in DOMAIN jobs, NEW pid \in Nat,
         NEW where \in Under,
         Step(k, where, pid)
  PROVE  /\ jobs' \in Seq(Job) /\ Len(jobs') = Len(jobs) /\ DOMAIN jobs' = DOMAIN jobs
         /\ jobs'[k] = [svc |-> jobs[k].svc, at |-> where, pid |-> pid]
         /\ \A j \in DOMAIN jobs : j # k => jobs'[j] = jobs[j]
<1> DEFINE new == [svc |-> jobs[k].svc, at |-> where, pid |-> pid]
<1>1. new \in Job
  <2>1. jobs[k] \in Job
    OBVIOUS
  <2> QED
    BY <2>1 DEF Job, Under
<1>2. jobs' = [jobs EXCEPT ![k] = new]
  BY DEF Step
<1> HIDE DEF new
<1>3. jobs' \in Seq(Job) /\ Len(jobs') = Len(jobs) /\ DOMAIN jobs' = DOMAIN jobs
  BY <1>1, <1>2
<1>4. jobs'[k] = new /\ \A j \in DOMAIN jobs : j # k => jobs'[j] = jobs[j]
  BY <1>2
<1> QED
  BY <1>3, <1>4 DEF new

\* A step of job k is no matter of the other services.
LEMMA StepHands ==
  ASSUME jobs \in Seq(Job), NEW k \in DOMAIN jobs, NEW pid \in Nat,
         NEW where \in Under,
         Step(k, where, pid)
  PROVE  \A s : s # jobs[k].svc =>
             Hands(s)' = Hands(s) /\ \A j \in Hands(s) : jobs'[j] = jobs[j]
<1>1. /\ DOMAIN jobs' = DOMAIN jobs
      /\ jobs'[k] = [svc |-> jobs[k].svc, at |-> where, pid |-> pid]
      /\ \A j \in DOMAIN jobs : j # k => jobs'[j] = jobs[j]
  BY StepJobs
<1>2. jobs'[k].svc = jobs[k].svc /\ jobs'[k].at = where
  BY <1>1
<1>3. ASSUME NEW s, s # jobs[k].svc
      PROVE  Hands(s)' = Hands(s) /\ \A j \in Hands(s) : jobs'[j] = jobs[j]
  BY <1>1, <1>2, <1>3 DEF Hands, Busy
<1> QED
  BY <1>3

\* A new timer cancels the old one, which nobody's hands hold.
LEMMA TriggerJobs ==
  ASSUME TypeOK, NEW s \in Service, Trigger(s)
  PROVE  /\ jobs' \in Seq(Job) /\ Len(jobs') = Len(jobs) + 1
         /\ jobs'[Len(jobs) + 1] = [svc |-> s, at |-> "pending", pid |-> 0]
         /\ \A k \in DOMAIN jobs : /\ jobs'[k].svc = jobs[k].svc /\ jobs'[k].pid = jobs[k].pid
                                   /\ jobs'[k] = jobs[k] \/ (~Busy(k) /\ ~Busy(k)')
<1> DEFINE new == [svc |-> s, at |-> "pending", pid |-> 0]
           old == [k \in DOMAIN jobs |-> IF k = timers[s] /\ jobs[k].at = "pending"
                                         THEN [jobs[k] EXCEPT !.at = "cancelled"] ELSE jobs[k]]
<1>1. jobs' = Append(old, new)
  BY DEF Trigger
<1>2. new \in Job
  BY DEF Job
<1>3. \A k \in DOMAIN jobs : /\ old[k] \in Job /\ old[k].svc = jobs[k].svc /\ old[k].pid = jobs[k].pid
                             /\ old[k] = jobs[k] \/ (jobs[k].at = "pending" /\ old[k].at = "cancelled")
  <2> SUFFICES ASSUME NEW k \in DOMAIN jobs
               PROVE  /\ old[k] \in Job /\ old[k].svc = jobs[k].svc /\ old[k].pid = jobs[k].pid
                      /\ old[k] = jobs[k] \/ (jobs[k].at = "pending" /\ old[k].at = "cancelled")
    OBVIOUS
  <2>1. jobs[k] \in Job
    BY DEF TypeOK, JobsOK
  <2> DEFINE gone == [jobs[k] EXCEPT !.at = "cancelled"]
  <2>2. gone \in Job /\ gone.svc = jobs[k].svc /\ gone.pid = jobs[k].pid /\ gone.at = "cancelled"
    BY <2>1 DEF Job
  <2>3. old[k] = IF k = timers[s] /\ jobs[k].at = "pending" THEN gone ELSE jobs[k]
    OBVIOUS
  <2> HIDE DEF gone, old
  <2> QED
    BY <2>1, <2>2, <2>3
<1>4. DOMAIN jobs = 1..Len(jobs) /\ Len(jobs) \in Nat
  BY DEF TypeOK, JobsOK
<1>5. DOMAIN old = 1..Len(jobs)
  BY <1>4
<1> HIDE DEF old, new
<1>6. old \in Seq(Job) /\ Len(old) = Len(jobs)
  <2>1. old \in [1..Len(jobs) -> Job]
    BY <1>3, <1>4, <1>5 DEF old
  <2> QED
    BY <1>4, <2>1, SeqDef
<1>7. /\ jobs' \in Seq(Job) /\ Len(jobs') = Len(jobs) + 1
      /\ jobs'[Len(jobs) + 1] = new
      /\ \A k \in DOMAIN jobs : jobs'[k] = old[k]
  BY <1>1, <1>2, <1>4, <1>6
<1>8. \A k \in DOMAIN jobs : /\ jobs'[k].svc = jobs[k].svc /\ jobs'[k].pid = jobs[k].pid
                             /\ jobs'[k] = jobs[k] \/ (~Busy(k) /\ ~Busy(k)')
  BY <1>3, <1>7 DEF Busy
<1> QED
  BY <1>7, <1>8 DEF new

LEMMA CloseJobs ==
  ASSUME TypeOK, Close
  PROVE  /\ jobs' \in Seq(Job) /\ Len(jobs') = Len(jobs)
         /\ \A k \in DOMAIN jobs : /\ jobs'[k].svc = jobs[k].svc /\ jobs'[k].pid = jobs[k].pid
                                   /\ jobs'[k] = jobs[k] \/ (~Busy(k) /\ ~Busy(k)')
<1>1. jobs' = [k \in DOMAIN jobs |-> IF jobs[k].at = "pending" /\ timers[jobs[k].svc] = k
                                     THEN [jobs[k] EXCEPT !.at = "cancelled"] ELSE jobs[k]]
  BY DEF Close
<1>2. \A k \in DOMAIN jobs :
         /\ jobs'[k] \in Job /\ jobs'[k].svc = jobs[k].svc /\ jobs'[k].pid = jobs[k].pid
         /\ jobs'[k] = jobs[k] \/ (jobs[k].at = "pending" /\ jobs'[k].at = "cancelled")
  <2> SUFFICES ASSUME NEW k \in DOMAIN jobs
               PROVE  /\ jobs'[k] \in Job /\ jobs'[k].svc = jobs[k].svc /\ jobs'[k].pid = jobs[k].pid
                      /\ jobs'[k] = jobs[k] \/ (jobs[k].at = "pending" /\ jobs'[k].at = "cancelled")
    OBVIOUS
  <2>1. jobs[k] \in Job
    BY DEF TypeOK, JobsOK
  <2> DEFINE gone == [jobs[k] EXCEPT !.at = "cancelled"]
  <2>2. gone \in Job /\ gone.svc = jobs[k].svc /\ gone.pid = jobs[k].pid /\ gone.at = "cancelled"
    BY <2>1 DEF Job
  <2>3. jobs'[k] = IF jobs[k].at = "pending" /\ timers[jobs[k].svc] = k THEN gone ELSE jobs[k]
    BY <1>1
  <2> HIDE DEF gone
  <2> QED
    BY <2>1, <2>2, <2>3
<1>3. DOMAIN jobs = 1..Len(jobs) /\ Len(jobs) \in Nat
  BY DEF TypeOK, JobsOK
<1>4. jobs' \in Seq(Job) /\ Len(jobs') = Len(jobs)
  <2>1. jobs' \in [1..Len(jobs) -> Job]
    BY <1>1, <1>2, <1>3
  <2> QED
    BY <1>3, <2>1, SeqDef
<1> QED
  BY <1>2, <1>4 DEF Busy
-----------------------------------------------------------------------------
(* Types. *)

LEMMA InitType == Init => TypeOK
<1> SUFFICES ASSUME Init PROVE TypeOK
  OBVIOUS
<1>1. lastPid \in Nat /\ Bijection(Service, 1..lastPid) # {}
  <2>1. ExistsBijection(1..lastPid, Service) /\ lastPid \in Nat
    BY FS_CardinalityType, WatcherAssumption DEF Init
  <2> QED
    BY <2>1, Fun_ExistsBijSymmetric DEF ExistsBijection
<1>2. recorded \in Bijection(Service, 1..lastPid)
  BY <1>1 DEF Init
<1>3. recorded \in [Service -> 1..lastPid] /\ \A x \in 1..lastPid : \E s \in Service : recorded[s] = x
  BY <1>2 DEF Bijection, Injection, Surjection
<1>4. procs \in [1..lastPid -> [svc : Service, ver : Nat]]
  BY <1>3 DEF Init
<1>5. ProcsOK
  BY <1>1, <1>3, <1>4 DEF Init, ProcsOK, Pid
<1>6. JobsOK
  BY DEF Init, JobsOK
<1> QED
  BY <1>5, <1>6 DEF Init, TypeOK, WhyOK

LEMMA ResolveService ==
  ASSUME NEW dir, Resolve(dir) # ""
  PROVE  Resolve(dir) \in Service
<1> DEFINE match == {s \in Service : Mode[s] # "off" /\ HasPrefix(dir, Path[s])}
           best == {s \in match : \A t \in match : Len(Path[t]) <= Len(Path[s])}
<1>1. Resolve(dir) = IF best = {} THEN "" ELSE CHOOSE s \in best : TRUE
  BY DEF Resolve
<1>2. best \subseteq Service
  OBVIOUS
<1> HIDE DEF best
<1> QED
  BY <1>1, <1>2

\* The jobs and timers after a step of a job.
LEMMA StepType ==
  ASSUME JobsOK, NEW k \in DOMAIN jobs, NEW pid \in Nat,
         NEW where \in Under,
         Step(k, where, pid),
         timers' \in [Service -> Nat], \A s \in Service : timers'[s] \in {0, timers[s]},
         lastPid \in Nat, lastPid' \in Nat, lastPid <= lastPid', pid <= lastPid'
  PROVE  JobsOK'
<1>0. jobs \in Seq(Job)
  BY DEF JobsOK
<1>1. /\ jobs' \in Seq(Job) /\ Len(jobs') = Len(jobs) /\ DOMAIN jobs' = DOMAIN jobs
      /\ jobs'[k] = [svc |-> jobs[k].svc, at |-> where, pid |-> pid]
      /\ \A j \in DOMAIN jobs : j # k => jobs'[j] = jobs[j]
  BY <1>0, StepJobs, Zenon
<1>2. \A j \in DOMAIN jobs : jobs'[j].svc = jobs[j].svc
  BY <1>1 DEF Under
<1>3. Len(jobs) \in Nat /\ DOMAIN jobs = 1..Len(jobs)
  BY <1>0
<1>4. ASSUME NEW s \in Service
      PROVE  timers'[s] \in 0..Len(jobs) /\ (timers'[s] > 0 => jobs'[timers'[s]].svc = s)
  <2>1. timers[s] \in 0..Len(jobs) /\ (timers[s] > 0 => jobs[timers[s]].svc = s)
    BY DEF JobsOK
  <2>2. timers[s] > 0 => timers[s] \in DOMAIN jobs
    BY <1>3, <2>1
  <2>3. CASE timers'[s] = 0
    BY <1>3, <2>3
  <2>4. CASE timers'[s] = timers[s]
    BY <1>2, <2>1, <2>2, <2>4
  <2> QED
    BY <2>3, <2>4
<1>5. ASSUME NEW j \in DOMAIN jobs' PROVE jobs'[j].pid \in 0..lastPid'
  <2>1. jobs[j].pid \in 0..lastPid
    BY <1>1 DEF JobsOK, Pid
  <2>2. CASE j = k
    BY <1>1, <2>2
  <2>3. CASE j # k
    BY <1>1, <2>1, <2>3
  <2> QED
    BY <2>2, <2>3
<1>6. timers' \in [Service -> 0..Len(jobs')]
  BY <1>1, <1>4
<1> QED
  BY <1>1, <1>4, <1>5, <1>6 DEF JobsOK, Pid

LEMMA KillType ==
  ASSUME ProcsOK, NEW P, Kill(P)
  PROVE  /\ DOMAIN procs' = DOMAIN procs \ P
         /\ procs' \in [DOMAIN procs' -> [svc : Service, ver : Nat]]
         /\ \A x \in DOMAIN procs' : procs'[x] = procs[x]
  BY DEF ProcsOK, Kill

LEMMA SpawnType ==
  ASSUME ProcsOK, NEW P, NEW s \in Service, src[s] \in Nat, Spawn(s, P)
  PROVE  /\ lastPid' = lastPid + 1
         /\ DOMAIN procs' = (DOMAIN procs \ P) \cup {lastPid + 1}
         /\ DOMAIN procs' \subseteq 1..lastPid' /\ lastPid + 1 \notin DOMAIN procs
         /\ procs' \in [DOMAIN procs' -> [svc : Service, ver : Nat]]
         /\ procs'[lastPid + 1].svc = s
         /\ \A x \in DOMAIN procs \ P : procs'[x] = procs[x]
<1> DEFINE p == [svc |-> s, ver |-> src[s]]
<1>0. p \in [svc : Service, ver : Nat] /\ p.svc = s
  OBVIOUS
<1>1. /\ lastPid' = lastPid + 1
      /\ procs' = [x \in (DOMAIN procs \ P) \cup {lastPid + 1} |->
                      IF x = lastPid + 1 THEN p ELSE procs[x]]
  BY DEF Spawn
<1> HIDE DEF p
<1>2. DOMAIN procs' = (DOMAIN procs \ P) \cup {lastPid + 1}
  BY <1>1
<1>3. lastPid \in Nat /\ DOMAIN procs \subseteq 1..lastPid
  BY DEF ProcsOK
<1>4. \A x \in DOMAIN procs : procs[x] \in [svc : Service, ver : Nat] /\ x # lastPid + 1
  BY <1>3 DEF ProcsOK
<1>5. procs'[lastPid + 1] = p /\ \A x \in DOMAIN procs \ P : procs'[x] = procs[x]
  BY <1>1, <1>4
<1>6. procs' \in [DOMAIN procs' -> [svc : Service, ver : Nat]]
  <2>1. \A x \in DOMAIN procs' : procs'[x] \in [svc : Service, ver : Nat]
    BY <1>0, <1>2, <1>4, <1>5
  <2> QED
    BY <1>1, <1>2, <2>1
<1> QED
  BY <1>0, <1>1, <1>2, <1>3, <1>4, <1>5, <1>6

LEMMA RestartType ==
  ASSUME TypeOK, NEW k \in DOMAIN jobs, Restart(k)
  PROVE  TypeOK'
<1>0. jobs[k].svc \in Service /\ jobs[k].pid \in 0..lastPid /\ lastPid \in Nat
  <2>1. jobs[k] \in Job
    BY DEF TypeOK, JobsOK
  <2> QED
    BY <2>1 DEF TypeOK, JobsOK, ProcsOK, Job, Pid
<1> DEFINE s == jobs[k].svc
<1>1. ASSUME UNCHANGED timers, NEW pid \in Nat,
             NEW where \in {"taking", "stopping", "spawning", "settling", "cancelling",
                            "recording", "saving", "clearing", "done"},
             Step(k, where, pid), lastPid' \in Nat, lastPid <= lastPid', pid <= lastPid'
      PROVE  JobsOK'
  <2>1. timers' \in [Service -> Nat] /\ \A t \in Service : timers'[t] \in {0, timers[t]}
    BY <1>1 DEF TypeOK, JobsOK
  <2>2. JobsOK
    BY DEF TypeOK
  <2> QED
    BY <1>0, <1>1, <2>1, <2>2, StepType DEF Under
<1>2. UNCHANGED <<src, events, session, todo>>
  BY DEF Restart, Fire, takePID, StopProcessTree, Start, Settled, ExitsEarly, Cancelled,
         recordPID, updateHostPID, Clear, watchRest
<1>3. UNCHANGED file
  BY DEF Restart, Fire, takePID, StopProcessTree, Start, Settled, ExitsEarly, Cancelled,
         recordPID, updateHostPID, Clear
<1>4. told' \in [Service -> Nat]
  BY <1>0 DEF Restart, Fire, takePID, StopProcessTree, Start, Settled, ExitsEarly, Cancelled,
         recordPID, updateHostPID, Clear, TypeOK
<1>5. WhyOK'
  BY <1>0 DEF Restart, Fire, Blame, takePID, StopProcessTree, Start, Settled, ExitsEarly,
         Cancelled, recordPID, updateHostPID, Clear, TypeOK, WhyOK
<1>6. ASSUME JobsOK', ProcsOK' PROVE TypeOK'
  BY <1>2, <1>3, <1>4, <1>5, <1>6 DEF TypeOK
<1>7. ASSUME UNCHANGED <<lastPid, recorded, saved>>, NEW P, Kill(P) PROVE ProcsOK'
  <2>1. ProcsOK
    BY DEF TypeOK
  <2>2. /\ DOMAIN procs' = DOMAIN procs \ P
        /\ procs' \in [DOMAIN procs' -> [svc : Service, ver : Nat]]
    BY <1>7, <2>1, KillType
  <2> QED
    BY <1>7, <2>1, <2>2 DEF ProcsOK, Pid
<1>8. CASE Fire(k) \/ Settled(k)
  <2>1. UNCHANGED <<lastPid, procs, recorded, saved>>
    BY <1>8 DEF Fire, Settled
  <2>2. ProcsOK'
    BY <2>1 DEF TypeOK, ProcsOK, Pid
  <2>3. JobsOK'
    BY <1>0, <1>1, <1>8 DEF Fire, Settled, watchRest
  <2> QED
    BY <1>6, <2>2, <2>3
<1>9. CASE takePID(k)
  <2>1. recorded[s] \in 0..lastPid
    BY <1>0 DEF TypeOK, ProcsOK, Pid
  <2>2. JobsOK'
    BY <1>0, <1>1, <1>9, <2>1 DEF takePID, watchRest
  <2>3. UNCHANGED <<lastPid, procs, saved>> /\ recorded' = [recorded EXCEPT ![s] = 0] /\ ProcsOK
    BY <1>9 DEF takePID, TypeOK
  <2>4. ProcsOK'
    BY <1>0, <2>3 DEF ProcsOK, Pid
  <2> QED
    BY <1>6, <2>2, <2>4
<1>10. CASE StopProcessTree(k) \/ ExitsEarly(k) \/ Cancelled(k)
  <2>1. JobsOK'
    BY <1>0, <1>1, <1>10 DEF StopProcessTree, ExitsEarly, Cancelled, watchRest
  <2>2. ProcsOK'
    BY <1>7, <1>10 DEF StopProcessTree, ExitsEarly, Cancelled
  <2> QED
    BY <1>6, <2>1, <2>2
<1>11. CASE Start(k)
  <2>1. lastPid' = lastPid + 1 /\ lastPid + 1 \in Nat /\ lastPid <= lastPid'
    BY <1>0, <1>11 DEF Start, Spawn
  <2>2. JobsOK'
    BY <1>0, <1>1, <1>11, <2>1 DEF Start, watchRest
  <2>3. src[s] \in Nat /\ ProcsOK
    BY <1>0 DEF TypeOK
  <2>4. Spawn(s, {})
    BY <1>11 DEF Start
  <2>5. /\ DOMAIN procs' \subseteq 1..lastPid'
        /\ procs' \in [DOMAIN procs' -> [svc : Service, ver : Nat]]
    BY <1>0, <2>3, <2>4, SpawnType
  <2>6. ProcsOK'
    BY <1>0, <1>11, <2>1, <2>5 DEF Start, TypeOK, ProcsOK, Pid
  <2> QED
    BY <1>6, <2>2, <2>6
<1>12. CASE recordPID(k)
  <2>1. JobsOK'
    BY <1>0, <1>1, <1>12 DEF recordPID, watchRest
  <2>2. ProcsOK'
    BY <1>0, <1>12 DEF recordPID, TypeOK, ProcsOK, Pid
  <2> QED
    BY <1>6, <2>1, <2>2
<1>13. CASE updateHostPID(k)
  <2>1. JobsOK'
    BY <1>0, <1>1, <1>13 DEF updateHostPID, watchRest
  <2>2. ProcsOK'
    BY <1>13 DEF updateHostPID, TypeOK, ProcsOK, Pid
  <2> QED
    BY <1>6, <2>1, <2>2
<1>14. CASE Clear(k)
  <2>1. timers' \in [Service -> Nat] /\ \A t \in Service : timers'[t] \in {0, timers[t]}
    <3>1. Len(jobs) \in Nat /\ timers \in [Service -> 0..Len(jobs)]
      BY DEF TypeOK, JobsOK
    <3>2. timers' = [timers EXCEPT ![s] = 0]
      BY <1>14 DEF Clear
    <3>3. timers \in [Service -> Nat]
      BY <3>1
    <3> QED
      BY <1>0, <3>2, <3>3
  <2>2. JobsOK'
    BY <1>0, <1>14, <2>1, StepType DEF Clear, TypeOK, Under
  <2>3. ProcsOK'
    BY <1>14 DEF Clear, TypeOK, ProcsOK, Pid
  <2> QED
    BY <1>6, <2>2, <2>3
<1> QED
  BY <1>8, <1>9, <1>10, <1>11, <1>12, <1>13, <1>14 DEF Restart
LEMMA TypeStep == TypeOK /\ [Next]_vars => TypeOK'
<1> SUFFICES ASSUME TypeOK, [Next]_vars PROVE TypeOK'
  OBVIOUS
<1>1. JobsOK /\ ProcsOK /\ WhyOK
  BY DEF TypeOK
<1>2. ASSUME UNCHANGED <<jobs, timers, lastPid>> PROVE JobsOK'
  BY <1>1, <1>2 DEF JobsOK, Pid
<1>3. ASSUME UNCHANGED <<procs, lastPid, recorded, saved>> PROVE ProcsOK'
  BY <1>1, <1>3 DEF ProcsOK, Pid
<1>4. ASSUME NEW S, S \subseteq Service, NEW cause \in {"overlap", "cut", "restarted", "downed"},
             Blame(S, cause)
      PROVE  WhyOK'
  BY <1>1, <1>4 DEF Blame, WhyOK
<1>5. CASE UNCHANGED vars
  BY <1>5 DEF vars, TypeOK, JobsOK, ProcsOK, WhyOK, Pid
<1>6. ASSUME NEW dir \in Tree, Change(dir) PROVE TypeOK'
  <2>1. src' \in [Service -> Nat] /\ events' \subseteq Tree
    BY <1>6 DEF Change, TypeOK
  <2>2. JobsOK' /\ ProcsOK' /\ WhyOK'
    BY <1>1, <1>2, <1>3, <1>6 DEF Change, runRest, WhyOK
  <2> QED
    BY <1>6, <2>1, <2>2 DEF Change, runRest, TypeOK
<1>7. CASE Run
  <2>1. PICK dir \in events : IF Resolve(dir) # "" THEN Trigger(Resolve(dir))
                                                   ELSE UNCHANGED <<jobs, timers>>
    BY <1>7 DEF Run
  <2>2. UNCHANGED <<src, procs, lastPid, recorded, saved, file, session, todo, told, why>>
        /\ events' \subseteq events
    BY <1>7 DEF Run, runRest
  <2>3. JobsOK'
    <3>1. CASE Resolve(dir) = ""
      BY <1>2, <2>1, <2>2, <3>1
    <3>2. CASE Resolve(dir) # ""
      <4> DEFINE s == Resolve(dir)
      <4>1. s \in Service /\ Trigger(s)
        BY <2>1, <3>2, ResolveService
      <4> HIDE DEF s
      <4>2. /\ jobs' \in Seq(Job) /\ Len(jobs') = Len(jobs) + 1
            /\ jobs'[Len(jobs) + 1] = [svc |-> s, at |-> "pending", pid |-> 0]
            /\ \A k \in DOMAIN jobs : jobs'[k].svc = jobs[k].svc /\ jobs'[k].pid = jobs[k].pid
        BY <4>1, TriggerJobs
      <4>3. Len(jobs) \in Nat /\ DOMAIN jobs = 1..Len(jobs) /\ DOMAIN jobs' = 1..(Len(jobs) + 1)
        BY <1>1, <4>2 DEF JobsOK
      <4>4. timers' = [timers EXCEPT ![s] = Len(jobs) + 1]
        BY <4>1 DEF Trigger
      <4>5. \A k \in DOMAIN jobs' : jobs'[k].pid \in Pid
        <5> SUFFICES ASSUME NEW k \in DOMAIN jobs' PROVE jobs'[k].pid \in Pid
          OBVIOUS
        <5>1. CASE k = Len(jobs) + 1
          BY <1>1, <4>2, <5>1 DEF ProcsOK, Pid
        <5>2. CASE k \in DOMAIN jobs
          BY <1>1, <4>2, <5>2 DEF JobsOK
        <5> QED
          BY <4>3, <5>1, <5>2
      <4>6. timers' \in [Service -> 0..Len(jobs')]
        BY <1>1, <4>1, <4>2, <4>3, <4>4 DEF JobsOK
      <4>7. ASSUME NEW t \in Service, timers'[t] > 0 PROVE jobs'[timers'[t]].svc = t
        <5>1. CASE t = s
          BY <1>1, <4>2, <4>4, <5>1 DEF JobsOK
        <5>2. CASE t # s
          <6>1. timers'[t] = timers[t] /\ timers[t] \in DOMAIN jobs /\ jobs[timers[t]].svc = t
            BY <1>1, <4>3, <4>4, <4>7, <5>2 DEF JobsOK
          <6> QED
            BY <4>2, <6>1
        <5> QED
          BY <5>1, <5>2
      <4> QED
        BY <2>2, <4>2, <4>5, <4>6, <4>7 DEF JobsOK, Pid
    <3> QED
      BY <3>1, <3>2
  <2>4. ProcsOK' /\ WhyOK'
    BY <1>1, <1>3, <2>2 DEF WhyOK
  <2> QED
    BY <2>2, <2>3, <2>4 DEF TypeOK
<1>8. CASE Interrupt
  BY <1>1, <1>2, <1>3, <1>4, <1>8 DEF Interrupt, TypeOK
<1>9. CASE stopAllServicesForShutdown
  <2>1. PICK s \in todo : /\ todo' = todo \ {s} /\ Kill({recorded[s]})
                          /\ recorded' = [recorded EXCEPT ![s] = 0]
    BY <1>9 DEF stopAllServicesForShutdown
  <2>2. UNCHANGED <<src, events, timers, jobs, lastPid, saved, file, session, told, why>>
    BY <1>9 DEF stopAllServicesForShutdown
  <2>3. /\ DOMAIN procs' = DOMAIN procs \ {recorded[s]}
        /\ procs' \in [DOMAIN procs' -> [svc : Service, ver : Nat]]
    BY <1>1, <2>1, KillType
  <2>4. ProcsOK'
    <3>0. /\ lastPid \in Nat /\ recorded \in [Service -> 0..lastPid]
          /\ saved \in [Service -> 0..lastPid] /\ s \in Service
      BY <1>1 DEF ProcsOK, Pid, TypeOK
    <3>1. recorded' \in [Service -> 0..lastPid]
      BY <2>1, <3>0
    <3>2. lastPid' = lastPid /\ saved' = saved
      BY <2>2
    <3> QED
      BY <1>1, <2>3, <3>0, <3>1, <3>2 DEF ProcsOK, Pid
  <2>5. JobsOK' /\ WhyOK'
    BY <1>1, <1>2, <2>2 DEF WhyOK
  <2> QED
    BY <2>1, <2>2, <2>4, <2>5 DEF TypeOK
<1>10. CASE ProjectDown \/ DownElsewhere
  <2>1. /\ Kill({saved[s] : s \in Service})
        /\ saved' = [s \in Service |-> 0] /\ file' = FALSE /\ session' \in {session, "closing"}
    BY <1>10 DEF ProjectDown, DownElsewhere
  <2>2. UNCHANGED <<src, events, timers, jobs, lastPid, recorded, todo, told>>
    BY <1>10 DEF ProjectDown, DownElsewhere
  <2>3. /\ DOMAIN procs' = DOMAIN procs \ {saved[s] : s \in Service}
        /\ procs' \in [DOMAIN procs' -> [svc : Service, ver : Nat]]
    BY <1>1, <2>1, KillType
  <2>4. ProcsOK'
    BY <1>1, <2>1, <2>2, <2>3 DEF ProcsOK, Pid
  <2>5. JobsOK'
    BY <1>2, <2>2
  <2>6. WhyOK'
    BY <1>1, <1>4, <1>10 DEF ProjectDown, DownElsewhere, WhyOK
  <2> QED
    BY <2>1, <2>2, <2>4, <2>5, <2>6 DEF TypeOK
<1>11. CASE Close
  <2>1. /\ jobs' \in Seq(Job) /\ Len(jobs') = Len(jobs)
        /\ \A k \in DOMAIN jobs : jobs'[k].pid = jobs[k].pid
    BY <1>11, CloseJobs
  <2>2. timers' = [s \in Service |-> 0] /\ UNCHANGED lastPid
    BY <1>11 DEF Close
  <2>3. DOMAIN jobs' = DOMAIN jobs
    BY <1>1, <2>1 DEF JobsOK
  <2>4. timers' \in [Service -> 0..Len(jobs')] /\ \A s \in Service : timers'[s] = 0
    BY <2>1, <2>2
  <2>5. JobsOK'
    BY <1>1, <2>1, <2>2, <2>3, <2>4 DEF JobsOK, Pid
  <2> QED
    BY <1>1, <1>3, <1>4, <1>11, <2>5 DEF Close, TypeOK
<1>12. CASE Exit
  BY <1>1, <1>2, <1>3, <1>4, <1>12 DEF Exit, TypeOK
<1>13. ASSUME NEW s \in Service, RestartElsewhere(s) PROVE TypeOK'
  <2>1. src[s] \in Nat
    BY DEF TypeOK
  <2>2. Spawn(s, {saved[s]})
    BY <1>13 DEF RestartElsewhere
  <2>3. /\ lastPid' = lastPid + 1 /\ saved' = [saved EXCEPT ![s] = lastPid + 1]
        /\ UNCHANGED <<src, events, timers, jobs, recorded, file, session, todo, told>>
    BY <1>13 DEF RestartElsewhere, Spawn
  <2>4. /\ DOMAIN procs' \subseteq 1..lastPid'
        /\ procs' \in [DOMAIN procs' -> [svc : Service, ver : Nat]]
    BY <1>1, <2>1, <2>2, <2>3, SpawnType
  <2>5. ProcsOK'
    BY <1>1, <2>3, <2>4 DEF ProcsOK, Pid
  <2>6. JobsOK'
    BY <1>1, <2>3 DEF JobsOK, ProcsOK, Pid
  <2>7. WhyOK'
    BY <1>1, <1>13 DEF RestartElsewhere, WhyOK
  <2> QED
    BY <2>3, <2>5, <2>6, <2>7 DEF TypeOK
<1> QED
  BY <1>5, <1>6, <1>7, <1>8, <1>9, <1>10, <1>11, <1>12, <1>13, RestartType DEF Next, Teardown

(***************************************************************************)
(* The type invariant: jobs, processes and the PIDs on record keep their   *)
(* types, whatever files change and whatever another terminal does.        *)
(***************************************************************************)
THEOREM TypeCorrect == Spec => []TypeOK
  BY InitType, TypeStep, PTL DEF Spec

-----------------------------------------------------------------------------
(* What order a service is in: undisturbed, in the hands of one restart, or  *)
(* in nobody's.                                                              *)

LEMMA Undisturbed ==
  ASSUME NEW s, Orderly(s), Hands(s)' = Hands(s), \A k \in Hands(s) : jobs'[k] = jobs[k],
         recorded'[s] = recorded[s], saved'[s] = saved[s], ProcsOf(s)' \subseteq ProcsOf(s),
         Because(s, {"restarted"})' <=> Because(s, {"restarted"}),
         session' = session, s \in todo' <=> s \in todo
  PROVE  Orderly(s)'
<1>1. OneRestart(s)'
  BY DEF Orderly, OneRestart
<1>2. HandedOver(s)'
  BY DEF Orderly, HandedOver
<1>3. Youngest(s)'
  BY DEF Orderly, Youngest
<1>4. Owned(s)' = Owned(s)
  BY DEF Owned
<1>5. AllOwned(s)'
  BY <1>4 DEF Orderly, AllOwned
<1>6. AllKnown(s)'
  BY <1>4 DEF Orderly, AllKnown, Apart
<1>7. Leaving(s)' /\ Gone(s)'
  BY DEF Orderly, Leaving, Gone
<1> QED
  BY <1>1, <1>2, <1>3, <1>5, <1>6, <1>7 DEF Orderly

\* What Orderly says of a service in the hands of k, before and after a step.
InHands(s, k) ==
    /\ Hands(s) = {k}
    /\ jobs[k].at \in {"taking", "spawning", "saving"} => jobs[k].pid = 0
    /\ jobs[k].at \notin {"taking", "saving"} => recorded[s] = 0
    /\ jobs[k].at = "settling" => \A x \in ProcsOf(s) : x <= jobs[k].pid
    /\ (\/ ~Because(s, {"restarted"})
        \/ s \in Ported /\ jobs[k].at \in {"recording", "saving"})
       => ProcsOf(s) \subseteq {recorded[s], jobs[k].pid}
    /\ Apart(s) => ProcsOf(s) \subseteq {recorded[s], jobs[k].pid, saved[s]}
    /\ session # "watching" =>
          /\ jobs[k].at \in {"taking", "stopping", "spawning", "cancelling"}
          /\ s \notin todo => recorded[s] = 0
    /\ session # "over"

LEMMA HandsOrderly ==
  ASSUME NEW s, NEW k, InHands(s, k)
  PROVE  Orderly(s)
<1>1. Hands(s) = {k} /\ Owned(s) = {recorded[s], jobs[k].pid}
  BY DEF InHands, Owned
<1> QED
  BY <1>1 DEF InHands, Orderly, OneRestart, HandedOver, Youngest, AllOwned, AllKnown, Leaving, Gone

LEMMA OrderlyHands ==
  ASSUME NEW s, NEW k \in Hands(s), Orderly(s)
  PROVE  InHands(s, k)
<1>1. Hands(s) = {k} /\ Owned(s) = {recorded[s], jobs[k].pid}
  BY DEF Orderly, OneRestart, Owned
<1> QED
  BY <1>1 DEF InHands, Orderly, HandedOver, Youngest, AllOwned, AllKnown, Leaving, Gone

NoHands(s) ==
    /\ Hands(s) = {}
    /\ ~Because(s, {"restarted"}) => ProcsOf(s) \subseteq {recorded[s]}
    /\ Apart(s) => ProcsOf(s) \subseteq {recorded[s], saved[s]}
    /\ session # "watching" /\ s \notin todo => recorded[s] = 0

LEMMA IdleOrderly ==
  ASSUME NEW s
  PROVE  NoHands(s) <=> Hands(s) = {} /\ Orderly(s)
<1>1. Hands(s) = {} => Owned(s) = {recorded[s]}
  BY DEF Owned
<1> QED
  BY <1>1 DEF NoHands, Orderly, OneRestart, HandedOver, Youngest, AllOwned, AllKnown, Leaving, Gone

LEMMA CalmBefore ==
  ASSUME NEW s, why \subseteq why'
  PROVE  Calm(s)' => Calm(s)
  BY DEF Calm, Because

\* Killing takes processes of a service away, and adds none.
LEMMA KilledProcs ==
  ASSUME ProcsOK, NEW P, Kill(P), NEW s
  PROVE  ProcsOf(s)' = ProcsOf(s) \ P
  BY KillType DEF ProcsOf

\* Spawning one for s adds it to those of s alone.
LEMMA SpawnedProcs ==
  ASSUME ProcsOK, NEW P, NEW s \in Service, src[s] \in Nat, Spawn(s, P)
  PROVE  /\ ProcsOf(s)' = (ProcsOf(s) \ P) \cup {lastPid + 1}
         /\ \A t : t # s => ProcsOf(t)' = ProcsOf(t) \ P
<1>1. /\ DOMAIN procs' = (DOMAIN procs \ P) \cup {lastPid + 1}
      /\ lastPid + 1 \notin DOMAIN procs
      /\ procs'[lastPid + 1].svc = s
      /\ \A x \in DOMAIN procs \ P : procs'[x] = procs[x]
  BY SpawnType
<1>2. ProcsOf(s)' = (ProcsOf(s) \ P) \cup {lastPid + 1}
  BY <1>1 DEF ProcsOf
<1>3. ASSUME NEW t, t # s PROVE ProcsOf(t)' = ProcsOf(t) \ P
  BY <1>1, <1>3 DEF ProcsOf
<1> QED
  BY <1>2, <1>3

-----------------------------------------------------------------------------
(* A step of a job. *)

LEMMA RestartFrame ==
  ASSUME IInv, NEW k \in DOMAIN jobs, Restart(k)
  PROVE  /\ jobs \in Seq(Job) /\ jobs[k].svc \in Service
         /\ UNCHANGED <<session, todo, file>> /\ session # "over" /\ why \subseteq why'
         /\ \A t \in Service : Because(t, {"restarted"})' <=> Because(t, {"restarted"})
         /\ \E pid \in Nat :
            \E where \in {"taking", "stopping", "spawning", "settling", "cancelling",
                          "recording", "saving", "clearing", "done"} : Step(k, where, pid)
<1>1. jobs \in Seq(Job) /\ jobs[k] \in Job
  BY DEF IInv, TypeOK, JobsOK
<1>2. jobs[k].svc \in Service /\ jobs[k].pid \in Nat
  BY <1>1 DEF Job
<1>3. lastPid + 1 \in Nat /\ recorded[jobs[k].svc] \in Nat
  BY <1>2 DEF IInv, TypeOK, ProcsOK, Pid
<1>4. UNCHANGED <<session, todo, file>> /\ session # "over"
  BY DEF Restart, Fire, takePID, StopProcessTree, Start, Settled, ExitsEarly, Cancelled,
         recordPID, updateHostPID, Clear, watchRest, Alive
<1>5. why' = why \/ \E S : Blame(S, "overlap")
  BY DEF Restart, Fire, takePID, StopProcessTree, Start, Settled, ExitsEarly, Cancelled,
         recordPID, updateHostPID, Clear
<1>6. /\ why \subseteq why'
      /\ \A t \in Service : Because(t, {"restarted"})' <=> Because(t, {"restarted"})
  BY <1>5 DEF Blame, Because
<1>7. \E pid \in Nat :
      \E where \in {"taking", "stopping", "spawning", "settling", "cancelling",
                    "recording", "saving", "clearing", "done"} : Step(k, where, pid)
  <2>1. CASE Fire(k)
    BY <2>1 DEF Fire
  <2>2. CASE takePID(k)
    BY <1>3, <2>2 DEF takePID
  <2>3. CASE StopProcessTree(k)
    BY <2>3 DEF StopProcessTree
  <2>4. CASE Start(k)
    BY <1>3, <2>4 DEF Start
  <2>5. CASE Settled(k)
    BY <1>2, <2>5 DEF Settled
  <2>6. CASE ExitsEarly(k) \/ Cancelled(k)
    BY <2>6 DEF ExitsEarly, Cancelled
  <2>7. CASE recordPID(k) \/ updateHostPID(k)
    BY <2>7 DEF recordPID, updateHostPID
  <2>8. CASE Clear(k)
    BY <2>8 DEF Clear
  <2> QED
    BY <2>1, <2>2, <2>3, <2>4, <2>5, <2>6, <2>7, <2>8 DEF Restart
<1> QED
  BY <1>1, <1>2, <1>4, <1>6, <1>7

\* A restart of one service leaves the others alone.
LEMMA RestartOthers ==
  ASSUME IInv, NEW k \in DOMAIN jobs, Restart(k), NEW t \in Service, t # jobs[k].svc, Calm(t)'
  PROVE  Orderly(t)'
<1>1. ProcsOK /\ \A u \in Service : src[u] \in Nat
  BY DEF IInv, TypeOK
<1>2. Orderly(t)
  BY RestartFrame, CalmBefore DEF IInv
<1>3. Hands(t)' = Hands(t) /\ \A j \in Hands(t) : jobs'[j] = jobs[j]
  BY RestartFrame, StepHands DEF Under
<1>4. recorded'[t] = recorded[t] /\ saved'[t] = saved[t]
  BY RestartFrame DEF Restart, Fire, takePID, StopProcessTree, Start, Settled, ExitsEarly,
     Cancelled, recordPID, updateHostPID, Clear, IInv, TypeOK, ProcsOK
<1>5. ProcsOf(t)' \subseteq ProcsOf(t)
  <2>1. CASE UNCHANGED procs
    BY <2>1 DEF ProcsOf
  <2>2. ASSUME NEW P, Kill(P) PROVE ProcsOf(t)' \subseteq ProcsOf(t)
    BY <1>1, <2>2, KilledProcs
  <2>3. CASE Start(k)
    <3>1. jobs[k].svc \in Service /\ Spawn(jobs[k].svc, {})
      BY <2>3, RestartFrame DEF Start
    <3> QED
      BY <1>1, <3>1, SpawnedProcs
  <2> QED
    BY <2>1, <2>2, <2>3 DEF Restart, Fire, takePID, StopProcessTree, Settled, ExitsEarly,
       Cancelled, recordPID, updateHostPID, Clear
<1> QED
  BY <1>2, <1>3, <1>4, <1>5, RestartFrame, Undisturbed
\* What a restart does to its own service.
LEMMA RestartOwn ==
  ASSUME IInv, NEW k \in DOMAIN jobs, Restart(k), NEW s, s = jobs[k].svc, Calm(s)'
  PROVE  Orderly(s)'
<1>0. /\ s \in Service /\ Calm(s) /\ Orderly(s) /\ session # "over" /\ session' = session
      /\ todo' = todo /\ (Because(s, {"restarted"})' <=> Because(s, {"restarted"}))
  BY RestartFrame, CalmBefore DEF IInv
<1>1. ProcsOK /\ jobs \in Seq(Job) /\ src[s] \in Nat /\ lastPid \in Nat /\ recorded[s] \in Nat
  <2>1. ProcsOK /\ JobsOK /\ src[s] \in Nat
    BY <1>0 DEF IInv, TypeOK
  <2> QED
    BY <1>0, <2>1 DEF ProcsOK, JobsOK, Pid
<1>2. \A x \in ProcsOf(s) : x \in 1..lastPid
  BY <1>1 DEF ProcsOK, ProcsOf
<1>3. jobs[k].pid \in Nat
  BY DEF IInv, TypeOK, JobsOK, ProcsOK, Pid
<1>4. ASSUME NEW pid \in Nat, NEW where \in Under, Step(k, where, pid)
      PROVE  /\ jobs'[k].at = where /\ jobs'[k].pid = pid
             /\ where \in {"clearing", "done"} => Hands(s)' = Hands(s) \ {k}
             /\ where \notin {"clearing", "done"} => Hands(s)' = Hands(s) \cup {k}
  <2>1. /\ DOMAIN jobs' = DOMAIN jobs
        /\ jobs'[k] = [svc |-> jobs[k].svc, at |-> where, pid |-> pid]
        /\ \A j \in DOMAIN jobs : j # k => jobs'[j] = jobs[j]
    <3>1. jobs \in Seq(Job) /\ Step(k, where, pid)
      BY <1>1, <1>4
    <3> QED
      BY <1>4, <3>1, StepJobs, Zenon
  <2>2. jobs'[k].svc = s /\ jobs'[k].at = where /\ jobs'[k].pid = pid
    BY <2>1
  <2>3. \A j \in DOMAIN jobs : j # k => (j \in Hands(s)' <=> j \in Hands(s))
    BY <2>1, <2>2 DEF Hands, Busy
  <2>4. k \in Hands(s)' <=> where \notin {"clearing", "done"}
    BY <1>4, <2>1, <2>2 DEF Hands, Busy, Under
  <2>5. Hands(s)' \subseteq DOMAIN jobs /\ Hands(s) \subseteq DOMAIN jobs
    BY <2>1 DEF Hands
  <2> QED
    BY <2>2, <2>3, <2>4, <2>5
<1>5. Busy(k) => InHands(s, k)
  BY <1>0, OrderlyHands DEF Hands
<1>6. ASSUME NEW P, Kill(P) PROVE ProcsOf(s)' = ProcsOf(s) \ P
  BY <1>1, <1>6, KilledProcs
<1>7. ASSUME UNCHANGED procs PROVE ProcsOf(s)' = ProcsOf(s)
  BY <1>7 DEF ProcsOf
<1>8. Apart(s)' <=> Apart(s)
  BY <1>0 DEF Apart
<1>9. ASSUME NoHands(s)' PROVE Orderly(s)'
  BY <1>9, IdleOrderly, PTL
<1>10. ASSUME InHands(s, k)' PROVE Orderly(s)'
  BY <1>10, HandsOrderly, PTL
<1>11. CASE Fire(k)
  <2>1. Hands(s) = {}
    <3>1. ~Restarting(s)
      BY <1>11 DEF Fire, Blame, Calm, Because
    <3> QED
      BY <3>1 DEF Restarting, Hands
  <2>2. NoHands(s)
    BY <1>0, <2>1, IdleOrderly
  <2>3. jobs'[k].at = "taking" /\ jobs'[k].pid = 0 /\ Hands(s)' = {k}
    BY <1>4, <1>11, <2>1 DEF Fire, Under
  <2>4. ProcsOf(s)' = ProcsOf(s) /\ recorded' = recorded /\ saved' = saved
    BY <1>7, <1>11 DEF Fire
  <2>5. InHands(s, k)'
    BY <1>0, <1>8, <2>2, <2>3, <2>4 DEF NoHands, InHands
  <2> QED
    BY <1>10, <2>5
<1>12. CASE takePID(k)
  <2>1. jobs[k].at = "taking" /\ InHands(s, k)
    BY <1>5, <1>12 DEF takePID, Busy
  <2>2. /\ Hands(s)' = {k} /\ jobs'[k].pid = recorded[s]
        /\ jobs'[k].at = IF recorded[s] = 0 THEN "spawning" ELSE "stopping"
    <3>1. Step(k, IF recorded[s] = 0 THEN "spawning" ELSE "stopping", recorded[s])
      BY <1>12 DEF takePID
    <3> QED
      BY <1>1, <1>4, <2>1, <3>1 DEF InHands, Under
  <2>3. ProcsOf(s)' = ProcsOf(s) /\ recorded'[s] = 0 /\ saved' = saved
    BY <1>0, <1>1, <1>7, <1>12 DEF takePID, ProcsOK
  <2>4. InHands(s, k)'
    BY <1>0, <1>8, <2>1, <2>2, <2>3 DEF InHands
  <2> QED
    BY <1>10, <2>4
<1>13. CASE StopProcessTree(k)
  <2>1. jobs[k].at = "stopping" /\ InHands(s, k)
    BY <1>5, <1>13 DEF StopProcessTree, Busy
  <2>2. Hands(s)' = {k} /\ jobs'[k].pid = 0 /\ jobs'[k].at = "spawning"
    BY <1>4, <1>13, <2>1 DEF StopProcessTree, InHands, Under
  <2>3. ProcsOf(s)' = ProcsOf(s) \ {jobs[k].pid} /\ recorded' = recorded /\ saved' = saved
    BY <1>6, <1>13 DEF StopProcessTree
  <2>4. InHands(s, k)'
    BY <1>0, <1>8, <2>1, <2>2, <2>3 DEF InHands
  <2> QED
    BY <1>10, <2>4
<1>14. CASE Start(k)
  <2>1. jobs[k].at = "spawning" /\ InHands(s, k)
    BY <1>5, <1>14 DEF Start, Busy
  <2>2. /\ Hands(s)' = {k} /\ jobs'[k].pid = lastPid + 1
        /\ jobs'[k].at = IF session = "watching" THEN "settling" ELSE "cancelling"
    <3>1. lastPid + 1 \in Nat
      BY <1>1
    <3>2. Step(k, IF session = "watching" THEN "settling" ELSE "cancelling", lastPid + 1)
      BY <1>14 DEF Start
    <3> QED
      BY <1>4, <2>1, <3>1, <3>2 DEF InHands, Under
  <2>3. ProcsOf(s)' = (ProcsOf(s) \ {}) \cup {lastPid + 1} /\ recorded' = recorded /\ saved' = saved
    BY <1>0, <1>1, <1>14, SpawnedProcs DEF Start
  <2>4. \A x \in ProcsOf(s)' : x <= lastPid + 1
    BY <1>1, <1>2, <2>3
  <2>5. InHands(s, k)'
    BY <1>0, <1>8, <2>1, <2>2, <2>3, <2>4 DEF InHands
  <2> QED
    BY <1>10, <2>5
<1>15. CASE Settled(k)
  <2>1. jobs[k].at = "settling" /\ InHands(s, k) /\ session = "watching"
    BY <1>5, <1>15 DEF Settled, Busy, InHands
  <2>2. Hands(s)' = {k} /\ jobs'[k].pid = jobs[k].pid /\ jobs'[k].at = "recording"
    BY <1>3, <1>4, <1>15, <2>1 DEF Settled, InHands, Under
  <2>3. ProcsOf(s)' = ProcsOf(s) /\ recorded' = recorded /\ saved' = saved
    BY <1>7, <1>15 DEF Settled
  <2>4. s \in Ported => ProcsOf(s) \subseteq {jobs[k].pid}
    <3> SUFFICES ASSUME s \in Ported, NEW x \in ProcsOf(s) PROVE x = jobs[k].pid
      OBVIOUS
    <3>1. x <= jobs[k].pid
      BY <2>1 DEF InHands
    <3>2. ~(x < jobs[k].pid)
      BY <1>15 DEF Settled, PortHeld, ProcsOf
    <3> QED
      BY <1>2, <1>3, <3>1, <3>2
  <2>5. InHands(s, k)'
    BY <1>0, <1>8, <2>1, <2>2, <2>3, <2>4 DEF InHands
  <2> QED
    BY <1>10, <2>5
<1>16. CASE ExitsEarly(k) \/ Cancelled(k)
  <2>1. jobs[k].at \in {"settling", "cancelling"} /\ InHands(s, k)
    BY <1>5, <1>16 DEF ExitsEarly, Cancelled, Busy
  <2>2. Hands(s)' = {}
    BY <1>4, <1>16, <2>1 DEF ExitsEarly, Cancelled, InHands, Under
  <2>3. ProcsOf(s)' = ProcsOf(s) \ {jobs[k].pid} /\ recorded' = recorded /\ saved' = saved
    BY <1>6, <1>16 DEF ExitsEarly, Cancelled
  <2>4. NoHands(s)'
    BY <1>0, <1>8, <2>1, <2>2, <2>3 DEF InHands, NoHands, Apart
  <2> QED
    BY <1>9, <2>4
<1>17. CASE recordPID(k)
  <2>1. jobs[k].at = "recording" /\ InHands(s, k) /\ session = "watching"
    BY <1>5, <1>17 DEF recordPID, Busy, InHands
  <2>2. Hands(s)' = {k} /\ jobs'[k].pid = 0 /\ jobs'[k].at = "saving"
    BY <1>4, <1>17, <2>1 DEF recordPID, InHands, Under
  <2>3. ProcsOf(s)' = ProcsOf(s) /\ recorded'[s] = jobs[k].pid /\ saved' = saved
    BY <1>0, <1>1, <1>7, <1>17 DEF recordPID, ProcsOK
  <2>4. InHands(s, k)'
    BY <1>0, <1>8, <2>1, <2>2, <2>3 DEF InHands
  <2> QED
    BY <1>10, <2>4
<1>18. CASE updateHostPID(k)
  <2>1. jobs[k].at = "saving" /\ InHands(s, k) /\ session = "watching"
    BY <1>5, <1>18 DEF updateHostPID, Busy, InHands
  <2>2. Hands(s)' = {}
    BY <1>4, <1>18, <2>1 DEF updateHostPID, InHands, Under
  <2>3. ProcsOf(s)' = ProcsOf(s) /\ recorded' = recorded
    BY <1>7, <1>18 DEF updateHostPID
  <2>4. Apart(s) => ProcsOf(s) \subseteq {recorded[s]}
    BY <1>2, <2>1 DEF InHands, Apart
  <2>5. ~Because(s, {"restarted"}) => Apart(s)
    BY DEF Apart
  <2>6. NoHands(s)'
    BY <1>0, <1>8, <2>1, <2>2, <2>3, <2>4, <2>5 DEF NoHands
  <2> QED
    BY <1>9, <2>6
<1>19. CASE Clear(k)
  <2>1. k \notin Hands(s)
    BY <1>19 DEF Clear, Hands, Busy
  <2>2. Hands(s)' = Hands(s)
    BY <1>4, <1>19, <2>1 DEF Clear, Under
  <2>3. \A j \in Hands(s) : jobs'[j] = jobs[j]
    <3>1. \A j \in DOMAIN jobs : j # k => jobs'[j] = jobs[j]
      BY <1>1, <1>19, StepJobs DEF Clear, Under
    <3> QED
      BY <2>1, <3>1 DEF Hands
  <2>4. ProcsOf(s)' = ProcsOf(s) /\ recorded' = recorded /\ saved' = saved
    BY <1>7, <1>19 DEF Clear
  <2> QED
    BY <1>0, <2>2, <2>3, <2>4, Undisturbed
<1> QED
  BY <1>11, <1>12, <1>13, <1>14, <1>15, <1>16, <1>17, <1>18, <1>19 DEF Restart
-----------------------------------------------------------------------------
(* The other steps. *)

LEMMA InitInv == Init => IInv
<1> SUFFICES ASSUME Init PROVE IInv
  OBVIOUS
<1>1. TypeOK
  BY InitType
<1>2. NotCutYet /\ Emptied
  BY DEF Init, NotCutYet, Emptied, Because
<1>3. ASSUME NEW s \in Service PROVE Orderly(s)
  <2>1. Hands(s) = {}
    BY DEF Init, Hands
  <2>2. ProcsOf(s) \subseteq {recorded[s]}
    <3> SUFFICES ASSUME NEW x \in ProcsOf(s) PROVE x = recorded[s]
      OBVIOUS
    <3>1. ExistsBijection(1..lastPid, Service)
      BY FS_CardinalityType, WatcherAssumption DEF Init
    <3>2. recorded \in Bijection(Service, 1..lastPid)
      BY <3>1, Fun_ExistsBijSymmetric DEF Init, ExistsBijection
    <3>3. \E t \in Service : recorded[t] = x
      BY <3>2 DEF Init, ProcsOf, Bijection, Surjection
    <3>4. procs[x].svc = CHOOSE t \in Service : recorded[t] = x
      BY DEF Init, ProcsOf
    <3> QED
      BY <3>3, <3>4 DEF ProcsOf
  <2>3. NoHands(s)
    BY <2>1, <2>2 DEF NoHands, Init
  <2> QED
    BY <2>3, IdleOrderly
<1> QED
  BY <1>1, <1>2, <1>3 DEF IInv

\* A change of the jobs that concerns none in whose hands a service is.
LEMMA SameHands ==
  ASSUME \A k \in DOMAIN jobs : /\ k \in DOMAIN jobs' /\ jobs'[k].svc = jobs[k].svc
                                /\ jobs'[k] = jobs[k] \/ (~Busy(k) /\ ~Busy(k)'),
         \A k \in DOMAIN jobs' \ DOMAIN jobs : ~Busy(k)',
         NEW s
  PROVE  Hands(s)' = Hands(s) /\ \A k \in Hands(s) : jobs'[k] = jobs[k]
<1>1. ASSUME NEW k \in DOMAIN jobs PROVE k \in Hands(s)' <=> k \in Hands(s)
  BY DEF Hands, Busy
<1>2. ASSUME NEW k \in Hands(s)' PROVE k \in DOMAIN jobs
  BY DEF Hands
<1>3. Hands(s) \subseteq DOMAIN jobs
  BY DEF Hands
<1>4. \A k \in Hands(s) : jobs'[k] = jobs[k]
  BY DEF Hands
<1> QED
  BY <1>1, <1>2, <1>3, <1>4

LEMMA RunOrderly ==
  ASSUME IInv, Run, NEW s \in Service, Calm(s)'
  PROVE  Orderly(s)'
<1>1. /\ UNCHANGED <<procs, recorded, saved, session, todo, why>> /\ JobsOK /\ TypeOK
      /\ Calm(s) => Orderly(s)
  BY DEF Run, runRest, IInv, TypeOK
<1>2. Calm(s) /\ (Because(s, {"restarted"})' <=> Because(s, {"restarted"}))
  BY <1>1 DEF Calm, Because
<1>3. Hands(s)' = Hands(s) /\ \A k \in Hands(s) : jobs'[k] = jobs[k]
  <2>1. CASE UNCHANGED jobs
    BY <2>1 DEF Hands, Busy
  <2>2. ASSUME NEW t \in Service, Trigger(t)
        PROVE  Hands(s)' = Hands(s) /\ \A k \in Hands(s) : jobs'[k] = jobs[k]
    <3>1. /\ jobs' \in Seq(Job) /\ Len(jobs') = Len(jobs) + 1
          /\ jobs'[Len(jobs) + 1] = [svc |-> t, at |-> "pending", pid |-> 0]
          /\ \A k \in DOMAIN jobs : /\ jobs'[k].svc = jobs[k].svc
                                    /\ jobs'[k] = jobs[k] \/ (~Busy(k) /\ ~Busy(k)')
      BY <1>1, <2>2, TriggerJobs
    <3>2. DOMAIN jobs = 1..Len(jobs) /\ DOMAIN jobs' = 1..(Len(jobs) + 1) /\ Len(jobs) \in Nat
      BY <1>1, <3>1 DEF JobsOK
    <3>3. \A k \in DOMAIN jobs : k \in DOMAIN jobs'
      BY <3>2
    <3>4. \A k \in DOMAIN jobs' \ DOMAIN jobs : k = Len(jobs) + 1
      BY <3>2
    <3>5. \A k \in DOMAIN jobs' \ DOMAIN jobs : ~Busy(k)'
      BY <3>1, <3>4 DEF Busy
    <3> QED
      BY <3>1, <3>3, <3>5, SameHands
  <2> QED
    BY <2>1, <2>2, ResolveService DEF Run
<1>4. ProcsOf(s)' = ProcsOf(s)
  BY <1>1 DEF ProcsOf
<1> QED
  BY <1>1, <1>2, <1>3, <1>4, Undisturbed

\* Ctrl+C and the end find no restart of a service that they leave calm.
LEMMA CutOrderly ==
  ASSUME IInv, Interrupt \/ Close \/ Exit, NEW s \in Service, Calm(s)'
  PROVE  Orderly(s)'
<1>1. /\ why \subseteq why' /\ UNCHANGED <<procs, recorded, saved>> /\ TypeOK
      /\ Blame({t \in Service : Restarting(t)}, "cut")
  BY DEF Interrupt, Close, Exit, Blame, IInv
<1>2. Calm(s) /\ Orderly(s) /\ (Because(s, {"restarted"})' <=> Because(s, {"restarted"}))
  BY <1>1, CalmBefore DEF IInv, Blame, Because
<1>3. Hands(s) = {}
  BY <1>1 DEF Blame, Calm, Because, Restarting, Hands
<1>4. NoHands(s)
  BY <1>2, <1>3, IdleOrderly
<1>5. Hands(s)' = {}
  <2>1. CASE UNCHANGED jobs
    BY <1>3, <2>1 DEF Hands, Busy
  <2>2. CASE Close
    <3>1. /\ jobs' \in Seq(Job) /\ Len(jobs') = Len(jobs) /\ jobs \in Seq(Job)
          /\ \A k \in DOMAIN jobs : /\ jobs'[k].svc = jobs[k].svc
                                    /\ jobs'[k] = jobs[k] \/ (~Busy(k) /\ ~Busy(k)')
      BY <1>1, <2>2, CloseJobs DEF TypeOK, JobsOK
    <3>2. DOMAIN jobs' = DOMAIN jobs
      BY <3>1
    <3> QED
      BY <1>3, <3>1, <3>2, SameHands
  <2> QED
    BY <2>1, <2>2 DEF Interrupt, Exit
<1>6. ProcsOf(s)' = ProcsOf(s)
  BY <1>1 DEF ProcsOf
<1>7. session' # "watching" /\ s \notin todo' => recorded[s] = 0
  BY <1>4 DEF NoHands, Interrupt, Close, Exit
<1>8. NoHands(s)'
  BY <1>1, <1>2, <1>4, <1>5, <1>6, <1>7 DEF NoHands, Apart
<1> QED
  BY <1>8, IdleOrderly, PTL
\* Commands that kill what they know of and forget it.
LEMMA KillOrderly ==
  ASSUME IInv, UNCHANGED jobs, NEW P, Kill(P), NEW s \in Service, Calm(s)', why \subseteq why',
         Because(s, {"restarted"})' <=> Because(s, {"restarted"}),
         recorded'[s] = recorded[s] \/ (recorded'[s] = 0 /\ recorded[s] \in P),
         saved'[s] = saved[s] \/ saved[s] \in P,
         session' = session \/ session' = "closing",
         session' # "watching" => session # "watching",
         s \notin todo' => s \notin todo \/ recorded'[s] = 0
  PROVE  Orderly(s)'
<1>1. /\ Calm(s) /\ Orderly(s) /\ ProcsOK
      /\ ProcsOf(s)' = ProcsOf(s) \ P
  BY CalmBefore, KilledProcs DEF IInv, TypeOK
<1>2. Hands(s)' = Hands(s)
  BY DEF Hands, Busy
<1>3. Apart(s)' <=> Apart(s)
  BY DEF Apart
<1>4. CASE Hands(s) = {}
  <2>1. NoHands(s)
    BY <1>1, <1>4, IdleOrderly
  <2>2. NoHands(s)'
    BY <1>1, <1>2, <1>3, <2>1 DEF NoHands
  <2> QED
    BY <2>2, IdleOrderly, PTL
<1>5. ASSUME NEW k \in Hands(s) PROVE Orderly(s)'
  <2>1. InHands(s, k) /\ jobs'[k] = jobs[k]
    BY <1>1, OrderlyHands
  <2>2. InHands(s, k)'
    BY <1>1, <1>2, <1>3, <2>1 DEF InHands
  <2> QED
    BY <2>2, HandsOrderly, PTL
<1> QED
  BY <1>4, <1>5

LEMMA StopOrderly ==
  ASSUME IInv, stopAllServicesForShutdown, NEW s \in Service, Calm(s)'
  PROVE  Orderly(s)'
<1>1. /\ UNCHANGED <<jobs, saved, session, why>> /\ session = "stopping"
      /\ recorded \in [Service -> Pid]
  BY DEF stopAllServicesForShutdown, IInv, TypeOK, ProcsOK
<1>2. PICK t \in todo : /\ Kill({recorded[t]}) /\ todo' = todo \ {t}
                        /\ recorded' = [recorded EXCEPT ![t] = 0]
  BY DEF stopAllServicesForShutdown
<1>3. recorded'[s] = recorded[s] \/ (recorded'[s] = 0 /\ recorded[s] \in {recorded[t]})
  BY <1>1, <1>2
<1>4. s \notin todo' => s \notin todo \/ recorded'[s] = 0
  BY <1>1, <1>2
<1>5. Because(s, {"restarted"})' <=> Because(s, {"restarted"})
  BY <1>1 DEF Because
<1> QED
  BY <1>1, <1>2, <1>3, <1>4, <1>5, KillOrderly

LEMMA DownOrderly ==
  ASSUME IInv, ProjectDown \/ DownElsewhere, NEW s \in Service, Calm(s)'
  PROVE  Orderly(s)'
<1>1. /\ UNCHANGED <<jobs, recorded, todo>> /\ why \subseteq why'
      /\ Kill({saved[t] : t \in Service})
      /\ session' = session \/ session' = "closing"
      /\ session' # "watching" => session # "watching"
  BY DEF ProjectDown, DownElsewhere, Blame
<1>2. Because(s, {"restarted"})' <=> Because(s, {"restarted"})
  BY DEF ProjectDown, DownElsewhere, Blame, Because
<1>3. saved[s] \in {saved[t] : t \in Service}
  OBVIOUS
<1> QED
  BY <1>1, <1>2, <1>3, KillOrderly

\* `raioz restart t` in another terminal.
LEMMA ElsewhereOrderly ==
  ASSUME IInv, NEW t \in Service, RestartElsewhere(t), NEW s \in Service, Calm(s)'
  PROVE  Orderly(s)'
<1>1. /\ UNCHANGED <<jobs, recorded, session, todo>> /\ why \subseteq why' /\ session = "watching"
      /\ Spawn(t, {saved[t]}) /\ saved' = [saved EXCEPT ![t] = lastPid + 1]
      /\ ProcsOK /\ src[t] \in Nat /\ saved \in [Service -> Pid]
  BY DEF RestartElsewhere, IInv, TypeOK, ProcsOK
<1>2. Calm(s) /\ Orderly(s)
  BY <1>1, CalmBefore DEF IInv
<1>3. Hands(s)' = Hands(s) /\ \A k \in Hands(s) : jobs'[k] = jobs[k]
  BY <1>1 DEF Hands, Busy
<1>4. CASE s # t
  <2>1. ProcsOf(s)' \subseteq ProcsOf(s)
    BY <1>1, <1>4, SpawnedProcs
  <2>2. Because(s, {"restarted"})' <=> Because(s, {"restarted"})
    BY <1>4 DEF RestartElsewhere, Because
  <2>3. saved'[s] = saved[s]
    BY <1>1, <1>4
  <2> QED
    BY <1>1, <1>2, <1>3, <2>1, <2>2, <2>3, Undisturbed
<1>5. CASE s = t
  <2>1. Hands(s) = {}
    <3>1. ~Restarting(s)
      BY <1>5 DEF RestartElsewhere, Calm, Because
    <3> QED
      BY <3>1 DEF Restarting, Hands
  <2>2. NoHands(s)
    BY <1>2, <2>1, IdleOrderly
  <2>3. ProcsOf(s)' = (ProcsOf(s) \ {saved[s]}) \cup {lastPid + 1}
    BY <1>1, <1>5, SpawnedProcs
  <2>4. saved'[s] = lastPid + 1
    BY <1>1, <1>5
  <2>5. Because(s, {"restarted"})'
    BY <1>5 DEF RestartElsewhere, Because
  <2>6. Apart(s)' => Apart(s)
    BY <2>5 DEF Apart
  <2>7. NoHands(s)'
    BY <1>1, <1>3, <2>1, <2>2, <2>3, <2>4, <2>5, <2>6 DEF NoHands
  <2> QED
    BY <2>7, IdleOrderly, PTL
<1> QED
  BY <1>4, <1>5

LEMMA NotCutStep == IInv /\ [Next]_vars => NotCutYet'
<1> SUFFICES ASSUME IInv, [Next]_vars PROVE NotCutYet'
  OBVIOUS
<1>1. CASE session' # "watching"
  BY <1>1 DEF NotCutYet
<1>2. ASSUME session' = session,
             UNCHANGED why \/ (\E S : Blame(S, "overlap") \/ Blame(S, "downed"))
      PROVE  NotCutYet'
  <2>1. \A s : [svc |-> s, cause |-> "cut"] \in why' => [svc |-> s, cause |-> "cut"] \in why
    BY <1>2 DEF Blame
  <2>2. \A s : Because(s, {"cut"})' => Because(s, {"cut"})
    BY <2>1 DEF Because
  <2> QED
    BY <1>2, <2>2 DEF NotCutYet, IInv
<1>3. ASSUME NEW k \in DOMAIN jobs, Restart(k) PROVE NotCutYet'
  <2>1. session' = session
    BY <1>3, RestartFrame
  <2>2. UNCHANGED why \/ \E S : Blame(S, "overlap")
    BY <1>3 DEF Restart, Fire, takePID, StopProcessTree, Start, Settled, ExitsEarly, Cancelled,
       recordPID, updateHostPID, Clear
  <2> QED
    BY <1>2, <2>1, <2>2
<1>4. ASSUME NEW s \in Service, RestartElsewhere(s) PROVE NotCutYet'
  BY <1>4 DEF RestartElsewhere, NotCutYet, Because, IInv
<1>5. CASE Run \/ stopAllServicesForShutdown \/ DownElsewhere \/ UNCHANGED vars
  BY <1>2, <1>5 DEF Run, runRest, stopAllServicesForShutdown, DownElsewhere, vars
<1>6. ASSUME NEW dir \in Tree, Change(dir) PROVE NotCutYet'
  BY <1>2, <1>6 DEF Change, runRest
<1>7. CASE Interrupt \/ ProjectDown \/ Close \/ Exit
  BY <1>1, <1>7 DEF Interrupt, ProjectDown, Close, Exit
<1> QED
  BY <1>3, <1>4, <1>5, <1>6, <1>7 DEF Next, Teardown

LEMMA EmptiedStep == IInv /\ [Next]_vars => Emptied'
<1> SUFFICES ASSUME IInv, [Next]_vars PROVE Emptied'
  OBVIOUS
<1>1. CASE session' \in {"watching", "stopping"}
  BY <1>1 DEF Emptied
<1>2. ASSUME session \in {"closing", "closed", "over"}, UNCHANGED <<todo, file, saved>>
      PROVE  Emptied'
  BY <1>2 DEF Emptied, IInv
<1>3. ASSUME NEW k \in DOMAIN jobs, Restart(k) PROVE Emptied'
  <2>1. UNCHANGED <<session, todo, file>>
    BY <1>3, RestartFrame
  <2>2. ASSUME ~file PROVE UNCHANGED saved
    BY <1>3, <2>2 DEF Restart, Fire, takePID, StopProcessTree, Start, Settled, ExitsEarly, Cancelled,
       recordPID, updateHostPID, Clear
  <2> QED
    BY <2>1, <2>2 DEF Emptied, IInv
<1>4. CASE Interrupt \/ Run \/ DownElsewhere \/ \E s \in Service : RestartElsewhere(s)
  BY <1>1, <1>4 DEF Interrupt, Run, runRest, DownElsewhere, RestartElsewhere
<1>5. ASSUME NEW dir \in Tree, Change(dir) PROVE Emptied'
  BY <1>1, <1>5 DEF Change, runRest
<1>6. CASE ProjectDown
  BY <1>6 DEF ProjectDown, Emptied
<1>7. CASE stopAllServicesForShutdown
  BY <1>1, <1>7 DEF stopAllServicesForShutdown
<1>8. CASE Close \/ Exit
  BY <1>2, <1>8 DEF Close, Exit
<1>9. CASE UNCHANGED vars
  BY <1>9 DEF vars, Emptied, IInv
<1> QED
  BY <1>3, <1>4, <1>5, <1>6, <1>7, <1>8, <1>9 DEF Next, Teardown

LEMMA OrderlyStep ==
  ASSUME IInv, [Next]_vars, NEW s \in Service, Calm(s)'
  PROVE  Orderly(s)'
<1>1. ASSUME UNCHANGED <<jobs, procs, recorded, saved, session, todo, why>> PROVE Orderly(s)'
  <2>1. Calm(s) /\ Orderly(s)
    BY <1>1 DEF IInv, Calm, Because
  <2>2. /\ Hands(s)' = Hands(s) /\ ProcsOf(s)' = ProcsOf(s)
        /\ Because(s, {"restarted"})' <=> Because(s, {"restarted"})
    BY <1>1 DEF Hands, Busy, ProcsOf, Because
  <2> QED
    BY <1>1, <2>1, <2>2, Undisturbed
<1>2. CASE UNCHANGED vars
  BY <1>1, <1>2 DEF vars
<1>3. ASSUME NEW dir \in Tree, Change(dir) PROVE Orderly(s)'
  BY <1>1, <1>3 DEF Change, runRest
<1>4. ASSUME NEW k \in DOMAIN jobs, Restart(k) PROVE Orderly(s)'
  BY <1>4, RestartOwn, RestartOthers
<1> QED
  BY <1>2, <1>3, <1>4, RunOrderly, CutOrderly, StopOrderly, DownOrderly, ElsewhereOrderly
  DEF Next, Teardown

LEMMA Inductive == Spec => []IInv
<1>1. IInv /\ [Next]_vars => IInv'
  BY TypeStep, NotCutStep, EmptiedStep, OrderlyStep DEF IInv
<1> QED
  BY <1>1, InitInv, PTL DEF Spec

(***************************************************************************)
(* While the session lasts no process of a service slips out of the hands  *)
(* of raioz but by restarts that overlap or by a command in another        *)
(* terminal, whatever number of files change, timers fire and children     *)
(* die, and in whichever order their callbacks take the steps of a         *)
(* restart.                                                                *)
(***************************************************************************)
THEOREM NobodysHolds == Spec => []NobodysProcess
<1>1. IInv => NobodysProcess
  <2> SUFFICES ASSUME IInv, session = "watching", NEW x \in DOMAIN procs,
                      ~Because(procs[x].svc, {"overlap"}),
                      ~(Because(procs[x].svc, {"restarted"}) /\ procs[x].svc \notin Ported)
               PROVE  \/ x \in {recorded[procs[x].svc], saved[procs[x].svc]}
                      \/ \E k \in DOMAIN jobs : Busy(k) /\ jobs[k].pid = x
    BY DEF NobodysProcess
  <2> DEFINE s == procs[x].svc
  <2>1. s \in Service
    BY DEF IInv, TypeOK, ProcsOK
  <2>2. ~Because(s, {"cut"})
    BY <2>1 DEF IInv, NotCutYet
  <2>3. Calm(s) /\ Apart(s) /\ x \in ProcsOf(s)
    BY <2>2 DEF Calm, Because, Apart, ProcsOf
  <2>4. AllKnown(s)
    BY <2>1, <2>3 DEF IInv, Orderly
  <2> HIDE DEF s
  <2>5. x \in Owned(s) \cup {saved[s]}
    BY <2>3, <2>4 DEF AllKnown
  <2>6. x \in {recorded[s], saved[s]} \/ \E k \in DOMAIN jobs : Busy(k) /\ jobs[k].pid = x
    BY <2>5 DEF Owned, Hands
  <2> QED
    BY <2>6 DEF s
<1> QED
  BY <1>1, Inductive, PTL

(***************************************************************************)
(* Once a watch session is over no process of a service is left, unless    *)
(* Ctrl+C came in the middle of a restart, restarts overlapped or another  *)
(* terminal had restarted a service that binds no port.                    *)
(***************************************************************************)
THEOREM NothingLeftHolds == Spec => []NothingLeftBehind
<1>1. IInv => NothingLeftBehind
  <2> SUFFICES ASSUME IInv, session = "over", NEW x \in DOMAIN procs,
                      ~Because(procs[x].svc, {"cut", "overlap"}),
                      ~(Because(procs[x].svc, {"restarted"}) /\ procs[x].svc \notin Ported)
               PROVE  FALSE
    BY DEF NothingLeftBehind
  <2> DEFINE s == procs[x].svc
  <2>1. s \in Service /\ x \in 1..lastPid /\ lastPid \in Nat
    BY DEF IInv, TypeOK, ProcsOK
  <2>2. Calm(s) /\ Apart(s) /\ x \in ProcsOf(s)
    BY DEF Calm, Because, Apart, ProcsOf
  <2>3. Orderly(s) /\ Emptied
    BY <2>1, <2>2 DEF IInv
  <2> HIDE DEF s
  <2>4. Hands(s) = {}
    BY <2>3 DEF Orderly, Gone
  <2>5. NoHands(s)
    BY <2>3, <2>4, IdleOrderly
  <2>6. recorded[s] = 0 /\ saved[s] = 0
    BY <2>1, <2>3, <2>5 DEF Emptied, NoHands
  <2> QED
    BY <2>1, <2>2, <2>5, <2>6 DEF NoHands
<1> QED
  BY <1>1, Inductive, PTL

-----------------------------------------------------------------------------
(* The workspace proxy: types.                                             *)

LEMMA Fields ==
  ASSUME ProxyTypeOK, NEW p \in Project
  PROVE  /\ cmd[p] \in CmdState
         /\ cmd[p].pc \in PC /\ cmd[p].op \in Op /\ cmd[p].up \in BOOLEAN
         /\ cmd[p].fd \in Inode \cup {None} /\ cmd[p].of \in Project \cup {None}
         /\ cmd[p].buf \subseteq Project /\ cmd[p].todo \subseteq Project
         /\ cmd[p].left \subseteq Entry /\ cmd[p].force \in BOOLEAN
         /\ cmd[p].last \in BOOLEAN /\ cmd[p].gone \in BOOLEAN
         /\ cmd[p].seen \subseteq Project
BY DEF ProxyTypeOK, CmdState

LEMMA IdleType == Idle \in CmdState
BY DEF Idle, CmdState, PC, Op

LEMMA Becomes ==
  ASSUME ProxyTypeOK, NEW p \in Project, NEW k \in CmdState, cmd' = [cmd EXCEPT ![p] = k]
  PROVE  /\ cmd' \in [Project -> CmdState] /\ cmd'[p] = k
         /\ \A q \in Project \ {p} : cmd'[q] = cmd[q]
BY DEF ProxyTypeOK

\* What a step of the command of p leaves alone: the commands of the others.
Turn(p) == cmd' \in [Project -> CmdState] /\ \A q \in Project \ {p} : cmd'[q] = cmd[q]

LEMMA Goes ==
  ASSUME ProxyTypeOK, NEW p \in Project, NEW where \in PC, Goto(p, where)
  PROVE  /\ Turn(p)
         /\ cmd'[p] = [cmd[p] EXCEPT !.pc = where]
         /\ cmd'[p].pc = where /\ cmd'[p].op = cmd[p].op /\ cmd'[p].up = cmd[p].up
         /\ cmd'[p].fd = cmd[p].fd /\ cmd'[p].of = cmd[p].of /\ cmd'[p].buf = cmd[p].buf
         /\ cmd'[p].force = cmd[p].force /\ cmd'[p].last = cmd[p].last
         /\ cmd'[p].gone = cmd[p].gone /\ cmd'[p].seen = cmd[p].seen
<1> DEFINE k == [cmd[p] EXCEPT !.pc = where]
<1>1. cmd[p] \in CmdState
  BY Fields
<1>2. k \in CmdState
  BY <1>1 DEF CmdState
<1>3. cmd' = [cmd EXCEPT ![p] = k]
  BY DEF Goto
<1>4. Turn(p) /\ cmd'[p] = k
  BY <1>2, <1>3, Becomes DEF Turn
<1> QED
  BY <1>1, <1>4 DEF CmdState

LEMMA Enters ==
  ASSUME ProxyTypeOK, NEW p \in Project, NEW op \in Op, Enter(p, op)
  PROVE  /\ Turn(p)
         /\ cmd'[p].pc = "open" /\ cmd'[p].op = op /\ cmd'[p].up = cmd[p].up
         /\ cmd'[p].fd = cmd[p].fd /\ cmd'[p].of = cmd[p].of /\ cmd'[p].buf = cmd[p].buf
         /\ ~cmd'[p].force /\ ~cmd'[p].last
         /\ cmd'[p].gone = cmd[p].gone /\ cmd'[p].seen = {}
<1> DEFINE k == [cmd[p] EXCEPT !.pc = "open", !.op = op, !.force = FALSE, !.last = FALSE, !.seen = {}]
<1>1. cmd[p] \in CmdState
  BY Fields
<1>2. k \in CmdState
  BY <1>1 DEF CmdState, PC
<1>3. cmd' = [cmd EXCEPT ![p] = k]
  BY DEF Enter
<1>4. Turn(p) /\ cmd'[p] = k
  BY <1>2, <1>3, Becomes DEF Turn
<1> QED
  BY <1>1, <1>4 DEF CmdState

LEMMA Ends ==
  ASSUME ProxyTypeOK, NEW p \in Project, End(p)
  PROVE  /\ Turn(p) /\ cmd'[p] = Idle
         /\ cmd'[p].pc = "free" /\ cmd'[p].op = "none" /\ ~cmd'[p].up
         /\ cmd'[p].fd = None /\ ~cmd'[p].gone /\ cmd'[p].seen = {}
<1>1. Turn(p) /\ cmd'[p] = Idle
  BY IdleType, Becomes DEF Turn, End
<1> QED
  BY <1>1 DEF Idle

LEMMA Dones ==
  ASSUME ProxyTypeOK, NEW p \in Project, NEW where \in PC, Done(p, where)
  PROVE  /\ Turn(p)
         /\ cmd'[p].pc = where /\ cmd'[p].op = "none" /\ cmd'[p].up = cmd[p].up
         /\ cmd'[p].fd = None /\ cmd'[p].of = None /\ cmd'[p].buf = cmd[p].buf
         /\ cmd'[p].force = cmd[p].force /\ cmd'[p].last = cmd[p].last
         /\ cmd'[p].gone = cmd[p].gone /\ cmd'[p].seen = cmd[p].seen
<1> DEFINE k == [cmd[p] EXCEPT !.pc = where, !.op = "none", !.fd = None, !.of = None]
<1>1. cmd[p] \in CmdState
  BY Fields
<1>2. k \in CmdState
  BY <1>1 DEF CmdState, Op
<1>3. cmd' = [cmd EXCEPT ![p] = k]
  BY DEF Done
<1>4. Turn(p) /\ cmd'[p] = k
  BY <1>2, <1>3, Becomes DEF Turn
<1> QED
  BY <1>1, <1>4 DEF CmdState

-----------------------------------------------------------------------------
(* What a step of a command under way keeps of the invariant, unless it     *)
(* says otherwise.                                                          *)

Moves(p) ==
    /\ Turn(p) /\ ~At(p, "free")
    /\ cmd'[p].up => cmd[p].up
    /\ cmd'[p].seen \subseteq cmd[p].seen \cup served
    /\ cut \subseteq cut'
    /\ served' \subseteq Project
    /\ \A q \in served' : q \in served \/ (q = p /\ Past(p))

LEMMA KeptByMoves ==
  ASSUME ProxyInv, NEW p \in Project, Moves(p)
  PROVE  OneUp' /\ Unseen' /\ \A r \in Project \ {p} : Decided(r)'
<1>2. OneUp'
  BY DEF ProxyInv, OneUp, Moves, Turn
<1>3. \A q \in served : ~cmd[q].up
  BY DEF ProxyInv, ProxyTypeOK, ServedFree, InPlace, At
<1>4. Unseen'
  BY <1>3 DEF ProxyInv, Unseen, Moves, Turn
<1>5. ASSUME NEW r \in Project \ {p}
      PROVE  Decided(r)'
  <2>1. cmd'[r] = cmd[r] /\ Decided(r)
    BY DEF Moves, Turn, ProxyInv
  <2>2. \A q \in cmd[r].seen : q \in served' => q \in served
    BY DEF Moves, Past, ProxyInv, Unseen
  <2>3. cmd[r].op = "prune" => cmd[r].of \in Project
    BY DEF ProxyInv, InPlace
  <2> QED
    BY <2>1, <2>2, <2>3 DEF Decided, At, Moves
<1> QED
  BY <1>2, <1>4, <1>5

LEMMA ServedFreeKept ==
  ASSUME ProxyInv, NEW p \in Project, Moves(p),
         services \subseteq services', served' \subseteq served
  PROVE  ServedFree'
BY DEF ProxyInv, ProxyTypeOK, ServedFree, Moves, Turn, At

LEMMA InPlaceKept ==
  ASSUME ProxyInv, NEW p \in Project, Moves(p),
         \A q \in Project \ {p} :
            /\ \A i \in Inode : held[i] = q => held'[i] = q
            /\ q \in services' <=> q \in services
            /\ q \in sharing' => q \in sharing
            /\ q \in routes' => q \in routes
            /\ q \in tidy' => q \in tidy \/ At(q, "free")
  PROVE  \A q \in Project \ {p} : InPlace(q)'
<1> SUFFICES ASSUME NEW q \in Project \ {p}
             PROVE  InPlace(q)'
  OBVIOUS
<1>1. cmd'[q] = cmd[q] /\ InPlace(q)
  BY DEF Moves, Turn, ProxyInv
<1> QED
  BY <1>1 DEF InPlace, At

\* Nobody starts to count but p, if it is cut off.
LEMMA CountedKept ==
  ASSUME ProxyInv, NEW p \in Project, Moves(p), Past(p)' => Past(p) \/ p \in cut'
  PROVE  \A q \in Project : Counted(q)' => Counted(q) \/ q \in cut'
BY DEF Counted, Moves, Past, Turn

LEMMA RoutesThereKept ==
  ASSUME ProxyInv, NEW p \in Project, Moves(p), Past(p)' => Past(p) \/ p \in cut',
         routes \subseteq routes'
  PROVE  RoutesThere'
<1>1. \A q \in Project : Counted(q)' => Counted(q) \/ q \in cut'
  BY CountedKept
<1> QED
  BY <1>1 DEF RoutesThere, ProxyInv, Moves

LEMMA LockStaysKept ==
  ASSUME ProxyInv, NEW p \in Project, Moves(p), UNCHANGED lockFile,
         ~(cmd'[p].op = "save" /\ cmd'[p].pc = "lock")
  PROVE  LockStays'
BY DEF LockStays, ProxyInv, Moves, Turn, At

LEMMA BuffersKept ==
  ASSUME ProxyInv, NEW p \in Project, Moves(p), Past(p)' => Past(p) \/ p \in cut',
         UNCHANGED lockFile,
         Renders(p)' => \/ Renders(p) /\ cmd'[p].buf = cmd[p].buf
                        \/ cmd'[p].buf = routes
  PROVE  Buffers'
<1>1. \A q \in Project : Counted(q)' => Counted(q) \/ q \in cut'
  BY CountedKept
<1>2. \A r \in Project \ {p} : Renders(r)' => Renders(r)
  BY DEF Renders, Moves, Turn
<1> QED
  BY <1>1, <1>2 DEF Buffers, RoutesThere, ProxyInv, Moves, Turn

LEMMA ServingKept ==
  ASSUME ProxyInv, NEW p \in Project, Moves(p), served' \subseteq served,
         Replacing(p) => Replacing(p)' \/ Project \subseteq cut', UNCHANGED caddy
  PROVE  Serving'
<1>1. \A q \in Project : Replacing(q) => Replacing(q)' \/ Project \subseteq cut'
  BY DEF Replacing, Moves, Turn
<1> QED
  BY <1>1 DEF Serving, ProxyInv, Moves

LEMMA SomeoneKept ==
  ASSUME ProxyInv, NEW p \in Project, Moves(p), caddy'.up => caddy.up,
         tidy' \subseteq tidy \cup {p},
         Minds(p) => Minds(p)' \/ \E q \in Project \ {p} : Minds(q)
  PROVE  Someone'
<1>1. \A q \in Project \ {p} : Minds(q) => Minds(q)'
  BY DEF Minds, Passed, At, Moves, Turn
<1> QED
  BY <1>1 DEF Someone, ProxyInv

\* A step that changes little but its command, the lock it holds and what is
\* in the Caddyfile.
LEMMA KeptByOwnStep ==
  ASSUME ProxyInv, NEW p \in Project, Moves(p),
         UNCHANGED <<services, sharing, routes, caddy, lockFile, served>>, tidy' \subseteq tidy,
         ProxyTypeOK', InPlace(p)', Decided(p)',
         \A q \in Project \ {p}, i \in Inode : held[i] = q => held'[i] = q,
         Past(p)' => Past(p) \/ p \in cut',
         Renders(p)' => \/ Renders(p) /\ cmd'[p].buf = cmd[p].buf
                        \/ cmd'[p].buf = routes,
         ~(cmd'[p].op = "save" /\ cmd'[p].pc = "lock"),
         Replacing(p) => Replacing(p)' \/ Project \subseteq cut',
         Minds(p) => Minds(p)' \/ \E q \in Project \ {p} : Minds(q)
  PROVE  ProxyInv'
<1>1. OneUp' /\ Unseen' /\ \A r \in Project : Decided(r)'
  BY KeptByMoves
<1>2. ServedFree'
  BY ServedFreeKept
<1>3. \A q \in Project : InPlace(q)'
  BY InPlaceKept
<1>4. RoutesThere' /\ LockStays' /\ Buffers'
  BY RoutesThereKept, LockStaysKept, BuffersKept
<1>5. Serving' /\ Someone'
  BY ServingKept, SomeoneKept
<1>6. TidyGone'
  BY DEF TidyGone, ProxyInv
<1> QED
  BY <1>1, <1>2, <1>3, <1>4, <1>5, <1>6 DEF ProxyInv

\* Whoever has left something is not tidy, and has not passed.
LEMMA NotGone ==
  ASSUME ProxyInv, NEW q \in services \cup sharing \cup routes
  PROVE  q \in Project /\ Minds(q)
<1>1. q \in Project
  BY WorkspaceProxyAssumption DEF ProxyInv, ProxyTypeOK
<1>2. q \notin tidy
  BY DEF ProxyInv, TidyGone
<1>3. InPlace(q)
  BY <1>1 DEF ProxyInv
<1>4. ~Passed(q)
  BY <1>3 DEF InPlace, Passed, At
<1> QED
  BY <1>1, <1>2, <1>4 DEF Minds

-----------------------------------------------------------------------------
(* The lock, and what is saved and removed under it.                        *)

\* Nobody has the lock file that is opened for the first time.
LEMMA OpenLockStep ==
  ASSUME ProxyInv, NEW p \in Project, OpenLock(p)
  PROVE  ProxyInv'
<1>1. PICK i \in Inode :
        /\ lockFile = None => Unused(i)
        /\ lockFile # None => i = lockFile
        /\ lockFile' = i
        /\ cmd' = [cmd EXCEPT ![p].pc = "lock", ![p].fd = i]
  BY DEF OpenLock
<1> DEFINE k == [cmd[p] EXCEPT !.pc = "lock", !.fd = i]
<1>2. UNCHANGED <<services, sharing, routes, caddyfile, caddy, held, served, cut, tidy>>
  BY DEF OpenLock, world, history
<1>3. ProxyTypeOK /\ InPlace(p) /\ At(p, "open")
  BY DEF OpenLock, ProxyInv
<1>4. k \in CmdState
  <2>1. "lock" \in PC /\ i \in Inode \cup {None} /\ cmd[p] \in CmdState
    BY <1>3, Fields DEF PC
  <2> QED
    BY <2>1 DEF CmdState
<1>5. cmd' = [cmd EXCEPT ![p] = k]
  BY <1>1
<1>6. /\ k.pc = "lock" /\ k.fd = i /\ k.op = cmd[p].op /\ k.up = cmd[p].up /\ k.of = cmd[p].of
      /\ k.buf = cmd[p].buf /\ k.gone = cmd[p].gone /\ k.seen = cmd[p].seen
  <2>1. cmd[p] \in CmdState
    BY <1>3, Fields
  <2> QED
    BY <2>1 DEF CmdState
<1> HIDE DEF k
<1>7. Turn(p) /\ cmd'[p] = k
  BY <1>3, <1>4, <1>5, Becomes DEF Turn
<1>8. Moves(p)
  BY <1>2, <1>3, <1>6, <1>7 DEF Moves, At, ProxyTypeOK
<1>9. ProxyTypeOK'
  BY <1>1, <1>2, <1>3, <1>7 DEF ProxyTypeOK, Turn
<1>10. \A q \in Project : InPlace(q)'
  <2>1. InPlace(p)'
    BY <1>2, <1>3, <1>6, <1>7 DEF InPlace, At
  <2> QED
    BY <2>1, <1>2, <1>8, InPlaceKept
<1>11. Decided(p)'
  <2>1. Decided(p)
    BY DEF ProxyInv
  <2> QED
    BY <2>1, <1>2, <1>3, <1>6, <1>7 DEF Decided, At
<1>12. (Past(p)' => Past(p)) /\ ~Renders(p)' /\ ~Replacing(p) /\ (Minds(p) => Minds(p)')
  BY <1>2, <1>3, <1>6, <1>7 DEF Renders, Replacing, Minds, Passed, At, Past, InPlace
<1>13. LockStays'
  <2>1. \A q \in Project \ {p} : cmd'[q] = cmd[q]
    BY <1>7 DEF Turn
  <2>2. \A q \in Project \ {p} : cmd[q].op = "save" /\ At(q, "lock") /\ cmd[q].fd # i => q \in cut
    <3> SUFFICES ASSUME NEW q \in Project \ {p}, cmd[q].op = "save", At(q, "lock"), cmd[q].fd # i
                 PROVE  q \in cut
      OBVIOUS
    <3>1. cmd[q].fd # None
      BY WorkspaceProxyAssumption DEF ProxyInv, InPlace, At
    <3> QED
      BY <3>1, <1>1 DEF ProxyInv, LockStays
  <2> QED
    BY <2>1, <2>2, <1>1, <1>2, <1>6, <1>7 DEF LockStays, At
<1>14. Buffers'
  <2>1. \A q \in Project : Counted(q)' => Counted(q)
    BY <1>2, <1>7, <1>12 DEF Counted, Past, Turn
  <2>2. \A r \in Project \ {p} : Renders(r)' => Renders(r)
    BY <1>1, <1>7 DEF Renders, Turn, Unused
  <2> QED
    BY <2>1, <2>2, <1>2, <1>7, <1>12 DEF Buffers, ProxyInv, Turn
<1>15. TidyGone'
  BY <1>2 DEF TidyGone, ProxyInv
<1>16. ServedFree' /\ RoutesThere' /\ Serving' /\ Someone'
  BY <1>2, <1>8, <1>12, ServedFreeKept, RoutesThereKept, ServingKept, SomeoneKept
<1> QED
  BY <1>8, <1>9, <1>10, <1>11, <1>13, <1>14, <1>15, <1>16, KeptByMoves DEF ProxyInv

\* Whoever holds the lock while routes are saved holds another than the
\* project's, which then has been overlooked.
LEMMA SaveProjectRoutesStep ==
  ASSUME ProxyInv, NEW p \in Project, SaveProjectRoutes(p)
  PROVE  ProxyInv'
<1>1. ProxyTypeOK /\ InPlace(p) /\ At(p, "lock") /\ cmd[p].op = "save" /\ held[cmd[p].fd] = None
  BY DEF ProxyInv, SaveProjectRoutes, Locks
<1>2. cmd[p].up /\ p \in services /\ p \notin tidy
  BY <1>1 DEF InPlace, At
<1>3. /\ routes' = routes \cup {p}
      /\ UNCHANGED <<services, sharing, caddyfile, lockFile, caddy, held, served, cut, tidy>>
  BY DEF SaveProjectRoutes, world, history
<1>4. /\ Turn(p)
      /\ cmd'[p].pc = "start" /\ cmd'[p].op = "none" /\ cmd'[p].up = cmd[p].up
      /\ cmd'[p].fd = None /\ cmd'[p].gone = cmd[p].gone /\ cmd'[p].seen = cmd[p].seen
  BY <1>1, Dones DEF SaveProjectRoutes, PC
<1>5. Moves(p)
  BY <1>1, <1>2, <1>3, <1>4 DEF Moves, At, ProxyTypeOK
<1>6. ProxyTypeOK'
  BY <1>1, <1>3, <1>4 DEF ProxyTypeOK, Turn
<1>7. \A q \in Project : InPlace(q)'
  <2>1. InPlace(p)'
    BY <1>1, <1>2, <1>3, <1>4 DEF InPlace, At
  <2> QED
    BY <2>1, <1>3, <1>5, InPlaceKept
<1>8. Decided(p)'
  BY <1>4 DEF Decided, At
<1>9. \A q \in Project \ {p} : Counted(q)' => Counted(q)
  BY <1>3, <1>4 DEF Counted, Past, Turn
<1>10. RoutesThere'
  BY <1>3, <1>9 DEF RoutesThere, ProxyInv
<1>11. Buffers'
  <2>1. ASSUME NEW r \in Project \ {p}, Renders(r)
        PROVE  p \in cut
    <3>1. CASE cmd[r].pc \in {"write", "run"}
      BY <3>1, <1>2 DEF ProxyInv, InPlace, OneUp
    <3>2. CASE cmd[r].pc \in {"rewrite", "exec"} /\ cmd[r].fd = lockFile
      <4>1. held[lockFile] = r
        BY <3>2 DEF ProxyInv, InPlace
      <4>2. cmd[p].fd # lockFile
        BY <4>1, <1>1, WorkspaceProxyAssumption
      <4> QED
        BY <4>2, <1>1 DEF ProxyInv, LockStays
    <3> QED
      BY <3>1, <3>2, <2>1 DEF Renders
  <2>2. ~Renders(p)'
    BY <1>4 DEF Renders
  <2>3. \A r \in Project \ {p} : (Renders(r)' => Renders(r)) /\ cmd'[r].buf = cmd[r].buf
    BY <1>3, <1>4 DEF Renders, Turn
  <2> QED
    BY <2>1, <2>2, <2>3, <1>3, <1>9 DEF Buffers, ProxyInv
<1>12. ~Replacing(p) /\ (Minds(p) => Minds(p)')
  BY <1>1, <1>2, <1>3, <1>4 DEF Replacing, Minds, Passed, At, InPlace
<1>13. TidyGone'
  BY <1>2, <1>3 DEF TidyGone, ProxyInv
<1>14. ServedFree' /\ LockStays' /\ Serving' /\ Someone'
  BY <1>3, <1>4, <1>5, <1>12, ServedFreeKept, LockStaysKept, ServingKept, SomeoneKept
<1> QED
  BY <1>5, <1>6, <1>7, <1>8, <1>10, <1>11, <1>13, <1>14, KeptByMoves DEF ProxyInv

LEMMA SaveFailsStep ==
  ASSUME ProxyInv, NEW p \in Project, SaveFails(p)
  PROVE  ProxyInv'
<1>1. ProxyTypeOK /\ InPlace(p) /\ At(p, "lock") /\ cmd[p].op = "save"
  BY DEF ProxyInv, SaveFails, Locks
<1>2. /\ Turn(p)
      /\ cmd'[p].pc = "start" /\ cmd'[p].op = "none" /\ cmd'[p].up = cmd[p].up
      /\ cmd'[p].fd = None /\ cmd'[p].gone = cmd[p].gone /\ cmd'[p].seen = cmd[p].seen
  BY <1>1, Dones DEF SaveFails, PC
<1>3. /\ cut' = cut \cup {p}
      /\ UNCHANGED <<services, sharing, routes, caddyfile, lockFile, caddy, held, served, tidy>>
  BY DEF SaveFails, world, disk
<1>4. Moves(p)
  BY <1>1, <1>2, <1>3 DEF Moves, At, ProxyTypeOK
<1>5. ProxyTypeOK'
  BY <1>1, <1>2, <1>3 DEF ProxyTypeOK, Turn
<1>6. InPlace(p)'
  BY <1>1, <1>2, <1>3 DEF InPlace, At
<1>7. Decided(p)'
  BY <1>2 DEF Decided, At
<1>8. ~Renders(p)' /\ ~Replacing(p) /\ (Minds(p) => Minds(p)')
  BY <1>1, <1>2, <1>3 DEF Renders, Replacing, Minds, Passed, At, InPlace
<1> QED
  BY <1>2, <1>3, <1>4, <1>5, <1>6, <1>7, <1>8, KeptByOwnStep

LEMMA RemoveProjectRoutesStep ==
  ASSUME ProxyInv, NEW p \in Project, RemoveProjectRoutes(p)
  PROVE  ProxyInv'
<1> DEFINE k == [cmd[p] EXCEPT !.pc = "list", !.op = "none", !.fd = None, !.gone = TRUE]
<1>1. ProxyTypeOK /\ InPlace(p) /\ At(p, "lock") /\ cmd[p].op = "remove" /\ ~cmd[p].up
  BY DEF ProxyInv, RemoveProjectRoutes, Locks, InPlace
<1>2. /\ routes' = routes \ {p}
      /\ UNCHANGED <<services, sharing, caddyfile, lockFile, caddy, held, served, cut, tidy>>
  BY DEF RemoveProjectRoutes, world, history
<1>3. k \in CmdState
  <2>1. "list" \in PC /\ "none" \in Op /\ cmd[p] \in CmdState
    BY <1>1, Fields DEF PC, Op
  <2> QED
    BY <2>1 DEF CmdState
<1>4. cmd' = [cmd EXCEPT ![p] = k]
  BY DEF RemoveProjectRoutes
<1>5. /\ k.pc = "list" /\ k.op = "none" /\ k.up = cmd[p].up /\ k.fd = None
      /\ k.gone = TRUE /\ k.seen = cmd[p].seen
  <2>1. cmd[p] \in CmdState
    BY <1>1, Fields
  <2> QED
    BY <2>1 DEF CmdState
<1> HIDE DEF k
<1>6. Turn(p) /\ cmd'[p] = k
  BY <1>1, <1>3, <1>4, Becomes DEF Turn
<1>7. Moves(p)
  BY <1>1, <1>2, <1>5, <1>6 DEF Moves, At, ProxyTypeOK
<1>8. ProxyTypeOK'
  BY <1>1, <1>2, <1>6 DEF ProxyTypeOK, Turn
<1>9. \A q \in Project : InPlace(q)'
  <2>1. InPlace(p)'
    BY <1>1, <1>2, <1>5, <1>6 DEF InPlace, At
  <2> QED
    BY <2>1, <1>2, <1>7, InPlaceKept
<1>10. Decided(p)'
  BY <1>1, <1>5, <1>6 DEF Decided, At, InPlace
<1>11. ~Past(p)' /\ ~Renders(p)' /\ ~Replacing(p) /\ Minds(p)'
  BY <1>1, <1>5, <1>6 DEF Renders, Replacing, Minds, At, Past
<1>12. RoutesThere'
  <2>1. \A q \in Project : Counted(q)' => Counted(q) /\ q # p
    BY <1>1, <1>2, <1>5, <1>6 DEF Counted, Past, Turn, ServedFree, ProxyInv, At
  <2> QED
    BY <2>1, <1>2 DEF RoutesThere, ProxyInv
<1>13. TidyGone'
  BY <1>2 DEF TidyGone, ProxyInv
<1>14. ServedFree' /\ LockStays' /\ Buffers' /\ Serving' /\ Someone'
  BY <1>2, <1>5, <1>6, <1>7, <1>11, ServedFreeKept, LockStaysKept, BuffersKept, ServingKept,
     SomeoneKept
<1> QED
  BY <1>7, <1>8, <1>9, <1>10, <1>12, <1>13, <1>14, KeptByMoves DEF ProxyInv

LEMMA RemoveFailsStep ==
  ASSUME ProxyInv, NEW p \in Project, RemoveFails(p)
  PROVE  ProxyInv'
<1>1. ProxyTypeOK /\ InPlace(p) /\ At(p, "lock") /\ cmd[p].op = "remove"
  BY DEF ProxyInv, RemoveFails, Locks
<1>2. /\ Turn(p)
      /\ cmd'[p].pc = "list" /\ cmd'[p].op = "none" /\ cmd'[p].up = cmd[p].up
      /\ cmd'[p].fd = None /\ cmd'[p].gone = cmd[p].gone /\ cmd'[p].seen = cmd[p].seen
  BY <1>1, Dones DEF RemoveFails, PC
<1>3. UNCHANGED <<services, sharing, routes, caddyfile, lockFile, caddy, held, served, cut, tidy>>
  BY DEF RemoveFails, world, disk, history
<1>4. Moves(p)
  BY <1>1, <1>2, <1>3 DEF Moves, At, ProxyTypeOK
<1>5. ProxyTypeOK'
  BY <1>1, <1>2, <1>3 DEF ProxyTypeOK, Turn
<1>6. InPlace(p)'
  BY <1>1, <1>2, <1>3 DEF InPlace, At
<1>7. Decided(p)'
  BY <1>2 DEF Decided, At
<1>8. ~Renders(p)' /\ ~Replacing(p) /\ ~Past(p)' /\ Minds(p)'
  BY <1>1, <1>2, <1>3 DEF Renders, Replacing, Minds, Passed, At, InPlace, Past
<1> QED
  BY <1>2, <1>3, <1>4, <1>5, <1>6, <1>7, <1>8, KeptByOwnStep

\* Whoever is pruned and still counts has not been seen by the `down`.
LEMMA RemoveRoutesForStep ==
  ASSUME ProxyInv, NEW p \in Project, RemoveRoutesFor(p)
  PROVE  ProxyInv'
<1>1. ProxyTypeOK /\ InPlace(p) /\ At(p, "lock") /\ cmd[p].op = "prune" /\ ~cmd[p].up
  BY DEF ProxyInv, RemoveRoutesFor, Locks, InPlace
<1>2. PICK q \in Project :
        /\ q = cmd[p].of
        /\ routes' = routes \ {q}
        /\ cut' = cut \cup ({q} \ cmd[p].seen)
        /\ tidy' = IF q \notin services \cup sharing /\ At(q, "free") THEN tidy \cup {q} ELSE tidy
  BY <1>1 DEF RemoveRoutesFor, InPlace
<1>3. UNCHANGED <<services, sharing, caddyfile, lockFile, caddy, held, served>>
  BY DEF RemoveRoutesFor, world
<1>4. /\ Turn(p)
      /\ cmd'[p].pc = "judge" /\ cmd'[p].op = "none" /\ cmd'[p].up = cmd[p].up
      /\ cmd'[p].fd = None /\ cmd'[p].gone = cmd[p].gone /\ cmd'[p].seen = cmd[p].seen
  BY <1>1, Dones DEF RemoveRoutesFor, PC
<1>5. Moves(p)
  BY <1>1, <1>2, <1>3, <1>4 DEF Moves, At, ProxyTypeOK
<1>6. ProxyTypeOK'
  BY <1>1, <1>2, <1>3, <1>4 DEF ProxyTypeOK, Turn
<1>7. \A x \in Project : InPlace(x)'
  <2>1. InPlace(p)'
    BY <1>1, <1>2, <1>3, <1>4 DEF InPlace, At
  <2>2. \A x \in Project \ {p} : x \in tidy' => x \in tidy \/ At(x, "free")
    BY <1>2
  <2> QED
    BY <2>1, <2>2, <1>2, <1>3, <1>5, InPlaceKept
<1>8. Decided(p)'
  BY <1>4 DEF Decided, At
<1>9. ~Past(p)' /\ ~Renders(p)' /\ ~Replacing(p) /\ Minds(p)'
  BY <1>1, <1>4 DEF Renders, Replacing, Minds, At, Past
<1>10. RoutesThere'
  <2>1. \A x \in Project : Counted(x)' => Counted(x)
    BY <1>3, <1>4, <1>9 DEF Counted, Past, Turn
  <2>2. q \in cmd[p].seen => ~Counted(q)
    <3>1. q \in cmd[p].seen => q \notin served
      BY <1>1, <1>2 DEF ProxyInv, Decided
    <3>2. q \in cmd[p].seen => ~cmd[q].up
      BY DEF ProxyInv, Unseen
    <3> QED
      BY <3>1, <3>2 DEF Counted, Past
  <2> QED
    BY <2>1, <2>2, <1>2 DEF RoutesThere, ProxyInv
<1>11. TidyGone'
  BY <1>2, <1>3 DEF TidyGone, ProxyInv
<1>12. Someone'
  BY <1>9 DEF Someone
<1>13. ServedFree' /\ LockStays' /\ Buffers' /\ Serving'
  BY <1>3, <1>4, <1>5, <1>9, ServedFreeKept, LockStaysKept, BuffersKept, ServingKept
<1> QED
  BY <1>5, <1>6, <1>7, <1>8, <1>10, <1>11, <1>12, <1>13, KeptByMoves DEF ProxyInv

-----------------------------------------------------------------------------
(* Reload.                                                                  *)

LEMMA Releases ==
  ASSUME ProxyTypeOK, NEW p \in Project, Release(p)
  PROVE  /\ held' \in [Inode -> Project \cup {None}]
         /\ \A q \in Project \ {p}, i \in Inode : held[i] = q => held'[i] = q
BY WorkspaceProxyAssumption DEF Release, ProxyTypeOK

\* A `down` that ends tidies up after itself, or had not removed its routes.
LEMMA LeftTidy ==
  ASSUME ProxyInv, NEW p \in Project, ~At(p, "free"), ~cmd[p].up
  PROVE  /\ Left(p) \subseteq Project /\ Left(p) \subseteq tidy \cup {p}
         /\ Left(p) \cap (services \cup sharing \cup routes) = {}
<1>1. InPlace(p) /\ ProxyTypeOK /\ TidyGone
  BY DEF ProxyInv
<1>2. cmd[p].gone => p \notin services \cup sharing \cup routes
  BY <1>1 DEF InPlace, At
<1> QED
  BY <1>1, <1>2 DEF Left, TidyGone, ProxyTypeOK

LEMMA ReloadReadsStep ==
  ASSUME ProxyInv, NEW p \in Project, ReloadReads(p)
  PROVE  ProxyInv'
<1> DEFINE k == [cmd[p] EXCEPT !.pc = "rewrite", !.buf = routes]
<1>1. /\ ProxyTypeOK /\ InPlace(p) /\ At(p, "lock") /\ cmd[p].op = "reload"
      /\ cmd[p].fd \in Inode /\ held[cmd[p].fd] = None
  BY DEF ProxyInv, ReloadReads, Locks, InPlace, At
<1>2. /\ held' = [held EXCEPT ![cmd[p].fd] = p]
      /\ UNCHANGED <<services, sharing, routes, caddyfile, lockFile, caddy, served, cut, tidy>>
  BY DEF ReloadReads, world, disk, history
<1>3. k \in CmdState
  <2>1. "rewrite" \in PC /\ routes \in SUBSET Project /\ cmd[p] \in CmdState
    BY <1>1, Fields DEF PC, ProxyTypeOK
  <2> QED
    BY <2>1 DEF CmdState
<1>4. cmd' = [cmd EXCEPT ![p] = k]
  BY DEF ReloadReads
<1>5. /\ k.pc = "rewrite" /\ k.buf = routes /\ k.op = cmd[p].op /\ k.up = cmd[p].up
      /\ k.fd = cmd[p].fd /\ k.of = cmd[p].of /\ k.gone = cmd[p].gone /\ k.seen = cmd[p].seen
  BY <1>1, Fields DEF CmdState
<1> HIDE DEF k
<1>6. Turn(p) /\ cmd'[p] = k
  BY <1>1, <1>3, <1>4, Becomes DEF Turn
<1>7. Moves(p)
  BY <1>1, <1>2, <1>5, <1>6 DEF Moves, At, ProxyTypeOK
<1>8. ProxyTypeOK'
  BY <1>1, <1>2, <1>6 DEF ProxyTypeOK, Turn
<1>9. InPlace(p)'
  BY <1>1, <1>2, <1>5, <1>6 DEF InPlace, At, ProxyTypeOK
<1>10. Decided(p)'
  BY <1>1, <1>5, <1>6 DEF Decided, At
<1>11. ~Replacing(p) /\ (Past(p)' => Past(p)) /\ (Minds(p) => Minds(p)')
  BY <1>1, <1>2, <1>5, <1>6 DEF Replacing, Minds, Passed, At, InPlace, Past
<1>12. \A q \in Project \ {p}, i \in Inode : held[i] = q => held'[i] = q
  BY <1>1, <1>2, WorkspaceProxyAssumption DEF ProxyTypeOK
<1> QED
  BY <1>1, <1>2, <1>5, <1>6, <1>7, <1>8, <1>9, <1>10, <1>11, <1>12, KeptByOwnStep

LEMMA ReloadWritesStep ==
  ASSUME ProxyInv, NEW p \in Project, ReloadWrites(p)
  PROVE  ProxyInv'
<1>1. ProxyTypeOK /\ InPlace(p) /\ At(p, "rewrite")
  BY DEF ProxyInv, ReloadWrites
<1>2. /\ caddyfile' = Rendered(cmd[p].buf)
      /\ UNCHANGED <<services, sharing, routes, lockFile, caddy, held, served, cut, tidy>>
  BY DEF ReloadWrites, world, history
<1>3. /\ Turn(p)
      /\ cmd'[p].pc = "exec" /\ cmd'[p].op = cmd[p].op /\ cmd'[p].up = cmd[p].up
      /\ cmd'[p].fd = cmd[p].fd /\ cmd'[p].of = cmd[p].of /\ cmd'[p].buf = cmd[p].buf
      /\ cmd'[p].gone = cmd[p].gone /\ cmd'[p].seen = cmd[p].seen
  BY <1>1, Goes DEF ReloadWrites, PC
<1>4. Moves(p)
  BY <1>1, <1>2, <1>3 DEF Moves, At, ProxyTypeOK
<1>5. ProxyTypeOK'
  BY <1>1, <1>2, <1>3, Fields DEF ProxyTypeOK, Turn, Caddyfile, Rendered
<1>6. InPlace(p)'
  BY <1>1, <1>2, <1>3 DEF InPlace, At
<1>7. Decided(p)'
  BY <1>1, <1>3 DEF Decided, At, InPlace
<1>8. ~Replacing(p) /\ (Past(p)' => Past(p)) /\ (Renders(p)' => Renders(p)) /\ (Minds(p) => Minds(p)')
  BY <1>1, <1>2, <1>3 DEF Renders, Replacing, Minds, Passed, At, InPlace, Past
<1> QED
  BY <1>2, <1>3, <1>4, <1>5, <1>6, <1>7, <1>8, KeptByOwnStep

\* What the container loads is what has been written, with all the routes, or
\* all that are not in it are cut off.
LEMMA ReloadExecStep ==
  ASSUME ProxyInv, NEW p \in Project, ReloadExec(p)
  PROVE  ProxyInv'
<1>1. /\ ProxyTypeOK /\ InPlace(p) /\ At(p, "exec") /\ caddy.up /\ cmd[p].op = "reload"
      /\ (cmd[p].up => p \in services /\ p \notin tidy /\ Past(p))
  BY DEF ProxyInv, ReloadExec, InPlace, At, Past
<1>2. /\ caddy' = [caddy EXCEPT !.loaded = Config]
      /\ cut' = cut \cup Missed(p, Config)
      /\ served' = IF cmd[p].up THEN served \cup {p} ELSE served
      /\ tidy' = IF cmd[p].up THEN tidy ELSE Left(p)
      /\ UNCHANGED <<services, sharing, routes, caddyfile, lockFile>>
  BY DEF ReloadExec, world, disk
<1>3. /\ Turn(p) /\ cmd'[p] = Idle
      /\ cmd'[p].pc = "free" /\ cmd'[p].op = "none" /\ ~cmd'[p].up
      /\ ~cmd'[p].gone /\ cmd'[p].seen = {}
  BY <1>1, Ends DEF ReloadExec
<1>4. Config \subseteq Project
  BY <1>1 DEF Config, ProxyTypeOK, Caddyfile, Container
<1>5. caddy' \in Container /\ caddy'.up /\ caddy'.loaded = Config
  BY <1>1, <1>2, <1>4 DEF Container, ProxyTypeOK
<1>6. /\ held' \in [Inode -> Project \cup {None}]
      /\ \A q \in Project \ {p}, i \in Inode : held[i] = q => held'[i] = q
  BY <1>1, Releases DEF ReloadExec
<1>7. Moves(p)
  BY <1>1, <1>2, <1>3 DEF Moves, At, ProxyTypeOK
<1>8. /\ tidy' \subseteq Project /\ tidy' \subseteq tidy \cup {p}
      /\ tidy' \cap (services \cup sharing \cup routes) = {}
  BY <1>1, <1>2, LeftTidy DEF ProxyInv, TidyGone, ProxyTypeOK, At
<1>9. ProxyTypeOK'
  BY <1>1, <1>2, <1>3, <1>5, <1>6, <1>8 DEF ProxyTypeOK, Turn, Missed
<1>10. \A q \in Project : InPlace(q)'
  <2>1. InPlace(p)'
    BY <1>1, <1>3 DEF InPlace
  <2> QED
    BY <2>1, <1>2, <1>6, <1>7, <1>8, InPlaceKept
<1>11. Decided(p)'
  BY <1>3 DEF Decided, At
<1>12. ~Past(p)' /\ ~Renders(p)' /\ cmd'[p].op # "save"
  BY <1>3 DEF Renders, Past
<1>13. ServedFree'
  BY <1>1, <1>2, <1>3 DEF ServedFree, At, ProxyInv, ProxyTypeOK, Turn
<1>14. Serving'
  <2> SUFFICES ASSUME NEW q \in served', q \notin cut'
               PROVE  q \in Config
    BY <1>5 DEF Serving
  <2>1. q \in Project /\ Counted(q) /\ q \notin cut
    BY <1>1, <1>2 DEF Counted, ProxyTypeOK
  <2>2. CASE Missed(p, Config) = {}
    <3>1. CASE Project \ Config = {}
      BY <3>1, <2>1
    <3>2. CASE caddy.mounted /\ caddyfile = Rendered(cmd[p].buf) /\ cmd[p].fd = lockFile
      <4>1. q \in cmd[p].buf
        BY <3>2, <2>1, <1>1 DEF Buffers, ProxyInv, Renders, At
      <4> QED
        BY <4>1, <3>2 DEF Config, Rendered
    <3> QED
      BY <3>1, <3>2, <2>2 DEF Missed
  <2>3. CASE Missed(p, Config) = Project \ Config
    BY <2>3, <2>1, <1>2
  <2> QED
    BY <2>2, <2>3 DEF Missed
<1>15. Someone'
  <2>1. Minds(p) => Minds(p)'
    BY <1>1, <1>2, <1>3 DEF Minds, Passed, Left, At
  <2> QED
    BY <2>1, <1>1, <1>7, <1>8, SomeoneKept
<1>16. TidyGone'
  BY <1>2, <1>8 DEF TidyGone
<1>17. RoutesThere' /\ LockStays' /\ Buffers'
  BY <1>2, <1>7, <1>12, RoutesThereKept, LockStaysKept, BuffersKept
<1> QED
  BY <1>7, <1>9, <1>10, <1>11, <1>13, <1>14, <1>15, <1>16, <1>17, KeptByMoves DEF ProxyInv

LEMMA ReloadFailsStep ==
  ASSUME ProxyInv, NEW p \in Project, ReloadFails(p)
  PROVE  ProxyInv'
<1>1. /\ ProxyTypeOK /\ InPlace(p) /\ cmd[p].pc \in {"rewrite", "exec"} /\ cmd[p].op = "reload"
      /\ ~At(p, "free") /\ (cmd[p].up => p \notin tidy)
  BY DEF ProxyInv, ReloadFails, InPlace, At
<1>2. /\ tidy' = IF cmd[p].up THEN tidy ELSE Left(p)
      /\ UNCHANGED <<services, sharing, routes, caddyfile, lockFile, caddy, served, cut>>
  BY DEF ReloadFails, world, disk
<1>3. /\ Turn(p) /\ cmd'[p] = Idle
      /\ cmd'[p].pc = "free" /\ cmd'[p].op = "none" /\ ~cmd'[p].up
      /\ ~cmd'[p].gone /\ cmd'[p].seen = {}
  BY <1>1, Ends DEF ReloadFails
<1>4. /\ held' \in [Inode -> Project \cup {None}]
      /\ \A q \in Project \ {p}, i \in Inode : held[i] = q => held'[i] = q
  BY <1>1, Releases DEF ReloadFails
<1>5. Moves(p)
  BY <1>1, <1>2, <1>3 DEF Moves, At, ProxyTypeOK
<1>6. /\ tidy' \subseteq Project /\ tidy' \subseteq tidy \cup {p}
      /\ tidy' \cap (services \cup sharing \cup routes) = {}
  BY <1>1, <1>2, LeftTidy DEF ProxyInv, TidyGone, ProxyTypeOK
<1>7. ProxyTypeOK'
  BY <1>1, <1>2, <1>3, <1>4, <1>6 DEF ProxyTypeOK, Turn
<1>8. \A q \in Project : InPlace(q)'
  <2>1. InPlace(p)'
    BY <1>1, <1>3 DEF InPlace
  <2> QED
    BY <2>1, <1>2, <1>4, <1>5, <1>6, InPlaceKept
<1>9. Decided(p)'
  BY <1>3 DEF Decided, At
<1>10. ~Past(p)' /\ ~Renders(p)' /\ ~Replacing(p) /\ cmd'[p].op # "save"
  BY <1>1, <1>3 DEF Renders, Replacing, Past
<1>11. Minds(p) => Minds(p)'
  BY <1>1, <1>2, <1>3 DEF Minds, Passed, Left, At
<1>12. TidyGone'
  BY <1>2, <1>6 DEF TidyGone
<1>13. ServedFree' /\ RoutesThere' /\ LockStays' /\ Buffers' /\ Serving' /\ Someone'
  BY <1>2, <1>5, <1>6, <1>10, <1>11, ServedFreeKept, RoutesThereKept, LockStaysKept, BuffersKept,
     ServingKept, SomeoneKept
<1> QED
  BY <1>5, <1>7, <1>8, <1>9, <1>12, <1>13, KeptByMoves DEF ProxyInv

-----------------------------------------------------------------------------
(* raioz up.                                                                *)

\* Nobody else is on the way up, and nobody on the way down has seen p.
LEMMA UpBeginStep ==
  ASSUME ProxyInv, NEW p \in Project, UpBegin(p)
  PROVE  ProxyInv'
<1> DEFINE k == [Idle EXCEPT !.pc = "deps", !.up = TRUE]
<1>1. ProxyTypeOK /\ At(p, "free") /\ \A q \in Project : ~cmd[q].up
  BY DEF ProxyInv, UpBegin
<1>2. /\ served' = served \ {p} /\ cut' = cut \ {p} /\ tidy' = tidy \ {p}
      /\ UNCHANGED <<services, sharing, routes, caddyfile, lockFile, caddy, held>>
  BY DEF UpBegin, world, disk
<1>3. k \in CmdState
  <2>1. "deps" \in PC
    BY DEF PC
  <2> QED
    BY <2>1, IdleType DEF CmdState
<1>4. /\ k.pc = "deps" /\ k.op = "none" /\ k.up /\ ~k.gone /\ k.seen = {}
  BY DEF Idle
<1>5. cmd' = [q \in Project |-> IF q = p THEN k ELSE [cmd[q] EXCEPT !.seen = @ \ {p}]]
  BY DEF UpBegin
<1> HIDE DEF k
<1>6. cmd'[p] = k
  BY <1>5
<1>7. ASSUME NEW q \in Project \ {p}
      PROVE  /\ cmd'[q] \in CmdState /\ cmd'[q].seen = cmd[q].seen \ {p}
             /\ cmd'[q].pc = cmd[q].pc /\ cmd'[q].op = cmd[q].op /\ cmd'[q].up = cmd[q].up
             /\ cmd'[q].fd = cmd[q].fd /\ cmd'[q].of = cmd[q].of /\ cmd'[q].buf = cmd[q].buf
             /\ cmd'[q].force = cmd[q].force /\ cmd'[q].last = cmd[q].last
             /\ cmd'[q].gone = cmd[q].gone
             /\ (cmd[q] = Idle => cmd'[q] = Idle)
  <2>1. cmd[q] \in CmdState /\ cmd'[q] = [cmd[q] EXCEPT !.seen = @ \ {p}]
    BY <1>1, <1>5, Fields
  <2>2. cmd[q] = Idle => cmd'[q] = Idle
    <3>1. SUFFICES ASSUME cmd[q] = Idle
                   PROVE  cmd'[q] = cmd[q]
      OBVIOUS
    <3>2. cmd[q].seen = {}
      BY <3>1 DEF Idle
    <3>3. PICK S : S = cmd[q].seen \ {p}
      OBVIOUS
    <3>4. S = cmd[q].seen /\ cmd'[q] = [cmd[q] EXCEPT !.seen = S]
      BY <2>1, <3>2, <3>3
    <3> QED
      BY <2>1, <3>4 DEF CmdState
  <2> QED
    BY <2>1, <2>2 DEF CmdState
<1>8. ProxyTypeOK'
  <2>1. cmd' \in [Project -> CmdState]
    BY <1>3, <1>5, <1>6, <1>7
  <2> QED
    BY <2>1, <1>1, <1>2 DEF ProxyTypeOK
<1>9. ASSUME NEW q \in Project
      PROVE  InPlace(q)'
  <2>1. CASE q = p
    BY <2>1, <1>2, <1>4, <1>6 DEF InPlace
  <2>2. CASE q # p
    <3>1. InPlace(q)
      BY DEF ProxyInv
    <3> QED
      BY <3>1, <2>2, <1>2, <1>7 DEF InPlace
  <2> QED
    BY <2>1, <2>2
<1>10. OneUp'
  BY <1>1, <1>7 DEF OneUp
<1>11. ServedFree' /\ TidyGone'
  BY <1>1, <1>2, <1>7 DEF ServedFree, TidyGone, At, ProxyInv, ProxyTypeOK
<1>12. Unseen'
  BY <1>1, <1>4, <1>6, <1>7 DEF Unseen
<1>13. \A q \in Project : Counted(q)' => q # p /\ Counted(q)
  BY <1>2, <1>4, <1>6, <1>7 DEF Counted, Past
<1>14. RoutesThere'
  BY <1>2, <1>13 DEF RoutesThere, ProxyInv
<1>15. LockStays'
  BY <1>2, <1>4, <1>6, <1>7 DEF LockStays, At, ProxyInv
<1>16. Buffers'
  <2>1. \A r \in Project : Renders(r)' => Renders(r) /\ cmd'[r].buf = cmd[r].buf
    BY <1>2, <1>4, <1>6, <1>7 DEF Renders
  <2> QED
    BY <2>1, <1>2, <1>13 DEF Buffers, ProxyInv
<1>17. ASSUME NEW r \in Project
       PROVE  Decided(r)'
  <2>1. CASE r = p
    BY <2>1, <1>4, <1>6 DEF Decided, At
  <2>2. CASE r # p
    <3>1. Decided(r)
      BY DEF ProxyInv
    <3> QED
      BY <3>1, <2>2, <1>2, <1>7 DEF Decided, At
  <2> QED
    BY <2>1, <2>2
<1>18. Serving'
  <2>1. \A q \in Project : Replacing(q) => Replacing(q)'
    BY <1>1, <1>7 DEF Replacing, At
  <2> QED
    BY <2>1, <1>2 DEF Serving, ProxyInv
<1>19. Someone'
  BY <1>2, <1>4, <1>6 DEF Someone, Minds, Passed
<1> QED
  BY <1>8, <1>9, <1>10, <1>11, <1>12, <1>14, <1>15, <1>16, <1>17, <1>18, <1>19 DEF ProxyInv

LEMMA UpDepsStep ==
  ASSUME ProxyInv, NEW p \in Project, UpDeps(p)
  PROVE  ProxyInv'
<1>1. ProxyTypeOK /\ InPlace(p) /\ At(p, "deps") /\ cmd[p].up /\ p \notin tidy
  BY DEF ProxyInv, UpDeps, InPlace, At
<1>2. /\ sharing' = sharing \cup ({p} \cap Sharing)
      /\ UNCHANGED <<services, routes, caddyfile, lockFile, caddy, held, served, cut, tidy>>
  BY DEF UpDeps, disk, history
<1>3. /\ Turn(p)
      /\ cmd'[p].pc = "services" /\ cmd'[p].op = cmd[p].op /\ cmd'[p].up = cmd[p].up
      /\ cmd'[p].fd = cmd[p].fd /\ cmd'[p].of = cmd[p].of
      /\ cmd'[p].gone = cmd[p].gone /\ cmd'[p].seen = cmd[p].seen
  BY <1>1, Goes DEF UpDeps, PC
<1>4. Moves(p)
  BY <1>1, <1>2, <1>3 DEF Moves, At, ProxyTypeOK
<1>5. ProxyTypeOK'
  BY <1>1, <1>2, <1>3 DEF ProxyTypeOK, Turn
<1>6. \A q \in Project : InPlace(q)'
  <2>1. InPlace(p)'
    BY <1>1, <1>2, <1>3 DEF InPlace, At
  <2> QED
    BY <2>1, <1>2, <1>4, InPlaceKept
<1>7. Decided(p)'
  BY <1>1, <1>3 DEF Decided, At, InPlace
<1>8. ~Past(p)' /\ ~Renders(p)' /\ ~Replacing(p) /\ (Minds(p) => Minds(p)')
  BY <1>1, <1>2, <1>3 DEF Renders, Replacing, Minds, Passed, At, InPlace, Past
<1>9. TidyGone'
  BY <1>1, <1>2 DEF TidyGone, ProxyInv
<1>10. ServedFree' /\ RoutesThere' /\ LockStays' /\ Buffers' /\ Serving' /\ Someone'
  BY <1>2, <1>3, <1>4, <1>8, ServedFreeKept, RoutesThereKept, LockStaysKept, BuffersKept,
     ServingKept, SomeoneKept
<1> QED
  BY <1>4, <1>5, <1>6, <1>7, <1>9, <1>10, KeptByMoves DEF ProxyInv

LEMMA UpServicesStep ==
  ASSUME ProxyInv, NEW p \in Project, UpServices(p)
  PROVE  ProxyInv'
<1>1. ProxyTypeOK /\ InPlace(p) /\ At(p, "services") /\ cmd[p].up /\ p \notin tidy
  BY DEF ProxyInv, UpServices, InPlace, At
<1>2. /\ services' = services \cup {p}
      /\ UNCHANGED <<sharing, routes, caddyfile, lockFile, caddy, held, served, cut, tidy>>
  BY DEF UpServices, disk, history
<1>3. /\ Turn(p)
      /\ cmd'[p].pc = "open" /\ cmd'[p].op = "save" /\ cmd'[p].up = cmd[p].up
      /\ cmd'[p].gone = cmd[p].gone /\ cmd'[p].seen = {}
  BY <1>1, Enters DEF UpServices, Op
<1>4. Moves(p)
  BY <1>1, <1>2, <1>3 DEF Moves, At, ProxyTypeOK
<1>5. ProxyTypeOK'
  BY <1>1, <1>2, <1>3 DEF ProxyTypeOK, Turn
<1>6. \A q \in Project : InPlace(q)'
  <2>1. InPlace(p)'
    BY <1>1, <1>2, <1>3 DEF InPlace, At
  <2> QED
    BY <2>1, <1>2, <1>4, InPlaceKept
<1>7. Decided(p)'
  BY <1>1, <1>3 DEF Decided, At
<1>8. ~Past(p)' /\ ~Renders(p)' /\ ~Replacing(p) /\ (Minds(p) => Minds(p)')
  BY <1>1, <1>2, <1>3 DEF Renders, Replacing, Minds, Passed, At, InPlace, Past
<1>9. TidyGone'
  BY <1>1, <1>2 DEF TidyGone, ProxyInv
<1>10. ServedFree' /\ RoutesThere' /\ LockStays' /\ Buffers' /\ Serving' /\ Someone'
  BY <1>2, <1>3, <1>4, <1>8, ServedFreeKept, RoutesThereKept, LockStaysKept, BuffersKept,
     ServingKept, SomeoneKept
<1> QED
  BY <1>4, <1>5, <1>6, <1>7, <1>9, <1>10, KeptByMoves DEF ProxyInv

LEMMA StartReloadsStep ==
  ASSUME ProxyInv, NEW p \in Project, StartReloads(p)
  PROVE  ProxyInv'
<1>1. ProxyTypeOK /\ InPlace(p) /\ At(p, "start") /\ cmd[p].up
  BY DEF ProxyInv, StartReloads, InPlace, At
<1>2. UNCHANGED <<services, sharing, routes, caddyfile, lockFile, caddy, held, served, cut, tidy>>
  BY DEF StartReloads, world, disk, history
<1>3. /\ Turn(p)
      /\ cmd'[p].pc = "open" /\ cmd'[p].op = "reload" /\ cmd'[p].up = cmd[p].up
      /\ cmd'[p].gone = cmd[p].gone /\ cmd'[p].seen = {}
  BY <1>1, Enters DEF StartReloads, Op
<1>4. Moves(p)
  BY <1>1, <1>2, <1>3 DEF Moves, At, ProxyTypeOK
<1>5. ProxyTypeOK'
  BY <1>1, <1>2, <1>3 DEF ProxyTypeOK, Turn
<1>6. InPlace(p)'
  BY <1>1, <1>2, <1>3 DEF InPlace, At
<1>7. Decided(p)'
  BY <1>1, <1>3 DEF Decided, At
<1>8. ~Replacing(p) /\ Past(p) /\ ~Renders(p)' /\ (Minds(p) => Minds(p)')
  BY <1>1, <1>2, <1>3 DEF Renders, Replacing, Minds, Passed, At, InPlace, Past
<1> QED
  BY <1>2, <1>3, <1>4, <1>5, <1>6, <1>7, <1>8, KeptByOwnStep

LEMMA StartCreatesStep ==
  ASSUME ProxyInv, NEW p \in Project, StartCreates(p)
  PROVE  ProxyInv'
<1>1. ProxyTypeOK /\ InPlace(p) /\ At(p, "start") /\ cmd[p].up
  BY DEF ProxyInv, StartCreates, InPlace, At
<1>2. /\ caddy' = NoCaddy
      /\ UNCHANGED <<services, sharing, routes, caddyfile, lockFile, held, served, cut, tidy>>
  BY DEF StartCreates, world, disk, history
<1>3. /\ Turn(p)
      /\ cmd'[p].pc = "render" /\ cmd'[p].op = cmd[p].op /\ cmd'[p].up = cmd[p].up
      /\ cmd'[p].gone = cmd[p].gone /\ cmd'[p].seen = cmd[p].seen
  BY <1>1, Goes DEF StartCreates, PC
<1>4. Moves(p)
  BY <1>1, <1>2, <1>3 DEF Moves, At, ProxyTypeOK
<1>5. ProxyTypeOK'
  BY <1>1, <1>2, <1>3 DEF ProxyTypeOK, Turn, NoCaddy, Container
<1>6. \A q \in Project : InPlace(q)'
  <2>1. InPlace(p)'
    BY <1>1, <1>2, <1>3 DEF InPlace, At
  <2> QED
    BY <2>1, <1>2, <1>4, InPlaceKept
<1>7. Decided(p)'
  BY <1>1, <1>3 DEF Decided, At, InPlace
<1>8. Past(p) /\ ~Renders(p)' /\ cmd'[p].op # "save"
  BY <1>1, <1>3 DEF Renders, At, InPlace, Past
<1>9. Serving'
  BY <1>3 DEF Serving, Replacing
<1>10. TidyGone' /\ Someone'
  BY <1>2 DEF TidyGone, Someone, NoCaddy, ProxyInv
<1>11. ServedFree' /\ RoutesThere' /\ LockStays' /\ Buffers'
  BY <1>2, <1>4, <1>8, ServedFreeKept, RoutesThereKept, LockStaysKept, BuffersKept
<1> QED
  BY <1>4, <1>5, <1>6, <1>7, <1>9, <1>10, <1>11, KeptByMoves DEF ProxyInv

LEMMA StartReadsStep ==
  ASSUME ProxyInv, NEW p \in Project, StartReads(p)
  PROVE  ProxyInv'
<1> DEFINE k == [cmd[p] EXCEPT !.pc = "write", !.buf = routes]
<1>1. ProxyTypeOK /\ InPlace(p) /\ At(p, "render") /\ cmd[p].up
  BY DEF ProxyInv, StartReads, InPlace, At
<1>2. UNCHANGED <<services, sharing, routes, caddyfile, lockFile, caddy, held, served, cut, tidy>>
  BY DEF StartReads, world, disk, history
<1>3. k \in CmdState
  <2>1. "write" \in PC /\ routes \in SUBSET Project /\ cmd[p] \in CmdState
    BY <1>1, Fields DEF PC, ProxyTypeOK
  <2> QED
    BY <2>1 DEF CmdState
<1>4. cmd' = [cmd EXCEPT ![p] = k]
  BY DEF StartReads
<1>5. /\ k.pc = "write" /\ k.buf = routes /\ k.op = cmd[p].op /\ k.up = cmd[p].up
      /\ k.gone = cmd[p].gone /\ k.seen = cmd[p].seen
  <2>1. cmd[p] \in CmdState
    BY <1>1, Fields
  <2> QED
    BY <2>1 DEF CmdState
<1> HIDE DEF k
<1>6. Turn(p) /\ cmd'[p] = k
  BY <1>1, <1>3, <1>4, Becomes DEF Turn
<1>7. Moves(p)
  BY <1>1, <1>2, <1>5, <1>6 DEF Moves, At, ProxyTypeOK
<1>8. ProxyTypeOK'
  BY <1>1, <1>2, <1>6 DEF ProxyTypeOK, Turn
<1>9. InPlace(p)'
  BY <1>1, <1>2, <1>5, <1>6 DEF InPlace, At
<1>10. Decided(p)'
  BY <1>1, <1>5, <1>6 DEF Decided, At, InPlace
<1>11. Replacing(p)' /\ Past(p) /\ (Minds(p) => Minds(p)') /\ cmd'[p].op # "save"
  BY <1>1, <1>2, <1>5, <1>6 DEF Replacing, Minds, Passed, At, InPlace, Past
<1> QED
  BY <1>2, <1>5, <1>6, <1>7, <1>8, <1>9, <1>10, <1>11, KeptByOwnStep

LEMMA StartWritesStep ==
  ASSUME ProxyInv, NEW p \in Project, StartWrites(p)
  PROVE  ProxyInv'
<1>1. ProxyTypeOK /\ InPlace(p) /\ At(p, "write") /\ cmd[p].up
  BY DEF ProxyInv, StartWrites, InPlace, At
<1>2. /\ caddyfile' = Rendered(cmd[p].buf)
      /\ UNCHANGED <<services, sharing, routes, lockFile, caddy, held, served, cut, tidy>>
  BY DEF StartWrites, world, history
<1>3. /\ Turn(p)
      /\ cmd'[p].pc = "run" /\ cmd'[p].op = cmd[p].op /\ cmd'[p].up = cmd[p].up
      /\ cmd'[p].buf = cmd[p].buf /\ cmd'[p].gone = cmd[p].gone /\ cmd'[p].seen = cmd[p].seen
  BY <1>1, Goes DEF StartWrites, PC
<1>4. Moves(p)
  BY <1>1, <1>2, <1>3 DEF Moves, At, ProxyTypeOK
<1>5. ProxyTypeOK'
  BY <1>1, <1>2, <1>3, Fields DEF ProxyTypeOK, Turn, Caddyfile, Rendered
<1>6. InPlace(p)'
  BY <1>1, <1>2, <1>3 DEF InPlace, At
<1>7. Decided(p)'
  BY <1>1, <1>3 DEF Decided, At, InPlace
<1>8. Replacing(p)' /\ Past(p) /\ Renders(p) /\ (Minds(p) => Minds(p)')
  BY <1>1, <1>2, <1>3 DEF Renders, Replacing, Minds, Passed, At, InPlace, Past
<1> QED
  BY <1>2, <1>3, <1>4, <1>5, <1>6, <1>7, <1>8, KeptByOwnStep

\* The Caddyfile that is mounted is the one it has written, or all that are
\* not in it are cut off.
LEMMA StartRunsStep ==
  ASSUME ProxyInv, NEW p \in Project, StartRuns(p)
  PROVE  ProxyInv'
<1>1. /\ ProxyTypeOK /\ InPlace(p) /\ At(p, "run") /\ cmd[p].up
      /\ p \in services /\ p \notin tidy /\ Past(p) /\ Renders(p)
  BY DEF ProxyInv, StartRuns, InPlace, At, Past, Renders
<1>2. /\ caddy' = [up |-> TRUE, loaded |-> caddyfile.of, mounted |-> TRUE, frozen |-> {}]
      /\ cut' = cut \cup (IF caddyfile # Rendered(cmd[p].buf) THEN Project \ caddyfile.of ELSE {})
      /\ served' = served \cup {p}
      /\ UNCHANGED <<services, sharing, routes, caddyfile, lockFile, held, tidy>>
  BY DEF StartRuns, world, disk
<1>3. /\ Turn(p) /\ cmd'[p] = Idle
      /\ cmd'[p].pc = "free" /\ cmd'[p].op = "none" /\ ~cmd'[p].up
      /\ ~cmd'[p].gone /\ cmd'[p].seen = {}
  BY <1>1, Ends DEF StartRuns
<1>4. Moves(p)
  BY <1>1, <1>2, <1>3 DEF Moves, At, ProxyTypeOK
<1>5. ProxyTypeOK'
  <2>1. caddyfile.of \subseteq Project
    BY <1>1 DEF ProxyTypeOK, Caddyfile
  <2>2. caddy' \in Container
    BY <1>2, <2>1 DEF Container
  <2> QED
    BY <1>1, <1>2, <1>3, <2>1, <2>2 DEF ProxyTypeOK, Turn
<1>6. \A q \in Project : InPlace(q)'
  <2>1. InPlace(p)'
    BY <1>1, <1>3 DEF InPlace
  <2> QED
    BY <2>1, <1>2, <1>4, InPlaceKept
<1>7. Decided(p)'
  BY <1>3 DEF Decided, At
<1>8. ~Past(p)' /\ ~Renders(p)' /\ cmd'[p].op # "save"
  BY <1>3 DEF Renders, Past
<1>9. ServedFree'
  BY <1>1, <1>2, <1>3 DEF ServedFree, At, ProxyInv, ProxyTypeOK, Turn
<1>10. Serving'
  <2> SUFFICES ASSUME NEW q \in served', q \notin cut'
               PROVE  caddy'.up /\ q \in caddy'.loaded
    BY DEF Serving
  <2>1. q \in Project /\ Counted(q) /\ q \notin cut
    BY <1>1, <1>2 DEF Counted, ProxyTypeOK
  <2>2. q \in cmd[p].buf
    BY <1>1, <2>1 DEF Buffers, ProxyInv
  <2>3. q \in caddyfile.of
    BY <1>2, <2>1, <2>2 DEF Rendered
  <2> QED
    BY <1>2, <2>3
<1>11. TidyGone'
  BY <1>2 DEF TidyGone, ProxyInv
<1>12. Someone'
  BY <1>1, <1>2, <1>3 DEF Someone, Minds, Passed
<1>13. RoutesThere' /\ LockStays' /\ Buffers'
  BY <1>2, <1>4, <1>8, RoutesThereKept, LockStaysKept, BuffersKept
<1> QED
  BY <1>4, <1>5, <1>6, <1>7, <1>9, <1>10, <1>11, <1>12, <1>13, KeptByMoves DEF ProxyInv

LEMMA StartFailsStep ==
  ASSUME ProxyInv, NEW p \in Project, StartFails(p)
  PROVE  ProxyInv'
<1>1. ProxyTypeOK /\ InPlace(p) /\ Replacing(p) /\ cmd[p].up /\ cmd[p].pc # "free"
  BY DEF ProxyInv, StartFails, InPlace, At, Replacing
<1>2. /\ cut' = cut \cup Project
      /\ caddyfile' \in {caddyfile, Corrupt}
      /\ UNCHANGED <<services, sharing, routes, lockFile, caddy, held, served, tidy>>
  BY <1>1 DEF StartFails, world, GivesUp, Replacing
<1>3. /\ Turn(p) /\ cmd'[p] = Idle
      /\ cmd'[p].pc = "free" /\ cmd'[p].op = "none" /\ ~cmd'[p].up
      /\ ~cmd'[p].gone /\ cmd'[p].seen = {}
  BY <1>1, Ends DEF StartFails
<1>4. Moves(p)
  BY <1>1, <1>2, <1>3 DEF Moves, At, ProxyTypeOK
<1>5. ProxyTypeOK'
  BY <1>1, <1>2, <1>3 DEF ProxyTypeOK, Turn, Caddyfile, Corrupt
<1>6. InPlace(p)'
  BY <1>1, <1>2, <1>3 DEF InPlace
<1>7. Decided(p)'
  BY <1>1, <1>3 DEF Decided, At
<1>8. ~Past(p)' /\ ~Renders(p)' /\ (Minds(p) => Minds(p)')
  BY <1>1, <1>2, <1>3 DEF Renders, Replacing, Minds, Passed, At, InPlace, Past
<1> QED
  BY <1>2, <1>3, <1>4, <1>5, <1>6, <1>7, <1>8, KeptByOwnStep

-----------------------------------------------------------------------------
(* raioz down.                                                              *)

LEMMA DownBeginStep ==
  ASSUME ProxyInv, NEW p \in Project, NEW force \in BOOLEAN, DownBegin(p, force)
  PROVE  ProxyInv'
<1> DEFINE k == [cmd[p] EXCEPT !.pc = "open", !.op = "remove", !.force = force]
<1>1. ProxyTypeOK /\ InPlace(p) /\ At(p, "free") /\ cmd[p] = Idle
  BY DEF ProxyInv, DownBegin, InPlace, At
<1>2. /\ services' = services \ {p} /\ sharing' = sharing \ {p}
      /\ served' = served \ {p} /\ cut' = cut \ {p}
      /\ UNCHANGED <<routes, caddyfile, lockFile, caddy, held, tidy>>
  BY DEF DownBegin, disk
<1>3. k \in CmdState
  <2>1. "open" \in PC /\ "remove" \in Op /\ cmd[p] \in CmdState
    BY <1>1, Fields DEF PC, Op
  <2> QED
    BY <2>1 DEF CmdState
<1>4. cmd' = [cmd EXCEPT ![p] = k]
  BY DEF DownBegin
<1>5. k.pc = "open" /\ k.op = "remove" /\ ~k.up /\ ~k.gone /\ k.seen = {}
  BY <1>1 DEF Idle
<1> HIDE DEF k
<1>6. Turn(p) /\ cmd'[p] = k
  BY <1>1, <1>3, <1>4, Becomes DEF Turn
<1>7. ProxyTypeOK'
  BY <1>1, <1>2, <1>6 DEF ProxyTypeOK, Turn
<1>8. ASSUME NEW q \in Project
      PROVE  InPlace(q)'
  <2>1. CASE q = p
    BY <2>1, <1>2, <1>5, <1>6 DEF InPlace
  <2>2. CASE q # p
    <3>1. InPlace(q) /\ cmd'[q] = cmd[q]
      BY <2>2, <1>6 DEF ProxyInv, Turn
    <3> QED
      BY <3>1, <2>2, <1>2 DEF InPlace
  <2> QED
    BY <2>1, <2>2
<1>9. OneUp' /\ Unseen'
  BY <1>5, <1>6 DEF OneUp, Unseen, Turn, ProxyInv
<1>10. ServedFree' /\ TidyGone'
  BY <1>1, <1>2, <1>6 DEF ServedFree, TidyGone, At, ProxyInv, ProxyTypeOK, Turn
<1>11. \A q \in Project : Counted(q)' => q # p /\ Counted(q)
  BY <1>2, <1>5, <1>6 DEF Counted, Past, Turn
<1>12. RoutesThere'
  BY <1>2, <1>11 DEF RoutesThere, ProxyInv
<1>13. LockStays'
  BY <1>2, <1>5, <1>6 DEF LockStays, At, ProxyInv, Turn
<1>14. Buffers'
  <2>1. \A r \in Project : Renders(r)' => Renders(r) /\ cmd'[r].buf = cmd[r].buf
    BY <1>2, <1>5, <1>6 DEF Renders, Turn
  <2> QED
    BY <2>1, <1>2, <1>11 DEF Buffers, ProxyInv
<1>15. ASSUME NEW r \in Project
       PROVE  Decided(r)'
  <2>1. CASE r = p
    BY <2>1, <1>5, <1>6 DEF Decided, At
  <2>2. CASE r # p
    <3>1. Decided(r) /\ cmd'[r] = cmd[r]
      BY <2>2, <1>6 DEF ProxyInv, Turn
    <3> QED
      BY <3>1, <1>2 DEF Decided, At
  <2> QED
    BY <2>1, <2>2
<1>16. Serving'
  <2>1. \A q \in Project : Replacing(q) => Replacing(q)'
    BY <1>1, <1>6 DEF Replacing, Turn, At
  <2> QED
    BY <2>1, <1>2 DEF Serving, ProxyInv
<1>17. Someone'
  BY <1>5, <1>6 DEF Someone, Minds
<1> QED
  BY <1>7, <1>8, <1>9, <1>10, <1>12, <1>13, <1>14, <1>15, <1>16, <1>17 DEF ProxyInv

LEMMA ListOrphansStep ==
  ASSUME ProxyInv, NEW p \in Project, ListOrphans(p)
  PROVE  ProxyInv'
<1> DEFINE k == [cmd[p] EXCEPT !.pc = "judge", !.todo = (routes \ {p}) \ Labelled, !.seen = served]
<1>1. ProxyTypeOK /\ InPlace(p) /\ At(p, "list") /\ ~cmd[p].up
  BY DEF ProxyInv, ListOrphans, InPlace, At
<1>2. /\ tidy' = tidy \cup {q \in Project \ (services \cup sharing \cup routes) : At(q, "free")}
      /\ UNCHANGED <<services, sharing, routes, caddyfile, lockFile, caddy, held, served, cut>>
  BY DEF ListOrphans, world, disk
<1>3. k \in CmdState
  <2>1. "judge" \in PC /\ served \in SUBSET Project /\ cmd[p] \in CmdState
        /\ (routes \ {p}) \ Labelled \in SUBSET Project
    BY <1>1, Fields DEF PC, ProxyTypeOK
  <2> QED
    BY <2>1 DEF CmdState
<1>4. cmd' = [cmd EXCEPT ![p] = k]
  BY DEF ListOrphans
<1>5. /\ k.pc = "judge" /\ k.op = cmd[p].op /\ k.up = cmd[p].up
      /\ k.gone = cmd[p].gone /\ k.seen = served
  <2>1. cmd[p] \in CmdState
    BY <1>1, Fields
  <2> QED
    BY <2>1 DEF CmdState
<1> HIDE DEF k
<1>6. Turn(p) /\ cmd'[p] = k
  BY <1>1, <1>3, <1>4, Becomes DEF Turn
<1>7. Moves(p)
  BY <1>1, <1>2, <1>5, <1>6 DEF Moves, At, ProxyTypeOK
<1>8. ProxyTypeOK'
  BY <1>1, <1>2, <1>6 DEF ProxyTypeOK, Turn
<1>9. \A q \in Project : InPlace(q)'
  <2>1. InPlace(p)'
    BY <1>1, <1>2, <1>5, <1>6 DEF InPlace, At
  <2>2. \A q \in Project \ {p} : q \in tidy' => q \in tidy \/ At(q, "free")
    BY <1>2
  <2> QED
    BY <2>1, <2>2, <1>2, <1>7, InPlaceKept
<1>10. Decided(p)'
  BY <1>1, <1>5, <1>6 DEF Decided, At, InPlace
<1>11. ~Past(p)' /\ ~Renders(p)' /\ ~Replacing(p) /\ Minds(p)' /\ cmd'[p].op # "save"
  BY <1>1, <1>5, <1>6 DEF Renders, Replacing, Minds, At, Past, InPlace
<1>12. TidyGone'
  BY <1>2 DEF TidyGone, ProxyInv
<1>13. Someone'
  BY <1>11 DEF Someone
<1>14. ServedFree' /\ RoutesThere' /\ LockStays' /\ Buffers' /\ Serving'
  BY <1>2, <1>7, <1>11, ServedFreeKept, RoutesThereKept, LockStaysKept, BuffersKept, ServingKept
<1> QED
  BY <1>7, <1>8, <1>9, <1>10, <1>12, <1>13, <1>14, KeptByMoves DEF ProxyInv

LEMMA ListFailsStep ==
  ASSUME ProxyInv, NEW p \in Project, ListFails(p)
  PROVE  ProxyInv'
<1>1. ProxyTypeOK /\ InPlace(p) /\ At(p, "list") /\ ~cmd[p].up
  BY DEF ProxyInv, ListFails, InPlace, At
<1>2. UNCHANGED <<services, sharing, routes, caddyfile, lockFile, caddy, held, served, cut, tidy>>
  BY DEF ListFails, world, disk, history
<1>3. /\ Turn(p)
      /\ cmd'[p].pc = "judge" /\ cmd'[p].op = cmd[p].op /\ cmd'[p].up = cmd[p].up
      /\ cmd'[p].gone = cmd[p].gone /\ cmd'[p].seen = cmd[p].seen
  BY <1>1, Goes DEF ListFails, PC
<1>4. Moves(p)
  BY <1>1, <1>2, <1>3 DEF Moves, At, ProxyTypeOK
<1>5. ProxyTypeOK'
  BY <1>1, <1>2, <1>3 DEF ProxyTypeOK, Turn
<1>6. InPlace(p)'
  BY <1>1, <1>2, <1>3 DEF InPlace, At
<1>7. Decided(p)'
  BY <1>1, <1>3 DEF Decided, At, InPlace
<1>8. ~Past(p)' /\ ~Renders(p)' /\ ~Replacing(p) /\ Minds(p)'
  BY <1>1, <1>2, <1>3 DEF Renders, Replacing, Minds, Passed, At, InPlace, Past
<1> QED
  BY <1>2, <1>3, <1>4, <1>5, <1>6, <1>7, <1>8, KeptByOwnStep

LEMMA JudgeAliveStep ==
  ASSUME ProxyInv, NEW p \in Project, NEW q \in Project, JudgeAlive(p, q)
  PROVE  ProxyInv'
<1> DEFINE k == [cmd[p] EXCEPT !.todo = @ \ {q}]
<1>1. ProxyTypeOK /\ InPlace(p) /\ At(p, "judge") /\ ~cmd[p].up
  BY DEF ProxyInv, JudgeAlive, InPlace, At
<1>2. UNCHANGED <<services, sharing, routes, caddyfile, lockFile, caddy, held, served, cut, tidy>>
  BY DEF JudgeAlive, world, disk, history
<1>3. k \in CmdState
  <2>1. cmd[p] \in CmdState
    BY <1>1, Fields
  <2> QED
    BY <2>1 DEF CmdState
<1>4. cmd' = [cmd EXCEPT ![p] = k]
  BY DEF JudgeAlive
<1>5. /\ k.pc = "judge" /\ k.op = cmd[p].op /\ k.up = cmd[p].up
      /\ k.gone = cmd[p].gone /\ k.seen = cmd[p].seen
  BY <1>1, Fields DEF CmdState, At
<1> HIDE DEF k
<1>6. Turn(p) /\ cmd'[p] = k
  BY <1>1, <1>3, <1>4, Becomes DEF Turn
<1>7. Moves(p)
  BY <1>1, <1>2, <1>5, <1>6 DEF Moves, At, ProxyTypeOK
<1>8. ProxyTypeOK'
  BY <1>1, <1>2, <1>6 DEF ProxyTypeOK, Turn
<1>9. InPlace(p)'
  BY <1>1, <1>2, <1>5, <1>6 DEF InPlace, At
<1>10. Decided(p)'
  BY <1>1, <1>5, <1>6 DEF Decided, At, InPlace
<1>11. ~Past(p)' /\ ~Renders(p)' /\ ~Replacing(p) /\ Minds(p)'
  BY <1>1, <1>2, <1>5, <1>6 DEF Renders, Replacing, Minds, Passed, At, InPlace, Past
<1> QED
  BY <1>2, <1>5, <1>6, <1>7, <1>8, <1>9, <1>10, <1>11, KeptByOwnStep

LEMMA JudgeDeadStep ==
  ASSUME ProxyInv, NEW p \in Project, NEW q \in Project, JudgeDead(p, q)
  PROVE  ProxyInv'
<1> DEFINE k == [cmd[p] EXCEPT !.pc = "open", !.op = "prune", !.of = q, !.todo = @ \ {q}]
<1>1. ProxyTypeOK /\ InPlace(p) /\ At(p, "judge") /\ ~cmd[p].up /\ q \notin services
  BY DEF ProxyInv, JudgeDead, InPlace, At
<1>2. UNCHANGED <<services, sharing, routes, caddyfile, lockFile, caddy, held, served, cut, tidy>>
  BY DEF JudgeDead, world, disk, history
<1>3. k \in CmdState
  <2>1. "open" \in PC /\ "prune" \in Op /\ cmd[p] \in CmdState
    BY <1>1, Fields DEF PC, Op
  <2> QED
    BY <2>1 DEF CmdState
<1>4. cmd' = [cmd EXCEPT ![p] = k]
  BY DEF JudgeDead
<1>5. /\ k.pc = "open" /\ k.op = "prune" /\ k.of = q /\ k.up = cmd[p].up
      /\ k.gone = cmd[p].gone /\ k.seen = cmd[p].seen
  BY <1>1, Fields DEF CmdState, At
<1> HIDE DEF k
<1>6. Turn(p) /\ cmd'[p] = k
  BY <1>1, <1>3, <1>4, Becomes DEF Turn
<1>7. Moves(p)
  BY <1>1, <1>2, <1>5, <1>6 DEF Moves, At, ProxyTypeOK
<1>8. ProxyTypeOK'
  BY <1>1, <1>2, <1>6 DEF ProxyTypeOK, Turn
<1>9. InPlace(p)'
  BY <1>1, <1>2, <1>5, <1>6 DEF InPlace, At
<1>10. Decided(p)'
  BY <1>1, <1>2, <1>5, <1>6 DEF Decided, At, ServedFree, ProxyInv
<1>11. ~Past(p)' /\ ~Renders(p)' /\ ~Replacing(p) /\ Minds(p)'
  BY <1>1, <1>2, <1>5, <1>6 DEF Renders, Replacing, Minds, Passed, At, InPlace, Past
<1> QED
  BY <1>2, <1>5, <1>6, <1>7, <1>8, <1>9, <1>10, <1>11, KeptByOwnStep

\* The last one out has seen all who are served cut off; any other leaves
\* somebody with routes behind.
LEMMA RemainingProjectsStep ==
  ASSUME ProxyInv, NEW p \in Project, RemainingProjects(p)
  PROVE  ProxyInv'
<1> DEFINE k == [cmd[p] EXCEPT !.pc = "probe", !.last = (routes = {}), !.seen = served]
<1>1. ProxyTypeOK /\ InPlace(p) /\ At(p, "judge") /\ ~cmd[p].up
  BY DEF ProxyInv, RemainingProjects, InPlace, At
<1>2. UNCHANGED <<services, sharing, routes, caddyfile, lockFile, caddy, held, served, cut, tidy>>
  BY DEF RemainingProjects, world, disk, history
<1>3. k \in CmdState
  <2>1. "probe" \in PC /\ served \in SUBSET Project /\ cmd[p] \in CmdState
    BY <1>1, Fields DEF PC, ProxyTypeOK
  <2> QED
    BY <2>1 DEF CmdState
<1>4. cmd' = [cmd EXCEPT ![p] = k]
  BY DEF RemainingProjects
<1>5. /\ k.pc = "probe" /\ k.op = cmd[p].op /\ k.up = cmd[p].up /\ k.last = (routes = {})
      /\ k.gone = cmd[p].gone /\ k.seen = served
  BY <1>1, Fields DEF CmdState, At
<1> HIDE DEF k
<1>6. Turn(p) /\ cmd'[p] = k
  BY <1>1, <1>3, <1>4, Becomes DEF Turn
<1>7. Moves(p)
  BY <1>1, <1>2, <1>5, <1>6 DEF Moves, At, ProxyTypeOK
<1>8. ProxyTypeOK'
  BY <1>1, <1>2, <1>6 DEF ProxyTypeOK, Turn
<1>9. InPlace(p)'
  BY <1>1, <1>2, <1>5, <1>6 DEF InPlace, At
<1>10. Decided(p)'
  <2>1. routes = {} => served \subseteq cut
    BY <1>1 DEF ProxyInv, RoutesThere, Counted, ProxyTypeOK
  <2> QED
    BY <2>1, <1>1, <1>2, <1>5, <1>6 DEF Decided, At, InPlace
<1>11. ~Past(p)' /\ ~Renders(p)' /\ ~Replacing(p) /\ cmd'[p].op # "save"
  BY <1>1, <1>2, <1>5, <1>6 DEF Renders, Replacing, At, InPlace, Past
<1>12. Minds(p)' \/ \E q \in Project \ {p} : Minds(q)
  <2>1. CASE routes = {}
    BY <2>1, <1>5, <1>6 DEF Minds, At
  <2>2. CASE p \in routes
    BY <2>2, <1>1, <1>2, <1>5, <1>6 DEF Minds, Passed, InPlace, TidyGone, ProxyInv
  <2>3. CASE \E q \in routes : q # p
    BY <2>3, NotGone
  <2> QED
    BY <2>1, <2>2, <2>3
<1> QED
  BY <1>2, <1>5, <1>6, <1>7, <1>8, <1>9, <1>10, <1>11, <1>12, KeptByOwnStep

\* Whoever goes to stop overlooks nobody on the containers; whoever does not
\* leaves a sibling behind, if it does not go for another reason.
LEMMA DecideStep ==
  ASSUME ProxyInv, NEW p \in Project, NEW alive \in BOOLEAN, Decide(p, alive),
         alive => \E q \in Project \ {p} : q \in services \cup sharing \cup routes,
         ~alive => \A q \in served : q \in OnHost \cup cut
  PROVE  ProxyInv'
<1>1. ProxyTypeOK /\ InPlace(p) /\ At(p, "probe") /\ ~cmd[p].up /\ cmd[p].op = "none"
  <2>1. ProxyTypeOK /\ InPlace(p) /\ At(p, "probe") /\ cmd[p].op \in Op
    BY Fields DEF ProxyInv, Decide
  <2> QED
    BY <2>1 DEF InPlace, At, Op
<1>2. UNCHANGED <<services, sharing, routes, caddyfile, lockFile, caddy, held, served, cut, tidy>>
  BY DEF Decide, world, disk, history
<1>3. CASE (cmd[p].force \/ cmd[p].last) /\ ~alive
  <2>1. /\ Turn(p)
        /\ cmd'[p].pc = "stop" /\ cmd'[p].op = cmd[p].op /\ cmd'[p].up = cmd[p].up
        /\ cmd'[p].force = cmd[p].force
        /\ cmd'[p].gone = cmd[p].gone /\ cmd'[p].seen = cmd[p].seen
    BY <1>1, <1>3, Goes DEF Decide, PC
  <2>2. Moves(p)
    BY <1>1, <1>2, <2>1 DEF Moves, At, ProxyTypeOK
  <2>3. ProxyTypeOK'
    BY <1>1, <1>2, <2>1 DEF ProxyTypeOK, Turn
  <2>4. InPlace(p)'
    BY <1>1, <1>2, <2>1 DEF InPlace, At
  <2>5. Decided(p)'
    <3>1. Decided(p)
      BY DEF ProxyInv
    <3> QED
      BY <3>1, <1>1, <1>2, <1>3, <2>1 DEF Decided, At
  <2>6. ~Past(p)' /\ ~Renders(p)' /\ ~Replacing(p) /\ Minds(p)' /\ cmd'[p].op # "save"
    BY <1>1, <2>1 DEF Renders, Replacing, Minds, At, Past
  <2> QED
    BY <1>2, <2>1, <2>2, <2>3, <2>4, <2>5, <2>6, KeptByOwnStep
<1>4. CASE ~((cmd[p].force \/ cmd[p].last) /\ ~alive)
  <2>1. /\ Turn(p)
        /\ cmd'[p].pc = "open" /\ cmd'[p].op = "reload" /\ cmd'[p].up = cmd[p].up
        /\ cmd'[p].gone = cmd[p].gone /\ cmd'[p].seen = {}
    BY <1>1, <1>4, Enters DEF Decide, Op
  <2>2. Moves(p)
    BY <1>1, <1>2, <2>1 DEF Moves, At, ProxyTypeOK
  <2>3. ProxyTypeOK'
    BY <1>1, <1>2, <2>1 DEF ProxyTypeOK, Turn
  <2>4. InPlace(p)'
    BY <1>1, <1>2, <2>1 DEF InPlace, At
  <2>5. Decided(p)'
    BY <1>1, <2>1 DEF Decided, At
  <2>6. ~Past(p)' /\ ~Renders(p)' /\ ~Replacing(p)
    BY <1>1, <2>1 DEF Renders, Replacing, At, Past
  <2>7. Minds(p) => Minds(p)' \/ \E q \in Project \ {p} : Minds(q)
    <3>1. CASE alive
      BY <3>1, NotGone
    <3>2. CASE ~cmd[p].last
      BY <3>2, <1>1, <1>2, <2>1 DEF Minds, Passed, At
    <3> QED
      BY <3>1, <3>2, <1>4
  <2> QED
    BY <1>2, <2>1, <2>2, <2>3, <2>4, <2>5, <2>6, <2>7, KeptByOwnStep
<1> QED
  BY <1>3, <1>4

LEMMA SiblingProbeStep ==
  ASSUME ProxyInv, NEW p \in Project, SiblingProbe(p)
  PROVE  ProxyInv'
<1>1. ProxyTypeOK /\ InPlace(p) /\ At(p, "probe") /\ p \notin services \cup sharing
  BY DEF ProxyInv, SiblingProbe, Decide, InPlace, At
<1>2. \A q \in served : q \in services /\ q # p /\ q \in routes \cup cut
  BY <1>1 DEF ProxyInv, ProxyTypeOK, ServedFree, RoutesThere, Counted, At
<1>3. CASE Decide(p, SiblingAlive(p))
  <2>1. SiblingAlive(p) => \E q \in Project \ {p} : q \in services \cup sharing \cup routes
    BY <1>1, WorkspaceProxyAssumption DEF SiblingAlive, Labelled, ProxyTypeOK
  <2>2. ~SiblingAlive(p) => \A q \in served : q \in OnHost \cup cut
    BY <1>2 DEF SiblingAlive
  <2>3. SiblingAlive(p) \in BOOLEAN
    BY DEF SiblingAlive
  <2> QED
    BY <1>3, <2>1, <2>2, <2>3, DecideStep
<1>4. CASE Decide(p, SiblingUnknown(p))
  <2>1. SiblingUnknown(p) => \E q \in Project \ {p} : q \in services \cup sharing \cup routes
    BY <1>1 DEF SiblingUnknown, ProxyTypeOK
  <2>2. ~SiblingUnknown(p) => \A q \in served : q \in OnHost \cup cut
    BY <1>2 DEF SiblingUnknown
  <2>3. SiblingUnknown(p) \in BOOLEAN
    BY DEF SiblingUnknown
  <2> QED
    BY <1>4, <2>1, <2>2, <2>3, DecideStep
<1> QED
  BY <1>3, <1>4 DEF SiblingProbe

\* Whoever stops the container, or empties its directory, leaves the named cut
\* off that count, and whoever is on the way up.
LEMMA OverlooksAll ==
  ASSUME ProxyInv, NEW p \in Project, cmd[p].pc \in {"stop", "clean"},
         NEW q \in Project, Counted(q) \/ cmd[q].up
  PROVE  q \in cut \cup Overlooked(p)
<1>1. CASE q \in served
  <2>1. q \in cmd[p].seen => q \in cut \/ (cmd[p].force /\ q \in OnHost)
    BY <1>1 DEF ProxyInv, Decided
  <2> QED
    BY <2>1, <1>1 DEF Overlooked
<1>2. CASE cmd[q].up
  <2>1. ~At(q, "free") /\ q \notin cmd[p].seen
    BY <1>2 DEF ProxyInv, InPlace, Unseen, At
  <2> QED
    BY <2>1 DEF Overlooked
<1> QED
  BY <1>1, <1>2 DEF Counted, Past

LEMMA StopStep ==
  ASSUME ProxyInv, NEW p \in Project, Stop(p)
  PROVE  ProxyInv'
<1> DEFINE k == [cmd[p] EXCEPT !.pc = "clean", !.left = Entry]
<1>1. ProxyTypeOK /\ InPlace(p) /\ At(p, "stop") /\ ~cmd[p].up
  BY DEF ProxyInv, Stop, InPlace, At
<1>2. /\ caddy' = NoCaddy
      /\ cut' = cut \cup Overlooked(p)
      /\ UNCHANGED <<services, sharing, routes, caddyfile, lockFile, held, served, tidy>>
  BY DEF Stop, world, disk
<1>3. k \in CmdState
  <2>1. "clean" \in PC /\ cmd[p] \in CmdState
    BY <1>1, Fields DEF PC
  <2> QED
    BY <2>1 DEF CmdState
<1>4. cmd' = [cmd EXCEPT ![p] = k]
  BY DEF Stop
<1>5. /\ k.pc = "clean" /\ k.op = cmd[p].op /\ k.up = cmd[p].up
      /\ k.force = cmd[p].force /\ k.gone = cmd[p].gone /\ k.seen = cmd[p].seen
  <2>1. cmd[p] \in CmdState
    BY <1>1, Fields
  <2> QED
    BY <2>1 DEF CmdState
<1> HIDE DEF k
<1>6. Turn(p) /\ cmd'[p] = k
  BY <1>1, <1>3, <1>4, Becomes DEF Turn
<1>7. Moves(p)
  BY <1>1, <1>2, <1>5, <1>6 DEF Moves, At, ProxyTypeOK
<1>8. ProxyTypeOK'
  BY <1>1, <1>2, <1>6 DEF ProxyTypeOK, Turn, Overlooked, NoCaddy, Container
<1>9. \A q \in Project : InPlace(q)'
  <2>1. InPlace(p)'
    BY <1>1, <1>2, <1>5, <1>6 DEF InPlace, At
  <2> QED
    BY <2>1, <1>2, <1>7, InPlaceKept
<1>10. Decided(p)'
  <2>1. Decided(p)
    BY DEF ProxyInv
  <2> QED
    BY <2>1, <1>1, <1>2, <1>5, <1>6 DEF Decided, At, InPlace
<1>11. ~Past(p)' /\ ~Renders(p)' /\ cmd'[p].op # "save"
  BY <1>1, <1>5, <1>6 DEF Renders, At, Past, InPlace
<1>12. Serving'
  BY <1>1, <1>2, OverlooksAll DEF Serving, Counted, At, ProxyTypeOK
<1>13. TidyGone' /\ Someone'
  BY <1>2 DEF TidyGone, Someone, NoCaddy, ProxyInv
<1>14. ServedFree' /\ RoutesThere' /\ LockStays' /\ Buffers'
  BY <1>2, <1>7, <1>11, ServedFreeKept, RoutesThereKept, LockStaysKept, BuffersKept
<1> QED
  BY <1>7, <1>8, <1>9, <1>10, <1>12, <1>13, <1>14, KeptByMoves DEF ProxyInv

LEMMA StopFailsStep ==
  ASSUME ProxyInv, NEW p \in Project, StopFails(p)
  PROVE  ProxyInv'
<1> DEFINE k == [cmd[p] EXCEPT !.pc = "clean", !.left = Entry, !.gone = FALSE]
<1>1. ProxyTypeOK /\ InPlace(p) /\ At(p, "stop") /\ ~cmd[p].up
  BY DEF ProxyInv, StopFails, InPlace, At
<1>2. /\ tidy' = tidy \ {p}
      /\ UNCHANGED <<services, sharing, routes, caddyfile, lockFile, caddy, held, served, cut>>
  BY DEF StopFails, world, disk
<1>3. k \in CmdState
  <2>1. "clean" \in PC /\ cmd[p] \in CmdState
    BY <1>1, Fields DEF PC
  <2> QED
    BY <2>1 DEF CmdState
<1>4. cmd' = [cmd EXCEPT ![p] = k]
  BY DEF StopFails
<1>5. /\ k.pc = "clean" /\ k.op = cmd[p].op /\ k.up = cmd[p].up
      /\ k.force = cmd[p].force /\ k.gone = FALSE /\ k.seen = cmd[p].seen
  <2>1. cmd[p] \in CmdState
    BY <1>1, Fields
  <2> QED
    BY <2>1 DEF CmdState
<1> HIDE DEF k
<1>6. Turn(p) /\ cmd'[p] = k
  BY <1>1, <1>3, <1>4, Becomes DEF Turn
<1>7. Moves(p)
  BY <1>1, <1>2, <1>5, <1>6 DEF Moves, At, ProxyTypeOK
<1>8. ProxyTypeOK'
  BY <1>1, <1>2, <1>6 DEF ProxyTypeOK, Turn
<1>9. InPlace(p)'
  BY <1>1, <1>2, <1>5, <1>6 DEF InPlace, At
<1>10. Decided(p)'
  <2>1. Decided(p)
    BY DEF ProxyInv
  <2> QED
    BY <2>1, <1>1, <1>2, <1>5, <1>6 DEF Decided, At, InPlace
<1>11. ~Past(p)' /\ ~Renders(p)' /\ ~Replacing(p) /\ Minds(p)' /\ cmd'[p].op # "save"
  BY <1>1, <1>2, <1>5, <1>6 DEF Renders, Replacing, Minds, Passed, At, Past, InPlace
<1> QED
  BY <1>2, <1>5, <1>6, <1>7, <1>8, <1>9, <1>10, <1>11, KeptByOwnStep

LEMMA CleanStep ==
  ASSUME ProxyInv, NEW p \in Project, NEW e \in Entry, Clean(p, e)
  PROVE  ProxyInv'
<1>1. ProxyTypeOK /\ InPlace(p) /\ At(p, "clean") /\ ~cmd[p].up
  BY DEF ProxyInv, Clean, InPlace, At
<1>2. /\ routes' \in {routes, {}}
      /\ caddyfile' \in {caddyfile, NoFile}
      /\ caddy' \in {caddy, [caddy EXCEPT !.mounted = FALSE, !.frozen = caddyfile.of]}
      /\ lockFile' \in {lockFile, None}
      /\ cut' = cut \cup Overlooked(p)
      /\ UNCHANGED <<services, sharing, held, served>>
  BY DEF Clean, world
<1>3. /\ Turn(p) /\ cmd'[p].op # "save" /\ ~cmd'[p].up /\ cmd'[p].seen \subseteq cmd[p].seen
      /\ cmd'[p].pc \in {"free", "clean"} /\ cmd'[p].op # "prune"
      /\ InPlace(p)' /\ Decided(p)'
      /\ tidy' \subseteq Project /\ tidy' \subseteq tidy \cup {p}
      /\ tidy' \cap (services \cup sharing \cup routes) = {}
      /\ Minds(p) => Minds(p)'
  <2>1. CASE End(p) /\ tidy' = Left(p)
    <3>1. /\ Turn(p) /\ cmd'[p] = Idle
          /\ cmd'[p].pc = "free" /\ cmd'[p].op = "none" /\ ~cmd'[p].up
          /\ ~cmd'[p].gone /\ cmd'[p].seen = {}
      BY <1>1, <2>1, Ends
    <3>2. InPlace(p)' /\ Decided(p)'
      BY <3>1 DEF InPlace, Decided, At
    <3>3. Minds(p) => Minds(p)'
      BY <1>1, <2>1, <3>1 DEF Minds, Passed, Left, At, InPlace
    <3> QED
      BY <1>1, <2>1, <3>1, <3>2, <3>3, LeftTidy DEF At
  <2>2. CASE cmd' = [cmd EXCEPT ![p].left = @ \ {e}] /\ tidy' = tidy
    <3> DEFINE k == [cmd[p] EXCEPT !.left = @ \ {e}]
    <3>1. cmd[p] \in CmdState
      BY <1>1, Fields
    <3>2. k \in CmdState
      BY <3>1 DEF CmdState
    <3>3. cmd' = [cmd EXCEPT ![p] = k]
      BY <2>2
    <3>4. /\ k.pc = "clean" /\ k.op = cmd[p].op /\ k.up = cmd[p].up
          /\ k.force = cmd[p].force /\ k.gone = cmd[p].gone /\ k.seen = cmd[p].seen
      BY <3>1, <1>1 DEF CmdState, At
    <3> HIDE DEF k
    <3>5. Turn(p) /\ cmd'[p] = k
      BY <1>1, <3>2, <3>3, Becomes DEF Turn
    <3>6. InPlace(p)'
      BY <1>1, <1>2, <2>2, <3>4, <3>5 DEF InPlace, At
    <3>7. cmd[p].op \notin {"save", "prune"}
      BY <1>1 DEF InPlace, At
    <3>8. Decided(p)'
      <4>1. Decided(p)
        BY DEF ProxyInv
      <4> QED
        BY <4>1, <1>1, <1>2, <3>4, <3>5, <3>7 DEF Decided, At
    <3>9. Minds(p) => Minds(p)'
      BY <1>1, <2>2, <3>4, <3>5 DEF Minds, Passed, At
    <3> QED
      BY <1>1, <2>2, <3>4, <3>5, <3>6, <3>7, <3>8, <3>9 DEF ProxyInv, TidyGone, ProxyTypeOK
  <2> QED
    BY <2>1, <2>2 DEF Clean
<1>4. Moves(p)
  BY <1>1, <1>2, <1>3 DEF Moves, At, ProxyTypeOK
<1>5. \A q \in Project : Counted(q) \/ cmd[q].up => q \in cut'
  BY <1>1, <1>2, OverlooksAll DEF At
<1>6. \A q \in Project : Counted(q)' => Counted(q)
  BY <1>2, <1>3 DEF Counted, Past, Turn
<1>7. caddy' \in Container /\ caddy'.up = caddy.up
  BY <1>1, <1>2 DEF ProxyTypeOK, Container, Caddyfile
<1>8. ProxyTypeOK'
  BY <1>1, <1>2, <1>3, <1>7 DEF ProxyTypeOK, Turn, Overlooked, NoFile, Caddyfile
<1>9. \A q \in Project : InPlace(q)'
  BY <1>2, <1>3, <1>4, InPlaceKept
<1>10. RoutesThere' /\ Buffers'
  BY <1>5, <1>6 DEF RoutesThere, Buffers
<1>11. LockStays'
  <2>1. \A q \in Project : cmd'[q].op = "save" => cmd[q].op = "save" /\ cmd[q].up
    BY <1>3 DEF Turn, ProxyInv, InPlace
  <2> QED
    BY <2>1, <1>5 DEF LockStays
<1>12. Serving'
  BY <1>1, <1>2, <1>5 DEF Serving, Counted, ProxyTypeOK
<1>13. Someone' /\ ServedFree'
  BY <1>2, <1>3, <1>4, <1>7, SomeoneKept, ServedFreeKept
<1>14. TidyGone'
  BY <1>2, <1>3 DEF TidyGone
<1> QED
  BY <1>3, <1>4, <1>8, <1>9, <1>10, <1>11, <1>12, <1>13, <1>14, KeptByMoves DEF ProxyInv

-----------------------------------------------------------------------------
(* What goes wrong, and nothing.                                            *)

LEMMA KilledStep ==
  ASSUME ProxyInv, NEW p \in Project, Killed(p)
  PROVE  ProxyInv'
<1>1. ProxyTypeOK /\ InPlace(p) /\ ~At(p, "free")
  BY DEF ProxyInv, Killed
<1>2. /\ cut' = IF Replacing(p) THEN cut \cup Project ELSE cut
      /\ tidy' = tidy \ {p}
      /\ UNCHANGED <<services, sharing, routes, caddyfile, lockFile, caddy, served>>
  BY DEF Killed, world, disk, GivesUp, Replacing
<1>3. /\ Turn(p) /\ cmd'[p] = Idle
      /\ cmd'[p].pc = "free" /\ cmd'[p].op = "none" /\ ~cmd'[p].up
      /\ ~cmd'[p].gone /\ cmd'[p].seen = {}
  BY <1>1, Ends DEF Killed
<1>4. /\ held' \in [Inode -> Project \cup {None}]
      /\ \A q \in Project \ {p}, i \in Inode : held[i] = q => held'[i] = q
  BY <1>1, Releases DEF Killed
<1>5. Moves(p)
  BY <1>1, <1>2, <1>3 DEF Moves, ProxyTypeOK
<1>6. ProxyTypeOK'
  BY <1>1, <1>2, <1>3, <1>4 DEF ProxyTypeOK, Turn
<1>7. InPlace(p)'
  BY <1>1, <1>3 DEF InPlace
<1>8. Decided(p)'
  BY <1>3 DEF Decided, At
<1>9. ~Past(p)' /\ ~Renders(p)' /\ Minds(p)' /\ (Replacing(p) => Project \subseteq cut')
  BY <1>2, <1>3 DEF Renders, Minds, Passed, Past
<1> QED
  BY <1>2, <1>3, <1>4, <1>5, <1>6, <1>7, <1>8, <1>9, KeptByOwnStep

LEMMA DiesStep ==
  ASSUME ProxyInv, NEW p \in Project, Dies(p)
  PROVE  ProxyInv'
<1>1. ProxyTypeOK /\ At(p, "free") /\ cmd[p] = Idle
  BY DEF ProxyInv, Dies, InPlace, At
<1>2. /\ services' = services \ {p} /\ served' = served \ {p}
      /\ UNCHANGED <<sharing, routes, caddyfile, lockFile, caddy, held, cmd, cut, tidy>>
  BY DEF Dies, disk
<1>3. ProxyTypeOK'
  BY <1>1, <1>2 DEF ProxyTypeOK
<1>4. ASSUME NEW q \in Project
      PROVE  InPlace(q)'
  <2>1. InPlace(q)
    BY DEF ProxyInv
  <2>2. q = p => ~cmd[q].up
    BY <1>1 DEF Idle
  <2> QED
    BY <2>1, <2>2, <1>1, <1>2 DEF InPlace
<1>5. OneUp' /\ Unseen' /\ ServedFree' /\ TidyGone'
  BY <1>2 DEF OneUp, Unseen, ServedFree, TidyGone, At, ProxyInv
<1>6. \A q \in Project : Counted(q)' => Counted(q)
  BY <1>2 DEF Counted, Past
<1>7. RoutesThere' /\ LockStays'
  BY <1>2, <1>6 DEF RoutesThere, LockStays, At, ProxyInv
<1>8. Buffers'
  BY <1>2, <1>6 DEF Buffers, Renders, ProxyInv
<1>9. \A r \in Project : Decided(r)'
  BY <1>2 DEF Decided, At, ProxyInv
<1>10. Serving' /\ Someone'
  BY <1>2 DEF Serving, Replacing, Someone, Minds, Passed, At, ProxyInv
<1> QED
  BY <1>3, <1>4, <1>5, <1>7, <1>8, <1>9, <1>10 DEF ProxyInv

LEMMA DependencyDiesStep ==
  ASSUME ProxyInv, NEW p \in Project, DependencyDies(p)
  PROVE  ProxyInv'
<1>1. /\ sharing' = {}
      /\ UNCHANGED <<services, routes, caddyfile, lockFile, caddy, held, cmd, served, cut, tidy>>
  BY DEF DependencyDies, disk, history
<1>2. ProxyTypeOK'
  BY <1>1 DEF ProxyTypeOK, ProxyInv
<1>3. \A q \in Project : InPlace(q)'
  BY <1>1 DEF InPlace, ProxyInv
<1>4. OneUp' /\ Unseen' /\ ServedFree' /\ TidyGone'
  BY <1>1 DEF OneUp, Unseen, ServedFree, TidyGone, At, ProxyInv
<1>5. RoutesThere' /\ LockStays' /\ Buffers'
  BY <1>1 DEF RoutesThere, LockStays, Buffers, Renders, Counted, Past, At, ProxyInv
<1>6. \A r \in Project : Decided(r)'
  BY <1>1 DEF Decided, At, ProxyInv
<1>7. Serving' /\ Someone'
  BY <1>1 DEF Serving, Replacing, Someone, Minds, Passed, At, ProxyInv
<1> QED
  BY <1>2, <1>3, <1>4, <1>5, <1>6, <1>7 DEF ProxyInv

LEMMA StutterStep ==
  ASSUME ProxyInv, UNCHANGED proxyVars
  PROVE  ProxyInv'
<1>1. UNCHANGED <<services, sharing, routes, caddyfile, lockFile, caddy, held, cmd, served, cut, tidy>>
  BY DEF proxyVars
<1>2. ProxyTypeOK' /\ \A q \in Project : InPlace(q)'
  BY <1>1 DEF ProxyTypeOK, InPlace, ProxyInv
<1>3. OneUp' /\ Unseen' /\ ServedFree' /\ TidyGone'
  BY <1>1 DEF OneUp, Unseen, ServedFree, TidyGone, At, ProxyInv
<1>4. RoutesThere' /\ LockStays' /\ Buffers'
  BY <1>1 DEF RoutesThere, LockStays, Buffers, Renders, Counted, Past, At, ProxyInv
<1>5. \A r \in Project : Decided(r)'
  BY <1>1 DEF Decided, At, ProxyInv
<1>6. Serving' /\ Someone'
  BY <1>1 DEF Serving, Replacing, Someone, Minds, Passed, At, ProxyInv
<1> QED
  BY <1>2, <1>3, <1>4, <1>5, <1>6 DEF ProxyInv

-----------------------------------------------------------------------------
(* The theorems.                                                            *)

LEMMA ProxyStarts == ProxyInit => ProxyInv
<1> SUFFICES ASSUME ProxyInit
             PROVE  ProxyInv
  OBVIOUS
<1>1. \A q \in Project : cmd[q] = Idle
  BY DEF ProxyInit
<1>2. Idle.pc = "free" /\ Idle.op = "none" /\ ~Idle.up /\ ~Idle.gone
  BY DEF Idle
<1>3. ProxyTypeOK
  BY IdleType DEF ProxyInit, ProxyTypeOK, Caddyfile, NoFile, Container, NoCaddy
<1>4. \A q \in Project : InPlace(q)
  BY <1>1, <1>2 DEF InPlace, ProxyInit
<1>5. OneUp /\ Unseen /\ ServedFree /\ TidyGone
  BY <1>1, <1>2 DEF OneUp, Unseen, ServedFree, TidyGone, ProxyInit
<1>6. RoutesThere /\ LockStays /\ Buffers
  BY <1>1, <1>2 DEF RoutesThere, LockStays, Buffers, Counted, Past, ProxyInit
<1>7. \A r \in Project : Decided(r)
  BY <1>1, <1>2 DEF Decided, At
<1>8. Serving /\ Someone
  BY DEF Serving, Someone, NoCaddy, ProxyInit
<1> QED
  BY <1>3, <1>4, <1>5, <1>6, <1>7, <1>8 DEF ProxyInv

LEMMA ProxySteps == ProxyInv /\ [ProxyNext]_proxyVars => ProxyInv'
<1> SUFFICES ASSUME ProxyInv, [ProxyNext]_proxyVars
             PROVE  ProxyInv'
  OBVIOUS
<1>1. ASSUME NEW p \in Project, Up(p)
      PROVE  ProxyInv'
  BY <1>1, UpBeginStep, UpDepsStep, UpServicesStep, SaveProjectRoutesStep, SaveFailsStep,
     StartReloadsStep, StartCreatesStep, StartReadsStep, StartWritesStep, StartRunsStep,
     StartFailsStep DEF Up
<1>2. ASSUME NEW p \in Project, Down(p)
      PROVE  ProxyInv'
  BY <1>2, DownBeginStep, RemoveProjectRoutesStep, RemoveFailsStep, ListOrphansStep,
     ListFailsStep, JudgeAliveStep, JudgeDeadStep, RemoveRoutesForStep, RemainingProjectsStep,
     SiblingProbeStep, StopStep, StopFailsStep, CleanStep DEF Down
<1>3. ASSUME NEW p \in Project,
             \/ Killed(p) \/ Dies(p) \/ DependencyDies(p) \/ OpenLock(p)
             \/ ReloadReads(p) \/ ReloadWrites(p) \/ ReloadExec(p) \/ ReloadFails(p)
      PROVE  ProxyInv'
  BY <1>3, KilledStep, DiesStep, DependencyDiesStep, OpenLockStep, ReloadReadsStep,
     ReloadWritesStep, ReloadExecStep, ReloadFailsStep
<1> QED
  BY <1>1, <1>2, <1>3, StutterStep DEF ProxyNext

\* A type invariant of the proxy, its lock and the commands at it.
THEOREM ProxyTypeCorrect == ProxySpec => []ProxyTypeOK
<1>1. ProxyInv => ProxyTypeOK
  BY DEF ProxyInv
<1> QED
  BY <1>1, ProxyStarts, ProxySteps, PTL DEF ProxySpec

\* ADR-005: whoever has come up is served between commands, unless one of the
\* named hazards has cut it off, whatever the others do in the meantime.
THEOREM UpIsServed == ProxySpec => []ServedOrCut
<1>1. ProxyInv => ServedOrCut
  <2> SUFFICES ASSUME ProxyInv, Quiet, NEW q \in served, q \notin cut
               PROVE  HasProxy(q)
    BY DEF ServedOrCut
  <2>1. q \in routes
    BY DEF ProxyInv, ProxyTypeOK, RoutesThere, Counted
  <2>2. caddy.up /\ q \in caddy.loaded
    BY DEF ProxyInv, Serving, Replacing, Quiet, At
  <2> QED
    BY <2>1, <2>2 DEF HasProxy
<1> QED
  BY <1>1, ProxyStarts, ProxySteps, PTL DEF ProxySpec

\* ADR-005: when every project has come down, or has died and was found, the
\* container and the routes are gone.
THEOREM LastTakesAll == ProxySpec => []LastOneOut
<1>1. ProxyInv => LastOneOut
  <2> SUFFICES ASSUME ProxyInv, Quiet, tidy = Project
               PROVE  ~caddy.up /\ routes = {}
    BY DEF LastOneOut
  <2>1. routes = {}
    BY DEF ProxyInv, ProxyTypeOK, TidyGone
  <2>2. \A x \in Project : ~Minds(x)
    <3> SUFFICES ASSUME NEW x \in Project, Minds(x)
                 PROVE  FALSE
      OBVIOUS
    <3>1. cmd[x].pc = "free" /\ cmd[x].op = "none"
      BY DEF ProxyInv, InPlace, Quiet, At, Idle
    <3> QED
      BY <3>1 DEF Minds, At
  <2> QED
    BY <2>1, <2>2 DEF ProxyInv, Someone
<1> QED
  BY <1>1, ProxyStarts, ProxySteps, PTL DEF ProxySpec

=============================================================================
