-------------------------- MODULE SiblingSpawnProofs --------------------------
(***************************************************************************)
(* Proofs about SiblingSpawn.  IInv is inductive: the processes above a    *)
(* spawned run wait in a chain, and its stack names their projects.        *)
(*                                                                         *)
(* RunInv is what IInv says of run.  OwnStep proves most of it of the      *)
(* steps a run takes on its own, SpawnStep of a spawn, and GoneStep of     *)
(* those with which a process ends that others may be below.               *)
(***************************************************************************)
EXTENDS SiblingSpawn, TLAPS

RunInv ==
    /\ run \in [Run -> RunState]
    /\ FreeIsIdle /\ VerdictsRight /\ AboveWait /\ AboveChain
    /\ WaitsForChild /\ OnlyChildSpawned

\* What a step that spawns nobody makes of the chains.
SameAbove == \A x \in Run : run'[x].above = run[x].above

ChainKept ==
    /\ \A x \in Run : RootOf(x)' \subseteq RootOf(x)
    /\ \A x, y \in Run : x \in run[y].above /\ RootOf(y)' # {} => x \in run'[y].above

LEMMA SameAboveKeeps == SameAbove => ChainKept
BY DEF SameAbove, ChainKept, RootOf

LEMMA ChainFollows ==
  ASSUME OneChain, ChainKept
  PROVE  OneChain'
<1> SUFFICES ASSUME NEW x \in Run, NEW y \in Run, RootOf(x)' \cap RootOf(y)' # {}
             PROVE  x = y \/ x \in run'[y].above \/ y \in run'[x].above
  BY DEF OneChain
<1>1. RootOf(x) \cap RootOf(y) # {} /\ RootOf(x)' # {} /\ RootOf(y)' # {}
  BY DEF ChainKept
<1> QED BY <1>1 DEF OneChain, ChainKept

LEMMA NotAboveItself ==
  ASSUME RunInv, NEW x \in Run
  PROVE  x \notin run[x].above
BY DEF RunInv, AboveWait

LEMMA AboveTransitive ==
  ASSUME RunInv, NEW x \in Run, NEW s \in run[x].above, NEW t \in run[s].above
  PROVE  s \in Run /\ t \in run[x].above /\ x \notin run[s].above
<1>1. s \in Run /\ run[s].above \subseteq run[x].above
  BY DEF RunInv, RunState, AboveWait
<1> QED BY <1>1, NotAboveItself

\* Two runs do not wait for the same child.
LEMMA OneParent ==
  ASSUME RunInv, NEW r \in Run, NEW s \in Run, run[r].pc = "wait", run[s].pc = "wait",
         run[r].child = run[s].child
  PROVE  r = s
<1> DEFINE c == run[r].child
<1>1. c \in Run /\ r \in run[c].above /\ s \in run[c].above
  BY DEF RunInv, WaitsForChild, Run
<1>2. \A t \in run[c].above : c \notin run[t].above /\ t # c
  BY <1>1, NotAboveItself DEF RunInv, AboveWait
<1>3. \A t, w \in Run : w \in run[t].above => t = run[w].child \/ run[w].child \in run[t].above
  BY DEF RunInv, AboveWait
<1>4. s \notin run[r].above
  BY <1>1, <1>2, <1>3
<1>5. r \notin run[s].above
  BY <1>1, <1>2, <1>3
<1> QED BY <1>1, <1>4, <1>5 DEF RunInv, AboveChain

\* A run that does not wait and does not begin to: nobody is below it.
LEMMA OwnStep ==
  ASSUME RunInv, NEW r \in Run, NEW rec \in RunState,
         run' = [run EXCEPT ![r] = rec],
         run[r].pc # "wait", rec.pc # "wait", rec.above = run[r].above,
         \/ rec.above = {} /\ rec.stack = {} /\ (r \in Child => rec.pc = "free")
         \/ /\ rec.proj = run[r].proj /\ rec.stack = run[r].stack
            /\ rec.pc # "free" => run[r].pc # "free"
  PROVE  /\ run' \in [Run -> RunState] /\ AboveWait' /\ AboveChain' /\ WaitsForChild'
         /\ OnlyChildSpawned'
         /\ SameAbove
<1>1. run' \in [Run -> RunState]
  BY DEF RunInv
<1>2. \A x \in Run : r \notin run[x].above
  BY DEF RunInv, AboveWait, RunState
<1>3. \A x \in Run : run'[x] = IF x = r THEN rec ELSE run[x]
  BY DEF RunInv
<1>4. \A x \in Run : run'[x].above = run[x].above
  BY <1>3
<1>5. \A x \in Run : \A s \in run[x].above :
         /\ s \in Run /\ s # r /\ run'[s] = run[s]
         /\ run'[x].proj = run[x].proj /\ run'[x].stack = run[x].stack
  BY <1>2, <1>3 DEF RunInv, RunState
<1>6. AboveWait'
  BY <1>4, <1>5 DEF AboveWait, RunInv
<1>7. AboveChain'
  BY <1>4, <1>5 DEF AboveChain, RunInv
<1>8. WaitsForChild'
  <2> SUFFICES ASSUME NEW x \in Run, run'[x].pc = "wait"
               PROVE  run'[x].child \in Child /\ x \in run'[run'[x].child].above
    BY DEF WaitsForChild
  <2>1. x # r /\ run'[x] = run[x]
    BY <1>3
  <2>2. run[x].child \in Child /\ x \in run[run[x].child].above
    BY <2>1 DEF RunInv, WaitsForChild
  <2> QED BY <1>4, <2>1, <2>2 DEF Run
<1>9. OnlyChildSpawned'
  BY <1>3, <1>4 DEF RunInv, OnlyChildSpawned, Spawned, Run
<1> QED BY <1>1, <1>4, <1>6, <1>7, <1>8, <1>9 DEF SameAbove

LEMMA GotoStep ==
  ASSUME RunInv, NEW r \in Run, run[r].pc \notin {"free", "wait"},
         NEW where \in {"decide", "verify", "apply", "serve", "hung", "finish"},
         NEW todo \in SUBSET Project, Goto(r, where, todo)
  PROVE  RunInv' /\ SameAbove
<1> DEFINE rec == [run[r] EXCEPT !.pc = where, !.todo = todo]
<1>1. run[r] \in RunState
  BY DEF RunInv
<1>2. rec \in RunState /\ rec.pc = where /\ rec.above = run[r].above
      /\ rec.proj = run[r].proj /\ rec.stack = run[r].stack /\ rec.verdict = run[r].verdict
  BY <1>1 DEF RunState
<1>3. run' = [run EXCEPT ![r] = rec]
  BY DEF Goto
<1> HIDE DEF rec
<1>4. run' \in [Run -> RunState] /\ AboveWait' /\ AboveChain' /\ WaitsForChild'
      /\ OnlyChildSpawned' /\ SameAbove
  BY <1>2, <1>3, OwnStep
<1>5. FreeIsIdle'
  BY <1>2, <1>3 DEF RunInv, FreeIsIdle
<1>6. VerdictsRight'
  BY <1>2, <1>3 DEF RunInv, VerdictsRight
<1> QED BY <1>4, <1>5, <1>6 DEF RunInv

LEMMA DecidedStep ==
  ASSUME RunInv, NEW r \in Run, run[r].pc = "decide",
         NEW q \in Project, NEW v \in Verdict, Decided(r, q, v),
         v = "spawn" => q \in ModeA[run[r].proj] \ run[r].stack,
         v = "deferred" => q \in ModeB[run[r].proj]
  PROVE  RunInv' /\ SameAbove
<1> DEFINE rec == [run[r] EXCEPT !.todo = @ \ {q}, !.verdict[q] = v]
<1>1. run[r] \in RunState
  BY DEF RunInv
<1>2. rec \in RunState /\ rec.pc = run[r].pc /\ rec.above = run[r].above
      /\ rec.proj = run[r].proj /\ rec.stack = run[r].stack
      /\ rec.verdict = [run[r].verdict EXCEPT ![q] = v]
  BY <1>1 DEF RunState
<1>3. run' = [run EXCEPT ![r] = rec]
  BY DEF Decided
<1>4. \A p \in Project : rec.verdict[p] = IF p = q THEN v ELSE run[r].verdict[p]
  BY <1>1, <1>2 DEF RunState
<1> HIDE DEF rec
<1>5. run' \in [Run -> RunState] /\ AboveWait' /\ AboveChain' /\ WaitsForChild'
      /\ OnlyChildSpawned' /\ SameAbove
  BY <1>2, <1>3, OwnStep
<1>6. FreeIsIdle'
  BY <1>2, <1>3 DEF RunInv, FreeIsIdle
<1>7. VerdictsRight'
  <2>1. VerdictsRight /\ run \in [Run -> RunState]
    BY DEF RunInv
  <2>2. run'[r] = rec /\ \A x \in Run : x # r => run'[x] = run[x]
    BY <1>3, <2>1
  <2> DEFINE Right(x) == x.pc # "free" =>
        /\ x.proj \in Project
        /\ \A p \in Project :
              /\ x.verdict[p] = "spawn" => p \in ModeA[x.proj] \ x.stack
              /\ x.verdict[p] = "deferred" => p \in ModeB[x.proj]
  <2>3. \A x \in Run : Right(run[x])
    BY <2>1 DEF VerdictsRight
  <2>4. Right(rec)
    BY <1>2, <1>4, <2>3
  <2> HIDE DEF Right
  <2>5. \A x \in Run : Right(run'[x])
    BY <2>2, <2>3, <2>4
  <2> QED
    BY <2>5 DEF Right, VerdictsRight
<1> QED BY <1>5, <1>6, <1>7 DEF RunInv

LEMMA IdleState == Idle \in RunState
BY DEF Idle, RunState, NoVerdict, Verdict

LEMMA EndedState ==
  ASSUME RunInv, NEW r \in Run, run[r].pc # "free", NEW result \in {"ok", "failed"}
  PROVE  /\ Ended(r, result) \in RunState
         /\ \/ Ended(r, result) = Idle /\ run[r].above = {}
            \/ /\ Ended(r, result).pc = result /\ Ended(r, result).above = run[r].above
               /\ Ended(r, result).proj = run[r].proj /\ Ended(r, result).stack = run[r].stack
               /\ Ended(r, result).verdict = NoVerdict /\ run[r].above # {}
<1>1. run[r] \in RunState
  BY DEF RunInv
<1>2. CASE run[r].above = {}
  BY <1>2, IdleState DEF Ended
<1>3. CASE run[r].above # {}
  <2>1. NoVerdict \in [Project -> Verdict]
    BY DEF NoVerdict, Verdict
  <2> QED BY <1>1, <1>3, <2>1 DEF RunState, Ended
<1> QED BY <1>2, <1>3

LEMMA EndStep ==
  ASSUME RunInv, NEW r \in Run, run[r].pc \notin {"free", "wait"},
         NEW result \in {"ok", "failed"}, End(r, result)
  PROVE  RunInv' /\ SameAbove
<1> DEFINE rec == Ended(r, result)
<1>1. /\ rec \in RunState
      /\ \/ rec = Idle /\ run[r].above = {}
         \/ /\ rec.pc = result /\ rec.above = run[r].above
            /\ rec.proj = run[r].proj /\ rec.stack = run[r].stack
            /\ rec.verdict = NoVerdict
  BY EndedState
<1>2. run' = [run EXCEPT ![r] = rec]
  BY DEF End
<1> HIDE DEF rec
<1>3. Idle.pc = "free" /\ Idle.above = {} /\ Idle.stack = {}
  BY DEF Idle
<1>4. run' \in [Run -> RunState] /\ AboveWait' /\ AboveChain' /\ WaitsForChild'
      /\ OnlyChildSpawned' /\ SameAbove
  BY <1>1, <1>2, <1>3, OwnStep
<1>5. FreeIsIdle'
  BY <1>1, <1>2 DEF RunInv, FreeIsIdle
<1>6. VerdictsRight'
  BY <1>1, <1>2, <1>3 DEF RunInv, VerdictsRight, NoVerdict
<1> QED BY <1>4, <1>5, <1>6 DEF RunInv

\* A run begins to wait for the one it spawns.
LEMMA SpawnStep ==
  ASSUME RunInv, OneChain, NEW r \in Run, NEW q \in Project, NEW c \in Child, Spawn(r, q, c)
  PROVE  RunInv' /\ OneChain'
<1> DEFINE parent == [run[r] EXCEPT !.pc = "wait", !.child = c, !.todo = @ \ {q}]
           child == [Idle EXCEPT !.pc = "lock", !.proj = q, !.stack = pushSiblingStack(r, q),
                                 !.above = run[r].above \cup {r}]
<1>1. c \in Run /\ run[r] \in RunState /\ run[r].pc = "apply" /\ run[r].proj \in Project
      /\ q \in ModeA[run[r].proj] \ run[r].stack /\ run[c] = Idle /\ r # c
  <2>1. c \in Run /\ run[r].pc = "apply" /\ run[c].pc = "free" /\ run[r].verdict[q] = "spawn"
    BY DEF Spawn, Run
  <2> QED BY <2>1 DEF RunInv, FreeIsIdle, VerdictsRight
<1>2. parent \in RunState /\ parent.pc = "wait" /\ parent.child = c
      /\ parent.above = run[r].above /\ parent.proj = run[r].proj
      /\ parent.stack = run[r].stack /\ parent.verdict = run[r].verdict
  BY <1>1 DEF RunState
<1>3. child \in RunState /\ child.pc = "lock" /\ child.proj = q
      /\ child.stack = run[r].stack \cup {run[r].proj, q}
      /\ child.above = run[r].above \cup {r} /\ child.verdict = NoVerdict
  BY <1>1, IdleState DEF RunState, Idle, pushSiblingStack
<1>4. run' = [run EXCEPT ![r] = parent, ![c] = child]
  BY <1>1 DEF Spawn, RunInv
<1> HIDE DEF parent, child
<1>5. run' \in [Run -> RunState]
  BY <1>2, <1>3, <1>4 DEF RunInv
<1>6. \A x \in Run : run'[x] = IF x = c THEN child ELSE IF x = r THEN parent ELSE run[x]
  BY <1>1, <1>4 DEF RunInv
<1>7. \A x \in Run : r \notin run[x].above /\ c \notin run[x].above /\ run[x].above \subseteq Run
  <2>1. run[c].pc # "wait"
    BY <1>1 DEF Idle
  <2> QED BY <1>1, <2>1 DEF RunInv, AboveWait, RunState
<1>8. run[r].proj # q
  BY <1>1, SiblingSpawnAssumption DEF Deps
<1>9. AboveWait'
  <2> SUFFICES ASSUME NEW x \in Run, NEW s \in run'[x].above
               PROVE  /\ run'[s].pc = "wait"
                      /\ x = run'[s].child \/ run'[s].child \in run'[x].above
                      /\ run'[s].above \subseteq run'[x].above
                      /\ run'[s].proj \in run'[x].stack
                      /\ run'[s].proj # run'[x].proj
    BY DEF AboveWait
  <2>1. CASE x = c /\ s = r
    BY <2>1, <1>1, <1>2, <1>3, <1>6, <1>8
  <2>2. CASE x = c /\ s # r
    <3>1. s \in run[r].above /\ s # c /\ s \in Run
      BY <2>2, <1>3, <1>6, <1>7
    <3>2. /\ run[s].pc = "wait"
          /\ r = run[s].child \/ run[s].child \in run[r].above
          /\ run[s].above \subseteq run[r].above
          /\ run[s].proj \in run[r].stack
      BY <3>1 DEF RunInv, AboveWait
    <3> QED BY <2>2, <3>1, <3>2, <1>1, <1>3, <1>6
  <2>3. CASE x # c
    <3>1. run'[x].above = run[x].above /\ run'[x].stack = run[x].stack /\ run'[x].proj = run[x].proj
      BY <2>3, <1>2, <1>6
    <3>2. run'[s] = run[s]
      BY <3>1, <1>6, <1>7
    <3> QED BY <3>1, <3>2 DEF RunInv, AboveWait
  <2> QED BY <2>1, <2>2, <2>3
<1>10. AboveChain'
  <2>1. \A x \in Run : x # c => run'[x].above = run[x].above
    BY <1>2, <1>6
  <2>2. \A s, t \in run[r].above : s = t \/ s \in run[t].above \/ t \in run[s].above
    BY DEF RunInv, AboveChain
  <2>3. \A x \in Run : \A s \in run'[x].above : s \in Run /\ s # c
    BY <1>1, <1>3, <1>7, <2>1, <1>6
  <2>4. \A s, t \in run'[c].above : s = t \/ s \in run[t].above \/ t \in run[s].above
    BY <1>3, <1>6, <1>1, <2>2
  <2> QED BY <2>1, <2>3, <2>4 DEF RunInv, AboveChain
<1>11. WaitsForChild'
  <2> SUFFICES ASSUME NEW x \in Run, run'[x].pc = "wait"
               PROVE  run'[x].child \in Child /\ x \in run'[run'[x].child].above
    BY DEF WaitsForChild
  <2>1. CASE x = r
    <3>1. run'[r].child = c
      BY <1>1, <1>2, <1>6
    <3> QED BY <2>1, <3>1, <1>1, <1>3, <1>6
  <2>2. CASE x # r
    <3>1. x # c /\ run'[x] = run[x]
      BY <2>2, <1>3, <1>6
    <3>2. run[x].child \in Child /\ x \in run[run[x].child].above
      BY <3>1 DEF RunInv, WaitsForChild
    <3>3. run[x].child # c
      BY <3>2, <1>1 DEF Idle
    <3> QED BY <3>1, <3>2, <3>3, <1>2, <1>6 DEF Run
  <2> QED BY <2>1, <2>2
<1>12. FreeIsIdle'
  BY <1>2, <1>3, <1>6 DEF RunInv, FreeIsIdle
<1>13. VerdictsRight'
  BY <1>1, <1>2, <1>3, <1>6 DEF RunInv, VerdictsRight, NoVerdict
<1>14. OnlyChildSpawned'
  <2>1. \A x \in Root : x \in Run /\ x # c
    BY SiblingSpawnAssumption DEF Run
  <2>2. \A x \in Child : x \in Run
    BY DEF Run
  <2> QED BY <2>1, <2>2, <1>1, <1>2, <1>3, <1>6 DEF RunInv, OnlyChildSpawned, Spawned
<1>15. OneChain'
  <2>1. \A x \in Run : x # c => run'[x].above = run[x].above /\ RootOf(x)' = RootOf(x)
    BY <1>2, <1>6 DEF RootOf
  <2>2. c \notin Root /\ RootOf(c)' = RootOf(r)
    BY <1>1, <1>3, <1>6, SiblingSpawnAssumption DEF RootOf
  <2>3. \A y \in Run : RootOf(y) \cap RootOf(r) # {} => y = r \/ y \in run[r].above
    BY <1>7 DEF OneChain
  <2>4. \A y \in Run : y # c /\ RootOf(y)' \cap RootOf(c)' # {} => y \in run'[c].above
    <3> SUFFICES ASSUME NEW y \in Run, y # c, RootOf(y)' \cap RootOf(c)' # {}
                 PROVE  y \in run'[c].above
      OBVIOUS
    <3>1. RootOf(y) \cap RootOf(r) # {}
      BY <2>1, <2>2
    <3> QED BY <3>1, <2>3, <1>1, <1>3, <1>6
  <2> SUFFICES ASSUME NEW x \in Run, NEW y \in Run, RootOf(x)' \cap RootOf(y)' # {}
               PROVE  x = y \/ x \in run'[y].above \/ y \in run'[x].above
    BY DEF OneChain
  <2> QED BY <2>1, <2>4 DEF OneChain
<1> QED BY <1>5, <1>9, <1>10, <1>11, <1>12, <1>13, <1>14, <1>15 DEF RunInv

\* A process c ends that others may be below: r itself, or the child it waits for.
LEMMA GoneStep ==
  ASSUME RunInv, NEW r \in Run, NEW c \in Run, NEW rec \in RunState, rec.pc # "wait",
         \/ r = c /\ r \in Root /\ rec = Idle
         \/ run[r].pc = "wait" /\ run[r].child = c,
         \/ rec = Idle /\ run[r].above = {}
         \/ /\ rec.pc # "free" /\ rec.above = run[r].above /\ rec.proj = run[r].proj
            /\ rec.stack = run[r].stack
            /\ rec.verdict = run[r].verdict \/ rec.verdict = NoVerdict,
         run' = [x \in Run |-> IF x = r THEN rec ELSE IF x = c THEN Idle ELSE Below(x, c)]
  PROVE  RunInv' /\ ChainKept
<1> DEFINE L(x) == IF c \in run[x].above THEN run[x].above \ (run[c].above \cup {c})
                   ELSE run[x].above
<1>1. Idle.pc = "free" /\ Idle.above = {} /\ Idle.stack = {}
  BY DEF Idle
<1>2. \A x \in Run : run[x] \in RunState /\ run[x].above \subseteq Run /\ x \notin run[x].above
  BY NotAboveItself DEF RunInv, RunState
<1>3. \A x \in Run :
        /\ Below(x, c) \in RunState
        /\ \/ Below(x, c) = Idle /\ L(x) = {} /\ run[x].pc # "wait"
           \/ /\ Below(x, c).pc = run[x].pc /\ Below(x, c).proj = run[x].proj
              /\ Below(x, c).stack = run[x].stack /\ Below(x, c).verdict = run[x].verdict
              /\ Below(x, c).child = run[x].child /\ Below(x, c).above = L(x)
  <2> SUFFICES ASSUME NEW x \in Run
               PROVE  /\ Below(x, c) \in RunState
                      /\ \/ Below(x, c) = Idle /\ L(x) = {} /\ run[x].pc # "wait"
                         \/ /\ Below(x, c).pc = run[x].pc /\ Below(x, c).proj = run[x].proj
                            /\ Below(x, c).stack = run[x].stack
                            /\ Below(x, c).verdict = run[x].verdict
                            /\ Below(x, c).child = run[x].child /\ Below(x, c).above = L(x)
    OBVIOUS
  <2>1. CASE c \notin run[x].above
    BY <2>1, <1>2 DEF Below
  <2>2. CASE c \in run[x].above /\ L(x) = {} /\ ~Live(x)
    BY <2>2, IdleState DEF Below, Live
  <2>3. CASE c \in run[x].above /\ ~(L(x) = {} /\ ~Live(x))
    <3>1. Below(x, c) = [run[x] EXCEPT !.above = L(x)]
      BY <2>3 DEF Below
    <3>2. run[x] \in RunState /\ L(x) \in SUBSET Run
      BY <1>2
    <3> HIDE DEF L
    <3> QED BY <3>1, <3>2 DEF RunState
  <2> QED BY <2>1, <2>2, <2>3
<1>4. \A x \in Run : x # r => c = x \/ run'[x] = Below(x, c)
  OBVIOUS
<1>5. run'[r] = rec /\ (c # r => run'[c] = Idle)
  OBVIOUS
<1>6. c # r => r \in run[c].above /\ c \in Child /\ c \notin run[r].above
  <2> HAVE c # r
  <2>1. r \in run[c].above /\ c \in Child
    BY DEF RunInv, WaitsForChild
  <2> QED BY <2>1, AboveTransitive
<1>7. c = r => run[c].above = {}
  <2> HAVE c = r
  <2>1. run[r].pc # "wait" \/ run[r].child # c
    BY <1>2 DEF RunInv, WaitsForChild
  <2> QED BY <1>1, <2>1
<1>8. run' \in [Run -> RunState]
  BY <1>3, IdleState
<1> DEFINE Kept(x) == /\ x # c \/ x = r
                      /\ run'[x].above = L(x) /\ run'[x].proj = run[x].proj
                      /\ run'[x].stack = run[x].stack
<1>9. \A x \in Run : run'[x].above = {} \/ Kept(x)
  <2> SUFFICES ASSUME NEW x \in Run, run'[x].above # {} PROVE Kept(x)
    OBVIOUS
  <2>1. CASE x = r
    BY <2>1, <1>1, <1>2, <1>5, <1>6
  <2>2. CASE x # r
    BY <2>2, <1>1, <1>3, <1>4, <1>5
  <2> QED BY <2>1, <2>2
<1>10. \A x \in Run : \A s \in run'[x].above :
         /\ Kept(x) /\ s \in L(x) /\ s \in run[x].above /\ s \in Run /\ s # r /\ s # c
         /\ run[s].pc = "wait"
  <2> SUFFICES ASSUME NEW x \in Run, NEW s \in run'[x].above
               PROVE  /\ Kept(x) /\ s \in L(x) /\ s \in run[x].above /\ s \in Run /\ s # r /\ s # c
                      /\ run[s].pc = "wait"
    OBVIOUS
  <2>1. Kept(x) /\ s \in L(x) /\ s \in run[x].above /\ s \in Run
    BY <1>2, <1>9
  <2>2. run[s].pc = "wait" /\ (x = run[s].child \/ run[s].child \in run[x].above)
    BY <2>1 DEF RunInv, AboveWait
  <2>3. s # c
    BY <2>1
  <2>4. s # r
    BY <2>1, <2>2, <2>3, <1>6
  <2> QED BY <2>1, <2>2, <2>3, <2>4
<1>11. \A s \in Run : s # r /\ s # c /\ run[s].pc = "wait" =>
         /\ run'[s].pc = "wait" /\ run'[s].child = run[s].child /\ run'[s].proj = run[s].proj
         /\ run'[s].above = L(s)
  BY <1>3, <1>4
<1>12. AboveWait'
  <2> SUFFICES ASSUME NEW x \in Run, NEW s \in run'[x].above
               PROVE  /\ run'[s].pc = "wait"
                      /\ x = run'[s].child \/ run'[s].child \in run'[x].above
                      /\ run'[s].above \subseteq run'[x].above
                      /\ run'[s].proj \in run'[x].stack
                      /\ run'[s].proj # run'[x].proj
    BY DEF AboveWait
  <2>1. /\ Kept(x) /\ s \in L(x) /\ s \in run[x].above /\ s \in Run /\ s # r /\ s # c
        /\ run'[s].pc = "wait" /\ run'[s].child = run[s].child /\ run'[s].proj = run[s].proj
        /\ run'[s].above = L(s) /\ run[s].pc = "wait"
    <3>1. /\ Kept(x) /\ s \in L(x) /\ s \in run[x].above /\ s \in Run /\ s # r /\ s # c
          /\ run[s].pc = "wait"
      BY <1>10
    <3> HIDE DEF Kept, L
    <3> QED BY <3>1, <1>11
  <2>2. /\ x = run[s].child \/ run[s].child \in run[x].above
        /\ run[s].above \subseteq run[x].above
        /\ run[s].proj \in run[x].stack
        /\ run[s].proj # run[x].proj
    BY <2>1 DEF RunInv, AboveWait
  <2>3. run[s].child \in Run /\ s \in run[run[s].child].above
    BY <2>1 DEF RunInv, WaitsForChild, Run
  <2>4. x = run[s].child \/ run[s].child \in L(x)
    <3> SUFFICES ASSUME run[s].child \in run[x].above, c \in run[x].above,
                        run[s].child \in run[c].above \cup {c}
                 PROVE  FALSE
      BY <2>2
    <3>1. s \in run[c].above
      BY <2>3, AboveTransitive
    <3> QED BY <2>1, <3>1
  <2>5. L(s) \subseteq L(x)
    <3> SUFFICES ASSUME NEW t \in L(s), c \in run[x].above PROVE t \notin run[c].above \cup {c}
      BY <2>2
    <3>1. c \in run[s].above
      BY <2>1 DEF RunInv, AboveChain
    <3> QED BY <3>1
  <2> QED BY <2>1, <2>2, <2>4, <2>5
<1>Linked. \A x \in Run : \A s, t \in run[x].above :
          s = t \/ s \in run[t].above \/ t \in run[s].above
  <2>1. AboveChain
    BY DEF RunInv
  <2> QED BY ONLY <2>1 DEF AboveChain
<1>Fewer. \A x \in Run : \A s \in run'[x].above : s \in run[x].above /\ s \in Run
  <2> HIDE DEF Kept, L
  <2> QED BY <1>10
<1>StillLinked. \A x \in Run : \A s, t \in run'[x].above : s \in run[t].above => s \in run'[t].above
  <2> SUFFICES ASSUME NEW x \in Run, NEW s \in run'[x].above, NEW t \in run'[x].above,
                      s \in run[t].above
               PROVE  s \in run'[t].above
    OBVIOUS
  <2>1. /\ Kept(x) /\ s \in L(x) /\ t \in L(x) /\ t \in run[x].above /\ t \in Run
        /\ run'[t].above = L(t)
    <3>1. /\ Kept(x) /\ s \in L(x) /\ t \in L(x) /\ t \in run[x].above /\ t \in Run
          /\ t # r /\ t # c /\ run[t].pc = "wait"
      BY <1>10
    <3> HIDE DEF Kept, L
    <3> QED BY <3>1, <1>11
  <2>2. c \in run[t].above => c \in run[x].above
    BY <2>1, AboveTransitive
  <2> QED BY <2>1, <2>2
<1>13. AboveChain'
  <2> SUFFICES ASSUME NEW x \in Run, NEW s \in run'[x].above, NEW t \in run'[x].above
               PROVE  s = t \/ s \in run'[t].above \/ t \in run'[s].above
    BY DEF AboveChain
  <2>1. s \in run[x].above /\ t \in run[x].above
    BY <1>Fewer
  <2> HIDE DEF L, Kept
  <2> QED BY <2>1, <1>Linked, <1>StillLinked
<1>14. WaitsForChild'
  <2> SUFFICES ASSUME NEW w \in Run, run'[w].pc = "wait"
               PROVE  run'[w].child \in Child /\ w \in run'[run'[w].child].above
    BY DEF WaitsForChild
  <2>1. w # r /\ w # c /\ run[w].pc = "wait"
    BY <1>1, <1>3, <1>4, <1>5
  <2>2. PICK d \in Child : d = run[w].child /\ w \in run[d].above
    BY <2>1 DEF RunInv, WaitsForChild
  <2>3. d \in Run /\ run'[w].child = d
    BY <1>11, <2>1, <2>2 DEF Run
  <2>4. d # c
    BY <2>1, <2>2, OneParent, SiblingSpawnAssumption
  <2>5. CASE d = r
    <3>1. run'[d].above = run[d].above
      BY <2>2, <2>5, <1>5
    <3> QED BY <2>2, <2>3, <3>1
  <2>6. CASE d # r
    <3>1. w \in L(d)
      <4> SUFFICES ASSUME c \in run[d].above, w \in run[c].above PROVE FALSE
        BY <2>1, <2>2
      <4>1. c = d \/ d \in run[c].above
        BY <2>2 DEF RunInv, AboveWait
      <4> QED BY <4>1, <2>3, <2>4, AboveTransitive
    <3>2. run'[d].above = L(d)
      BY <2>3, <2>4, <2>6, <3>1, <1>3, <1>4
    <3> QED BY <2>3, <3>1, <3>2
  <2> QED BY <2>5, <2>6
<1>15. FreeIsIdle'
  <2> SUFFICES ASSUME NEW x \in Run, run'[x].pc = "free" PROVE run'[x] = Idle
    BY DEF FreeIsIdle
  <2>1. CASE x = r
    BY <2>1, <1>5
  <2>2. CASE x # r /\ x = c
    BY <2>2, <1>5
  <2>3. CASE x # r /\ x # c
    <3>1. run'[x] = Below(x, c)
      BY <1>4, <2>3
    <3>2. CASE Below(x, c) = Idle
      BY <3>1, <3>2
    <3>3. CASE Below(x, c) # Idle
      <4>1. run[x] = Idle
        BY <1>3, <3>1, <3>3 DEF RunInv, FreeIsIdle
      <4> QED BY <4>1, <3>1, <1>1 DEF Below
    <3> QED BY <3>2, <3>3
  <2> QED BY <2>1, <2>2, <2>3
<1> DEFINE Right(x) == x.pc # "free" =>
        /\ x.proj \in Project
        /\ \A p \in Project :
              /\ x.verdict[p] = "spawn" => p \in ModeA[x.proj] \ x.stack
              /\ x.verdict[p] = "deferred" => p \in ModeB[x.proj]
<1>16. \A x \in Run : Right(run'[x])
  <2>1. \A x \in Run : Right(run[x])
    BY DEF RunInv, VerdictsRight
  <2>2. Right(Idle)
    BY <1>1
  <2>3. Right(rec)
    <3>1. run[r].pc # "free" \/ rec = Idle
      BY <1>1
    <3>2. \A p \in Project : NoVerdict[p] = "none"
      BY DEF NoVerdict
    <3> QED BY <2>1, <2>2, <3>1, <3>2
  <2>4. \A x \in Run : Right(Below(x, c))
    <3> SUFFICES ASSUME NEW x \in Run PROVE Right(Below(x, c))
      OBVIOUS
    <3> DEFINE b == Below(x, c)
    <3>1. \/ b = Idle
          \/ b.pc = run[x].pc /\ b.proj = run[x].proj /\ b.stack = run[x].stack
             /\ b.verdict = run[x].verdict
      BY <1>3
    <3> HIDE DEF b
    <3>2. Right(b)
      BY <3>1, <2>1, <2>2
    <3> QED BY <3>2 DEF b
  <2> HIDE DEF Right
  <2> QED BY <2>2, <2>3, <2>4, <1>4, <1>5
<1>17. VerdictsRight'
  BY <1>16 DEF VerdictsRight
<1>18. OnlyChildSpawned'
  <2>1. \A x \in Root : x \in Run /\ run[x].above = {} /\ run[x].stack = {}
    BY DEF RunInv, OnlyChildSpawned, Spawned, Run
  <2>2. \A x \in Root : run'[x].above = {} /\ run'[x].stack = {}
    BY <2>1, <1>1, <1>3, <1>4, <1>5
  <2>3. \A x \in Child : x \in Run /\ (run[x].pc # "free" => run[x].stack # {})
    BY DEF RunInv, OnlyChildSpawned, Spawned, Run
  <2>4. \A x \in Child : run'[x].pc # "free" => run'[x].stack # {}
    <3> SUFFICES ASSUME NEW x \in Child, run'[x].pc # "free" PROVE run'[x].stack # {}
      OBVIOUS
    <3>1. CASE x = r
      <4>1. run[r].pc # "free"
        BY <3>1, <1>1, <1>5, SiblingSpawnAssumption
      <4> QED BY <4>1, <3>1, <2>3, <1>1, <1>5
    <3>2. CASE x # r
      BY <3>2, <2>3, <1>1, <1>3, <1>4, <1>5
    <3> QED BY <3>1, <3>2
  <2> QED BY <2>2, <2>4 DEF OnlyChildSpawned, Spawned
<1>19. RunInv'
  BY <1>8, <1>12, <1>13, <1>14, <1>15, <1>17, <1>18 DEF RunInv
<1>20. \A x \in Run : run'[x].above \subseteq run[x].above
  BY <1>10
<1>21. \A x, y \in Run : x \in run[y].above /\ RootOf(y)' # {} => x \in run'[y].above
  <2> SUFFICES ASSUME NEW x \in Run, NEW y \in Run, x \in run[y].above,
                      NEW u \in RootOf(y)'
               PROVE  x \in run'[y].above
    OBVIOUS
  <2>1. u \in Root /\ u \in Run /\ run[u].above = {}
    BY DEF RootOf, RunInv, OnlyChildSpawned, Run
  <2>2. u # y /\ u \in run'[y].above
    BY <2>1 DEF RootOf
  <2>3. Kept(y) /\ u \in L(y) /\ u \in run[y].above
    BY <2>2, <1>10
  <2>4. c \notin run[y].above
    BY <2>1, <2>3 DEF RunInv, AboveChain
  <2> QED BY <2>3, <2>4
<1> QED BY <1>19, <1>20, <1>21 DEF ChainKept, RootOf

LEMMA UserUpStep ==
  ASSUME RunInv, NEW r \in Root, NEW p \in Project, UserUp(r, p)
  PROVE  RunInv' /\ SameAbove
<1> DEFINE rec == [Idle EXCEPT !.pc = "lock", !.proj = p]
<1>1. r \in Run /\ r \notin Child /\ run[r] = Idle
  BY SiblingSpawnAssumption DEF Run, UserUp, RunInv, FreeIsIdle
<1>2. rec \in RunState /\ rec.pc = "lock" /\ rec.above = {} /\ rec.stack = {} /\ rec.proj = p
      /\ rec.verdict = NoVerdict
  BY IdleState DEF RunState, Idle
<1>8. run[r].pc = "free" /\ run[r].above = {}
  BY <1>1 DEF Idle
<1>3. run' = [run EXCEPT ![r] = rec]
  BY <1>1 DEF UserUp, RunInv
<1> HIDE DEF rec
<1>4. run' \in [Run -> RunState] /\ AboveWait' /\ AboveChain' /\ WaitsForChild'
      /\ OnlyChildSpawned' /\ SameAbove
  BY <1>1, <1>2, <1>3, <1>8, OwnStep
<1>5. FreeIsIdle'
  BY <1>2, <1>3 DEF RunInv, FreeIsIdle
<1>6. VerdictsRight'
  BY <1>2, <1>3 DEF RunInv, VerdictsRight, NoVerdict
<1> QED BY <1>4, <1>5, <1>6 DEF RunInv

\* A child that has ended has nobody below it.
LEMMA EndedBelow ==
  ASSUME RunInv, NEW c \in Run, run[c].pc # "wait"
  PROVE  \A x \in Run : Below(x, c) = run[x]
<1>1. \A x \in Run : c \notin run[x].above
  BY DEF RunInv, AboveWait
<1> QED BY <1>1 DEF Below

LEMMA ReapStep ==
  ASSUME RunInv, NEW r \in Run, Reap(r)
  PROVE  RunInv' /\ ChainKept
<1> DEFINE rec == [run[r] EXCEPT !.pc = "apply", !.child = None]
           c == run[r].child
<1>1. run[r] \in RunState /\ run[r].pc = "wait" /\ run[c].pc = "ok" /\ c \in Run /\ c # r
  BY DEF Reap, RunInv, WaitsForChild, Run
<1>2. rec \in RunState /\ rec.pc = "apply" /\ rec.above = run[r].above
      /\ rec.proj = run[r].proj /\ rec.stack = run[r].stack /\ rec.verdict = run[r].verdict
  BY <1>1 DEF RunState
<1>3. \A x \in Run : Below(x, c) = run[x]
  BY <1>1, EndedBelow
<1>4. run' = [run EXCEPT ![r] = rec, ![c] = Idle]
  BY <1>1 DEF Reap, RunInv
<1> HIDE DEF rec
<1>5. run' = [x \in Run |-> IF x = r THEN rec ELSE IF x = c THEN Idle ELSE Below(x, c)]
  BY <1>1, <1>3, <1>4 DEF RunInv
<1>6. rec.pc # "free" /\ rec.pc # "wait"
  BY <1>2
<1> QED BY <1>1, <1>2, <1>5, <1>6, GoneStep

LEMMA EndWithChildStep ==
  ASSUME RunInv, NEW r \in Run, run[r].pc = "wait", EndWithChild(r)
  PROVE  RunInv' /\ ChainKept
<1> DEFINE rec == Ended(r, "failed")
           c == run[r].child
<1>1. c \in Run
  BY DEF RunInv, WaitsForChild, Run
<1>2. rec \in RunState /\ rec.pc # "wait"
      /\ \/ rec = Idle /\ run[r].above = {}
         \/ /\ rec.pc # "free" /\ rec.above = run[r].above /\ rec.proj = run[r].proj
            /\ rec.stack = run[r].stack
            /\ rec.verdict = run[r].verdict \/ rec.verdict = NoVerdict
  BY EndedState DEF Idle
<1>3. run' = [x \in Run |-> IF x = r THEN rec ELSE IF x = c THEN Idle ELSE Below(x, c)]
  BY DEF EndWithChild
<1> HIDE DEF rec
<1> QED BY <1>1, <1>2, <1>3, GoneStep

LEMMA KillStep ==
  ASSUME RunInv, NEW r \in Root, Kill(r)
  PROVE  RunInv' /\ ChainKept
<1> DEFINE rec == Idle
<1>1. r \in Run /\ run[r].above = {}
  BY DEF RunInv, OnlyChildSpawned, Run
<1>2. rec \in RunState /\ rec.pc # "wait"
  BY IdleState DEF Idle
<1>3. run' = [x \in Run |-> IF x = r THEN rec ELSE IF x = r THEN Idle ELSE Below(x, r)]
  BY DEF Kill
<1> QED BY <1>1, <1>2, <1>3, GoneStep

-----------------------------------------------------------------------------
(* What TypeOK says of the rest of the state.                                *)
RestType ==
    /\ lock \in [LockFile -> Run \cup {None}]
    /\ active \subseteq Project
    /\ image \subseteq Project \X Project
    /\ deferred \in [Project -> SUBSET Project]
    /\ \A p \in Project : deferred[p] \subseteq ModeB[p]

LEMMA Split == IInv <=> RunInv /\ RestType /\ OneChain
BY DEF IInv, TypeOK, RunInv, RestType

LEMMA UnlockType ==
  ASSUME RestType, NEW r \in Run, Unlock(r)
  PROVE  lock' \in [LockFile -> Run \cup {None}]
BY DEF RestType, Unlock

\* The steps a run takes in going on.
LEMMA GoesOn ==
  ASSUME RunInv, RestType, NEW r \in Run,
         \/ AcquireLock(r) \/ Advance(r)
         \/ \E q \in Project : \/ DecideA(r, q) \/ DecideB(r, q)
                               \/ Verify(r, q) \/ ApplySkip(r, q) \/ ApplyProceed(r, q)
  PROVE  RunInv' /\ SameAbove /\ RestType'
<1>1. run[r] \in RunState /\ (run[r].pc # "free" => run[r].proj \in Project)
  BY DEF RunInv, VerdictsRight
<1>2. run[r].todo \in SUBSET Project
  BY <1>1 DEF RunState
<1>3. CASE AcquireLock(r)
  <2>1. run[r].pc = "lock" /\ run[r].proj \in Project
    BY <1>1, <1>3 DEF AcquireLock
  <2>2. Deps(run[r].proj) \in SUBSET Project
    BY <2>1, SiblingSpawnAssumption DEF Deps
  <2>3. RunInv' /\ SameAbove
    BY <1>3, <2>1, <2>2, GotoStep DEF AcquireLock
  <2>4. lock' \in [LockFile -> Run \cup {None}]
    BY <1>3, <2>1 DEF AcquireLock, RestType, LockFile
  <2>5. UNCHANGED <<active, image, deferred>>
    BY <1>3 DEF AcquireLock
  <2> QED BY <2>3, <2>4, <2>5 DEF RestType
<1>4. CASE Advance(r)
  <2>1. \E where \in {"verify", "apply", "serve"}, todo \in SUBSET Project :
          Goto(r, where, todo) /\ run[r].pc \in {"decide", "verify", "apply"}
    <3>1. {q \in Project : run[r].verdict[q] \in {"up", "deferred"}} \in SUBSET Project
      OBVIOUS
    <3>2. run[r].pc = "verify" => Deps(run[r].proj) \in SUBSET Project
      BY <1>1, SiblingSpawnAssumption DEF Deps
    <3>3. {} \in SUBSET Project
      OBVIOUS
    <3> QED BY <1>4, <3>1, <3>2, <3>3 DEF Advance
  <2>2. RunInv' /\ SameAbove
    BY <2>1, GotoStep
  <2> QED BY <1>4, <2>2 DEF Advance, RestType
<1>5. ASSUME NEW q \in Project, DecideA(r, q) PROVE RunInv' /\ SameAbove /\ RestType'
  <2>1. (IF q \in active THEN "up" ELSE "spawn") \in Verdict
    BY DEF Verdict
  <2>2. /\ run[r].pc = "decide" /\ q \in ModeA[run[r].proj] \ run[r].stack
        /\ Decided(r, q, IF q \in active THEN "up" ELSE "spawn")
    BY <1>5 DEF DecideA
  <2>3. RunInv' /\ SameAbove
    BY <2>1, <2>2, DecidedStep
  <2> QED BY <1>5, <2>3 DEF DecideA, RestType
<1>6. ASSUME NEW q \in Project, DecideB(r, q) PROVE RunInv' /\ SameAbove /\ RestType'
  <2>1. (IF q \in active THEN "deferred" ELSE "proceed") \in Verdict
    BY DEF Verdict
  <2>2. /\ run[r].pc = "decide" /\ q \in ModeB[run[r].proj]
        /\ Decided(r, q, IF q \in active THEN "deferred" ELSE "proceed")
    BY <1>6 DEF DecideB
  <2>3. RunInv' /\ SameAbove
    BY <2>1, <2>2, DecidedStep
  <2> QED BY <1>6, <2>3 DEF DecideB, RestType
<1>7. ASSUME NEW q \in Project, Verify(r, q) \/ ApplySkip(r, q) PROVE RunInv' /\ SameAbove /\ RestType'
  <2>1. \E where \in {"verify", "apply"} :
          run[r].pc = where /\ Goto(r, where, run[r].todo \ {q})
    BY <1>7 DEF Verify, ApplySkip
  <2>2. run[r].todo \ {q} \in SUBSET Project
    BY <1>2
  <2>3. RunInv' /\ SameAbove
    BY <2>1, <2>2, GotoStep
  <2> QED BY <1>7, <2>3 DEF Verify, ApplySkip, RestType
<1>8. ASSUME NEW q \in Project, ApplyProceed(r, q) PROVE RunInv' /\ SameAbove /\ RestType'
  <2>1. run[r].pc = "apply" /\ Goto(r, "apply", run[r].todo \ {q})
    BY <1>8 DEF ApplyProceed
  <2>2. run[r].todo \ {q} \in SUBSET Project
    BY <1>2
  <2>3. RunInv' /\ SameAbove
    BY <2>1, <2>2, GotoStep
  <2>4. image' \subseteq Project \X Project
    BY <1>1, <1>8, <2>1 DEF ApplyProceed, RestType
  <2> QED BY <1>8, <2>3, <2>4 DEF ApplyProceed, RestType
<1> QED BY <1>3, <1>4, <1>5, <1>6, <1>7, <1>8

\* The steps that end a run, or its wait.
LEMMA Ends ==
  ASSUME RunInv, RestType, NEW r \in Run,
         \/ LockTaken(r) \/ Finish(r) \/ Fail(r) \/ Notice(r)
         \/ Reap(r) \/ ReapFailed(r) \/ Timeout(r)
         \/ r \in Root /\ Kill(r)
         \/ \E q \in Project : DecideCycle(r, q) \/ VerifyFails(r, q)
  PROVE  RunInv' /\ ChainKept /\ RestType'
<1>1. CASE \/ LockTaken(r) \/ Finish(r) \/ Fail(r) \/ Notice(r)
           \/ \E q \in Project : DecideCycle(r, q) \/ VerifyFails(r, q)
  <2>1. \E result \in {"ok", "failed"} :
          End(r, result) /\ run[r].pc \notin {"free", "wait"}
    BY <1>1 DEF LockTaken, Finish, Fail, Notice, Live, DecideCycle, VerifyFails
  <2>2. UNCHANGED <<active, image, deferred>>
    BY <1>1 DEF LockTaken, Finish, Fail, Notice, DecideCycle, VerifyFails
  <2>3. RunInv' /\ ChainKept
    BY <2>1, EndStep, SameAboveKeeps
  <2>4. lock' \in [LockFile -> Run \cup {None}]
    BY <2>1, UnlockType DEF End
  <2> QED BY <2>2, <2>3, <2>4 DEF RestType
<1>2. CASE Reap(r)
  BY <1>2, ReapStep DEF Reap, RestType
<1>3. CASE \/ ReapFailed(r) \/ Timeout(r)
           \/ r \in Root /\ Kill(r)
  <2>1. Unlock(r) /\ UNCHANGED <<active, image, deferred>>
    BY <1>3 DEF ReapFailed, Timeout, EndWithChild, Kill
  <2>2. RunInv' /\ ChainKept
    BY <1>3, EndWithChildStep, KillStep DEF ReapFailed, Timeout
  <2>3. lock' \in [LockFile -> Run \cup {None}]
    BY <2>1, UnlockType
  <2> QED BY <2>1, <2>2, <2>3 DEF RestType
<1> QED BY <1>1, <1>2, <1>3

\* The steps that start services.
LEMMA Serves ==
  ASSUME RunInv, RestType, NEW r \in Run, Serve(r) \/ ServePartly(r)
  PROVE  RunInv' /\ ChainKept /\ RestType'
<1> DEFINE D == {q \in Project : run[r].verdict[q] = "deferred"}
           p == run[r].proj
<1>1. p \in Project /\ D \subseteq ModeB[p] /\ D \subseteq Project
  BY DEF Serve, ServePartly, RunInv, VerdictsRight
<1>2. active' = active \cup {p} /\ deferred' = [deferred EXCEPT ![p] = D]
      /\ UNCHANGED image
  BY DEF Serve, ServePartly
<1> HIDE DEF D, p
<1>3. active' \subseteq Project /\ image' \subseteq Project \X Project
      /\ deferred' \in [Project -> SUBSET Project]
  BY <1>1, <1>2 DEF RestType
<1>4. \A x \in Project : deferred'[x] \subseteq ModeB[x]
  BY <1>1, <1>2 DEF RestType
<1>5. CASE Serve(r)
  <2>1. run[r].pc = "serve" /\ Goto(r, "finish", {}) /\ UNCHANGED lock
    BY <1>5 DEF Serve
  <2>2. RunInv' /\ ChainKept
    BY <2>1, GotoStep, SameAboveKeeps
  <2> QED BY <2>1, <2>2, <1>3, <1>4 DEF RestType
<1>6. CASE ServePartly(r)
  <2>1. run[r].pc = "serve" /\ End(r, "failed")
    BY <1>6 DEF ServePartly
  <2>2. RunInv' /\ ChainKept
    BY <2>1, EndStep, SameAboveKeeps
  <2>3. lock' \in [LockFile -> Run \cup {None}]
    BY <2>1, UnlockType DEF End
  <2> QED BY <2>2, <2>3, <1>3, <1>4 DEF RestType
<1> QED BY <1>5, <1>6

LEMMA InitInv == Init => IInv
<1> SUFFICES ASSUME Init PROVE IInv
  OBVIOUS
<1>1. Idle.pc = "free" /\ Idle.above = {} /\ Idle.stack = {}
  BY DEF Idle
<1>2. run \in [Run -> RunState] /\ \A x \in Run : run[x] = Idle
  BY IdleState DEF Init
<1>3. RunInv
  BY <1>1, <1>2 DEF RunInv, FreeIsIdle, VerdictsRight, AboveWait, AboveChain, WaitsForChild,
                    OnlyChildSpawned, Spawned, Run
<1>4. RestType
  BY DEF Init, RestType
<1>5. OneChain
  BY <1>1, <1>2 DEF OneChain, RootOf
<1> QED BY <1>3, <1>4, <1>5, Split

LEMMA StepInv == IInv /\ [Next]_vars => IInv'
<1> SUFFICES ASSUME RunInv, RestType, OneChain, [Next]_vars
             PROVE  RunInv' /\ RestType' /\ OneChain'
  BY DEF IInv, TypeOK, RunInv, RestType
<1>1. CASE UNCHANGED run /\ RestType'
  <2>1. RunInv'
    BY <1>1 DEF RunInv, FreeIsIdle, VerdictsRight, AboveWait, AboveChain, WaitsForChild,
                OnlyChildSpawned, Spawned
  <2>2. OneChain'
    BY <1>1 DEF OneChain, RootOf
  <2> QED BY <1>1, <2>1, <2>2
<1>2. ASSUME NEW r \in Root, NEW p \in Project, UserUp(r, p)
      PROVE  RunInv' /\ RestType' /\ OneChain'
  BY <1>2, UserUpStep, SameAboveKeeps, ChainFollows DEF UserUp, RestType
<1>3. ASSUME NEW r \in Run, NEW q \in Project, NEW c \in Child, Spawn(r, q, c)
      PROVE  RunInv' /\ RestType' /\ OneChain'
  BY <1>3, SpawnStep DEF Spawn, RestType
<1>4. ASSUME NEW p \in Project, Down(p) PROVE UNCHANGED run /\ RestType'
  BY <1>4 DEF Down, RestType
<1>5. ASSUME NEW r \in Root, Kill(r) PROVE RunInv' /\ RestType' /\ OneChain'
  BY <1>5, Ends, ChainFollows DEF Run
<1>6. ASSUME NEW r \in Child, Hang(r) PROVE RunInv' /\ RestType' /\ OneChain'
  <2>1. r \in Run /\ run[r].pc \notin {"free", "wait"} /\ Goto(r, "hung", {})
    BY <1>6 DEF Hang, Run
  <2>2. RunInv' /\ SameAbove
    BY <2>1, GotoStep
  <2> QED BY <1>6, <2>2, SameAboveKeeps, ChainFollows DEF Hang, RestType
<1>7. ASSUME NEW r \in Run, Step(r) \/ Timeout(r) \/ Fail(r) \/ ServePartly(r)
      PROVE  RunInv' /\ RestType' /\ OneChain'
  <2>1. CASE \/ AcquireLock(r) \/ Advance(r)
             \/ \E q \in Project : \/ DecideA(r, q) \/ DecideB(r, q)
                                   \/ Verify(r, q) \/ ApplySkip(r, q) \/ ApplyProceed(r, q)
    BY <2>1, GoesOn, SameAboveKeeps, ChainFollows
  <2>2. CASE \/ LockTaken(r) \/ Finish(r) \/ Fail(r) \/ Notice(r)
             \/ Reap(r) \/ ReapFailed(r) \/ Timeout(r)
             \/ \E q \in Project : DecideCycle(r, q) \/ VerifyFails(r, q)
    <3>1. RunInv' /\ ChainKept /\ RestType'
      BY <2>2, Ends
    <3> QED BY <3>1, ChainFollows
  <2>3. CASE Serve(r) \/ ServePartly(r)
    BY <2>3, Serves, ChainFollows
  <2> QED BY <1>3, <1>7, <2>1, <2>2, <2>3 DEF Step
<1>8. CASE UNCHANGED vars
  BY <1>1, <1>8 DEF vars, RestType
<1> QED BY <1>1, <1>2, <1>4, <1>5, <1>6, <1>7, <1>8 DEF Next

(***************************************************************************)
(* Runs, lock files, containers and LocalState keep their types; what is   *)
(* recorded as deferred is always a sibling of mode B.                     *)
(***************************************************************************)
THEOREM TypeCorrect == Spec => []TypeOK
<1>1. IInv => TypeOK
  BY DEF IInv
<1> QED BY InitInv, StepInv, <1>1, PTL DEF Spec

-----------------------------------------------------------------------------
\* Most steps bring no run of a user into the middle of `up`.
LEMMA NobodyIn ==
  ASSUME LockHeld,
         \A r \in Root : InUp(r)' => /\ InUp(r) /\ run'[r].proj = run[r].proj
                                    /\ lock'[LockOf[run[r].proj]] = lock[LockOf[run[r].proj]]
  PROVE  LockHeld'
BY DEF LockHeld

\* Release gives back the locks of r only.
LEMMA UnlockOwn ==
  ASSUME RunInv, LockHeld, NEW r \in Run, Unlock(r),
         \A x \in Root : InUp(x)' => x # r /\ InUp(x) /\ run'[x].proj = run[x].proj
  PROVE  LockHeld'
<1> SUFFICES ASSUME NEW x \in Root, InUp(x)'
             PROVE  lock'[LockOf[run[x].proj]] = lock[LockOf[run[x].proj]]
  BY NobodyIn
<1>1. x # r /\ InUp(x) /\ x \in Run
  BY DEF Run
<1>2. run[x].proj \in Project
  BY <1>1 DEF RunInv, VerdictsRight, InUp
<1>3. lock[LockOf[run[x].proj]] = x /\ LockOf[run[x].proj] \in LockFile
  BY <1>1, <1>2 DEF LockHeld, LockFile
<1> QED BY <1>1, <1>3 DEF Unlock

LEMMA AcquireHeld ==
  ASSUME RunInv, RestType, LockHeld, NEW r \in Run, AcquireLock(r)
  PROVE  LockHeld'
<1>1. /\ run[r].pc = "lock" /\ run[r] \in RunState /\ run[r].proj \in Project
      /\ run' = [run EXCEPT ![r].pc = "decide", ![r].todo = Deps(run[r].proj)]
  BY DEF AcquireLock, Goto, RunInv, VerdictsRight
<1>2. \A x \in Run : run'[x].proj = run[x].proj /\ (x # r => run'[x].pc = run[x].pc)
  BY <1>1 DEF RunInv, RunState
<1>3. CASE r \in Child
  <2>1. r \notin Root /\ UNCHANGED lock
    BY <1>1, <1>3, SiblingSpawnAssumption DEF AcquireLock, RunInv, OnlyChildSpawned
  <2>2. \A x \in Root : x \in Run /\ x # r
    BY <2>1 DEF Run
  <2> QED BY <1>2, <2>1, <2>2, NobodyIn DEF InUp
<1>4. CASE r \in Root
  <2>1. /\ lock[LockOf[run[r].proj]] = None /\ None \notin Run
        /\ lock' = [lock EXCEPT ![LockOf[run[r].proj]] = r]
    BY <1>4, SiblingSpawnAssumption DEF RunInv, OnlyChildSpawned, AcquireLock
  <2>2. LockOf[run[r].proj] \in LockFile /\ lock \in [LockFile -> Run \cup {None}]
    BY <1>1 DEF LockFile, RestType
  <2>3. \A x \in Root : InUp(x)' => x = r \/ (x \in Run /\ InUp(x))
    BY <1>2 DEF InUp, Run
  <2>4. \A x \in Root : InUp(x)' => lock'[LockOf[run'[x].proj]] = x
    <3> SUFFICES ASSUME NEW x \in Root, InUp(x)' PROVE lock'[LockOf[run'[x].proj]] = x
      OBVIOUS
    <3>1. CASE x = r
      BY <3>1, <1>2, <2>1, <2>2
    <3>2. CASE x # r
      <4>1. x \in Run /\ InUp(x) /\ lock[LockOf[run[x].proj]] = x
        BY <2>3, <3>2 DEF LockHeld
      <4>2. LockOf[run[x].proj] # LockOf[run[r].proj]
        BY <2>1, <4>1
      <4> QED BY <1>2, <2>1, <2>2, <4>1, <4>2
    <3> QED BY <3>1, <3>2
  <2> QED BY <2>4 DEF LockHeld
<1> QED BY <1>3, <1>4 DEF Run

LEMMA LockStep ==
  ASSUME RunInv, RestType, LockHeld, [Next]_vars
  PROVE  LockHeld'
<1>0. Idle.pc = "free" /\ \A x \in Root : x \in Run /\ x \notin Child /\ run[x].above = {}
  BY SiblingSpawnAssumption DEF Idle, RunInv, OnlyChildSpawned, Run
<1>1. CASE UNCHANGED <<run, lock>>
  BY <1>1 DEF LockHeld, InUp
<1>2. ASSUME NEW r \in Root, NEW p \in Project, UserUp(r, p) PROVE LockHeld'
  <2>1. r \in Run /\ UNCHANGED lock
    BY <1>2 DEF Run, UserUp
  <2>2. ~InUp(r)' /\ \A x \in Run \ {r} : run'[x] = run[x]
    BY <1>2, <2>1 DEF InUp, UserUp, RunInv, RunState
  <2> QED BY <1>0, <2>1, <2>2, NobodyIn DEF InUp
<1>3. ASSUME NEW r \in Run,
             \/ LockTaken(r) \/ Finish(r) \/ Fail(r) \/ ServePartly(r) \/ Notice(r)
             \/ \E q \in Project : DecideCycle(r, q) \/ VerifyFails(r, q)
      PROVE  LockHeld'
  <2>1. PICK result \in {"ok", "failed"} : End(r, result)
    BY <1>3 DEF LockTaken, Finish, Fail, Notice, ServePartly, DecideCycle, VerifyFails
  <2>2. Unlock(r) /\ r \in Root => run'[r] = Idle
    BY <1>0, <2>1 DEF End, Ended, RunInv
  <2>3. Unlock(r) /\ \A x \in Run \ {r} : run'[x] = run[x]
    BY <2>1 DEF End, RunInv
  <2> QED BY <1>0, <2>2, <2>3, UnlockOwn DEF InUp
<1>4. ASSUME NEW r \in Run, ReapFailed(r) \/ Timeout(r) PROVE LockHeld'
  <2>1. EndWithChild(r) /\ run[r].child \in Child
    BY <1>4 DEF ReapFailed, Timeout, RunInv, WaitsForChild
  <2>2. \A x \in Root : x # r => run'[x] = run[x]
    BY <1>0, <2>1 DEF EndWithChild, Below
  <2>3. r \in Root => run'[r] = Idle
    BY <1>0, <2>1 DEF EndWithChild, Ended
  <2> QED BY <1>0, <2>1, <2>2, <2>3, UnlockOwn DEF InUp, EndWithChild
<1>5. ASSUME NEW r \in Root, Kill(r) PROVE LockHeld'
  <2>1. \A x \in Root : x # r => run'[x] = run[x]
    BY <1>0, <1>5 DEF Kill, Below
  <2>2. run'[r] = Idle /\ Unlock(r)
    BY <1>0, <1>5 DEF Kill
  <2> QED BY <1>0, <2>1, <2>2, UnlockOwn DEF InUp
<1>6. ASSUME NEW r \in Run, Reap(r) PROVE LockHeld'
  <2>1. run[r].pc = "wait" /\ run[r].child \in Child /\ UNCHANGED lock /\ run[r] \in RunState
    BY <1>6 DEF Reap, RunInv, WaitsForChild
  <2>2. \A x \in Root : run'[x].proj = run[x].proj /\ (x # r => run'[x] = run[x])
    BY <1>0, <1>6, <2>1 DEF Reap, RunInv, RunState
  <2> QED BY <1>0, <2>1, <2>2, NobodyIn DEF InUp
<1>7. ASSUME NEW r \in Run, NEW q \in Project, NEW c \in Child, Spawn(r, q, c)
      PROVE  LockHeld'
  <2>1. run[r].pc = "apply" /\ UNCHANGED lock /\ run[r] \in RunState
    BY <1>7 DEF Spawn, RunInv
  <2>2. \A x \in Root : run'[x].proj = run[x].proj /\ (x # r => run'[x] = run[x])
    BY <1>0, <1>7, <2>1 DEF Spawn, RunInv, RunState
  <2> QED BY <1>0, <2>1, <2>2, NobodyIn DEF InUp
<1>8. ASSUME NEW r \in Run,
             \/ Advance(r) \/ Serve(r) \/ Hang(r)
             \/ \E q \in Project : \/ DecideA(r, q) \/ DecideB(r, q)
                                   \/ Verify(r, q) \/ ApplySkip(r, q) \/ ApplyProceed(r, q)
      PROVE  LockHeld'
  <2>1. UNCHANGED lock
    BY <1>8 DEF Advance, Serve, Hang, DecideA, DecideB, Verify, ApplySkip, ApplyProceed
  <2>2. run[r] \in RunState /\ InUp(r)
    BY <1>8 DEF RunInv, InUp, Advance, Serve, Hang, DecideA, DecideB, Verify, ApplySkip,
                ApplyProceed
  <2>3. run'[r].proj = run[r].proj /\ \A x \in Run \ {r} : run'[x] = run[x]
    <3>1. (\E where, todo : Goto(r, where, todo)) \/ (\E q, v : Decided(r, q, v))
      BY <1>8 DEF Advance, Serve, Hang, DecideA, DecideB, Verify, ApplySkip, ApplyProceed
    <3>2. CASE \E where, todo : Goto(r, where, todo)
      BY <2>2, <3>2 DEF RunInv, RunState, Goto
    <3>3. CASE \E q, v : Decided(r, q, v)
      BY <2>2, <3>3 DEF RunInv, RunState, Decided
    <3> QED BY <3>1, <3>2, <3>3
  <2> QED BY <1>0, <2>1, <2>2, <2>3, NobodyIn DEF InUp
<1>9. ASSUME NEW p \in Project, Down(p) PROVE UNCHANGED <<run, lock>>
  BY <1>9 DEF Down
<1> QED BY <1>1, <1>2, <1>3, <1>4, <1>5, <1>6, <1>7, <1>8, <1>9, AcquireHeld
        DEF Next, Step, vars, Run

(***************************************************************************)
(* No project is brought up twice at a time by runs that work for users    *)
(* whose projects share a lock file, although the spawned ones take none:  *)
(* the user's run holds it while those that work for it are there.  Nor is *)
(* it by a run and one below it, whoever has ended above them.  For any    *)
(* graph, any lock files, and whatever is killed or timed out.             *)
(***************************************************************************)
THEOREM OneUp == Spec => []OneUpPerProject
<1>1. Init => LockHeld
  BY DEF Init, LockHeld, InUp, Run, Idle
<1>2. IInv /\ LockHeld /\ [Next]_vars => IInv' /\ LockHeld'
  BY StepInv, LockStep, Split
<1>3. IInv /\ LockHeld => OneUpPerProject
  <2> SUFFICES ASSUME IInv, LockHeld, NEW r \in Run, NEW s \in Run,
                      InUp(r), InUp(s), run[r].proj = run[s].proj,
                      \/ s \in run[r].above
                      \/ \E u \in RootOf(r), v \in RootOf(s) :
                            LockOf[run[u].proj] = LockOf[run[v].proj]
               PROVE  r = s
    BY DEF OneUpPerProject
  <2>1. CASE s \in run[r].above
    BY <2>1 DEF IInv, AboveWait
  <2>2. ASSUME NEW u \in RootOf(r), NEW v \in RootOf(s),
               LockOf[run[u].proj] = LockOf[run[v].proj]
        PROVE  r = s
    <3>1. u \in Root /\ InUp(u)
      BY DEF RootOf, IInv, AboveWait, InUp
    <3>2. v \in Root /\ InUp(v)
      BY DEF RootOf, IInv, AboveWait, InUp
    <3>3. u = v
      BY <2>2, <3>1, <3>2 DEF LockHeld
    <3>4. r = s \/ r \in run[s].above \/ s \in run[r].above
      BY <3>3 DEF IInv, OneChain
    <3> QED BY <3>4 DEF IInv, AboveWait
  <2> QED BY <2>1, <2>2
<1> QED BY InitInv, <1>1, <1>2, <1>3, PTL DEF Spec

=============================================================================
