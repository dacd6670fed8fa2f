----------------------- MODULE SharedDepsAndConfigProofs -----------------------
(***************************************************************************)
(* Proofs about SharedDeps, for any projects, dependencies and cleaners,   *)
(* and about ConfigPipeline, for any names, inputs and siblings.           *)
(***************************************************************************)
EXTENDS SharedDeps, ConfigPipeline, FiniteSetTheorems, WellFoundedInduction,
        SequenceTheorems, TLAPS


LEMMA InitIInv == Init => IInv
  BY SharedDepsAssumption
  DEF Init, IInv, TypeOK, NoTeardownDue, NoRefs, Refs

LEMMA UpType ==
  ASSUME TypeOK, NEW p \in Project, Up(p)
  PROVE  TypeOK'
<1> USE SharedDepsAssumption DEF TypeOK, Refs, UpGoto, upVars, downVars, cleanVars
<1>1. CASE UpBegin(p)
  BY <1>1 DEF UpBegin
<1>2. CASE UpHealth(p)
  BY <1>2 DEF UpHealth
<1>3. CASE UpServices(p)
  BY <1>3 DEF UpServices
<1>4. CASE UpDone(p)
  BY <1>4 DEF UpDone
<1>5. CASE UpAborts(p)
  <2>1. stray' \subseteq Dep
    BY <1>5 DEF UpAborts
  <2> QED BY <1>5, <2>1 DEF UpAborts
<1>6. ASSUME NEW d \in Dep, UpStart(p, d) PROVE TypeOK'
  BY <1>6 DEF UpStart
<1>7. ASSUME NEW d \in Dep, UpRegister(p, d) PROVE TypeOK'
  BY <1>7 DEF UpRegister
<1>8. ASSUME NEW d \in Dep, UpRegisterFails(p, d) PROVE TypeOK'
  BY <1>8 DEF UpRegisterFails
<1> QED
  BY <1>1, <1>2, <1>3, <1>4, <1>5, <1>6, <1>7, <1>8 DEF Up

LEMMA DownType ==
  ASSUME TypeOK, NEW p \in Project, Down(p)
  PROVE  TypeOK'
<1> USE SharedDepsAssumption DEF TypeOK, Refs, DownDecides, upVars, downVars, cleanVars
<1>1. CASE DownBegin(p)
  BY <1>1 DEF DownBegin
<1>2. CASE DownReleases(p)
  BY <1>2 DEF DownReleases
<1>3. CASE DownKilled(p)
  BY <1>3 DEF DownKilled
<1>4. ASSUME NEW d \in Dep, DownSelective(p, d) PROVE TypeOK'
  BY <1>4 DEF DownSelective
<1>5. ASSUME NEW d \in Dep, DownDrop(p, d) PROVE TypeOK'
  BY <1>5 DEF DownDrop
<1>6. ASSUME NEW d \in Dep, DownDropFails(p, d) PROVE TypeOK'
  BY <1>6 DEF DownDropFails
<1>7. ASSUME NEW d \in Dep, DownTearDown(p, d) PROVE TypeOK'
  BY <1>7 DEF DownTearDown
<1>8. ASSUME NEW d \in Dep, DownTearDownFails(p, d) PROVE TypeOK'
  BY <1>8 DEF DownTearDownFails
<1> QED
  BY <1>1, <1>2, <1>3, <1>4, <1>5, <1>6, <1>7, <1>8 DEF Down

LEMMA CleanType ==
  ASSUME TypeOK, NEW k \in Cleaner, Clean(k)
  PROVE  TypeOK'
<1> USE SharedDepsAssumption DEF TypeOK, Refs, NoRefs, upVars, downVars, cleanVars
<1>1. CASE CleanBegin(k)
  BY <1>1 DEF CleanBegin
<1>2. CASE CleanKilled(k)
  BY <1>2 DEF CleanKilled
<1>3. ASSUME NEW d \in Dep, CleanJudge(k, d) PROVE TypeOK'
  BY <1>3 DEF CleanJudge
<1>4. ASSUME NEW d \in Dep, NEW p \in Project, CleanDrop(k, d, p) PROVE TypeOK'
  BY <1>4 DEF CleanDrop
<1>5. ASSUME NEW d \in Dep, NEW p \in Project, CleanDropFails(k, d, p) PROVE TypeOK'
  BY <1>5 DEF CleanDropFails
<1>6. ASSUME NEW d \in Dep, CleanTearDown(k, d) PROVE TypeOK'
  BY <1>6 DEF CleanTearDown
<1>7. ASSUME NEW d \in Dep, CleanTearDownFails(k, d) PROVE TypeOK'
  BY <1>7 DEF CleanTearDownFails
<1> QED
  BY <1>1, <1>2, <1>3, <1>4, <1>5, <1>6, <1>7 DEF Clean

LEMMA TypeStep == TypeOK /\ [Next]_vars => TypeOK'
<1> SUFFICES ASSUME TypeOK, [Next]_vars PROVE TypeOK'
  OBVIOUS
<1>1. CASE UNCHANGED vars
  BY <1>1 DEF TypeOK, vars, upVars, downVars, cleanVars
<1> QED
  BY <1>1, UpType, DownType, CleanType DEF Next

-----------------------------------------------------------------------------
LEMMA UpKeeps ==
  ASSUME IInv, NEW p \in Project, Up(p)
  PROVE  NoTeardownDue'
<1> USE DEF IInv, TypeOK, Refs, NoTeardownDue, downVars, cleanVars
<1>1. CASE UpBegin(p) \/ UpHealth(p) \/ UpServices(p) \/ UpDone(p) \/ UpAborts(p)
  <2>1. UNCHANGED <<running, refs, doomed, snap, dead, orphan, raced>>
    BY <1>1 DEF UpBegin, UpHealth, UpServices, UpDone, UpAborts
  <2> QED BY <2>1
<1>2. ASSUME NEW d \in Dep, UpStart(p, d) PROVE NoTeardownDue'
  BY <1>2 DEF UpStart
<1>3. ASSUME NEW d \in Dep, UpRegister(p, d) PROVE NoTeardownDue'
  <2>1. UNCHANGED <<running, doomed, snap, dead, orphan>> /\ raced \subseteq raced'
    BY <1>3 DEF UpRegister
  <2>2. \A e \in Dep : e # d => refs'[e] = refs[e]
    BY <1>3 DEF UpRegister
  <2>3. d \notin raced' => d \in running /\ ~TeardownDue(d)
    BY <1>3 DEF UpRegister
  <2>4. d \notin raced' => /\ d \in running
                          /\ \A q \in Project : d \notin doomed[q]
                          /\ \A j \in Cleaner : d \notin orphan[j] /\ snap[j][d] = {}
    BY <2>3 DEF TeardownDue
  <2>5. ASSUME NEW e \in Dep, refs'[e] # {}, e \notin raced'
        PROVE  /\ e \in running
               /\ \A q \in Project : e \notin doomed[q]
               /\ \A j \in Cleaner : /\ snap[j][e] # {} => refs'[e] \subseteq snap[j][e]
                                     /\ e \in orphan[j] => refs'[e] \subseteq dead[j][e]
    <3>1. CASE e = d
      BY <2>4, <2>5, <3>1
    <3>2. CASE e # d
      BY <2>1, <2>2, <2>5, <3>2
    <3> QED
      BY <3>1, <3>2
  <2> QED
    BY <2>1, <2>5
<1>4. ASSUME NEW d \in Dep, UpRegisterFails(p, d) PROVE NoTeardownDue'
  BY <1>4 DEF UpRegisterFails
<1> QED
  BY <1>1, <1>2, <1>3, <1>4 DEF Up

LEMMA DownKeeps ==
  ASSUME IInv, NEW p \in Project, Down(p)
  PROVE  NoTeardownDue'
<1> USE DEF IInv, TypeOK, Refs, NoTeardownDue, DownDecides, cleanVars
<1>1. CASE DownBegin(p) \/ DownReleases(p)
  <2>1. UNCHANGED <<running, refs, doomed, snap, dead, orphan, raced>>
    BY <1>1 DEF DownBegin, DownReleases
  <2> QED BY <2>1
<1>2. CASE DownKilled(p)
  BY <1>2 DEF DownKilled
<1>3. ASSUME NEW d \in Dep, DownSelective(p, d) PROVE NoTeardownDue'
  BY <1>3 DEF DownSelective
<1>4. ASSUME NEW d \in Dep, DownDrop(p, d) PROVE NoTeardownDue'
  BY <1>4 DEF DownDrop
<1>5. ASSUME NEW d \in Dep, DownDropFails(p, d) PROVE NoTeardownDue'
  <2>1. UNCHANGED <<running, refs, snap, dead, orphan>> /\ raced' = raced \cup {d}
    BY <1>5 DEF DownDropFails
  <2>2. PICK left \in {{}, refs[d] \ {p}} : DownDecides(p, d, left)
    BY <1>5 DEF DownDropFails
  <2>3. \A q \in Project : doomed'[q] \subseteq doomed[q] \cup {d}
    BY <2>2
  <2> QED
    BY <2>1, <2>3
<1>6. ASSUME NEW d \in Dep, DownTearDown(p, d) PROVE NoTeardownDue'
  BY <1>6 DEF DownTearDown
<1>7. ASSUME NEW d \in Dep, DownTearDownFails(p, d) PROVE NoTeardownDue'
  BY <1>7 DEF DownTearDownFails
<1> QED
  BY <1>1, <1>2, <1>3, <1>4, <1>5, <1>6, <1>7 DEF Down

LEMMA CleanKeeps ==
  ASSUME IInv, NEW k \in Cleaner, Clean(k)
  PROVE  NoTeardownDue'
<1> USE DEF IInv, TypeOK, Refs, NoRefs, NoTeardownDue, downVars
<1>1. CASE CleanBegin(k)
  BY <1>1 DEF CleanBegin
<1>2. CASE CleanKilled(k)
  BY <1>2 DEF CleanKilled
<1>3. ASSUME NEW d \in Dep, CleanJudge(k, d) PROVE NoTeardownDue'
  <2>1. UNCHANGED <<running, refs, doomed, raced>>
    BY <1>3 DEF CleanJudge
  <2>2. PICK D \in SUBSET (snap[k][d] \ active) :
            /\ dead' = [dead EXCEPT ![k][d] = D]
            /\ orphan' = [orphan EXCEPT ![k] = IF D = snap[k][d] THEN {d} ELSE {}]
    BY <1>3 DEF CleanJudge
  <2>3. ASSUME NEW e \in Dep, NEW j \in Cleaner, refs[e] # {}, e \notin raced
        PROVE  snap'[j][e] # {} => refs[e] \subseteq snap'[j][e]
    <3>1. snap' = [snap EXCEPT ![k][d] = {}]
      BY <1>3 DEF CleanJudge
    <3>2. snap'[j][e] = {} \/ snap'[j][e] = snap[j][e]
      BY <3>1
    <3> QED
      BY <2>3, <3>2
  <2>4. ASSUME NEW e \in Dep, NEW j \in Cleaner, refs[e] # {}, e \notin raced,
               e \in orphan'[j]
        PROVE  refs[e] \subseteq dead'[j][e]
    <3>1. CASE j = k
      <4>1. e = d /\ D = snap[k][d]
        BY <2>2, <2>4, <3>1
      <4>2. dead'[j][e] = snap[k][d] /\ snap[k][d] # {}
        BY <1>3, <2>2, <3>1, <4>1 DEF CleanJudge
      <4> QED
        BY <2>4, <4>1, <4>2
    <3>2. CASE j # k
      BY <2>2, <2>4, <3>2
    <3> QED
      BY <3>1, <3>2
  <2> QED
    BY <2>1, <2>3, <2>4
<1>4. ASSUME NEW d \in Dep, NEW p \in Project, CleanDrop(k, d, p) PROVE NoTeardownDue'
  BY <1>4 DEF CleanDrop
<1>5. ASSUME NEW d \in Dep, NEW p \in Project, CleanDropFails(k, d, p)
      PROVE  NoTeardownDue'
  BY <1>5 DEF CleanDropFails
<1>6. ASSUME NEW d \in Dep, CleanTearDown(k, d) PROVE NoTeardownDue'
  <2>1. UNCHANGED <<refs, doomed, snap, dead, raced>> /\ running' = running \ {d}
    BY <1>6 DEF CleanTearDown
  <2>2. \A j \in Cleaner : orphan'[j] \subseteq orphan[j]
    BY <1>6 DEF CleanTearDown
  <2>3. dead[k][d] = {} /\ d \in orphan[k]
    BY <1>6 DEF CleanTearDown
  <2>4. refs[d] = {} \/ d \in raced
    BY <2>3
  <2> QED
    BY <2>1, <2>2, <2>4
<1>7. ASSUME NEW d \in Dep, CleanTearDownFails(k, d) PROVE NoTeardownDue'
  <2>1. UNCHANGED <<running, refs, doomed, snap, dead, raced>>
    BY <1>7 DEF CleanTearDownFails
  <2>2. \A j \in Cleaner : orphan'[j] \subseteq orphan[j]
    BY <1>7 DEF CleanTearDownFails
  <2> QED
    BY <2>1, <2>2
<1> QED
  BY <1>1, <1>2, <1>3, <1>4, <1>5, <1>6, <1>7 DEF Clean

LEMMA Inductive == Spec => []IInv
<1>1. IInv /\ [Next]_vars => NoTeardownDue'
  <2> SUFFICES ASSUME IInv, [Next]_vars PROVE NoTeardownDue'
    OBVIOUS
  <2>1. CASE UNCHANGED vars
    BY <2>1 DEF IInv, NoTeardownDue, vars, downVars, cleanVars
  <2> QED
    BY <2>1, UpKeeps, DownKeeps, CleanKeeps DEF Next
<1>2. IInv /\ [Next]_vars => IInv'
  BY <1>1, TypeStep DEF IInv
<1> QED
  BY InitIInv, <1>2, PTL DEF Spec

(***************************************************************************)
(* The containers, the references and every command keep their types.      *)
(***************************************************************************)
THEOREM TypeCorrect == Spec => []TypeOK
<1>1. IInv => TypeOK
  BY DEF IInv
<1> QED
  BY <1>1, Inductive, PTL

(***************************************************************************)
(* ADR-050, as far as the code keeps it: `down` and `clean` tear down no   *)
(* dependency somebody references, but for one whose reference was written *)
(* after the teardown was decided, or survived a failed DropRef.           *)
(***************************************************************************)
THEOREM ReferenceHolds == Spec => []RefKeepsDepUp
<1>1. IInv => RefKeepsDepUp
  BY DEF IInv, NoTeardownDue, RefKeepsDepUp
<1> QED
  BY <1>1, Inductive, PTL

-----------------------------------------------------------------------------
(* No leak without a cause. *)

\* In a step of the commands of p, the other projects and the cleaners keep
\* what they have in hand.
LEMMA ProjectFrame ==
  ASSUME NoneForgotten, NEW p \in Project, UNCHANGED orphan,
         \A q \in Project : q # p => /\ upPc'[q] = upPc[q]
                                     /\ upTodo'[q] = upTodo[q]
                                     /\ doomed'[q] = doomed[q],
         \A d \in running' : \/ Told(d)'
                             \/ Has(p, d)'
                             \/ d \in running /\ ~Told(d) /\ ~Has(p, d)
  PROVE  NoneForgotten'
<1> SUFFICES ASSUME NEW d \in running', ~Told(d)', ~Has(p, d)' PROVE InHand(d)'
  BY DEF NoneForgotten, Told, Has, InHand
<1>1. d \in running /\ ~Told(d) /\ ~Has(p, d)
  OBVIOUS
<1>2. InHand(d)
  BY <1>1 DEF NoneForgotten
<1>3. CASE \E k \in Cleaner : d \in orphan[k]
  BY <1>3 DEF InHand
<1>4. ASSUME NEW q \in Project, Has(q, d) PROVE InHand(d)'
  <2>1. q # p
    BY <1>1, <1>4
  <2>2. upPc'[q] = upPc[q] /\ upTodo'[q] = upTodo[q] /\ doomed'[q] = doomed[q]
    BY <2>1
  <2>3. Has(q, d)'
    BY <1>4, <2>2 DEF Has
  <2> QED
    BY <2>3 DEF InHand
<1> QED
  BY <1>2, <1>3, <1>4 DEF InHand

\* The same of a step of cleaner k.
LEMMA CleanerFrame ==
  ASSUME NoneForgotten, NEW k \in Cleaner, UNCHANGED <<upPc, upTodo, doomed>>,
         \A j \in Cleaner : j # k => orphan'[j] = orphan[j],
         \A d \in running' : \/ Told(d)'
                             \/ d \in orphan'[k]
                             \/ d \in running /\ ~Told(d) /\ d \notin orphan[k]
  PROVE  NoneForgotten'
<1> SUFFICES ASSUME NEW d \in running', ~Told(d)', d \notin orphan'[k] PROVE InHand(d)'
  BY DEF NoneForgotten, InHand
<1>1. d \in running /\ ~Told(d) /\ d \notin orphan[k]
  OBVIOUS
<1>2. InHand(d)
  BY <1>1 DEF NoneForgotten
<1>3. ASSUME NEW j \in Cleaner, d \in orphan[j] PROVE InHand(d)'
  <2>1. orphan'[j] = orphan[j]
    BY <1>1, <1>3
  <2> QED
    BY <1>3, <2>1 DEF InHand
<1>4. ASSUME NEW q \in Project, Has(q, d) PROVE InHand(d)'
  <2>1. Has(q, d)'
    BY <1>4 DEF Has
  <2> QED
    BY <2>1 DEF InHand
<1> QED
  BY <1>2, <1>3, <1>4 DEF InHand

LEMMA UpOneByOne ==
  ASSUME LeakInv, NEW p \in Project, Up(p)
  PROVE  OneByOne'
<1> USE SharedDepsAssumption DEF LeakInv, TypeOK, UpGoto, downVars, cleanVars
<1>1. UNCHANGED <<doomed, orphan>>
  BY DEF Up, UpBegin, UpHealth, UpServices, UpDone, UpAborts, UpStart, UpRegister,
     UpRegisterFails
<1>2. PICK where, todo : upPc' = [upPc EXCEPT ![p] = where] /\ upTodo' = [upTodo EXCEPT ![p] = todo]
                         /\ todo \subseteq Uses[p]
  BY DEF Up, OneByOne, UpBegin, UpHealth, UpServices, UpDone, UpAborts, UpStart, UpRegister,
     UpRegisterFails
<1> QED
  BY <1>1, <1>2 DEF OneByOne

LEMMA UpHolds ==
  ASSUME LeakInv, NEW p \in Project, Up(p)
  PROVE  NoneForgotten'
<1> USE SharedDepsAssumption DEF LeakInv, TypeOK, Refs, UpGoto, downVars, cleanVars
<1>0. /\ UNCHANGED orphan /\ UNCHANGED doomed
      /\ \A q \in Project : q # p => upPc'[q] = upPc[q] /\ upTodo'[q] = upTodo[q]
  BY DEF Up, UpBegin, UpHealth, UpServices, UpDone, UpAborts, UpStart, UpRegister,
     UpRegisterFails
<1> DEFINE Goal == \A d \in running' : \/ Told(d)'
                                       \/ Has(p, d)'
                                       \/ d \in running /\ ~Told(d) /\ ~Has(p, d)
<1>2. ASSUME UpBegin(p) \/ UpDone(p) PROVE Goal
  <2>1. UNCHANGED <<running, refs, stray>> /\ upPc[p] \in {"idle", "services"}
    BY <1>2 DEF UpBegin, UpDone
  <2>2. \A d \in running : Told(d)' <=> Told(d)
    BY <2>1 DEF Told
  <2>3. \A d \in running : Has(p, d) => Has(p, d)'
    BY <1>0, <2>1 DEF Has
  <2> QED
    BY <2>1, <2>2, <2>3 DEF Told, Has
<1>3. ASSUME UpHealth(p) PROVE Goal
  <2>1. UNCHANGED <<running, refs, stray>>
    BY <1>3 DEF UpHealth
  <2>2. \A d \in running : Told(d)' <=> Told(d)
    BY <2>1 DEF Told
  <2>3. \A d \in running : Has(p, d) => Has(p, d)'
    BY <1>0, <1>3 DEF Has, UpHealth
  <2> QED
    BY <2>1, <2>2, <2>3 DEF Told, Has
<1>4. ASSUME UpServices(p) PROVE Goal
  <2>1. UNCHANGED <<running, refs, stray>>
    BY <1>4 DEF UpServices
  <2>2. \A d \in running : Told(d)' <=> Told(d)
    BY <2>1 DEF Told
  <2>3. \A d \in running : Has(p, d) => Has(p, d)'
    BY <1>0, <1>4 DEF Has, UpServices
  <2> QED
    BY <2>1, <2>2, <2>3 DEF Told, Has
<1>5. ASSUME UpAborts(p) PROVE Goal
  <2>1. UNCHANGED <<running, refs>> /\ stray \subseteq stray'
    BY <1>5 DEF UpAborts
  <2>2. \A d \in running : Told(d) => Told(d)'
    BY <2>1 DEF Told
  <2>3. \A d \in running : Has(p, d) => d \in stray' \/ Has(p, d)'
    <3>1. \A d \in running : upPc[p] = "start" /\ d \in Uses[p] \ upTodo[p] => d \in stray'
      BY <1>5 DEF UpAborts
    <3>2. \A d \in running : upPc[p] = "register" /\ d \in upTodo[p] => d \in stray'
      BY <1>5 DEF UpAborts
    <3> QED
      BY <1>0, <3>1, <3>2 DEF Has
  <2> QED
    BY <2>1, <2>2, <2>3 DEF Told
<1>6. ASSUME NEW d \in Dep, UpStart(p, d) PROVE Goal
  <2>1. UNCHANGED <<refs, stray>> /\ running' = running \cup {d}
    BY <1>6 DEF UpStart
  <2>2. \A e \in running : Told(e)' <=> Told(e)
    BY <2>1 DEF Told
  <2>3. \A e \in running : Has(p, e) => Has(p, e)'
    BY <1>0, <1>6 DEF Has, UpStart
  <2>4. Has(p, d)'
    BY <1>6 DEF Has, UpStart, OneByOne
  <2> QED
    BY <2>1, <2>2, <2>3, <2>4
<1>7. ASSUME NEW d \in Dep, UpRegister(p, d) PROVE Goal
  <2>1. UNCHANGED running /\ stray' = stray \ {d} /\ refs' = [refs EXCEPT ![d] = @ \cup {p}]
    BY <1>7 DEF UpRegister
  <2>2. Told(d)'
    BY <2>1 DEF Told
  <2>3. \A e \in running : e # d => (Told(e)' <=> Told(e))
    BY <2>1 DEF Told
  <2>4. \A e \in running : e # d /\ Has(p, e) => Has(p, e)'
    BY <1>0, <1>7 DEF Has, UpRegister
  <2> QED
    BY <2>1, <2>2, <2>3, <2>4
<1>8. ASSUME NEW d \in Dep, UpRegisterFails(p, d) PROVE Goal
  <2>1. UNCHANGED <<running, refs>> /\ stray' = stray \cup {d}
    BY <1>8 DEF UpRegisterFails
  <2>2. Told(d)'
    BY <2>1 DEF Told
  <2>3. \A e \in running : Told(e) => Told(e)'
    BY <2>1 DEF Told
  <2>4. \A e \in running : e # d /\ Has(p, e) => Has(p, e)'
    BY <1>0, <1>8 DEF Has, UpRegisterFails
  <2> QED
    BY <2>1, <2>2, <2>3, <2>4
<1>9. Goal
  BY <1>2, <1>3, <1>4, <1>5, <1>6, <1>7, <1>8 DEF Up, Told, Has
<1> QED
  BY <1>0, <1>9, ProjectFrame

LEMMA DownHolds ==
  ASSUME LeakInv, NEW p \in Project, Down(p)
  PROVE  OneByOne' /\ NoneForgotten'
<1> USE DEF LeakInv, TypeOK, Refs, DownDecides, upVars, cleanVars
<1>0. /\ UNCHANGED <<orphan, upPc, upTodo>>
      /\ \A q \in Project : q # p => doomed'[q] = doomed[q]
  BY DEF Down, DownBegin, DownReleases, DownKilled, DownSelective, DownDrop,
     DownDropFails, DownTearDown, DownTearDownFails
<1>1. OneByOne'
  <2>1. \A d, e \in doomed'[p] : d = e
    BY DEF Down, OneByOne, DownBegin, DownReleases, DownKilled, DownSelective, DownDrop,
       DownDropFails, DownTearDown, DownTearDownFails
  <2> QED
    BY <1>0, <2>1 DEF OneByOne
<1> DEFINE Goal == \A d \in running' : \/ Told(d)'
                                       \/ Has(p, d)'
                                       \/ d \in running /\ ~Told(d) /\ ~Has(p, d)
<1>2. ASSUME UNCHANGED <<running, refs, stray, doomed>> PROVE Goal
  <2>1. \A d \in running : (Told(d)' <=> Told(d)) /\ (Has(p, d)' <=> Has(p, d))
    BY <1>0, <1>2 DEF Told, Has
  <2> QED
    BY <1>2, <2>1
<1>3. ASSUME DownBegin(p) \/ DownReleases(p) PROVE Goal
  BY <1>2, <1>3 DEF DownBegin, DownReleases, Told, Has
<1>4. ASSUME DownKilled(p) PROVE Goal
  <2>1. UNCHANGED <<running, refs>> /\ stray' = stray \cup doomed[p]
    BY <1>4 DEF DownKilled
  <2>2. \A d \in running : Told(d) => Told(d)'
    BY <2>1 DEF Told
  <2>3. \A d \in running : Has(p, d) => Told(d)' \/ Has(p, d)'
    BY <1>0, <2>1 DEF Has, Told
  <2> QED
    BY <2>1, <2>2, <2>3 DEF Told, Has
<1>5. ASSUME NEW d \in Dep, DownSelective(p, d) PROVE Goal
  BY <1>2, <1>5 DEF DownSelective
<1>6. ASSUME NEW d \in Dep, DownDrop(p, d) PROVE Goal
  <2>1. /\ UNCHANGED <<running, stray>> /\ refs' = [refs EXCEPT ![d] = @ \ {p}]
        /\ doomed[p] = {} /\ doomed'[p] = IF refs[d] \ {p} = {} THEN {d} ELSE {}
    BY <1>6 DEF DownDrop
  <2>2. \A e \in running : e # d => (Told(e)' <=> Told(e))
    BY <2>1 DEF Told
  <2>3. \A e \in running : Has(p, e) => Has(p, e)'
    BY <1>0, <2>1 DEF Has
  <2>4. Told(d)' \/ Has(p, d)'
    BY <2>1 DEF Told, Has
  <2> QED
    BY <2>1, <2>2, <2>3, <2>4
<1>7. ASSUME NEW d \in Dep, DownDropFails(p, d) PROVE Goal
  <2>1. UNCHANGED <<running, refs, stray>> /\ doomed[p] = {}
    BY <1>7 DEF DownDropFails
  <2>2. \A e \in running : Told(e)' <=> Told(e)
    BY <2>1 DEF Told
  <2>3. \A e \in running : Has(p, e) => Has(p, e)'
    BY <1>0, <2>1 DEF Has
  <2> QED
    BY <2>1, <2>2, <2>3
<1>8. ASSUME NEW d \in Dep, DownTearDown(p, d) PROVE Goal
  <2>1. UNCHANGED refs /\ running' = running \ {d} /\ stray' = stray \ {d} /\ d \in doomed[p]
    BY <1>8 DEF DownTearDown
  <2>2. \A e \in running' : Told(e)' <=> Told(e)
    BY <2>1 DEF Told
  <2>3. \A e \in running' : e \notin doomed[p]
    BY <2>1 DEF OneByOne
  <2>4. \A e \in running' : Has(p, e) => Has(p, e)'
    BY <1>0, <2>3 DEF Has
  <2> QED
    BY <2>1, <2>2, <2>4
<1>9. ASSUME NEW d \in Dep, DownTearDownFails(p, d) PROVE Goal
  <2>1. UNCHANGED <<refs, running>> /\ stray' = stray \cup {d} /\ d \in doomed[p]
    BY <1>9 DEF DownTearDownFails
  <2>2. Told(d)' /\ \A e \in running : Told(e) => Told(e)'
    BY <2>1 DEF Told
  <2>3. \A e \in running : e # d => e \notin doomed[p]
    BY <2>1 DEF OneByOne
  <2>4. \A e \in running : e # d /\ Has(p, e) => Has(p, e)'
    BY <1>0, <2>3 DEF Has
  <2> QED
    BY <2>1, <2>2, <2>4
<1>10. Goal
  BY <1>3, <1>4, <1>5, <1>6, <1>7, <1>8, <1>9 DEF Down, Told, Has
<1> QED
  BY <1>0, <1>1, <1>10, ProjectFrame

LEMMA CleanHolds ==
  ASSUME LeakInv, NEW k \in Cleaner, Clean(k)
  PROVE  OneByOne' /\ NoneForgotten'
<1> USE DEF LeakInv, TypeOK, Refs, NoRefs, upVars, downVars
<1>0. /\ UNCHANGED <<upPc, upTodo, doomed>>
      /\ \A j \in Cleaner : j # k => orphan'[j] = orphan[j]
  BY DEF Clean, CleanBegin, CleanKilled, CleanJudge, CleanDrop, CleanDropFails, CleanTearDown,
     CleanTearDownFails
<1>1. OneByOne'
  <2>1. \A d, e \in orphan'[k] : d = e
    BY DEF Clean, OneByOne, CleanBegin, CleanKilled, CleanJudge, CleanDrop, CleanDropFails,
       CleanTearDown, CleanTearDownFails
  <2> QED
    BY <1>0, <2>1 DEF OneByOne
<1> DEFINE Goal == \A d \in running' : \/ Told(d)'
                                       \/ d \in orphan'[k]
                                       \/ d \in running /\ ~Told(d) /\ d \notin orphan[k]
<1>2. ASSUME CleanBegin(k) PROVE Goal
  BY <1>2 DEF CleanBegin, Told
<1>3. ASSUME CleanKilled(k) PROVE Goal
  BY <1>3 DEF CleanKilled, Told
<1>4. ASSUME NEW d \in Dep, CleanJudge(k, d) PROVE Goal
  BY <1>4 DEF CleanJudge, Told
<1>5. ASSUME NEW d \in Dep, NEW p \in Project, CleanDrop(k, d, p) PROVE Goal
  <2>1. /\ UNCHANGED <<running, orphan>> /\ refs' = [refs EXCEPT ![d] = @ \ {p}]
        /\ stray' = IF refs'[d] = {} /\ d \notin orphan[k] THEN stray \cup {d} ELSE stray
    BY <1>5 DEF CleanDrop
  <2>2. \A e \in running : e # d => (Told(e)' <=> Told(e))
    BY <2>1 DEF Told
  <2>3. d \in running => Told(d)' \/ d \in orphan'[k]
    BY <2>1 DEF Told
  <2> QED
    BY <2>1, <2>2, <2>3
<1>6. ASSUME NEW d \in Dep, NEW p \in Project, CleanDropFails(k, d, p) PROVE Goal
  BY <1>6 DEF CleanDropFails, Told
<1>7. ASSUME NEW d \in Dep, CleanTearDown(k, d) PROVE Goal
  BY <1>7 DEF CleanTearDown, Told, OneByOne
<1>8. ASSUME NEW d \in Dep, CleanTearDownFails(k, d) PROVE Goal
  BY <1>8 DEF CleanTearDownFails, Told, OneByOne
<1>9. Goal
  BY <1>2, <1>3, <1>4, <1>5, <1>6, <1>7, <1>8 DEF Clean
<1> QED
  BY <1>0, <1>1, <1>9, CleanerFrame

LEMMA LeakInductive == Spec => []LeakInv
<1>1. Init => LeakInv
  BY InitIInv, SharedDepsAssumption DEF Init, IInv, LeakInv, OneByOne, NoneForgotten
<1>2. LeakInv /\ [Next]_vars => LeakInv'
  <2> SUFFICES ASSUME LeakInv, [Next]_vars PROVE LeakInv'
    OBVIOUS
  <2>1. TypeOK'
    BY TypeStep DEF LeakInv
  <2>2. CASE UNCHANGED vars
    BY <2>1, <2>2
    DEF LeakInv, OneByOne, NoneForgotten, Told, InHand, Has, vars, upVars, downVars, cleanVars
  <2> QED
    BY <2>1, <2>2, UpOneByOne, UpHolds, DownHolds, CleanHolds DEF Next, LeakInv
<1> QED
  BY <1>1, <1>2, PTL DEF Spec

(***************************************************************************)
(* Between commands nothing runs unreferenced but what a failure, a kill   *)
(* or `clean` left: every `down` that takes the last reference tears down, *)
(* and every `up` that started a dependency registers it.                  *)
(***************************************************************************)
THEOREM LeaksExplained == Spec => []LeakHasCause
<1>1. LeakInv => LeakHasCause
  <2> SUFFICES ASSUME LeakInv, Quiet, NEW d \in running, refs[d] = {} PROVE d \in stray
    BY DEF LeakHasCause
  <2>1. ~InHand(d)
    BY DEF Quiet, DownIdle, CleanIdle, InHand, Has
  <2> QED
    BY <2>1 DEF LeakInv, NoneForgotten, Told
<1> QED
  BY <1>1, LeakInductive, PTL

-----------------------------------------------------------------------------
(* ConfigPipeline. Induction, and what dependsOn leads to.                 *)

Less == {ss \in Nat \X Nat : ss[1] < ss[2]}

\* A non-empty set of numbers has a least one.
LEMMA Least ==
  ASSUME NEW T \in SUBSET Nat, T # {}
  PROVE  \E x \in T : \A y \in T : x <= y
<1>1. IsWellFoundedOn(Less, Nat)
  BY NatLessThanWellFounded DEF OpToRel, Less
<1>2. \E x \in T : \A y \in T : ~ (<<y, x>> \in Less)
  BY <1>1, WFMin
<1>3. PICK x \in T : \A y \in T : ~ (<<y, x>> \in Less)
  BY <1>2
<1>4. ASSUME NEW y \in T PROVE x <= y
  <2>1. x \in Nat /\ y \in Nat /\ ~ (<<y, x>> \in Less)
    BY <1>3
  <2> QED BY <2>1 DEF Less
<1> QED BY <1>4

\* Induction up to n, over the set of those it holds of.
LEMMA Climb ==
  ASSUME NEW n \in Nat, NEW G, 0 \in G, \A m \in 1..n : m - 1 \in G => m \in G
  PROVE  \A m \in 0..n : m \in G
<1> DEFINE Bad == {m \in 0..n : m \notin G}
<1>1. Bad \in SUBSET Nat
  OBVIOUS
<1>2. ASSUME Bad # {} PROVE FALSE
  <2> HIDE DEF Bad
  <2>1. PICK m \in Bad : \A y \in Bad : m <= y
    BY <1>1, <1>2, Least
  <2> USE DEF Bad
  <2>2. m \in 0..n /\ m \notin G /\ m # 0
    BY <2>1
  <2>3. m - 1 \in 0..n /\ m \in 1..n
    BY <2>2
  <2>4. m - 1 \in Bad
    BY <2>2, <2>3
  <2>5. m <= m - 1
    BY <2>1, <2>4
  <2> QED BY <2>5, <2>2
<1> QED BY <1>2

\* S with what its members name directly.
Step(d, S) == S \cup UNION {d.services[n].dependsOn : n \in S \cap DOMAIN d.services}

\* The dependencies of every service are names.
Named(d) == \A n \in DOMAIN d.services : d.services[n].dependsOn \subseteq Names

ClosedIn(d, T) == \A n \in T \cap DOMAIN d.services : d.services[n].dependsOn \subseteq T

LEMMA StepNames ==
  ASSUME NEW d, Named(d), NEW S \in SUBSET Names
  PROVE  Step(d, S) \in SUBSET Names
BY DEF Step, Named

\* h is the recursion of Reach, with n steps.
Unrolls(d, names, n, h) ==
  /\ h \in [0..n -> SUBSET Names]
  /\ Reach(d, names) = h[n]
  /\ h[0] = names
  /\ \A k \in 1..n : h[k] = Step(d, h[k - 1])

LEMMA ReachFunction ==
  ASSUME NEW d, Named(d), NEW names \in SUBSET Names
  PROVE  \E h : Unrolls(d, names, Cardinality(Names), h)
<1> DEFINE n == Cardinality(Names)
           Val(f, k) == IF k = 0 THEN names
                        ELSE f[k - 1] \cup UNION {d.services[m].dependsOn :
                                                    m \in f[k - 1] \cap DOMAIN d.services}
           Is(f, m) == f \in [0..m -> SUBSET Names] /\ \A k \in 0..m : f[k] = Val(f, k)
           Fix(f) == f = [k \in 0..n |-> Val(f, k)]
<1>0. n \in Nat
  BY NamesAssumption, FS_CardinalityType
<1>a. ASSUME NEW f, NEW k \in Nat, k # 0 PROVE Val(f, k) = Step(d, f[k - 1])
  BY <1>a DEF Step
<1>1. \E f : Is(f, n)
  <2> DEFINE G == {m \in 0..n : \E f : Is(f, m)}
  <2>1. 0 \in G
    <3>1. Is([k \in 0..0 |-> names], 0)
      OBVIOUS
    <3> HIDE DEF Is
    <3> QED BY <3>1, <1>0
  <2>2. ASSUME NEW m \in 1..n, m - 1 \in G PROVE m \in G
    <3>1. PICK f : Is(f, m - 1)
      BY <2>2
    <3> DEFINE g == [k \in 0..m |-> IF k < m THEN f[k] ELSE Val(f, m)]
    <3>2. m \in Nat /\ m # 0 /\ m - 1 \in 0..m - 1 /\ m \in 0..n
      BY <1>0
    <3>3. Val(f, m) \in SUBSET Names
      <4>1. f[m - 1] \in SUBSET Names
        BY <3>1, <3>2
      <4>2. Val(f, m) = Step(d, f[m - 1])
        BY <1>a, <3>2
      <4> QED BY <4>1, <4>2, StepNames
    <3> HIDE DEF Val
    <3>4. g \in [0..m -> SUBSET Names]
      BY <3>1, <3>2, <3>3
    <3>5. ASSUME NEW k \in 0..m PROVE g[k] = Val(g, k)
      <4>1. CASE k = m
        <5>1. g[m - 1] = f[m - 1] /\ g[m] = Val(f, m)
          BY <3>2
        <5>2. Val(g, m) = Val(f, m)
          BY <5>1, <3>2 DEF Val
        <5> QED BY <5>1, <5>2, <4>1
      <4>2. CASE k # m
        <5>1. k \in 0..m - 1 /\ k < m
          BY <4>2, <3>2
        <5>2. g[k] = f[k] /\ f[k] = Val(f, k)
          BY <5>1, <3>1
        <5>3. k # 0 => g[k - 1] = f[k - 1]
          BY <5>1, <3>2
        <5>4. Val(g, k) = Val(f, k)
          BY <5>3 DEF Val
        <5> QED BY <5>2, <5>4
      <4> QED BY <4>1, <4>2
    <3>6. Is(g, m)
      BY <3>4, <3>5
    <3> HIDE DEF Is
    <3> QED BY <3>2, <3>6
  <2> HIDE DEF G, n
  <2>3. \A m \in 0..n : m \in G
    BY <2>1, <2>2, <1>0, Climb
  <2>4. n \in G
    BY <2>3, <1>0
  <2> QED BY <2>4 DEF G
<1>2. \E f : Fix(f)
  <2> HIDE DEF Val
  <2>1. PICK f : Is(f, n)
    BY <1>1
  <2>2. f = [k \in 0..n |-> f[k]]
    BY <2>1
  <2>3. \A k \in 0..n : f[k] = Val(f, k)
    BY <2>1
  <2>4. Fix(f)
    BY <2>2, <2>3
  <2> QED BY <2>4
<1> DEFINE h == CHOOSE f : Fix(f)
<1>3. Fix(h)
  <2> HIDE DEF Fix
  <2> QED BY <1>2
<1>4. Reach(d, names) = h[n]
  BY DEF Reach
<1> HIDE DEF h, Val
<1>5. \A m \in 0..n : h[m] = Val(h, m)
  BY <1>3
<1>6. h[0] = names
  <2>1. Val(h, 0) = names
    BY DEF Val
  <2>2. 0 \in 0..n
    BY <1>0
  <2> QED BY <1>5, <2>1, <2>2
<1>7. ASSUME NEW k \in 1..n PROVE h[k] = Step(d, h[k - 1])
  <2>1. k \in Nat /\ k # 0 /\ k \in 0..n
    BY <1>0
  <2> QED BY <2>1, <1>5, <1>a
<1>8. h \in [0..n -> SUBSET Names]
  <2> DEFINE G == {m \in 0..n : h[m] \in SUBSET Names}
  <2>1. 0 \in G
    BY <1>6, <1>0
  <2>2. ASSUME NEW m \in 1..n, m - 1 \in G PROVE m \in G
    <3>1. h[m] = Step(d, h[m - 1]) /\ h[m - 1] \in SUBSET Names /\ m \in 0..n
      BY <1>7, <2>2, <1>0
    <3>2. h[m] \in SUBSET Names
      BY <3>1, StepNames
    <3> QED BY <3>1, <3>2
  <2> HIDE DEF G, n
  <2>3. \A m \in 0..n : m \in G
    BY <2>1, <2>2, <1>0, Climb
  <2> USE DEF G
  <2>4. h = [k \in 0..n |-> h[k]]
    <3>1. DOMAIN h = 0..n /\ h = [k \in 0..n |-> Val(h, k)]
      BY <1>3
    <3> QED BY <3>1
  <2> QED BY <2>3, <2>4
<1>9. Unrolls(d, names, n, h)
  <2> HIDE DEF n
  <2> QED BY <1>4, <1>6, <1>7, <1>8 DEF Unrolls
<1> QED BY <1>9

\* Reach is the least set around `names` that is closed under dependsOn.
LEMMA ReachIs ==
  ASSUME NEW d, Named(d), NEW names \in SUBSET Names
  PROVE  /\ names \subseteq Reach(d, names) /\ Reach(d, names) \subseteq Names
         /\ ClosedIn(d, Reach(d, names))
         /\ \A T : names \subseteq T /\ ClosedIn(d, T) => Reach(d, names) \subseteq T
<1> DEFINE n == Cardinality(Names)
<1>0. n \in Nat /\ IsFiniteSet(Names)
  BY NamesAssumption, FS_CardinalityType
<1>b. PICK h : Unrolls(d, names, n, h)
  BY ReachFunction
<1> HIDE DEF n
<1>1. /\ h \in [0..n -> SUBSET Names]
      /\ Reach(d, names) = h[n]
      /\ h[0] = names
      /\ \A k \in 1..n : h[k] = Step(d, h[k - 1])
  BY <1>b DEF Unrolls
<1>a. ASSUME NEW k \in 1..n
      PROVE  k \in 0..n /\ k - 1 \in 0..n /\ h[k] = Step(d, h[k - 1]) /\ h[k - 1] \subseteq Names
  BY <1>0, <1>1
<1>2. names \subseteq h[n]
  <2> DEFINE G == {k \in 0..n : names \subseteq h[k]}
  <2>1. 0 \in G
    BY <1>1, <1>0
  <2>2. ASSUME NEW m \in 1..n, m - 1 \in G PROVE m \in G
    BY <1>a, <2>2 DEF Step
  <2> HIDE DEF G
  <2>3. \A m \in 0..n : m \in G
    BY <2>1, <2>2, <1>0, Climb
  <2> QED BY <2>3, <1>0 DEF G
<1>3. h[n] \subseteq Names
  BY <1>0, <1>1
<1>4. ASSUME NEW T, names \subseteq T, ClosedIn(d, T) PROVE h[n] \subseteq T
  <2> DEFINE G == {k \in 0..n : h[k] \subseteq T}
  <2>1. 0 \in G
    BY <1>1, <1>0, <1>4
  <2>2. ASSUME NEW m \in 1..n, m - 1 \in G PROVE m \in G
    <3>1. h[m - 1] \subseteq T /\ h[m] = Step(d, h[m - 1]) /\ m \in 0..n
      BY <2>2, <1>a
    <3> QED BY <3>1, <1>4 DEF Step, ClosedIn
  <2> HIDE DEF G
  <2>3. \A m \in 0..n : m \in G
    BY <2>1, <2>2, <1>0, Climb
  <2> QED BY <2>3, <1>0 DEF G
\* A set that grows in every step is all of Names in the end.
<1>5. Step(d, h[n]) = h[n]
  <2> DEFINE G == {k \in 0..n : Step(d, h[k]) = h[k] \/ Cardinality(h[k]) >= k}
  <2>0. ASSUME NEW k \in 0..n
        PROVE  IsFiniteSet(h[k]) /\ Cardinality(h[k]) \in Nat /\ Cardinality(h[k]) <= n
    <3>1. h[k] \in SUBSET Names
      BY <1>1
    <3> QED BY <3>1, <1>0, FS_Subset, FS_CardinalityType DEF n
  <2>1. 0 \in G
    BY <2>0, <1>0
  <2>2. ASSUME NEW m \in 1..n, m - 1 \in G PROVE m \in G
    <3>1. CASE Step(d, h[m - 1]) = h[m - 1]
      BY <3>1, <1>a
    <3>2. CASE Step(d, h[m - 1]) # h[m - 1]
      <4>1. m \in 0..n /\ m - 1 \in 0..n /\ h[m] = Step(d, h[m - 1]) /\ m \in Nat
        BY <1>a, <1>0
      <4>2. Cardinality(h[m - 1]) >= m - 1
        BY <2>2, <3>2
      <4>3. h[m - 1] \in SUBSET h[m] /\ h[m - 1] # h[m]
        BY <4>1, <3>2 DEF Step
      <4>4. Cardinality(h[m - 1]) <= Cardinality(h[m]) /\ Cardinality(h[m - 1]) # Cardinality(h[m])
        BY <4>1, <4>3, <2>0, FS_Subset
      <4>5. Cardinality(h[m]) \in Nat /\ Cardinality(h[m - 1]) \in Nat
        BY <4>1, <2>0
      <4>6. Cardinality(h[m]) >= m
        BY <4>1, <4>2, <4>4, <4>5
      <4> QED BY <4>1, <4>6
    <3> QED BY <3>1, <3>2
  <2> HIDE DEF G
  <2>3. \A m \in 0..n : m \in G
    BY <2>1, <2>2, <1>0, Climb
  <2>4. n \in 0..n /\ (Step(d, h[n]) = h[n] \/ Cardinality(h[n]) >= n)
    BY <2>3, <1>0 DEF G
  <2>5. CASE Cardinality(h[n]) >= n
    <3>1. Cardinality(h[n]) = n
      BY <2>0, <2>4, <2>5, <1>0
    <3>2. h[n] \in SUBSET Names
      BY <1>3
    <3>3. h[n] = Names
      BY <3>1, <3>2, <1>0, FS_Subset DEF n
    <3>4. Step(d, Names) \subseteq Names
      BY StepNames
    <3>5. Names \subseteq Step(d, Names)
      BY DEF Step
    <3> QED BY <3>3, <3>4, <3>5
  <2> QED BY <2>4, <2>5
<1>6. ClosedIn(d, h[n])
  BY <1>5 DEF Step, ClosedIn
<1> QED BY <1>1, <1>2, <1>3, <1>4, <1>6

LEMMA ReachGrows ==
  ASSUME NEW d, Named(d), NEW T \in SUBSET Names, NEW S \in SUBSET Reach(d, T)
  PROVE  Reach(d, S) \subseteq Reach(d, T)
<1>1. Reach(d, T) \subseteq Names /\ ClosedIn(d, Reach(d, T))
  BY ReachIs
<1>2. S \in SUBSET Names
  BY <1>1
<1> QED BY <1>1, <1>2, ReachIs

\* Where two configurations agree, so does what is reached.
LEMMA ReachSame ==
  ASSUME NEW d, Named(d), NEW e, Named(e), NEW T, ClosedIn(d, T), NEW S \in SUBSET Names,
         S \subseteq T, T \cap DOMAIN d.services = T \cap DOMAIN e.services,
         \A n \in T \cap DOMAIN d.services : e.services[n].dependsOn = d.services[n].dependsOn
  PROVE  Reach(e, S) = Reach(d, S)
<1>1. Reach(d, S) \subseteq T /\ S \subseteq Reach(d, S) /\ ClosedIn(d, Reach(d, S))
  BY ReachIs
<1>2. ClosedIn(e, Reach(d, S))
  BY <1>1 DEF ClosedIn
<1>3. Reach(e, S) \subseteq Reach(d, S)
  BY <1>1, <1>2, ReachIs
<1>4. S \subseteq Reach(e, S) /\ ClosedIn(e, Reach(e, S))
  BY ReachIs
<1>5. ClosedIn(d, Reach(e, S))
  BY <1>1, <1>3, <1>4 DEF ClosedIn
<1>6. Reach(d, S) \subseteq Reach(e, S)
  BY <1>4, <1>5, ReachIs
<1> QED BY <1>3, <1>6

\* Services none of which can go before all the others lead to a cycle: follow
\* one to where what it leads to of them is least.
LEMMA CycleBehind ==
  ASSUME NEW d, Named(d), DOMAIN d.services \subseteq Names,
         NEW U \in SUBSET DOMAIN d.services,
         \A u \in U : d.services[u].dependsOn \cap U # {},
         NEW n \in U
  PROVE  Reach(d, {n}) \cap OnCycle(d) # {}
<1> DEFINE Size(u) == Cardinality(Reach(d, {u}) \cap U)
           Sizes == {Size(u) : u \in Reach(d, {n}) \cap U}
<1>1. ASSUME NEW u \in U
      PROVE  /\ {u} \in SUBSET Names
             /\ u \in Reach(d, {u}) /\ Reach(d, {u}) \subseteq Names
             /\ ClosedIn(d, Reach(d, {u}))
             /\ IsFiniteSet(Reach(d, {u}) \cap U) /\ Size(u) \in Nat
  <2>1. {u} \in SUBSET Names
    OBVIOUS
  <2>2. u \in Reach(d, {u}) /\ Reach(d, {u}) \subseteq Names /\ ClosedIn(d, Reach(d, {u}))
    BY <2>1, ReachIs
  <2>3. Reach(d, {u}) \cap U \in SUBSET Names
    BY <2>2
  <2>4. IsFiniteSet(Reach(d, {u}) \cap U) /\ Size(u) \in Nat
    BY <2>3, NamesAssumption, FS_Subset, FS_CardinalityType
  <2> QED BY <2>1, <2>2, <2>4
<1> HIDE DEF Size
<1>2. Sizes \in SUBSET Nat /\ Sizes # {}
  <2>1. n \in Reach(d, {n}) \cap U
    BY <1>1
  <2> QED BY <2>1, <1>1
<1>3. PICK s \in Sizes : \A t \in Sizes : s <= t
  <2> HIDE DEF Sizes
  <2> QED BY <1>2, Least
<1>4. PICK c \in Reach(d, {n}) \cap U : s = Size(c)
  BY <1>3
<1>5. PICK v \in U : v \in d.services[c].dependsOn
  BY <1>4
<1>6. d.services[c].dependsOn \in SUBSET Reach(d, {c}) /\ v \in Reach(d, {c})
  BY <1>1, <1>4, <1>5 DEF ClosedIn
<1>7. v \in Reach(d, {n})
  BY <1>1, <1>4, <1>5 DEF ClosedIn
<1>8. Size(c) <= Size(v)
  BY <1>3, <1>4, <1>7
<1>9. Reach(d, {v}) \subseteq Reach(d, {c})
  <2>1. {v} \in SUBSET Reach(d, {c}) /\ {c} \in SUBSET Names
    BY <1>6, <1>1, <1>4
  <2> QED BY <2>1, ReachGrows
<1>10. Reach(d, {v}) \cap U = Reach(d, {c}) \cap U
  <2>1. Reach(d, {v}) \cap U \in SUBSET (Reach(d, {c}) \cap U)
    BY <1>9
  <2>2. Size(v) <= Size(c) /\ Size(v) \in Nat /\ Size(c) \in Nat
        /\ IsFiniteSet(Reach(d, {c}) \cap U)
    BY <2>1, <1>1, <1>4, FS_Subset DEF Size
  <2>3. Size(v) = Size(c)
    BY <2>2, <1>8
  <2> QED BY <2>1, <2>2, <2>3, FS_Subset DEF Size
<1>11. c \in Reach(d, {v})
  BY <1>10, <1>1, <1>4
<1>12. Reach(d, {v}) \subseteq Reach(d, d.services[c].dependsOn)
  <2>1. d.services[c].dependsOn \in SUBSET Names
    BY <1>6, <1>1, <1>4
  <2>2. {v} \in SUBSET Reach(d, d.services[c].dependsOn)
    BY <2>1, <1>5, ReachIs
  <2> QED BY <2>1, <2>2, ReachGrows
<1>13. c \in OnCycle(d)
  BY <1>4, <1>11, <1>12 DEF OnCycle
<1> QED BY <1>4, <1>13

\* Every cycle has something an answer brought in behind it.
CyclesExcused(d, R) == \A c \in OnCycle(d) : Reach(d, {c}) \cap R # {}

\* New definitions bring no cycle in but through themselves.
LEMMA CyclesStayExcused ==
  ASSUME NEW d, Named(d), DOMAIN d.services \subseteq Names,
         NEW e, Named(e), DOMAIN e.services \subseteq Names,
         NEW R, NEW N, CyclesExcused(d, R),
         DOMAIN e.services \ N = DOMAIN d.services \ N,
         \A n \in DOMAIN d.services \ N : e.services[n].dependsOn = d.services[n].dependsOn
  PROVE  CyclesExcused(e, R \cup N)
<1> SUFFICES ASSUME NEW c \in OnCycle(e), Reach(e, {c}) \cap (R \cup N) = {}
             PROVE  FALSE
  BY DEF CyclesExcused
<1> DEFINE T == Reach(e, {c})
<1>1. c \in DOMAIN e.services /\ c \in Reach(e, e.services[c].dependsOn) /\ {c} \in SUBSET Names
  BY DEF OnCycle
<1>2. c \in T /\ T \subseteq Names /\ ClosedIn(e, T)
  BY <1>1, ReachIs
<1> HIDE DEF T
<1>3. T \cap N = {} /\ T \cap R = {}
  BY DEF T
<1>4. /\ T \cap DOMAIN e.services = T \cap DOMAIN d.services
      /\ \A n \in T \cap DOMAIN e.services : d.services[n].dependsOn = e.services[n].dependsOn
  BY <1>3
<1>5. Reach(d, {c}) = T
  <2>1. {c} \subseteq T
    BY <1>2
  <2>2. Reach(d, {c}) = Reach(e, {c})
    BY <1>1, <1>2, <1>4, <2>1, ReachSame
  <2> QED BY <2>2 DEF T
<1>6. e.services[c].dependsOn \in SUBSET Names /\ e.services[c].dependsOn \subseteq T
  BY <1>1, <1>2 DEF ClosedIn
<1>7. Reach(d, e.services[c].dependsOn) = Reach(e, e.services[c].dependsOn)
  BY <1>2, <1>4, <1>6, ReachSame
<1>8. c \in OnCycle(d)
  BY <1>1, <1>2, <1>4, <1>7 DEF OnCycle
<1> QED BY <1>3, <1>5, <1>8 DEF CyclesExcused

-----------------------------------------------------------------------------
(* ConfigPipeline. What a configuration is made of, and what is selected.  *)

Fields == {"project", "workspace", "network", "proxy", "preHook", "preUpHook", "postHook",
           "services", "infra"}

IsDeps(d) ==
  /\ DOMAIN d = Fields
  /\ DOMAIN d.services \subseteq Names /\ DOMAIN d.infra \subseteq Names
  /\ Named(d)

Rest(d) == [x \in DOMAIN d \ {"services", "infra"} |-> d[x]]

LEMMA BridgeIs ==
  ASSUME NEW f
  PROVE  LET d == YAMLToDeps(f) IN
         /\ DOMAIN d = Fields /\ d.project = f.project
         /\ DOMAIN d.services = DOMAIN f.services /\ DOMAIN d.infra = DOMAIN f.deps
         /\ \A n \in DOMAIN f.services : d.services[n] = yamlServiceToService(f, f.services[n])
         /\ \A n \in DOMAIN f.deps : d.infra[n] = yamlDependencyToInfra(f, f.deps[n])
         /\ d.proxy = IF f.proxy.enabled
                        THEN [f.proxy EXCEPT !.resources = OrDefault(@, f.resources)]
                        ELSE NoProxy
BY DEF YAMLToDeps, Fields

LEMMA ServiceOfFile ==
  ASSUME NEW f, NEW s
  PROVE  yamlServiceToService(f, s).dependsOn = s.dependsOn
BY DEF yamlServiceToService

LEMMA ServiceRepo ==
  ASSUME NEW f, NEW s
  PROVE  yamlServiceToService(f, s).repo = s.git
BY DEF yamlServiceToService

LEMMA ServiceAuth ==
  ASSUME NEW f, NEW s
  PROVE  yamlServiceToService(f, s).auth = IF s.git # "" THEN s.auth ELSE ""
BY DEF yamlServiceToService

LEMMA ServiceKind ==
  ASSUME NEW f, NEW s
  PROVE  yamlServiceToService(f, s).kind = IF s.git # "" THEN "git" ELSE "local"
BY DEF yamlServiceToService

LEMMA DependencyOfFile ==
  ASSUME NEW f, NEW d
  PROVE  /\ yamlDependencyToInfra(f, d).image = d.image
         /\ yamlDependencyToInfra(f, d).compose = d.compose
         /\ yamlDependencyToInfra(f, d).project = d.project
BY DEF yamlDependencyToInfra

LEMMA ServiceNames ==
  ASSUME NEW s \in YAMLService
  PROVE  s.dependsOn \subseteq Names
BY DEF YAMLService

LEMMA BuiltDeps ==
  ASSUME NEW t, NEW n, NEW s, s = buildServiceFromDetection(t, n)
  PROVE  s.dependsOn = LinksFrom(t, n)
BY DEF buildServiceFromDetection

LEMMA BuiltIs ==
  ASSUME NEW t, NEW n, NEW s, s = buildServiceFromDetection(t, n)
  PROVE  /\ s.path = "inside" /\ s.git = ""
         /\ s.profiles = "none" /\ s.auth = "" /\ s.resources = "none" /\ s.runtime = ""
         /\ s.env = "" /\ s.compose = "" /\ s.command = "" /\ s.stop = ""
BY DEF buildServiceFromDetection

LEMMA AutoServiceIs ==
  ASSUME NEW t, NEW n, NEW s, s = autoService(t, n)
  PROVE  s.dependsOn = LinksFrom(t, n) /\ s.git = "" /\ s.profiles = "none"
<1> DEFINE r == IF ScannedDir(t, n) = t.root THEN "plain" ELSE buildServiceFromDetection(t, n).rest
<1>1. s = [buildServiceFromDetection(t, n) EXCEPT !.ports = FALSE, !.rest = r]
  BY DEF autoService
<1> HIDE DEF r
<1> QED BY <1>1 DEF buildServiceFromDetection

LEMMA FileIsDeps ==
  ASSUME NEW f, IsRaiozConfig(f)
  PROVE  IsDeps(YAMLToDeps(f))
<1> DEFINE d == YAMLToDeps(f)
<1>1. Range(f.services) \subseteq YAMLService
      /\ DOMAIN f.services \subseteq Names /\ DOMAIN f.deps \subseteq Names
  BY DEF IsRaiozConfig
<1>2. /\ DOMAIN d = Fields
      /\ DOMAIN d.services = DOMAIN f.services /\ DOMAIN d.infra = DOMAIN f.deps
      /\ \A n \in DOMAIN f.services : d.services[n] = yamlServiceToService(f, f.services[n])
  BY BridgeIs
<1> HIDE DEF d
<1>3. ASSUME NEW n \in DOMAIN d.services PROVE d.services[n].dependsOn \subseteq Names
  <2>1. f.services[n] \in YAMLService
    BY <1>1, <1>2 DEF Range
  <2>2. f.services[n].dependsOn \subseteq Names
    BY <2>1, ServiceNames
  <2> QED BY <1>2, <2>2, ServiceOfFile
<1>4. IsDeps(d)
  BY <1>1, <1>2, <1>3 DEF IsDeps, Named
<1> QED BY <1>4 DEF d

LEMMA ScannedIs ==
  ASSUME NEW t
  PROVE  /\ DOMAIN InitScan(t).services = ScannedServices(t)
         /\ \A n \in ScannedServices(t) :
              InitScan(t).services[n] = buildServiceFromDetection(t, n)
         /\ InitScan(t).deps = scanRootCompose(t) /\ InitScan(t).project = t.name
         /\ InitScan(t).proxy.enabled = FALSE
BY DEF InitScan

LEMMA AutoIs ==
  ASSUME NEW t
  PROVE  /\ AutoFile(t).project = t.name /\ AutoFile(t).proxy.enabled = FALSE
         /\ DOMAIN AutoFile(t).services = ScannedServices(t)
         /\ DOMAIN AutoFile(t).deps = InferDepsFromEnv(t).deps
         /\ \A n \in InferDepsFromEnv(t).deps :
              AutoFile(t).deps[n] = scannedDependency(KnownImage(n))
         /\ \A n \in ScannedServices(t) : AutoFile(t).services[n] = autoService(t, n)
BY DEF AutoFile, InitScan

LEMMA ConfigurationIsDeps ==
  ASSUME in \in Inputs
  PROVE  IsDeps(Configuration) /\ IsDeps(YAMLToDeps(File)) /\ IsRaiozConfig(File)
<1> DEFINE t == in.tree
<1>1. IsRaiozConfig(in.file) /\ IsRaiozConfig(InitScan(t))
  BY InputsAssumption
<1>2. IsRaiozConfig(File) /\ IsDeps(YAMLToDeps(File))
  BY <1>1, FileIsDeps DEF File
<1>3. IsDeps(AutoDetect(t))
  <2> DEFINE f == AutoFile(t)
             d == AutoDetect(t)
  <2>1. Range(InitScan(t).services) \subseteq YAMLService
        /\ DOMAIN InitScan(t).services \subseteq Names /\ DOMAIN InitScan(t).deps \subseteq Names
    BY <1>1 DEF IsRaiozConfig
  <2>2. InferDepsFromEnv(t).deps \subseteq Names
    BY <2>1 DEF InitScan, scanRootCompose
  <2> HIDE DEF t
  <2>3. d = YAMLToDeps(f) /\ DOMAIN f.services = ScannedServices(t)
        /\ DOMAIN f.deps = InferDepsFromEnv(t).deps
        /\ \A n \in ScannedServices(t) : f.services[n].dependsOn = LinksFrom(t, n)
    <3>1. \A n \in ScannedServices(t) : f.services[n] = autoService(t, n)
      BY AutoIs
    <3>2. d = YAMLToDeps(f)
      BY DEF AutoDetect
    <3>3. DOMAIN f.services = ScannedServices(t) /\ DOMAIN f.deps = InferDepsFromEnv(t).deps
      BY AutoIs
    <3> HIDE DEF f, d
    <3>4. \A n \in ScannedServices(t) : f.services[n].dependsOn = LinksFrom(t, n)
      BY <3>1, AutoServiceIs
    <3> QED BY <3>2, <3>3, <3>4
  <2> HIDE DEF f, d
  <2>4. /\ DOMAIN d = Fields /\ DOMAIN d.services = ScannedServices(t)
        /\ DOMAIN d.infra = InferDepsFromEnv(t).deps
        /\ \A n \in ScannedServices(t) : d.services[n] = yamlServiceToService(f, f.services[n])
    BY <2>3, BridgeIs
  <2>5. ASSUME NEW n \in ScannedServices(t) PROVE d.services[n].dependsOn \subseteq Names
    <3>1. InitScan(t).services[n] \in YAMLService
          /\ InitScan(t).services[n] = buildServiceFromDetection(t, n)
      BY <2>1, ScannedIs DEF Range
    <3>2. LinksFrom(t, n) \subseteq Names
      BY <3>1, ServiceNames, BuiltDeps
    <3>3. d.services[n].dependsOn = LinksFrom(t, n)
      BY <2>3, <2>4, ServiceOfFile
    <3> QED BY <3>2, <3>3
  <2>6. ScannedServices(t) \subseteq Names
    BY <2>1, ScannedIs
  <2>7. IsDeps(d)
    BY <2>2, <2>4, <2>5, <2>6 DEF IsDeps, Named
  <2> QED BY <2>7 DEF d
<1> QED BY <1>2, <1>3 DEF Configuration

\* What the filters let through of a configuration: the services that are not
\* ignored and the dependencies, of both those --only leads to.
Led(d, n) ==
  in.only # {} => n \in Reach(FilterIgnoredServices(d, ForProject(d.project)), in.only)

LEMMA IgnoredIs ==
  ASSUME NEW d, IsDeps(d), NEW i
  PROVE  LET e == FilterIgnoredServices(d, i) IN
         /\ IsDeps(e) /\ Rest(e) = Rest(d) /\ e.project = d.project
         /\ e.services = Restrict(d.services, DOMAIN d.services \ i) /\ e.infra = d.infra
<1> DEFINE e == FilterIgnoredServices(d, i)
<1>1. DOMAIN d = Fields
  BY DEF IsDeps
<1>2. DOMAIN e = Fields /\ Rest(e) = Rest(d)
  BY <1>1 DEF FilterIgnoredServices, Fields, Rest
<1>3. /\ e.services = Restrict(d.services, DOMAIN d.services \ i) /\ e.infra = d.infra
      /\ e.project = d.project
  BY DEF FilterIgnoredServices
<1> HIDE DEF e
<1>4. IsDeps(e)
  BY <1>2, <1>3 DEF IsDeps, Named, Restrict
<1> QED BY <1>2, <1>3, <1>4 DEF e

LEMMA ByServicesIs ==
  ASSUME NEW d, IsDeps(d), NEW names
  PROVE  LET e == FilterByServices(d, names) IN
         /\ IsDeps(e) /\ Rest(e) = Rest(d)
         /\ e.services = Restrict(d.services, names \cap DOMAIN d.services)
         /\ e.infra = Restrict(d.infra, names \cap DOMAIN d.infra)
<1> DEFINE e == FilterByServices(d, names)
           svcs == Restrict(d.services, names \cap DOMAIN d.services)
           infra == Restrict(d.infra, names \cap DOMAIN d.infra)
<1>1. DOMAIN d = Fields
  BY DEF IsDeps
<1>2. e = [d EXCEPT !.services = svcs, !.infra = infra]
  BY DEF FilterByServices
<1> HIDE DEF e, svcs, infra
<1>3. DOMAIN e = Fields /\ Rest(e) = Rest(d)
  BY <1>1, <1>2 DEF Fields, Rest
<1>4. e.services = svcs /\ e.infra = infra
  BY <1>1, <1>2 DEF Fields
<1>5. IsDeps(e)
  BY <1>3, <1>4 DEF IsDeps, Named, Restrict, svcs, infra
<1> QED BY <1>3, <1>4, <1>5 DEF e, svcs, infra

LEMMA FilteredIs ==
  ASSUME NEW d, IsDeps(d)
  PROVE  LET e == Filtered(d) IN
         /\ IsDeps(e) /\ Rest(e) = Rest(d)
         /\ DOMAIN e.services = {n \in NotIgnored(d) : Led(d, n)}
         /\ DOMAIN e.infra = {n \in DOMAIN d.infra : Led(d, n)}
         /\ \A n \in DOMAIN e.services : e.services[n] = d.services[n]
         /\ \A n \in DOMAIN e.infra : e.infra[n] = d.infra[n]
<1> DEFINE i == FilterIgnoredServices(d, ForProject(d.project))
           e == Filtered(d)
           R == Reach(i, in.only)
           svcs == DOMAIN d.services \ ForProject(d.project)
<1>1. /\ IsDeps(i) /\ Rest(i) = Rest(d)
      /\ i.services = Restrict(d.services, svcs) /\ i.infra = d.infra
  BY IgnoredIs
<1>2. e = IF in.only = {} THEN i ELSE FilterByServices(i, R)
  BY DEF Filtered, ResolveDependencies
<1>3. \A n : Led(d, n) = (in.only # {} => n \in R)
  BY DEF Led
<1>4. svcs = NotIgnored(d)
  BY DEF NotIgnored
<1> HIDE DEF i, e, R, svcs
<1>5. CASE in.only = {}
  BY <1>1, <1>2, <1>3, <1>4, <1>5 DEF Restrict, e
<1>6. CASE in.only # {}
  <2>1. /\ IsDeps(e) /\ Rest(e) = Rest(i)
        /\ e.services = Restrict(i.services, R \cap DOMAIN i.services)
        /\ e.infra = Restrict(i.infra, R \cap DOMAIN i.infra)
    BY <1>1, <1>2, <1>6, ByServicesIs
  <2>2. DOMAIN i.services = svcs /\ \A n \in svcs : i.services[n] = d.services[n]
    BY <1>1 DEF Restrict
  <2>3. DOMAIN e.services = R \cap svcs /\ DOMAIN e.infra = R \cap DOMAIN d.infra
    BY <1>1, <2>1, <2>2 DEF Restrict
  <2>4. /\ \A n \in DOMAIN e.services : e.services[n] = d.services[n]
        /\ \A n \in DOMAIN e.infra : e.infra[n] = d.infra[n]
    BY <1>1, <2>1, <2>2, <2>3 DEF Restrict
  <2> QED BY <1>1, <1>3, <1>4, <1>6, <2>1, <2>3, <2>4 DEF e
<1> QED BY <1>5, <1>6

\* The names --only may hold are there.
LEMMA OnlyIs ==
  ASSUME NEW d, IsDeps(d), FiltersAccept(d)
  PROVE  in.only \subseteq NotIgnored(d) \cup DOMAIN d.infra /\ in.only \in SUBSET Names
BY DEF FiltersAccept, NotIgnored, IsDeps

\* What is led to is what Selection says: the least set.
LEMMA SelectionIs ==
  ASSUME NEW d, IsDeps(d), FiltersAccept(d)
  PROVE  Selection(d) = {n \in NotIgnored(d) \cup DOMAIN d.infra : Led(d, n)}
<1> DEFINE svcs == NotIgnored(d)
           all == svcs \cup DOMAIN d.infra
           i == FilterIgnoredServices(d, ForProject(d.project))
           R == Reach(i, in.only)
           Closed(S) == \A n \in S \cap svcs : d.services[n].dependsOn \cap all \subseteq S
<1>1. CASE in.only = {}
  BY <1>1 DEF Selection, Led
<1>2. CASE in.only # {}
  <2>1. Selection(d) = {n \in all : \A S \in SUBSET all : in.only \subseteq S /\ Closed(S) => n \in S}
    BY <1>2 DEF Selection
  <2>2. \A n : Led(d, n) = (n \in R)
    BY <1>2 DEF Led
  <2>3. IsDeps(i) /\ i.services = Restrict(d.services, svcs)
    BY IgnoredIs DEF NotIgnored
  <2>4. in.only \subseteq all /\ in.only \in SUBSET Names
    BY OnlyIs
  <2>5. Named(i)
    BY <2>3 DEF IsDeps
  <2> HIDE DEF i
  <2>6. /\ in.only \subseteq R /\ R \subseteq Names
        /\ ClosedIn(i, R)
        /\ \A T : in.only \subseteq T /\ ClosedIn(i, T) => R \subseteq T
    BY <2>4, <2>5, ReachIs
  <2> HIDE DEF R, svcs
  <2>7. DOMAIN i.services = svcs /\ \A n \in svcs : i.services[n] = d.services[n]
    BY <2>3 DEF Restrict
  <2>8. ASSUME NEW n \in all, n \in R, NEW S \in SUBSET all, in.only \subseteq S, Closed(S)
        PROVE  n \in S
    <3> DEFINE T == S \cup (Names \ all)
    <3>1. ClosedIn(i, T)
      BY <2>5, <2>7, <2>8 DEF ClosedIn, Named
    <3>2. R \subseteq T
      BY <2>6, <2>8, <3>1
    <3> QED BY <2>8, <3>2
  <2>9. Closed(R \cap all)
    BY <2>6, <2>7 DEF ClosedIn
  <2>10. ASSUME NEW n \in all,
                \A S \in SUBSET all : in.only \subseteq S /\ Closed(S) => n \in S
         PROVE  n \in R
    BY <2>10, <2>9, <2>6, <2>4
  <2> HIDE DEF Closed, all
  <2>11. Selection(d) = {n \in all : n \in R}
    BY <2>1, <2>8, <2>10
  <2> QED BY <2>2, <2>11 DEF all, svcs
<1> QED BY <1>1, <1>2

-----------------------------------------------------------------------------
(* ConfigPipeline. The invariants.                                         *)

Plan == Filtered(Configuration)

Loaded == in.way # "auto" => LoadDepsFromYAML(File)

\* deps is the plan but for what an answer brought in.
KeepsPlan ==
  /\ IsDeps(deps) /\ FiltersAccept(Configuration) /\ Loaded
  /\ DOMAIN deps.services \ rewritten = DOMAIN Plan.services \ rewritten
  /\ \A n \in DOMAIN deps.services \ rewritten : deps.services[n] = Plan.services[n]
  /\ deps.infra = Plan.infra /\ Rest(deps) = Rest(Plan)

Planned == {"audit", "validate", "conflicts", "assist", "env", "order", "start", "done"}

\* What deps is in every phase.
PlanInv ==
  /\ in \in Inputs
  /\ rewritten \subseteq DOMAIN deps.services
  /\ \/ pc \in {"scan", "load", "refused"} /\ deps = NoDeps
     \/ pc \in {"filter", "refused"} /\ deps = Configuration /\ Loaded
     \/ pc \in Planned \cup {"killed", "refused"} /\ KeepsPlan
  /\ pc \in {"scan", "load", "filter", "audit", "validate", "conflicts"} => rewritten = {}
  /\ pc = "scan" => in.way # "file"
  /\ pc = "load" => in.way # "auto"

\* Cycles there were none after validation, but for those of an answer.
CycleInv ==
  pc \in {"conflicts", "assist", "env", "order", "start", "done"} => CyclesExcused(deps, rewritten)

Distinct(s) == \A i, j \in DOMAIN s : s[i] = s[j] => i = j

\* Kahn's queue holds services whose dependencies are started, and once it is
\* filled every such service that is not started itself.
OrderInv ==
  /\ queue \in Seq(DOMAIN deps.services) /\ started \in Seq(DOMAIN deps.services)
  /\ Distinct(queue) /\ Distinct(started) /\ Range(queue) \cap Range(started) = {}
  /\ \A n \in Range(queue) : ServiceDeps(n) \subseteq Range(started)
  /\ \A i \in DOMAIN started :
       ServiceDeps(started[i]) \subseteq {started[j] : j \in 1..(i - 1)}
  /\ pc \notin {"start", "done"} => queue = <<>> /\ started = <<>>
  /\ pc = "done" => queue = <<>>
  /\ pc \in {"start", "done"} =>
       \A n \in DOMAIN deps.services :
         ServiceDeps(n) \subseteq Range(started) => n \in Range(queue) \cup Range(started)

\* `raioz check` saw the file this run has.
GreenInv ==
  /\ green \in {"unasked", "green", "red"}
  /\ green = "green" => CheckYAML(File)
  /\ green # "unasked" => in.way # "auto" /\ pc # "scan"

PcInv ==
  /\ pc \in {"scan", "load", "filter", "killed", "refused"} \cup Planned
  /\ (pc = "refused") = (cause # "")

LEMMA SameIn ==
  ASSUME in' = in
  PROVE  /\ File' = File /\ Configuration' = Configuration /\ Plan' = Plan
         /\ Loaded' = Loaded /\ FiltersAccept(Configuration)' = FiltersAccept(Configuration)
         /\ CheckYAML(File)' = CheckYAML(File)
<1>1. File' = File
  BY DEF File
<1>2. Configuration' = Configuration
  BY <1>1 DEF Configuration
<1>3. Plan' = Plan
  BY <1>2 DEF Plan, Filtered, ForProject
<1>4. Loaded' = Loaded
  BY <1>1 DEF Loaded
<1>5. FiltersAccept(Configuration)' = FiltersAccept(Configuration)
  BY <1>2 DEF FiltersAccept, Filtered, ForProject
<1>6. CheckYAML(File)' = CheckYAML(File)
  BY <1>1 DEF CheckYAML, CheckProxyRequirements, ResolveServiceDetection, awaitingClone
<1> QED BY <1>1, <1>2, <1>3, <1>4, <1>5, <1>6

LEMMA SameKeeps ==
  ASSUME in' = in, deps' = deps, rewritten' = rewritten
  PROVE  KeepsPlan' = KeepsPlan
BY SameIn DEF KeepsPlan

LEMMA NoDepsIs == DOMAIN NoDeps.services = {} /\ DOMAIN NoDeps.infra = {}
BY DEF NoDeps

LEMMA TypesHold ==
  ASSUME PlanInv, OrderInv, PcInv, GreenInv
  PROVE  ConfigTypeOK
<1>1. /\ DOMAIN deps.services \subseteq Names /\ DOMAIN deps.infra \subseteq Names
      /\ in.way # "auto" => DOMAIN deps.services \cap DOMAIN deps.infra \subseteq rewritten
  <2>0. /\ IsDeps(Configuration)
        /\ in.way # "auto" /\ Loaded =>
             DOMAIN Configuration.services \cap DOMAIN Configuration.infra = {}
    <3>1. in \in Inputs
      BY DEF PlanInv
    <3>2. ASSUME in.way # "auto", Loaded
          PROVE  DOMAIN Configuration.services \cap DOMAIN Configuration.infra = {}
      <4>1. Configuration = YAMLToDeps(File) /\ DOMAIN File.services \cap DOMAIN File.deps = {}
        BY <3>2 DEF Configuration, Loaded, LoadDepsFromYAML, BridgeAccepts
      <4> QED BY <4>1, BridgeIs
    <3> QED BY <3>1, <3>2, ConfigurationIsDeps
  <2>1. CASE deps = NoDeps
    BY <2>1, NoDepsIs
  <2>2. CASE deps = Configuration /\ Loaded
    BY <2>0, <2>2 DEF IsDeps
  <2>3. CASE KeepsPlan
    <3>1. /\ DOMAIN Plan.services \subseteq DOMAIN Configuration.services
          /\ DOMAIN Plan.infra \subseteq DOMAIN Configuration.infra
      BY <2>0, FilteredIs DEF Plan, NotIgnored
    <3> QED BY <2>0, <2>3, <3>1 DEF KeepsPlan, IsDeps
  <2> QED BY <2>1, <2>2, <2>3 DEF PlanInv
<1>2. Range(queue) \cup Range(started) \subseteq DOMAIN deps.services
  BY DEF OrderInv, Range
<1>3. rewritten \subseteq DOMAIN deps.services
  BY DEF PlanInv
<1> QED BY <1>1, <1>2, <1>3 DEF ConfigTypeOK, PcInv, GreenInv, Planned

\* StartedInOrder, from the invariants.
LEMMA OrderHolds ==
  ASSUME PlanInv, OrderInv, CycleInv
  PROVE  StartedInOrder
<1>1. ASSUME pc = "done", NEW n \in DOMAIN deps.services \ Range(started)
      PROVE  \E c \in Reach(deps, {n}) \cap OnCycle(deps) : Reach(deps, {c}) \cap rewritten # {}
  <2> DEFINE U == DOMAIN deps.services \ Range(started)
  <2>1. IsDeps(deps)
    BY <1>1 DEF PlanInv, KeepsPlan, Planned
  <2>2. \A u \in U : deps.services[u].dependsOn \cap U # {}
    <3>1. Range(queue) = {}
      BY <1>1 DEF OrderInv, Range
    <3>2. \A u \in U : ~(ServiceDeps(u) \subseteq Range(started))
      BY <1>1, <3>1 DEF OrderInv
    <3> QED BY <3>2 DEF ServiceDeps
  <2>3. Named(deps) /\ DOMAIN deps.services \subseteq Names /\ U \in SUBSET DOMAIN deps.services
    BY <2>1 DEF IsDeps
  <2>4. n \in U
    BY <1>1
  <2> HIDE DEF U
  <2>5. Reach(deps, {n}) \cap OnCycle(deps) # {}
    BY <2>2, <2>3, <2>4, CycleBehind
  <2> QED BY <1>1, <2>5 DEF CycleInv, CyclesExcused
<1>2. IsInjective(started)
  BY DEF OrderInv, Distinct, IsInjective
<1> QED BY <1>1, <1>2 DEF StartedInOrder, OrderInv

\* PlanIsTheFile, from the invariants.
LEMMA PlanHolds ==
  ASSUME PlanInv
  PROVE  PlanIsTheFile
<1> SUFFICES ASSUME pc \in {"validate", "conflicts", "assist", "env", "order", "start", "done"}
             PROVE  FollowsConfiguration(Configuration) /\ (in.way # "auto" => AuthKept(File))
  BY DEF PlanIsTheFile
<1> DEFINE whole == Configuration
           plan == Selection(whole)
<1>1. KeepsPlan /\ in \in Inputs
  BY DEF PlanInv, Planned
<1>2. IsDeps(whole)
  BY <1>1, ConfigurationIsDeps
<1>3. plan = {n \in NotIgnored(whole) \cup DOMAIN whole.infra : Led(whole, n)}
  BY <1>1, <1>2, SelectionIs DEF KeepsPlan
<1>4. /\ Rest(Plan) = Rest(whole)
      /\ DOMAIN Plan.services = {n \in NotIgnored(whole) : Led(whole, n)}
      /\ DOMAIN Plan.infra = {n \in DOMAIN whole.infra : Led(whole, n)}
      /\ \A n \in DOMAIN Plan.services : Plan.services[n] = whole.services[n]
      /\ \A n \in DOMAIN Plan.infra : Plan.infra[n] = whole.infra[n]
  BY <1>2, FilteredIs DEF Plan
<1>5. DOMAIN Plan.services = plan \cap NotIgnored(whole)
      /\ DOMAIN Plan.infra = plan \cap DOMAIN whole.infra
  BY <1>3, <1>4
<1> HIDE DEF plan, whole
<1>6. Follows(whole, plan)
  <2>1. DOMAIN deps.services \ rewritten = (plan \cap NotIgnored(whole)) \ rewritten
    BY <1>1, <1>5 DEF KeepsPlan
  <2>2. DOMAIN deps.infra = plan \cap DOMAIN whole.infra
        /\ \A n \in DOMAIN deps.infra : deps.infra[n] = whole.infra[n]
    BY <1>1, <1>4, <1>5 DEF KeepsPlan
  <2>3. \A n \in DOMAIN deps.services \ rewritten : deps.services[n] = whole.services[n]
    BY <1>1, <1>4 DEF KeepsPlan
  <2>4. Rest(deps) = Rest(whole)
    BY <1>1, <1>4 DEF KeepsPlan
  <2> QED BY <2>1, <2>2, <2>3, <2>4 DEF Follows, Rest
<1>7. ASSUME in.way # "auto", NEW n \in DOMAIN deps.services \ rewritten
      PROVE  deps.services[n].auth = File.services[n].auth \/ <<"auth", n>> \in Warnings(File)
  <2>1. whole = YAMLToDeps(File)
    BY <1>7 DEF Configuration, whole
  <2>2. n \in DOMAIN whole.services /\ deps.services[n] = whole.services[n]
    BY <1>1, <1>4, <1>7 DEF KeepsPlan, NotIgnored
  <2>3. n \in DOMAIN File.services
        /\ deps.services[n] = yamlServiceToService(File, File.services[n])
    BY <2>1, <2>2, BridgeIs
  <2>4. CASE File.services[n].git # ""
    BY <2>3, <2>4, ServiceAuth
  <2>5. CASE File.services[n].git = "" /\ File.services[n].auth = ""
    <3> DEFINE s == File.services[n]
    <3>1. deps.services[n].auth = yamlServiceToService(File, s).auth
      BY <2>3
    <3>2. s.git = "" /\ s.auth = ""
      BY <2>5
    <3> HIDE DEF s
    <3>3. deps.services[n].auth = ""
      BY <3>1, <3>2, ServiceAuth
    <3> QED BY <2>5, <3>3
  <2>6. CASE File.services[n].git = "" /\ File.services[n].auth # ""
    BY <2>3, <2>6 DEF Warnings, authWarnings
  <2> QED BY <2>4, <2>5, <2>6
<1> QED BY <1>6, <1>7 DEF FollowsConfiguration, AuthKept, plan, whole

\* What the phases may refuse a green file for.
LEMMA RefusedAgrees ==
  ASSUME PlanInv, GreenInv, pc = "validate", green = "green", NEW c \in ValidateRefusals(deps)
  PROVE  \/ c \in {"preflight", "cycle"}
         \/ c = "dangling" /\ CheckIgnoredDependencies(YAMLToDeps(File), ForProject(File.project)) # {}
         \/ c \in {"project", "services", "infra"} /\
              LET d == YAMLToDeps(File) IN
              \/ BadNames \cap ({d.project} \cup DOMAIN d.services \cup DOMAIN d.infra) # {}
              \/ \E s \in Range(d.services) : s.profiles = "bad" \/ (s.kind = "git" /\ s.path = "")
<1> DEFINE d == YAMLToDeps(File)
           ignored == ForProject(File.project)
<1>1. KeepsPlan /\ rewritten = {} /\ in \in Inputs /\ in.way # "auto" /\ CheckYAML(File)
  BY DEF PlanInv, GreenInv, Planned
<1>2. d = Configuration /\ IsDeps(d)
  BY <1>1, ConfigurationIsDeps DEF Configuration
<1>3. d.project = File.project /\ NotIgnored(d) = DOMAIN d.services \ ignored
  BY BridgeIs DEF NotIgnored
<1>4. LoadDepsFromYAML(File) /\ Dangling(d) = {} /\ CheckProxyRequirements(d)
  BY <1>1 DEF CheckYAML
<1> HIDE DEF d, ignored
<1>5. /\ Rest(Plan) = Rest(d)
      /\ DOMAIN Plan.services = {n \in NotIgnored(d) : Led(d, n)}
      /\ DOMAIN Plan.infra = {n \in DOMAIN d.infra : Led(d, n)}
      /\ \A n \in DOMAIN Plan.services : Plan.services[n] = d.services[n]
      /\ \A n \in DOMAIN Plan.infra : Plan.infra[n] = d.infra[n]
  BY <1>2, FilteredIs DEF Plan
<1>6. /\ DOMAIN deps.services = {n \in NotIgnored(d) : Led(d, n)}
      /\ DOMAIN deps.infra = {n \in DOMAIN d.infra : Led(d, n)}
      /\ \A n \in DOMAIN deps.services : n \in DOMAIN d.services /\ deps.services[n] = d.services[n]
      /\ \A n \in DOMAIN deps.infra : n \in DOMAIN d.infra /\ deps.infra[n] = d.infra[n]
      /\ Rest(deps) = Rest(d) /\ IsDeps(deps)
  BY <1>1, <1>3, <1>5 DEF KeepsPlan
<1>7. deps.project = d.project /\ deps.proxy = d.proxy /\ deps.network = d.network
  BY <1>2, <1>6 DEF Rest, IsDeps, Fields
<1>8. ASSUME CheckIgnoredDependencies(d, ignored) = {} PROVE Dangling(deps) = {}
  <2> SUFFICES ASSUME NEW x \in Dangling(deps) PROVE FALSE
    OBVIOUS
  <2>0. PICK n \in DOMAIN deps.services : x \in deps.services[n].dependsOn
    BY DEF Dangling
  <2>a. x \notin (DOMAIN deps.services \cup DOMAIN deps.infra)
    BY Zenon DEF Dangling
  <2>1. n \in DOMAIN d.services /\ n \notin ignored /\ Led(d, n) /\ x \in d.services[n].dependsOn
    BY <1>3, <1>6, <2>0
  <2>2. x \notin ignored
    BY <1>8, <2>1 DEF CheckIgnoredDependencies
  <2>3. x \in DOMAIN d.services \cup DOMAIN d.infra
    <3>1. x \in UNION {d.services[m].dependsOn : m \in DOMAIN d.services}
      BY <2>1
    <3> QED BY <1>4, <3>1 DEF Dangling
  <2>4. Led(d, x)
    <3> DEFINE i == FilterIgnoredServices(d, ForProject(d.project))
               R == Reach(i, in.only)
    <3>0. SUFFICES ASSUME in.only # {} PROVE x \in R
      BY DEF Led
    <3>1. n \in R
      BY <2>1, <3>0 DEF Led
    <3>a. IsDeps(i) /\ i.services = Restrict(d.services, DOMAIN d.services \ ForProject(d.project))
      BY <1>2, IgnoredIs
    <3>2. Named(i) /\ i.services = Restrict(d.services, DOMAIN d.services \ ForProject(d.project))
      BY <3>a DEF IsDeps
    <3>3. n \in DOMAIN i.services /\ x \in i.services[n].dependsOn
      BY <1>3, <2>1, <3>2 DEF Restrict, ignored
    <3>4. in.only \in SUBSET Names
      BY <1>1, <1>2, OnlyIs DEF KeepsPlan
    <3> HIDE DEF i
    <3>5. ClosedIn(i, R)
      BY <3>2, <3>4, ReachIs
    <3> QED BY <3>1, <3>3, <3>5 DEF ClosedIn
  <2>5. x \in DOMAIN deps.services \/ x \in DOMAIN deps.infra
    BY <1>3, <1>6, <2>2, <2>3, <2>4
  <2> QED BY <2>5, <2>a
<1>9. CASE c = "dangling"
  <2>1. Dangling(deps) # {}
    BY <1>9 DEF ValidateRefusals, validateTransitiveDependencies
  <2> QED BY <1>8, <1>9, <2>1 DEF d, ignored
<1>10. CASE c = "project"
  <2>1. deps.project \in BadNames
    BY <1>10 DEF ValidateRefusals, validateProject
  <2> QED BY <1>7, <1>10, <2>1 DEF d
<1>11. CASE c = "services"
  <2>1. ~validateServices(deps)
    BY <1>11 DEF ValidateRefusals
  <2>2. PICK n \in DOMAIN deps.services :
          LET s == deps.services[n] IN
          \/ n \in BadNames
          \/ s.kind = "git" /\ ~GitServiceValid(s)
          \/ s.profiles = "bad"
    BY <2>1 DEF validateServices
  <2>3. n \in DOMAIN d.services /\ deps.services[n] = d.services[n] /\ d.services[n] \in Range(d.services)
    BY <1>6 DEF Range
  <2>4. d.services[n].kind = "git" => d.services[n].repo # ""
    <3>1. d.services[n] = yamlServiceToService(File, File.services[n])
      BY <2>3, BridgeIs DEF d
    <3>2. CASE File.services[n].git = ""
      BY <3>1, <3>2, ServiceKind
    <3>3. CASE File.services[n].git # ""
      BY <3>1, <3>3, ServiceRepo
    <3> QED BY <3>2, <3>3
  <2>5. \/ BadNames \cap DOMAIN d.services # {}
        \/ \E s \in Range(d.services) : s.profiles = "bad" \/ (s.kind = "git" /\ s.path = "")
    BY <2>2, <2>3, <2>4 DEF GitServiceValid
  <2> QED BY <1>11, <2>5 DEF d
<1>12. CASE c = "infra"
  <2>1. ~validateInfra(deps)
    BY <1>12 DEF ValidateRefusals
  <2>2. PICK n \in DOMAIN deps.infra :
          \/ n \in BadNames
          \/ deps.infra[n].image = "" /\ deps.infra[n].compose = "" /\ deps.infra[n].project = ""
    BY <2>1 DEF validateInfra
  <2>3. n \in DOMAIN d.infra /\ deps.infra[n] = d.infra[n]
    BY <1>6
  <2>4. CASE n \in BadNames
    BY <1>12, <2>3, <2>4 DEF d
  <2>5. CASE n \notin BadNames
    <3>1. n \in DOMAIN File.deps /\ d.infra[n] = yamlDependencyToInfra(File, File.deps[n])
      BY <2>3, BridgeIs DEF d
    <3>2. File.deps[n].image = "" /\ File.deps[n].compose = "" /\ File.deps[n].project = ""
      <4> DEFINE x == File.deps[n]
      <4>1. deps.infra[n] = yamlDependencyToInfra(File, x)
        BY <2>3, <3>1
      <4>2. deps.infra[n].image = "" /\ deps.infra[n].compose = "" /\ deps.infra[n].project = ""
        BY <2>2, <2>5
      <4> HIDE DEF x
      <4>3. deps.infra[n].image = x.image /\ deps.infra[n].compose = x.compose
            /\ deps.infra[n].project = x.project
        BY <4>1, DependencyOfFile
      <4>4. x.image = "" /\ x.compose = "" /\ x.project = ""
        BY <4>2, <4>3
      <4> QED BY <4>4 DEF x
    <3>3. File.deps[n] \in Range(File.deps)
      BY <3>1 DEF Range
    <3>4. validateDependency(File.deps[n])
      BY <1>4, <3>3 DEF LoadDepsFromYAML, LoadYAML, validateYAMLConfig
    <3> QED BY <3>2, <3>4 DEF validateDependency
  <2> QED BY <2>4, <2>5
<1>13. CASE c = "proxy"
  <2>1. ~CheckProxyRequirements(deps)
    BY <1>13 DEF ValidateRefusals
  <2> QED BY <1>4, <1>7, <2>1 DEF CheckProxyRequirements, checkProxyAddress
<1>14. c \in {"preflight", "project", "services", "infra", "dangling", "cycle", "proxy"}
  BY DEF ValidateRefusals
<1> QED BY <1>9, <1>10, <1>11, <1>12, <1>13, <1>14

-----------------------------------------------------------------------------
(* ConfigPipeline. Kahn's queue.                                           *)

\* An order of a finite set holds each of its elements once.
LEMMA SeqsOf ==
  ASSUME NEW S, IsFiniteSet(S), NEW q \in SetToSeqs(S)
  PROVE  q \in Seq(S) /\ Distinct(q) /\ Range(q) = S
<1> DEFINE n == Cardinality(S)
<1>1. n \in Nat
  BY FS_CardinalityType
<1>2. q \in [1..n -> S] /\ \A i, j \in 1..n : i # j => q[i] # q[j]
  BY DEF SetToSeqs
<1>3. IsFiniteSet(1..n) /\ Cardinality(1..n) = n
  BY <1>1, FS_Interval
<1> HIDE DEF n
<1>4. q \in Injection(1..n, S)
  BY <1>2 DEF Injection, IsInjective
<1>5. q \in Surjection(1..n, S)
  BY <1>3, <1>4, FS_Injection DEF n
<1>6. Range(q) = S
  BY <1>2, <1>5 DEF Surjection, Range
<1>7. q \in Seq(S)
  BY <1>1, <1>2
<1>8. Distinct(q)
  BY <1>2 DEF Distinct
<1> QED BY <1>6, <1>7, <1>8

LEMMA DistinctSplits ==
  ASSUME NEW S, NEW s \in Seq(S), s # <<>>, Distinct(s)
  PROVE  /\ Head(s) \in Range(s) /\ Tail(s) \in Seq(S) /\ Distinct(Tail(s))
         /\ Range(Tail(s)) = Range(s) \ {Head(s)}
<1>1. /\ Len(s) \in Nat /\ Len(s) # 0 /\ DOMAIN s = 1..Len(s)
      /\ Head(s) = s[1] /\ Tail(s) \in Seq(S) /\ Len(Tail(s)) = Len(s) - 1
      /\ DOMAIN Tail(s) = 1..Len(s) - 1
      /\ \A i \in 1..Len(s) - 1 : Tail(s)[i] = s[i + 1]
  OBVIOUS
<1>2. Distinct(Tail(s))
  <2> SUFFICES ASSUME NEW i \in 1..Len(s) - 1, NEW j \in 1..Len(s) - 1, Tail(s)[i] = Tail(s)[j]
               PROVE  i = j
    BY <1>1 DEF Distinct
  <2>1. i + 1 \in DOMAIN s /\ j + 1 \in DOMAIN s /\ s[i + 1] = s[j + 1]
    BY <1>1
  <2>2. i + 1 = j + 1
    BY <2>1 DEF Distinct
  <2> QED BY <2>2
<1>3. ASSUME NEW x \in Range(Tail(s)) PROVE x \in Range(s) \ {Head(s)}
  <2>1. PICK i \in 1..Len(s) - 1 : x = Tail(s)[i]
    BY <1>1 DEF Range
  <2>2. i + 1 \in DOMAIN s /\ 1 \in DOMAIN s /\ x = s[i + 1] /\ i + 1 # 1
    BY <1>1, <2>1
  <2>3. x \in Range(s) /\ x # s[1]
    BY <2>2 DEF Range, Distinct
  <2> QED BY <1>1, <2>3
<1>4. ASSUME NEW x \in Range(s) \ {Head(s)} PROVE x \in Range(Tail(s))
  <2>1. PICK i \in 1..Len(s) : x = s[i]
    BY <1>1 DEF Range
  <2>2. i # 1
    BY <1>1, <2>1
  <2>3. i - 1 \in 1..Len(s) - 1 /\ (i - 1) + 1 = i
    BY <1>1, <2>2
  <2>4. i - 1 \in DOMAIN Tail(s) /\ x = Tail(s)[i - 1]
    BY <1>1, <2>1, <2>3
  <2> QED BY <2>4 DEF Range
<1>5. Head(s) \in Range(s)
  BY <1>1 DEF Range
<1> QED BY <1>1, <1>2, <1>3, <1>4, <1>5

LEMMA DistinctJoins ==
  ASSUME NEW S, NEW s \in Seq(S), NEW t \in Seq(S), Distinct(s), Distinct(t),
         Range(s) \cap Range(t) = {}
  PROVE  s \o t \in Seq(S) /\ Distinct(s \o t) /\ Range(s \o t) = Range(s) \cup Range(t)
<1> DEFINE r == s \o t
           m == Len(s)
           n == Len(t)
<1>1. /\ m \in Nat /\ n \in Nat /\ DOMAIN s = 1..m /\ DOMAIN t = 1..n
      /\ r \in Seq(S) /\ DOMAIN r = 1..m + n
      /\ \A i \in 1..m + n : r[i] = IF i <= m THEN s[i] ELSE t[i - m]
  OBVIOUS
<1> HIDE DEF r, m, n
<1>2. ASSUME NEW i \in 1..m + n
      PROVE  \/ i \in 1..m /\ r[i] = s[i] /\ r[i] \in Range(s)
             \/ i - m \in 1..n /\ i \notin 1..m /\ r[i] = t[i - m] /\ r[i] \in Range(t)
  <2>1. CASE i <= m
    <3>1. i \in 1..m /\ r[i] = s[i]
      BY <1>1, <2>1
    <3>2. s[i] \in Range(s)
      BY <1>1, <3>1 DEF Range
    <3> QED BY <3>1, <3>2
  <2>2. CASE ~(i <= m)
    <3>1. i - m \in 1..n /\ i \notin 1..m /\ r[i] = t[i - m]
      BY <1>1, <2>2
    <3>2. t[i - m] \in Range(t)
      BY <1>1, <3>1 DEF Range
    <3> QED BY <3>1, <3>2
  <2> QED BY <2>1, <2>2
<1>3. Distinct(r)
  <2> SUFFICES ASSUME NEW i \in 1..m + n, NEW j \in 1..m + n, r[i] = r[j] PROVE i = j
    BY <1>1 DEF Distinct
  <2>1. CASE i \in 1..m
    <3>1. r[j] \notin Range(t)
      BY <1>2, <2>1
    <3>2. j \in 1..m /\ s[i] = s[j]
      BY <1>2, <2>1, <3>1
    <3> QED BY <1>1, <2>1, <3>2 DEF Distinct
  <2>2. CASE i \notin 1..m
    <3>1. i - m \in 1..n /\ r[j] \notin Range(s)
      BY <1>2, <2>2
    <3>2. j - m \in 1..n /\ t[i - m] = t[j - m]
      BY <1>2, <2>2, <3>1
    <3>3. i - m = j - m
      BY <1>1, <3>1, <3>2 DEF Distinct
    <3> QED BY <1>1, <3>3
  <2> QED BY <2>1, <2>2
<1>4. Range(r) \subseteq Range(s) \cup Range(t)
  BY <1>1, <1>2 DEF Range
<1>5. ASSUME NEW x \in Range(s) PROVE x \in Range(r)
  <2>1. PICK i \in 1..m : x = s[i]
    BY <1>1 DEF Range
  <2>2. i \in 1..m + n /\ r[i] = s[i]
    BY <1>1
  <2> QED BY <1>1, <2>1, <2>2 DEF Range
<1>6. ASSUME NEW x \in Range(t) PROVE x \in Range(r)
  <2>1. PICK i \in 1..n : x = t[i]
    BY <1>1 DEF Range
  <2>2. i + m \in 1..m + n /\ ~(i + m <= m) /\ (i + m) - m = i
    BY <1>1
  <2>3. r[i + m] = t[i]
    BY <1>1, <2>2
  <2> QED BY <1>1, <2>1, <2>2, <2>3 DEF Range
<1> QED BY <1>1, <1>3, <1>4, <1>5, <1>6 DEF r

LEMMA DistinctGrows ==
  ASSUME NEW S, NEW s \in Seq(S), NEW x \in S, Distinct(s), x \notin Range(s)
  PROVE  /\ Append(s, x) \in Seq(S) /\ Distinct(Append(s, x))
         /\ Range(Append(s, x)) = Range(s) \cup {x}
         /\ DOMAIN Append(s, x) = 1..Len(s) + 1 /\ Append(s, x)[Len(s) + 1] = x
         /\ \A i \in DOMAIN s : i \in 1..Len(s) /\ Append(s, x)[i] = s[i]
<1> DEFINE r == Append(s, x)
           n == Len(s)
<1>1. /\ n \in Nat /\ DOMAIN s = 1..n /\ r \in Seq(S) /\ DOMAIN r = 1..n + 1
      /\ r[n + 1] = x /\ \A i \in 1..n : r[i] = s[i]
  OBVIOUS
<1> HIDE DEF r, n
<1>2. ASSUME NEW i \in 1..n + 1
      PROVE  \/ i \in 1..n /\ r[i] = s[i] /\ r[i] \in Range(s)
             \/ i = n + 1 /\ r[i] = x
  BY <1>1 DEF Range
<1>3. Distinct(r)
  <2> SUFFICES ASSUME NEW i \in 1..n + 1, NEW j \in 1..n + 1, r[i] = r[j] PROVE i = j
    BY <1>1 DEF Distinct
  <2> QED BY <1>1, <1>2 DEF Distinct
<1>4. Range(r) \subseteq Range(s) \cup {x}
  BY <1>1, <1>2 DEF Range
<1>5. x \in Range(r)
  BY <1>1 DEF Range
<1>6. ASSUME NEW y \in Range(s) PROVE y \in Range(r)
  <2>1. PICK i \in 1..n : y = s[i]
    BY <1>1 DEF Range
  <2>2. i \in DOMAIN r /\ r[i] = y
    BY <1>1, <2>1
  <2> QED BY <2>2 DEF Range
<1> QED BY <1>1, <1>3, <1>4, <1>5, <1>6 DEF r, n

LEMMA PlannedIs ==
  ASSUME PlanInv, pc \in Planned
  PROVE  KeepsPlan /\ IsDeps(deps) /\ in \in Inputs
BY DEF PlanInv, Planned, KeepsPlan

LEMMA OrderBegins ==
  ASSUME PlanInv, OrderInv, OrderBegin
  PROVE  OrderInv'
<1> DEFINE D == DOMAIN deps.services
           Free == {n \in D : ServiceDeps(n) = {}}
<1>1. PICK q \in SetToSeqs(Free) : queue' = q
  BY DEF OrderBegin
<1>2. /\ pc = "order" /\ pc' = "start" /\ deps' = deps /\ started' = started
      /\ queue = <<>> /\ started = <<>>
  BY DEF OrderBegin, OrderInv
<1>3. Free \in SUBSET Names
  BY <1>2, PlannedIs DEF Planned, IsDeps
<1>4. IsFiniteSet(Free)
  BY <1>3, NamesAssumption, FS_Subset
<1> HIDE DEF Free
<1>5. q \in Seq(Free) /\ Distinct(q) /\ Range(q) = Free
  BY <1>4, SeqsOf
<1> USE DEF Free
<1>6. \A n : ServiceDeps(n)' = ServiceDeps(n)
  BY <1>2 DEF ServiceDeps
<1>7. started' = <<>> /\ started' \in Seq(D) /\ DOMAIN started' = {} /\ Distinct(started')
      /\ Range(started') = {}
  BY <1>2 DEF Distinct, Range
<1>8. queue' \in Seq(D) /\ Distinct(queue') /\ Range(queue') = Free
  <2>1. Free \subseteq D
    OBVIOUS
  <2> HIDE DEF Free, D
  <2>2. q \in Seq(D)
    BY <1>5, <2>1, SeqMonotonic
  <2> QED BY <1>1, <1>5, <2>2
<1>9. \A n \in Range(queue') : ServiceDeps(n)' \subseteq Range(started')
  BY <1>6, <1>8
<1>10. \A n \in D : ServiceDeps(n)' \subseteq Range(started') => n \in Range(queue')
  BY <1>6, <1>7, <1>8
<1>11. D' = D
  BY <1>2
<1> HIDE DEF D, Free
<1>12. pc' \in {"start", "done"} /\ pc' # "done" /\ D' = DOMAIN deps'.services
  BY <1>2 DEF D
<1> QED BY <1>7, <1>8, <1>9, <1>10, <1>11, <1>12 DEF OrderInv, D

LEMMA StartsNext ==
  ASSUME PlanInv, OrderInv, StartNext
  PROVE  OrderInv'
<1> DEFINE D == DOMAIN deps.services
           n == Head(queue)
           Freed == {m \in D : n \in ServiceDeps(m) /\ ServiceDeps(m) \ Range(started) = {n}}
<1>1. PICK q \in SetToSeqs(Freed) : queue' = Tail(queue) \o q
  BY DEF StartNext
<1>2. /\ pc = "start" /\ pc' = pc /\ deps' = deps /\ queue # <<>>
      /\ started' = Append(started, n)
  BY DEF StartNext
<1>3. Freed \in SUBSET Names
  BY <1>2, PlannedIs DEF Planned, IsDeps
<1>4. IsFiniteSet(Freed)
  BY <1>3, NamesAssumption, FS_Subset
<1>5. \A m : ServiceDeps(m)' = ServiceDeps(m) /\ ServiceDeps(m) \subseteq D
  BY <1>2 DEF ServiceDeps
<1>6. /\ queue \in Seq(D) /\ started \in Seq(D) /\ Distinct(queue) /\ Distinct(started)
      /\ Range(queue) \cap Range(started) = {}
      /\ \A m \in Range(queue) : ServiceDeps(m) \subseteq Range(started)
      /\ \A i \in DOMAIN started :
           ServiceDeps(started[i]) \subseteq {started[j] : j \in 1..(i - 1)}
      /\ \A m \in D : ServiceDeps(m) \subseteq Range(started) => m \in Range(queue) \cup Range(started)
  BY <1>2 DEF OrderInv
<1>7. Freed \subseteq D /\ \A m \in Freed : n \in ServiceDeps(m) /\ ServiceDeps(m) \subseteq Range(started) \cup {n}
  OBVIOUS
<1>8. \A m \in D : n \in ServiceDeps(m) /\ n \notin Range(started)
                   /\ ServiceDeps(m) \subseteq Range(started) \cup {n} => m \in Freed
  OBVIOUS
<1>9. n \in Range(queue) /\ Tail(queue) \in Seq(D) /\ Distinct(Tail(queue))
      /\ Range(Tail(queue)) = Range(queue) \ {n}
  BY <1>2, <1>6, DistinctSplits
<1> HIDE DEF Freed, n
<1>10. n \in D /\ n \notin Range(started)
  <2>1. Range(queue) \subseteq D
    BY <1>6 DEF Range
  <2> QED BY <1>6, <1>9, <2>1
<1>11. q \in Seq(D) /\ Distinct(q) /\ Range(q) = Freed
  <2>1. q \in Seq(Freed) /\ Distinct(q) /\ Range(q) = Freed
    BY <1>4, SeqsOf
  <2> HIDE DEF D
  <2> QED BY <1>7, <2>1, SeqMonotonic
<1>12. ASSUME NEW i \in DOMAIN started
       PROVE  ServiceDeps(started[i]) \subseteq Range(started)
  <2>1. {started[j] : j \in 1..(i - 1)} \subseteq Range(started)
    <3>1. DOMAIN started = 1..Len(started) /\ Len(started) \in Nat
      BY <1>6
    <3>2. 1..(i - 1) \subseteq DOMAIN started
      BY <3>1
    <3> QED BY <3>2 DEF Range
  <2> QED BY <1>6, <2>1
<1>13. Freed \cap (Range(queue) \cup Range(started)) = {}
  <2>1. ASSUME NEW m \in Freed, m \in Range(started) PROVE FALSE
    <3>1. PICK i \in DOMAIN started : m = started[i]
      BY <2>1 DEF Range
    <3> QED BY <3>1, <1>7, <1>10, <1>12
  <2> QED BY <2>1, <1>6, <1>7, <1>10
<1> HIDE DEF D
<1>14. queue' \in Seq(D) /\ Distinct(queue') /\ Range(queue') = (Range(queue) \ {n}) \cup Freed
  <2>1. Range(Tail(queue)) \cap Range(q) = {}
    BY <1>9, <1>11, <1>13
  <2>2. /\ Tail(queue) \o q \in Seq(D) /\ Distinct(Tail(queue) \o q)
        /\ Range(Tail(queue) \o q) = Range(Tail(queue)) \cup Range(q)
    <3> DEFINE t == Tail(queue)
    <3>1. t \in Seq(D) /\ Distinct(t) /\ Range(t) \cap Range(q) = {}
      BY <1>9, <2>1
    <3> HIDE DEF t
    <3>2. t \o q \in Seq(D) /\ Distinct(t \o q) /\ Range(t \o q) = Range(t) \cup Range(q)
      BY <1>11, <3>1, DistinctJoins
    <3> QED BY <3>2 DEF t
  <2> QED BY <1>1, <1>9, <1>11, <2>2
<1>15. /\ started' \in Seq(D) /\ Distinct(started') /\ Range(started') = Range(started) \cup {n}
       /\ DOMAIN started' = 1..Len(started) + 1 /\ started'[Len(started) + 1] = n
       /\ \A i \in DOMAIN started : i \in 1..Len(started) /\ started'[i] = started[i]
  BY <1>2, <1>6, <1>10, DistinctGrows
<1>16. Range(queue') \cap Range(started') = {}
  <2>1. n \notin Freed
    BY <1>9, <1>13
  <2> QED BY <1>6, <1>13, <1>14, <1>15, <2>1
<1>17. \A m \in Range(queue') : ServiceDeps(m)' \subseteq Range(started')
  BY <1>5, <1>6, <1>7, <1>14, <1>15
<1>18. ASSUME NEW i \in DOMAIN started'
       PROVE  ServiceDeps(started[i])' \subseteq {started'[j] : j \in 1..(i - 1)}
  <2>0. DOMAIN started = 1..Len(started) /\ Len(started) \in Nat
    BY <1>6
  <2>1. CASE i \in DOMAIN started
    <3>1. ServiceDeps(started[i]) \subseteq {started[j] : j \in 1..(i - 1)}
      BY <1>6, <2>1
    <3>2. \A j \in 1..(i - 1) : started'[j] = started[j]
      BY <1>15, <2>0, <2>1
    <3>3. {started[j] : j \in 1..(i - 1)} = {started'[j] : j \in 1..(i - 1)}
      BY <3>2
    <3>4. started'[i] = started[i]
      BY <1>15, <2>1
    <3>5. ServiceDeps(started[i])' = ServiceDeps(started[i])
      BY <1>2, <3>4 DEF ServiceDeps
    <3> QED BY <3>1, <3>3, <3>5
  <2>2. CASE i \notin DOMAIN started
    <3>1. i = Len(started) + 1 /\ i - 1 = Len(started)
      BY <1>15, <2>0, <2>2
    <3>2. \A j \in 1..(i - 1) : started'[j] = started[j]
      BY <1>15, <2>0, <3>1
    <3>3. Range(started) \subseteq {started'[j] : j \in 1..(i - 1)}
      BY <2>0, <3>1, <3>2 DEF Range
    <3>4. ServiceDeps(n) \subseteq Range(started) /\ started'[i] = n
      BY <1>6, <1>9, <1>15, <3>1
    <3>5. ServiceDeps(started[i])' = ServiceDeps(n)
      BY <1>2, <3>4 DEF ServiceDeps
    <3> QED BY <3>3, <3>4, <3>5
  <2> QED BY <2>1, <2>2
<1>19. ASSUME NEW m \in D, ServiceDeps(m)' \subseteq Range(started')
       PROVE  m \in Range(queue') \cup Range(started')
  <2>1. ServiceDeps(m) \subseteq Range(started) \cup {n}
    BY <1>5, <1>15, <1>19
  <2>2. CASE n \in ServiceDeps(m)
    BY <1>8, <1>10, <1>14, <2>1, <2>2
  <2>3. CASE n \notin ServiceDeps(m)
    <3>1. m \in Range(queue) \cup Range(started)
      BY <1>6, <2>1, <2>3
    <3> QED BY <1>14, <1>15, <3>1
  <2> QED BY <2>2, <2>3
<1>20. pc' = "start" /\ D = DOMAIN deps'.services
  BY <1>2 DEF D
<1> QED BY <1>14, <1>15, <1>16, <1>17, <1>18, <1>19, <1>20 DEF OrderInv, D

-----------------------------------------------------------------------------
(* ConfigPipeline. The steps.                                              *)

\* What an answer brings in is a definition of a checkout.
LEMMA WithServicesIs ==
  ASSUME NEW d, IsDeps(d), NEW defs, DOMAIN defs \subseteq Names,
         \A n \in DOMAIN defs : defs[n].dependsOn \subseteq Names
  PROVE  LET e == WithServices(d, defs) IN
         /\ IsDeps(e) /\ Rest(e) = Rest(d) /\ e.infra = d.infra
         /\ DOMAIN e.services = DOMAIN d.services \cup DOMAIN defs
         /\ \A n \in DOMAIN d.services \ DOMAIN defs : e.services[n] = d.services[n]
<1> DEFINE svcs == [n \in DOMAIN d.services \cup DOMAIN defs |->
                      IF n \in DOMAIN defs THEN defs[n] ELSE d.services[n]]
           e == WithServices(d, defs)
<1>1. DOMAIN d = Fields
  BY DEF IsDeps
<1>2. e = [d EXCEPT !.services = svcs]
  BY DEF WithServices
<1>3. /\ DOMAIN svcs = DOMAIN d.services \cup DOMAIN defs
      /\ \A n \in DOMAIN d.services \ DOMAIN defs : svcs[n] = d.services[n]
      /\ \A n \in DOMAIN defs : svcs[n] = defs[n]
  OBVIOUS
<1> HIDE DEF e, svcs
<1>4. DOMAIN e = Fields /\ Rest(e) = Rest(d)
  BY <1>1, <1>2 DEF Fields, Rest
<1>5. e.services = svcs /\ e.infra = d.infra
  BY <1>1, <1>2 DEF Fields
<1>6. IsDeps(e)
  BY <1>3, <1>4, <1>5 DEF IsDeps, Named
<1> QED BY <1>3, <1>4, <1>5, <1>6 DEF e

LEMMA Answered ==
  ASSUME KeepsPlan, rewritten \subseteq DOMAIN deps.services, CyclesExcused(deps, rewritten),
         NEW defs, DOMAIN defs \subseteq Names,
         \A n \in DOMAIN defs : defs[n].dependsOn \subseteq Names,
         in' = in, deps' = WithServices(deps, defs), rewritten' = rewritten \cup DOMAIN defs
  PROVE  KeepsPlan' /\ rewritten' \subseteq DOMAIN deps'.services /\ CyclesExcused(deps, rewritten)'
<1>1. IsDeps(deps)
  BY DEF KeepsPlan
<1>2. /\ IsDeps(deps') /\ Rest(deps') = Rest(deps) /\ deps'.infra = deps.infra
      /\ DOMAIN deps'.services = DOMAIN deps.services \cup DOMAIN defs
      /\ \A n \in DOMAIN deps.services \ DOMAIN defs : deps'.services[n] = deps.services[n]
  BY <1>1, WithServicesIs
<1>3. /\ FiltersAccept(Configuration) /\ Loaded
      /\ DOMAIN deps.services \ rewritten = DOMAIN Plan.services \ rewritten
      /\ \A n \in DOMAIN deps.services \ rewritten : deps.services[n] = Plan.services[n]
      /\ deps.infra = Plan.infra /\ Rest(deps) = Rest(Plan)
  BY DEF KeepsPlan
<1>4. Plan' = Plan /\ FiltersAccept(Configuration)' /\ Loaded'
  BY <1>3, SameIn
<1>5. /\ DOMAIN deps'.services \ rewritten' = DOMAIN Plan'.services \ rewritten'
      /\ \A n \in DOMAIN deps'.services \ rewritten' : deps'.services[n] = Plan'.services[n]
      /\ deps'.infra = Plan'.infra /\ Rest(deps') = Rest(Plan')
  BY <1>2, <1>3, <1>4
<1>6. KeepsPlan'
  BY <1>2, <1>4, <1>5 DEF KeepsPlan
<1>7. CyclesExcused(deps', rewritten \cup DOMAIN defs)
  <2>1. Named(deps) /\ Named(deps') /\ DOMAIN deps.services \subseteq Names
        /\ DOMAIN deps'.services \subseteq Names
    BY <1>1, <1>2 DEF IsDeps
  <2>2. /\ DOMAIN deps'.services \ DOMAIN defs = DOMAIN deps.services \ DOMAIN defs
        /\ \A n \in DOMAIN deps.services \ DOMAIN defs :
             deps'.services[n].dependsOn = deps.services[n].dependsOn
    BY <1>2
  <2> QED BY <2>1, <2>2, CyclesStayExcused
<1> QED BY <1>2, <1>6, <1>7

LEMMA CheckoutIs ==
  ASSUME in \in Inputs, NEW d, NEW n, NEW m \in DOMAIN FindServiceConfig(d, n)
  PROVE  m \in Names /\ in.checkout[n][m].dependsOn \subseteq Names
<1>1. n \in DOMAIN in.checkout /\ m \in DOMAIN in.checkout[n]
  BY DEF FindServiceConfig
<1> QED BY <1>1, InputsAssumption

\* An answer about the checkout's definition of a service.
LEMMA ConflictsAnswered ==
  ASSUME PlanInv, CycleInv, HandleDependencyConflicts, pc' # "refused"
  PROVE  /\ Goto("assist") /\ KeepsPlan' /\ rewritten' \subseteq DOMAIN deps'.services
         /\ CyclesExcused(deps, rewritten)'
<1>1. pc = "conflicts"
  BY DEF HandleDependencyConflicts
<1>2. PICK R \in SUBSET DetectDependencyConflicts(deps) :
        /\ deps' = WithServices(deps, [n \in R |-> in.checkout[n][n]])
        /\ rewritten' = rewritten \cup R /\ Goto("assist")
  BY DEF HandleDependencyConflicts, Refuse
<1> DEFINE defs == [n \in R |-> in.checkout[n][n]]
<1>3. KeepsPlan /\ in \in Inputs /\ rewritten \subseteq DOMAIN deps.services
      /\ CyclesExcused(deps, rewritten)
  BY <1>1 DEF PlanInv, CycleInv, Planned
<1>4. DOMAIN defs = R /\ \A n \in DOMAIN defs : n \in Names /\ defs[n].dependsOn \subseteq Names
  <2> SUFFICES ASSUME NEW n \in R PROVE n \in Names /\ in.checkout[n][n].dependsOn \subseteq Names
    OBVIOUS
  <2>1. n \in DOMAIN FindServiceConfig(deps, n)
    BY DEF DetectDependencyConflicts
  <2> QED BY <1>3, <2>1, CheckoutIs
<1>5. deps' = WithServices(deps, defs) /\ in' = in
  BY <1>2 DEF Goto
<1> HIDE DEF defs
<1>6. rewritten' = rewritten \cup DOMAIN defs /\ DOMAIN defs \subseteq Names
      /\ \A n \in DOMAIN defs : defs[n].dependsOn \subseteq Names
  BY <1>2, <1>4
<1> QED BY <1>2, <1>3, <1>5, <1>6, Answered

\* An answer about a service that is missing.
LEMMA AssistAnswered ==
  ASSUME PlanInv, CycleInv, HandleDependencyAssist, pc' # "refused"
  PROVE  /\ Goto("env") /\ KeepsPlan' /\ rewritten' \subseteq DOMAIN deps'.services
         /\ CyclesExcused(deps, rewritten)'
<1>1. pc = "assist"
  BY DEF HandleDependencyAssist
<1>2. PICK A \in SUBSET {m \in DetectMissingDependencies(deps) : m.found} :
        LET names == {m.name : m \in A} IN
        /\ \E by \in [names -> {m.by : m \in A}] :
             /\ \A n \in names : [name |-> n, by |-> by[n], found |-> TRUE] \in A
             /\ deps' = WithServices(deps, [n \in names |-> in.checkout[by[n]][n]])
        /\ rewritten' = rewritten \cup names /\ Goto("env")
  BY DEF HandleDependencyAssist, Refuse
<1> DEFINE names == {m.name : m \in A}
<1>3. PICK by \in [names -> {m.by : m \in A}] :
        /\ \A n \in names : [name |-> n, by |-> by[n], found |-> TRUE] \in A
        /\ deps' = WithServices(deps, [n \in names |-> in.checkout[by[n]][n]])
  BY <1>2
<1> DEFINE defs == [n \in names |-> in.checkout[by[n]][n]]
<1>4. KeepsPlan /\ in \in Inputs /\ rewritten \subseteq DOMAIN deps.services
      /\ CyclesExcused(deps, rewritten)
  BY <1>1 DEF PlanInv, CycleInv, Planned
<1>5. rewritten' = rewritten \cup names /\ Goto("env")
  BY <1>2
<1> HIDE DEF names
<1>6. DOMAIN defs = names /\ \A n \in DOMAIN defs : n \in Names /\ defs[n].dependsOn \subseteq Names
  <2> SUFFICES ASSUME NEW n \in names
               PROVE  n \in Names /\ in.checkout[by[n]][n].dependsOn \subseteq Names
    OBVIOUS
  <2>1. PICK m : m = [name |-> n, by |-> by[n], found |-> TRUE]
    OBVIOUS
  <2>2. m \in DetectMissingDependencies(deps) /\ m.name = n /\ m.by = by[n] /\ m.found = TRUE
    BY <1>3, <2>1
  <2>3. PICK x \in DOMAIN deps.services :
          \/ \E y \in deps.services[x].dependsOn : m = [name |-> y, by |-> x, found |-> FALSE]
          \/ \E y \in DOMAIN FindServiceConfig(deps, x) : m = [name |-> y, by |-> x, found |-> TRUE]
    BY <2>2 DEF DetectMissingDependencies
  <2>4. PICK y \in DOMAIN FindServiceConfig(deps, x) : m = [name |-> y, by |-> x, found |-> TRUE]
    BY <2>2, <2>3
  <2>5. n \in DOMAIN FindServiceConfig(deps, by[n])
    BY <2>2, <2>4
  <2> QED BY <1>4, <2>5, CheckoutIs
<1>7. deps' = WithServices(deps, defs) /\ in' = in
  BY <1>3, <1>5 DEF Goto
<1> HIDE DEF defs
<1>8. rewritten' = rewritten \cup DOMAIN defs /\ DOMAIN defs \subseteq Names
      /\ \A n \in DOMAIN defs : defs[n].dependsOn \subseteq Names
  BY <1>5, <1>6
<1> QED BY <1>4, <1>5, <1>7, <1>8, Answered

ConfigInv ==
  PlanInv /\ CycleInv /\ OrderInv /\ GreenInv /\ PcInv /\ CheckAgrees

\* What a green file may be refused for.
Excused(c) ==
  \/ c \in {"preflight", "selection", "audit", "answers", "cycle"}
  \/ c = "dangling" /\ CheckIgnoredDependencies(YAMLToDeps(File), ForProject(File.project)) # {}
  \/ c \in {"project", "services", "infra"} /\
       LET d == YAMLToDeps(File) IN
       \/ BadNames \cap ({d.project} \cup DOMAIN d.services \cup DOMAIN d.infra) # {}
       \/ \E s \in Range(d.services) : s.profiles = "bad" \/ (s.kind = "git" /\ s.path = "")

Early == {"scan", "load", "filter", "audit", "validate", "conflicts", "assist", "env", "order", "killed"}

\* What every step that keeps the input keeps of the file.
LEMMA GreenStays ==
  ASSUME GreenInv, in' = in, green' = green, pc' # "scan"
  PROVE  GreenInv'
<1>1. green' = "green" => CheckYAML(File)'
  BY SameIn DEF GreenInv
<1> QED BY <1>1 DEF GreenInv

LEMMA OrderStays ==
  ASSUME OrderInv, queue = <<>>, started = <<>>, queue' = <<>>, started' = <<>>,
         pc' \notin {"start", "done"}
  PROVE  OrderInv'
BY DEF OrderInv, Distinct, Range

LEMMA RefuseStep ==
  ASSUME ConfigInv, NEW c, Refuse(c), c # "", pc \in Early, green = "green" => Excused(c)
  PROVE  ConfigInv'
<1>1. /\ pc' = "refused" /\ cause' = c /\ in' = in /\ deps' = deps /\ queue' = queue
      /\ started' = started /\ rewritten' = rewritten /\ green' = green
  BY DEF Refuse
<1>2. PlanInv'
  <2>1. \/ deps = NoDeps
        \/ deps = Configuration /\ Loaded
        \/ KeepsPlan
    BY DEF ConfigInv, PlanInv
  <2>2. \/ deps' = NoDeps
        \/ deps' = Configuration' /\ Loaded'
        \/ KeepsPlan'
    BY <1>1, <2>1, SameIn, SameKeeps
  <2>3. in' \in Inputs /\ rewritten' \subseteq DOMAIN deps'.services
    BY <1>1 DEF ConfigInv, PlanInv
  <2> QED BY <1>1, <2>2, <2>3 DEF PlanInv
<1>3. CycleInv'
  BY <1>1 DEF CycleInv
<1>4. OrderInv'
  <2>1. queue = <<>> /\ started = <<>>
    BY DEF ConfigInv, OrderInv, Early
  <2> QED BY <1>1, <2>1, OrderStays DEF ConfigInv
<1>5. GreenInv' /\ PcInv'
  BY <1>1, GreenStays DEF ConfigInv, PcInv
<1>6. CheckAgrees'
  <2> SUFFICES ASSUME green = "green" PROVE CheckAgrees'
    BY <1>1 DEF CheckAgrees
  <2>1. File' = File
    BY <1>1, SameIn
  <2>2. ForProject(File.project)' = ForProject(File.project)
    BY <1>1, <2>1 DEF ForProject
  <2> QED BY <1>1, <2>1, <2>2 DEF Excused, CheckAgrees
<1> QED BY <1>2, <1>3, <1>4, <1>5, <1>6 DEF ConfigInv

\* A phase goes on to the next one.
LEMMA GotoStep ==
  ASSUME ConfigInv, NEW p, Goto(p), pc \in Early, p \in Early \ {"scan"}, PlanInv', CycleInv'
  PROVE  ConfigInv'
<1>1. /\ pc' = p /\ in' = in /\ cause' = cause /\ queue' = queue
      /\ started' = started /\ green' = green
  BY DEF Goto
<1>2. OrderInv'
  <2>1. queue = <<>> /\ started = <<>> /\ pc' \notin {"start", "done"}
    BY <1>1 DEF ConfigInv, OrderInv, Early
  <2> QED BY <1>1, <2>1, OrderStays DEF ConfigInv
<1>3. GreenInv'
  BY <1>1, GreenStays DEF ConfigInv
<1>4. PcInv' /\ CheckAgrees'
  BY <1>1 DEF ConfigInv, PcInv, CheckAgrees, Early, Planned
<1> QED BY <1>2, <1>3, <1>4 DEF ConfigInv

\* The same with the plan untouched.
LEMMA KeepStep ==
  ASSUME ConfigInv, NEW p, Goto(p), pc \in Planned \cap Early, p \in (Planned \cap Early) \cup {"killed"},
         deps' = deps, rewritten' = rewritten,
         p \in {"audit", "validate", "conflicts"} => rewritten = {},
         CycleInv'
  PROVE  ConfigInv'
<1>1. KeepsPlan /\ in \in Inputs /\ rewritten \subseteq DOMAIN deps.services
  BY DEF ConfigInv, PlanInv, Planned
<1>2. in' = in /\ pc' = p
  BY DEF Goto
<1>3. KeepsPlan'
  BY <1>1, <1>2, SameKeeps
<1>4. PlanInv'
  BY <1>1, <1>2, <1>3 DEF PlanInv, Planned, Early
<1> QED BY <1>4, GotoStep DEF Early, Planned

LEMMA CheckStep ==
  ASSUME ConfigInv, Check
  PROVE  ConfigInv'
<1>1. /\ pc = "load" /\ green' = (IF CheckYAML(File) THEN "green" ELSE "red")
      /\ UNCHANGED <<in, pc, cause, deps, queue, started, rewritten, env>>
  BY DEF Check
<1>2. PlanInv'
  BY <1>1, SameIn, SameKeeps DEF ConfigInv, PlanInv
<1>3. CycleInv' /\ PcInv' /\ CheckAgrees'
  BY <1>1 DEF ConfigInv, CycleInv, PcInv, CheckAgrees
<1>4. OrderInv'
  BY <1>1, OrderStays DEF ConfigInv, OrderInv
<1>5. GreenInv'
  <2>1. in.way # "auto"
    BY <1>1 DEF ConfigInv, PlanInv
  <2>2. CheckYAML(File)' = CheckYAML(File)
    BY <1>1, SameIn
  <2>3. green' \in {"green", "red"} /\ (green' = "green" => CheckYAML(File))
    BY <1>1
  <2> QED BY <1>1, <2>1, <2>2, <2>3 DEF GreenInv
<1> QED BY <1>2, <1>3, <1>4, <1>5 DEF ConfigInv

LEMMA ScanStep ==
  ASSUME ConfigInv, ScanToFile \/ ScanAndGo
  PROVE  ConfigInv'
<1>1. pc = "scan"
  BY DEF ScanToFile, ScanAndGo
<1>2. pc \in Early /\ green # "green" /\ deps = NoDeps /\ rewritten = {} /\ in \in Inputs
      /\ rewritten \subseteq DOMAIN deps.services
  BY <1>1 DEF ConfigInv, GreenInv, PlanInv, Planned, Early
<1>3. CASE Refuse("nothing")
  BY <1>2, <1>3, RefuseStep
<1>4. CASE ScanToFile /\ Goto("load") /\ UNCHANGED <<deps, rewritten, env>>
  <2>1. in.way = "init" /\ in' = in /\ pc' = "load" /\ deps' = deps /\ rewritten' = rewritten
    BY <1>4 DEF ScanToFile, Goto
  <2>2. PlanInv' /\ CycleInv'
    BY <1>2, <2>1 DEF PlanInv, CycleInv
  <2> QED BY <1>2, <1>4, <2>2, GotoStep DEF Early
<1>5. CASE ScanAndGo /\ Goto("filter") /\ deps' = Configuration /\ UNCHANGED <<rewritten, env>>
  <2>1. in.way = "auto" /\ in' = in /\ pc' = "filter" /\ deps' = Configuration
        /\ rewritten' = {}
    BY <1>2, <1>5 DEF ScanAndGo, Goto
  <2>2. Configuration' = Configuration /\ Loaded'
    BY <2>1, SameIn DEF Loaded
  <2>3. PlanInv' /\ CycleInv'
    BY <1>2, <2>1, <2>2 DEF PlanInv, CycleInv
  <2> QED BY <1>2, <1>5, <2>3, GotoStep DEF Early
<1> QED BY <1>3, <1>4, <1>5 DEF ScanToFile, ScanAndGo

LEMMA LoadStep ==
  ASSUME ConfigInv, Load
  PROVE  ConfigInv'
<1>1. pc = "load"
  BY DEF Load
<1>2. pc \in Early /\ in.way # "auto" /\ rewritten = {} /\ in \in Inputs
  BY <1>1 DEF ConfigInv, PlanInv, Early
<1>3. CASE LoadDepsFromYAML(File) /\ Goto("filter") /\ deps' = YAMLToDeps(File)
           /\ UNCHANGED <<rewritten, env>>
  <2>1. in' = in /\ pc' = "filter" /\ deps' = Configuration /\ rewritten' = {} /\ Loaded
    BY <1>2, <1>3 DEF Goto, Configuration, Loaded
  <2>2. Configuration' = Configuration /\ Loaded'
    BY <2>1, SameIn
  <2>3. PlanInv' /\ CycleInv'
    BY <1>2, <2>1, <2>2 DEF PlanInv, CycleInv
  <2> QED BY <1>2, <1>3, <2>3, GotoStep DEF Early
<1>4. CASE ~LoadDepsFromYAML(File) /\ Refuse("load")
  <2>1. green # "green"
    BY <1>4 DEF ConfigInv, GreenInv, CheckYAML
  <2> QED BY <1>2, <1>4, <2>1, RefuseStep
<1> QED BY <1>3, <1>4 DEF Load

LEMMA FilterStep ==
  ASSUME ConfigInv, ApplyFilters
  PROVE  ConfigInv'
<1>1. pc = "filter" /\ pc \in Early
  BY DEF ApplyFilters, Early
<1>2. rewritten = {} /\ in \in Inputs /\ deps = Configuration /\ Loaded
  BY <1>1, NoDepsIs DEF ConfigInv, PlanInv, Planned
<1>3. CASE FiltersAccept(deps) /\ Goto("audit") /\ deps' = Filtered(deps)
           /\ UNCHANGED <<rewritten, env>>
  <2>1. in' = in /\ pc' = "audit" /\ deps' = Plan /\ rewritten' = {}
        /\ FiltersAccept(Configuration)
    BY <1>2, <1>3 DEF Goto, Plan
  <2>2. IsDeps(Plan)
    BY <1>2, ConfigurationIsDeps, FilteredIs DEF Plan
  <2>3. Plan' = Plan /\ Loaded' /\ FiltersAccept(Configuration)'
    BY <1>2, <2>1, SameIn
  <2>4. KeepsPlan'
    BY <2>1, <2>2, <2>3 DEF KeepsPlan
  <2>5. PlanInv' /\ CycleInv'
    BY <1>2, <2>1, <2>4 DEF PlanInv, CycleInv, Planned
  <2> QED BY <1>1, <1>3, <2>5, GotoStep DEF Early
<1>4. CASE ~FiltersAccept(deps) /\ Refuse("selection")
  BY <1>1, <1>4, RefuseStep DEF Excused
<1> QED BY <1>3, <1>4 DEF ApplyFilters

LEMMA AuditStep ==
  ASSUME ConfigInv, AuditSiblings
  PROVE  ConfigInv'
<1>1. pc = "audit" /\ pc \in Early /\ pc \in Planned
  BY DEF AuditSiblings, Early, Planned
<1>2. rewritten = {}
  BY <1>1 DEF ConfigInv, PlanInv
<1>3. CASE Goto("validate") /\ UNCHANGED <<deps, rewritten, env>>
  <2>1. CycleInv'
    BY <1>3 DEF Goto, CycleInv
  <2> QED BY <1>1, <1>2, <1>3, <2>1, KeepStep DEF Early, Planned
<1>4. CASE Refuse("audit")
  BY <1>1, <1>4, RefuseStep DEF Excused
<1> QED BY <1>3, <1>4 DEF AuditSiblings

LEMMA ValidateStep ==
  ASSUME ConfigInv, Validate
  PROVE  ConfigInv'
<1>1. pc = "validate" /\ pc \in Early /\ pc \in Planned
  BY DEF Validate, Early, Planned
<1>2. rewritten = {}
  BY <1>1 DEF ConfigInv, PlanInv
<1>3. CASE ValidateRefusals(deps) = {} /\ Goto("conflicts") /\ UNCHANGED <<deps, rewritten, env>>
  <2>1. ValidateDependencyCycle(deps)
    BY <1>3 DEF ValidateRefusals
  <2>2. CyclesExcused(deps, rewritten)
    BY <2>1 DEF ValidateDependencyCycle, CyclesExcused
  <2>3. CycleInv'
    BY <1>3, <2>2 DEF CycleInv
  <2> QED BY <1>1, <1>2, <1>3, <2>3, KeepStep DEF Early, Planned
<1>4. ASSUME NEW c \in ValidateRefusals(deps), Refuse(c) PROVE ConfigInv'
  <2>1. ASSUME green = "green" PROVE Excused(c)
    BY <1>1, <2>1, RefusedAgrees DEF ConfigInv, Excused
  <2>2. c # ""
    BY DEF ValidateRefusals
  <2> QED BY <1>1, <1>4, <2>1, <2>2, RefuseStep
<1> QED BY <1>3, <1>4 DEF Validate

LEMMA AnswerStep ==
  ASSUME ConfigInv, HandleDependencyConflicts \/ HandleDependencyAssist
  PROVE  ConfigInv'
<1>1. pc \in {"conflicts", "assist"} /\ pc \in Early /\ in \in Inputs
  BY DEF HandleDependencyConflicts, HandleDependencyAssist, Early, ConfigInv, PlanInv
<1>2. CASE Refuse("answers")
  BY <1>1, <1>2, RefuseStep DEF Excused
<1>3. CASE pc' # "refused"
  <2>1. PICK p \in {"assist", "env"} :
          /\ Goto(p) /\ KeepsPlan' /\ rewritten' \subseteq DOMAIN deps'.services
          /\ CyclesExcused(deps, rewritten)'
    BY <1>3, ConflictsAnswered, AssistAnswered DEF ConfigInv
  <2>2. in' = in /\ pc' = p
    BY <2>1 DEF Goto
  <2>3. PlanInv' /\ CycleInv'
    BY <1>1, <2>1, <2>2 DEF PlanInv, CycleInv, Planned
  <2> QED BY <1>1, <2>1, <2>3, GotoStep DEF Early
<1>4. Refuse("answers") \/ pc' # "refused"
  BY DEF HandleDependencyConflicts, HandleDependencyAssist, Goto
<1> QED BY <1>2, <1>3, <1>4

LEMMA EnvStep ==
  ASSUME ConfigInv, generateEnvFilesFromTemplates \/ KilledInWrite
  PROVE  ConfigInv'
<1>1. /\ pc = "env" /\ UNCHANGED <<deps, rewritten>>
      /\ Goto("order") \/ Goto("killed")
  BY DEF generateEnvFilesFromTemplates, KilledInWrite
<1>2. pc \in Planned \cap Early
  BY <1>1 DEF Planned, Early
<1>3. CycleInv'
  BY <1>1 DEF ConfigInv, CycleInv, Goto
<1>4. CASE Goto("order")
  BY <1>1, <1>2, <1>3, <1>4, KeepStep DEF Early, Planned
<1>5. CASE Goto("killed")
  BY <1>1, <1>2, <1>3, <1>5, KeepStep
<1> QED BY <1>1, <1>4, <1>5

LEMMA AgainStep ==
  ASSUME ConfigInv, Again
  PROVE  ConfigInv'
<1>1. /\ pc \in {"done", "killed"} /\ pc' = (IF in.way = "auto" THEN "scan" ELSE "load")
      /\ deps' = NoDeps /\ started' = <<>> /\ queue' = <<>> /\ rewritten' = {}
      /\ in' = in /\ cause' = cause /\ green' = green
  BY DEF Again
<1>2. PlanInv'
  BY <1>1 DEF ConfigInv, PlanInv
<1>3. CycleInv' /\ PcInv' /\ CheckAgrees'
  BY <1>1 DEF CycleInv, ConfigInv, PcInv, CheckAgrees
<1>4. OrderInv'
  BY <1>1 DEF OrderInv, Distinct, Range
<1>5. GreenInv'
  BY <1>1, SameIn DEF ConfigInv, GreenInv
<1> QED BY <1>2, <1>3, <1>4, <1>5 DEF ConfigInv

LEMMA StartStep ==
  ASSUME ConfigInv, OrderBegin \/ StartNext \/ Done
  PROVE  ConfigInv'
<1>1. /\ pc \in {"order", "start"} /\ pc' \in {"start", "done"}
      /\ in' = in /\ cause' = cause /\ deps' = deps /\ rewritten' = rewritten /\ green' = green
  BY DEF OrderBegin, StartNext, Done
<1>2. PlanInv'
  <2>1. KeepsPlan /\ in \in Inputs /\ rewritten \subseteq DOMAIN deps.services
    BY <1>1 DEF ConfigInv, PlanInv, Planned
  <2> QED BY <1>1, <2>1, SameKeeps DEF PlanInv, Planned
<1>3. CycleInv' /\ PcInv' /\ CheckAgrees'
  BY <1>1 DEF CycleInv, ConfigInv, PcInv, CheckAgrees, Planned
<1>4. GreenInv'
  BY <1>1, GreenStays DEF ConfigInv
<1>5. OrderInv'
  <2>1. CASE OrderBegin
    BY <2>1, OrderBegins DEF ConfigInv
  <2>2. CASE StartNext
    BY <2>2, StartsNext DEF ConfigInv
  <2>3. CASE Done
    <3>1. pc = "start" /\ pc' = "done" /\ queue = <<>> /\ queue' = queue /\ started' = started
      BY <2>3 DEF Done
    <3>2. \A n : ServiceDeps(n)' = ServiceDeps(n)
      BY <1>1 DEF ServiceDeps
    <3> QED BY <1>1, <3>1, <3>2 DEF ConfigInv, OrderInv, ServiceDeps
  <2> QED BY <2>1, <2>2, <2>3
<1> QED BY <1>2, <1>3, <1>4, <1>5 DEF ConfigInv

\* A step that touches at most the .env of a service.
LEMMA OutsideStep ==
  ASSUME ConfigInv, UNCHANGED <<in, pc, cause, deps, queue, started, rewritten, green>>
  PROVE  ConfigInv'
<1>1. PlanInv'
  BY SameIn, SameKeeps DEF ConfigInv, PlanInv
<1>2. CycleInv' /\ PcInv'
  BY DEF ConfigInv, CycleInv, PcInv
<1>3. GreenInv'
  BY SameIn DEF ConfigInv, GreenInv
<1>4. OrderInv'
  <2>1. \A n : ServiceDeps(n)' = ServiceDeps(n)
    BY DEF ServiceDeps
  <2> QED BY <2>1 DEF ConfigInv, OrderInv, ServiceDeps
<1>5. CheckAgrees'
  <2>1. File' = File
    BY SameIn
  <2>2. ForProject(File.project)' = ForProject(File.project)
    BY <2>1 DEF ForProject
  <2> QED BY <2>1, <2>2 DEF ConfigInv, CheckAgrees
<1> QED BY <1>1, <1>2, <1>3, <1>4, <1>5 DEF ConfigInv

LEMMA ConfigInvInit ==
  ASSUME ConfigInit
  PROVE  ConfigInv
<1>1. /\ in \in Inputs /\ pc = (IF in.way = "file" THEN "load" ELSE "scan") /\ cause = ""
      /\ deps = NoDeps /\ queue = <<>> /\ started = <<>> /\ rewritten = {} /\ green = "unasked"
  BY DEF ConfigInit
<1>2. PlanInv /\ CycleInv /\ GreenInv /\ PcInv /\ CheckAgrees
  BY <1>1 DEF PlanInv, CycleInv, GreenInv, PcInv, CheckAgrees
<1>3. OrderInv
  <2>1. queue = <<>> /\ started = <<>> /\ pc \notin {"start", "done"}
    BY <1>1
  <2>2. DOMAIN queue = {} /\ DOMAIN started = {}
    BY <2>1
  <2>3. Range(queue) = {} /\ Range(started) = {}
    BY <2>2 DEF Range
  <2> QED BY <2>1, <2>2, <2>3 DEF OrderInv, Distinct
<1> QED BY <1>2, <1>3 DEF ConfigInv

LEMMA ConfigInvNext ==
  ASSUME ConfigInv, [ConfigNext]_configVars
  PROVE  ConfigInv'
<1>1. CASE Check
  BY <1>1, CheckStep
<1>2. CASE ScanToFile \/ ScanAndGo
  BY <1>2, ScanStep
<1>3. CASE Load
  BY <1>3, LoadStep
<1>4. CASE ApplyFilters
  BY <1>4, FilterStep
<1>5. CASE AuditSiblings
  BY <1>5, AuditStep
<1>6. CASE Validate
  BY <1>6, ValidateStep
<1>7. CASE HandleDependencyConflicts \/ HandleDependencyAssist
  BY <1>7, AnswerStep
<1>8. CASE generateEnvFilesFromTemplates \/ KilledInWrite
  BY <1>8, EnvStep
<1>9. CASE Edit
  BY <1>9, OutsideStep DEF Edit
<1>10. CASE Again
  BY <1>10, AgainStep
<1>11. CASE OrderBegin \/ StartNext \/ Done
  BY <1>11, StartStep
<1>12. CASE UNCHANGED configVars
  BY <1>12, OutsideStep DEF configVars
<1> QED BY <1>1, <1>2, <1>3, <1>4, <1>5, <1>6, <1>7, <1>8, <1>9, <1>10, <1>11, <1>12 DEF ConfigNext

\* The inductive invariant of the pipeline: deps is the plan of the phase, cycles
\* are an answer's, Kahn's queue holds what may start, a green verdict is of this
\* file.
THEOREM ConfigInvariant == ConfigSpec => []ConfigInv
<1> QED BY ConfigInvInit, ConfigInvNext, PTL DEF ConfigSpec

\* In every state of every run the variables of the pipeline have their types:
\* a phase of Execute with a plan over the declared names.
THEOREM ConfigTypes == ConfigSpec => []ConfigTypeOK
<1>1. ConfigInv => ConfigTypeOK
  BY TypesHold DEF ConfigInv
<1> QED BY <1>1, ConfigInvariant, PTL

\* orderedServiceNames starts no service twice, none before one it depends on,
\* and leaves out only services behind a cycle that an answer brought in.
THEOREM ConfigStartsInOrder == ConfigSpec => []StartedInOrder
<1>1. ConfigInv => StartedInOrder
  BY OrderHolds DEF ConfigInv
<1> QED BY <1>1, ConfigInvariant, PTL

\* From validation on, the plan is what --only and the ignore list select of the
\* file, with the definitions and settings the file gives, but for the answers.
THEOREM ConfigFollowsFile == ConfigSpec => []PlanIsTheFile
<1>1. ConfigInv => PlanIsTheFile
  BY PlanHolds DEF ConfigInv
<1> QED BY <1>1, ConfigInvariant, PTL

\* A file `raioz check` calls green is refused by `raioz up` only for what check
\* does not look at.
THEOREM ConfigCheckAgrees == ConfigSpec => []CheckAgrees
<1>1. ConfigInv => CheckAgrees
  BY DEF ConfigInv
<1> QED BY <1>1, ConfigInvariant, PTL

-----------------------------------------------------------------------------
(* ConfigPipeline. What a scan makes of a directory.                       *)

LEMMA LinksAre ==
  ASSUME NEW t, NEW n
  PROVE  /\ LinksFrom(t, n) \subseteq InferDepsFromEnv(t).deps
         /\ n \in DOMAIN t.dirs => LinksFrom(t, n) = Mentions(t.dirs[n])
<1> DEFINE below == UNION {Mentions(t.dirs[m]) : m \in DOMAIN t.dirs}
           links == {l \in (DOMAIN t.dirs) \X below : l[2] \in Mentions(t.dirs[l[1]])}
<1>1. InferDepsFromEnv(t).links = links /\ below \subseteq InferDepsFromEnv(t).deps
  BY DEF InferDepsFromEnv
<1>2. \A x \in LinksFrom(t, n) : \E l \in links : l[1] = n /\ x = l[2]
  BY <1>1 DEF LinksFrom
<1>3. \A l \in links : l[1] = n => l[2] \in LinksFrom(t, n)
  BY <1>1 DEF LinksFrom
<1>4. ASSUME NEW x \in LinksFrom(t, n)
      PROVE  x \in below /\ n \in DOMAIN t.dirs /\ x \in Mentions(t.dirs[n])
  BY <1>2
<1>5. ASSUME n \in DOMAIN t.dirs, NEW x \in Mentions(t.dirs[n])
      PROVE  x \in LinksFrom(t, n)
  <2>1. x \in below
    BY <1>5
  <2>2. <<n, x>> \in links
    BY <1>5, <2>1
  <2> QED BY <1>3, <2>2
<1> QED BY <1>1, <1>4, <1>5

LEMMA UpTo ==
  ASSUME NEW n \in Nat, NEW i \in 1..n
  PROVE  Cardinality(1..n) = n /\ Cardinality({k \in 1..n : k <= i}) = i
<1>1. {k \in 1..n : k <= i} = 1..i
  OBVIOUS
<1>2. Cardinality(1..n) = n
  BY FS_Interval
<1>3. Cardinality(1..i) = i
  BY FS_Interval
<1> QED BY <1>1, <1>2, <1>3

\* Where every key of the compose file has an image, so has what is paired with it.
LEMMA ComposeImageIs ==
  ASSUME NEW file \in Seq([name : STRING, image : STRING]), NEW i \in DOMAIN file
  PROVE  (\A j \in DOMAIN file : file[j].image # "") => ComposeImage(file, i) # ""
<1> DEFINE pulled == {j \in DOMAIN file : file[j].image # ""}
           Nth(j) == Cardinality({k \in pulled : k <= j}) = i
           c == CHOOSE j \in pulled : Nth(j)
           n == Len(file)
<1>1. n \in Nat /\ DOMAIN file = 1..n /\ i \in 1..n
  BY LenProperties
<1>2. ComposeImage(file, i) = IF i <= Cardinality(pulled) THEN file[c].image ELSE ""
  BY DEF ComposeImage
<1>3. \A j \in pulled : file[j].image # ""
  OBVIOUS
<1>4. SUFFICES ASSUME \A j \in DOMAIN file : file[j].image # ""
               PROVE  ComposeImage(file, i) # ""
  OBVIOUS
<1>5. pulled = DOMAIN file
  BY <1>4
<1> HIDE DEF pulled, n
<1>6. i <= Cardinality(pulled) /\ i \in pulled /\ Nth(i)
  <2>1. pulled = 1..n
    BY <1>1, <1>5
  <2>2. Cardinality(pulled) = n /\ Nth(i)
    BY <1>1, <2>1, UpTo
  <2> QED BY <1>1, <2>1, <2>2
<1>7. c \in pulled
  <2> HIDE DEF Nth
  <2> QED BY <1>6
<1> HIDE DEF c
<1> QED BY <1>2, <1>3, <1>6, <1>7

LEMMA ComposedIs ==
  ASSUME NEW file \in Seq([name : STRING, image : STRING])
  PROVE  LET composed == InferDepsFromCompose(file) IN
         \A n \in DOMAIN composed :
           /\ \E i \in DOMAIN file : file[i].name = n
           /\ composed[n] = "" => \E i \in DOMAIN file : file[i].image = ""
<1> DEFINE infra == {i \in DOMAIN file : \/ ComposeImage(file, i) \in InfraImages
                                         \/ file[i].name \in InfraNames}
           Of(n) == {i \in infra : file[i].name = n}
           IsFirst(n, i) == file[i].name = n /\ \A j \in infra : file[j].name = n => i <= j
           First(n) == CHOOSE i \in infra : IsFirst(n, i)
           composed == InferDepsFromCompose(file)
<1>1. composed = [n \in {file[i].name : i \in infra} |-> ComposeImage(file, First(n))]
  BY DEF InferDepsFromCompose
<1>2. infra \subseteq DOMAIN file /\ DOMAIN file \subseteq Nat
  OBVIOUS
<1> HIDE DEF infra
<1>3. SUFFICES ASSUME NEW n \in {file[i].name : i \in infra}
               PROVE  /\ \E i \in DOMAIN file : file[i].name = n
                      /\ composed[n] = "" => \E i \in DOMAIN file : file[i].image = ""
  BY <1>1
<1>4. \E i \in infra : IsFirst(n, i)
  <2>1. Of(n) \in SUBSET Nat /\ Of(n) # {}
    BY <1>2
  <2>2. PICK i \in Of(n) : \A j \in Of(n) : i <= j
    <3> HIDE DEF Of
    <3> QED BY <2>1, Least
  <2> QED BY <2>2
<1>5. First(n) \in infra
  <2> HIDE DEF IsFirst
  <2> QED BY <1>4
<1>6. First(n) \in DOMAIN file /\ composed[n] = ComposeImage(file, First(n))
  BY <1>1, <1>2, <1>5
<1> HIDE DEF First, composed
<1>7. composed[n] = "" => \E i \in DOMAIN file : file[i].image = ""
  BY <1>6, ComposeImageIs
<1> QED BY <1>2, <1>3, <1>7

\* What a file that is scanned has, written or not.
IsScan(t, f) ==
  /\ f.project = t.name /\ f.proxy.enabled = FALSE
  /\ DOMAIN f.services = ScannedServices(t)
  /\ \A n \in DOMAIN f.services :
       f.services[n].dependsOn = LinksFrom(t, n) /\ f.services[n].git = "" /\ f.services[n].profiles = "none"
  /\ InferDepsFromEnv(t).deps \subseteq DOMAIN f.deps
  /\ \A n \in DOMAIN f.deps : \E image :
       /\ f.deps[n] = scannedDependency(image)
       /\ image = "" => \E i \in DOMAIN t.compose : t.compose[i].image = ""
       /\ n \in BadNames => \E i \in DOMAIN t.compose : t.compose[i].name = n

LEMMA InitIsScan ==
  ASSUME NEW t, t.compose \in Seq([name : STRING, image : STRING]),
         InferDepsFromEnv(t).deps \cap BadNames = {}
  PROVE  IsScan(t, InitScan(t))
<1> DEFINE f == InitScan(t)
           composed == InferDepsFromCompose(t.compose)
           inferred == InferDepsFromEnv(t).deps
           Image(n) == IF n \in inferred THEN KnownImage(n) ELSE IF composed[n] = "" THEN "" ELSE "untagged"
<1>1. /\ f.project = t.name /\ f.proxy.enabled = FALSE
      /\ DOMAIN f.services = ScannedServices(t) /\ f.deps = scanRootCompose(t)
      /\ \A n \in ScannedServices(t) : f.services[n] = buildServiceFromDetection(t, n)
  BY ScannedIs
<1>2. /\ DOMAIN f.deps = inferred \cup DOMAIN composed
      /\ \A n \in inferred \cup DOMAIN composed : f.deps[n] = scannedDependency(Image(n))
  BY <1>1 DEF scanRootCompose
<1> HIDE DEF f
<1>3. ASSUME NEW n \in DOMAIN f.services
      PROVE  f.services[n].dependsOn = LinksFrom(t, n) /\ f.services[n].git = ""
             /\ f.services[n].profiles = "none"
  <2>1. PICK s : s = buildServiceFromDetection(t, n)
    OBVIOUS
  <2>2. s.dependsOn = LinksFrom(t, n) /\ s.git = "" /\ s.profiles = "none"
    BY <2>1 DEF buildServiceFromDetection
  <2>3. f.services[n] = s
    BY <1>1, <2>1
  <2> QED BY <2>2, <2>3
<1>4. ASSUME NEW n \in DOMAIN f.deps
      PROVE  /\ Image(n) = "" => \E i \in DOMAIN t.compose : t.compose[i].image = ""
             /\ n \in BadNames => \E i \in DOMAIN t.compose : t.compose[i].name = n
  <2>1. CASE n \in inferred
    <3>1. Image(n) \in {"latest", "pinned"}
      BY <2>1 DEF KnownImage
    <3> HIDE DEF Image
    <3> QED BY <2>1, <3>1
  <2>2. CASE n \notin inferred
    <3>1. n \in DOMAIN composed /\ (Image(n) = "" => composed[n] = "")
      BY <1>2, <2>2
    <3> HIDE DEF Image
    <3> QED BY <3>1, ComposedIs
  <2> QED BY <2>1, <2>2
<1> HIDE DEF Image, composed
<1>5. \A n \in DOMAIN f.deps : \E image :
       /\ f.deps[n] = scannedDependency(image)
       /\ image = "" => \E i \in DOMAIN t.compose : t.compose[i].image = ""
       /\ n \in BadNames => \E i \in DOMAIN t.compose : t.compose[i].name = n
  BY <1>2, <1>4
<1>6. inferred \subseteq DOMAIN f.deps
  BY <1>2
<1> QED BY <1>1, <1>3, <1>5, <1>6 DEF IsScan, f

LEMMA AutoIsScan ==
  ASSUME NEW t, InferDepsFromEnv(t).deps \cap BadNames = {}
  PROVE  IsScan(t, AutoFile(t))
<1> DEFINE f == AutoFile(t)
<1>1. /\ f.project = t.name /\ f.proxy.enabled = FALSE
      /\ DOMAIN f.services = ScannedServices(t)
      /\ DOMAIN f.deps = InferDepsFromEnv(t).deps
      /\ \A n \in InferDepsFromEnv(t).deps : f.deps[n] = scannedDependency(KnownImage(n))
      /\ \A n \in ScannedServices(t) : f.services[n] = autoService(t, n)
  BY AutoIs
<1> HIDE DEF f
<1>2. ASSUME NEW n \in DOMAIN f.services
      PROVE  f.services[n].dependsOn = LinksFrom(t, n) /\ f.services[n].git = ""
             /\ f.services[n].profiles = "none"
  <2>1. PICK s : s = autoService(t, n)
    OBVIOUS
  <2>2. s.dependsOn = LinksFrom(t, n) /\ s.git = "" /\ s.profiles = "none"
    BY <2>1, AutoServiceIs
  <2>3. f.services[n] = s
    BY <1>1, <2>1
  <2> QED BY <2>2, <2>3
<1>3. \A n \in DOMAIN f.deps : KnownImage(n) # "" /\ n \notin BadNames
  BY <1>1 DEF KnownImage
<1>4. \A n \in DOMAIN f.deps : \E image :
       /\ f.deps[n] = scannedDependency(image)
       /\ image = "" => \E i \in DOMAIN t.compose : t.compose[i].image = ""
       /\ n \in BadNames => \E i \in DOMAIN t.compose : t.compose[i].name = n
  BY <1>1, <1>3
<1> QED BY <1>1, <1>2, <1>4 DEF IsScan, f

\* What keeps a scan from coming up, for good reason.
Odd ==
  LET t == in.tree IN
  \/ ({t.name} \cup DOMAIN t.dirs \cup {t.compose[i].name : i \in DOMAIN t.compose}) \cap BadNames # {}
  \/ DOMAIN Configuration.services \cap DOMAIN Configuration.infra # {}
  \/ \E i \in DOMAIN t.compose : t.compose[i].image = ""

LEMMA ScanOf ==
  ASSUME in \in Inputs, in.way # "file"
  PROVE  \E f : /\ IsScan(in.tree, f) /\ Configuration = YAMLToDeps(f)
                /\ in.way # "auto" => f = File /\ f = InitScan(in.tree)
<1> DEFINE t == in.tree
<1>1. /\ in.way \in {"init", "auto"}
      /\ t.compose \in Seq([name : STRING, image : STRING])
      /\ InferDepsFromEnv(t).deps \cap BadNames = {}
  BY InputsAssumption
<1> HIDE DEF t
<1>2. CASE in.way = "init"
  <2>1. IsScan(t, InitScan(t))
    BY <1>1, InitIsScan
  <2>2. File = InitScan(t) /\ Configuration = YAMLToDeps(InitScan(t))
    BY <1>2 DEF File, Configuration, t
  <2> QED BY <2>1, <2>2 DEF t
<1>3. CASE in.way = "auto"
  <2>1. IsScan(t, AutoFile(t))
    BY <1>1, AutoIsScan
  <2>2. Configuration = YAMLToDeps(AutoFile(t))
    BY <1>3 DEF Configuration, AutoDetect, t
  <2> QED BY <1>3, <2>1, <2>2 DEF t
<1> QED BY <1>1, <1>2, <1>3

\* A service of a scan has no clone, no profiles, and needs only dependencies.
IsScanned(d, n) ==
  /\ d.services[n].kind = "local" /\ d.services[n].profiles = "none"
  /\ d.services[n].dependsOn = LinksFrom(in.tree, n)

\* A dependency of a scan has an image and leads to no sibling.
IsInferred(d, n) ==
  /\ d.infra[n].project = "" /\ d.infra[n].sibling = ""
  /\ d.infra[n].image = "" => Odd
  /\ n \in BadNames => Odd

LEMMA DependencySibling ==
  ASSUME NEW f, NEW d
  PROVE  yamlDependencyToInfra(f, d).sibling = d.sibling
BY DEF yamlDependencyToInfra

LEMMA ServiceProfiles ==
  ASSUME NEW f, NEW s
  PROVE  yamlServiceToService(f, s).profiles = s.profiles
BY DEF yamlServiceToService

LEMMA ScannedDependencyIs ==
  ASSUME NEW image, NEW x, x = scannedDependency(image)
  PROVE  x.image = image /\ x.project = "" /\ x.sibling = ""
BY DEF scannedDependency

LEMMA ScanDeps ==
  ASSUME in \in Inputs, in.way # "file"
  PROVE  /\ Configuration.project = in.tree.name /\ Configuration.proxy = NoProxy
         /\ DOMAIN Configuration.services = ScannedServices(in.tree)
         /\ InferDepsFromEnv(in.tree).deps \subseteq DOMAIN Configuration.infra
         /\ \A n \in DOMAIN Configuration.services : IsScanned(Configuration, n)
         /\ \A n \in DOMAIN Configuration.infra : IsInferred(Configuration, n)
<1> DEFINE t == in.tree
           d == Configuration
<1>1. PICK f : IsScan(t, f) /\ d = YAMLToDeps(f)
  BY ScanOf
<1>2. /\ f.project = t.name /\ f.proxy.enabled = FALSE
      /\ DOMAIN f.services = ScannedServices(t)
      /\ InferDepsFromEnv(t).deps \subseteq DOMAIN f.deps
  BY <1>1 DEF IsScan
<1>3. /\ d.project = f.project /\ d.proxy = NoProxy
      /\ DOMAIN d.services = DOMAIN f.services /\ DOMAIN d.infra = DOMAIN f.deps
      /\ \A n \in DOMAIN f.services : d.services[n] = yamlServiceToService(f, f.services[n])
      /\ \A n \in DOMAIN f.deps : d.infra[n] = yamlDependencyToInfra(f, f.deps[n])
  BY <1>1, <1>2, BridgeIs
<1>4. ASSUME NEW n \in DOMAIN d.services PROVE IsScanned(d, n)
  <2>1. PICK s : s = f.services[n]
    OBVIOUS
  <2>2. s.dependsOn = LinksFrom(t, n) /\ s.git = "" /\ s.profiles = "none"
    BY <1>1, <1>3, <2>1 DEF IsScan
  <2>3. d.services[n] = yamlServiceToService(f, s)
    BY <1>3, <2>1
  <2>4. d.services[n].dependsOn = s.dependsOn
    BY <2>3, ServiceOfFile
  <2>5. d.services[n].profiles = s.profiles
    BY <2>3, ServiceProfiles
  <2>6. d.services[n].kind = "local"
    BY <2>2, <2>3, ServiceKind
  <2> HIDE DEF d
  <2> QED BY <2>2, <2>4, <2>5, <2>6 DEF IsScanned
<1>5. ASSUME NEW n \in DOMAIN d.infra PROVE IsInferred(d, n)
  <2>1. PICK image : /\ f.deps[n] = scannedDependency(image)
                     /\ image = "" => \E i \in DOMAIN t.compose : t.compose[i].image = ""
                     /\ n \in BadNames => \E i \in DOMAIN t.compose : t.compose[i].name = n
    BY <1>1, <1>3 DEF IsScan
  <2>2. PICK x : x = f.deps[n]
    OBVIOUS
  <2>0. x = scannedDependency(image)
    BY <2>1, <2>2
  <2>3. x.image = image /\ x.project = "" /\ x.sibling = ""
    BY <2>0, ScannedDependencyIs
  <2>4. d.infra[n] = yamlDependencyToInfra(f, x)
    BY <1>3, <2>2
  <2>5. d.infra[n].image = x.image /\ d.infra[n].project = x.project
    BY <2>4, DependencyOfFile
  <2>6. d.infra[n].sibling = x.sibling
    BY <2>4, DependencySibling
  <2>7. d.infra[n].image = image /\ d.infra[n].project = "" /\ d.infra[n].sibling = ""
    BY <2>3, <2>5, <2>6
  <2>8. (image = "" => Odd) /\ (n \in BadNames => Odd)
    BY <2>1 DEF Odd
  <2> HIDE DEF d
  <2> QED BY <2>7, <2>8 DEF IsInferred
<1> QED BY <1>2, <1>3, <1>4, <1>5

\* The plan of a scan, once it is filtered.
LEMMA ScanKept ==
  ASSUME PlanInv, in.way # "file", rewritten = {}, pc \in Planned
  PROVE  /\ IsDeps(deps) /\ deps.project = in.tree.name /\ deps.proxy = NoProxy
         /\ DOMAIN deps.services \subseteq ScannedServices(in.tree)
         /\ \A n \in DOMAIN deps.services : IsScanned(deps, n)
         /\ \A n \in DOMAIN deps.infra : IsInferred(deps, n)
         /\ in.only = {} => /\ DOMAIN deps.infra = DOMAIN Configuration.infra
                            /\ DOMAIN deps.services = NotIgnored(Configuration)
                            /\ \A n \in DOMAIN deps.services :
                                 deps.services[n].dependsOn \subseteq DOMAIN deps.infra
<1> DEFINE w == Configuration
<1>1. KeepsPlan /\ IsDeps(deps) /\ in \in Inputs
  BY PlannedIs
<1>2. /\ w.project = in.tree.name /\ w.proxy = NoProxy
      /\ DOMAIN w.services = ScannedServices(in.tree)
      /\ InferDepsFromEnv(in.tree).deps \subseteq DOMAIN w.infra
      /\ \A n \in DOMAIN w.services : IsScanned(w, n)
      /\ \A n \in DOMAIN w.infra : IsInferred(w, n)
  BY <1>1, ScanDeps
<1>3. IsDeps(w)
  BY <1>1, ConfigurationIsDeps
<1>4. /\ Rest(Plan) = Rest(w)
      /\ DOMAIN Plan.services = {n \in NotIgnored(w) : Led(w, n)}
      /\ DOMAIN Plan.infra = {n \in DOMAIN w.infra : Led(w, n)}
      /\ \A n \in DOMAIN Plan.services : Plan.services[n] = w.services[n]
      /\ \A n \in DOMAIN Plan.infra : Plan.infra[n] = w.infra[n]
  BY <1>3, FilteredIs DEF Plan
<1> HIDE DEF w
<1>5. /\ DOMAIN deps.services = {n \in NotIgnored(w) : Led(w, n)}
      /\ DOMAIN deps.infra = {n \in DOMAIN w.infra : Led(w, n)}
      /\ \A n \in DOMAIN deps.services : n \in DOMAIN w.services /\ deps.services[n] = w.services[n]
      /\ \A n \in DOMAIN deps.infra : n \in DOMAIN w.infra /\ deps.infra[n] = w.infra[n]
      /\ Rest(deps) = Rest(w)
  BY <1>1, <1>4 DEF KeepsPlan, NotIgnored
<1>6. deps.project = w.project /\ deps.proxy = w.proxy
  BY <1>1, <1>3, <1>5 DEF Rest, IsDeps, Fields
<1>7. \A n \in DOMAIN deps.services : IsScanned(deps, n)
  BY <1>2, <1>5 DEF IsScanned
<1>8. \A n \in DOMAIN deps.infra : IsInferred(deps, n)
  BY <1>2, <1>5 DEF IsInferred
<1>9. ASSUME in.only = {}
      PROVE  DOMAIN deps.infra = DOMAIN w.infra /\ DOMAIN deps.services = NotIgnored(w)
  BY <1>5, <1>9 DEF Led
<1>10. ASSUME in.only = {}, NEW n \in DOMAIN deps.services
       PROVE  deps.services[n].dependsOn \subseteq DOMAIN deps.infra
  <2>1. deps.services[n].dependsOn = LinksFrom(in.tree, n)
    BY <1>7 DEF IsScanned
  <2> QED BY <2>1, <1>2, <1>9, <1>10, LinksAre
<1> QED BY <1>1, <1>2, <1>5, <1>6, <1>7, <1>8, <1>9, <1>10 DEF w

-----------------------------------------------------------------------------
(* ConfigPipeline. What a scan finds comes up.                             *)

LEMMA BuiltValid ==
  ASSUME NEW t, NEW n, NEW s, s = buildServiceFromDetection(t, n)
  PROVE  /\ validateService(s) /\ s.auth \in {"", "inherit", "gh", "ssh"}
         /\ \A p \in {s.path, s.env, s.compose, pathFromCommand(s.command), pathFromCommand(s.stop)} :
              p \in {"", "inside"}
<1>1. /\ s.path = "inside" /\ s.auth = "" /\ s.resources = "none" /\ s.runtime = ""
      /\ s.env = "" /\ s.compose = "" /\ s.command = "" /\ s.stop = ""
  BY BuiltIs
<1>2. pathFromCommand(s.command) = "" /\ pathFromCommand(s.stop) = ""
  BY <1>1 DEF pathFromCommand
<1>3. validateService(s)
  BY <1>1 DEF validateService, ValidateServiceRuntime
<1> QED BY <1>1, <1>2, <1>3

LEMMA ScannedFields ==
  ASSUME NEW image, NEW x, x = scannedDependency(image)
  PROVE  /\ x.compose = "" /\ x.required = FALSE /\ x.resources = "none"
         /\ x.env = "" /\ x.dev = ""
BY DEF scannedDependency

LEMMA ScannedValid ==
  ASSUME NEW image, NEW x, x = scannedDependency(image), image # ""
  PROVE  /\ validateDependency(x)
         /\ \A p \in {x.env, x.compose, x.dev} : p \in {"", "inside"}
<1>1. x.image = image /\ x.project = "" /\ x.sibling = ""
  BY ScannedDependencyIs
<1>2. x.compose = "" /\ x.required = FALSE /\ x.resources = "none" /\ x.env = "" /\ x.dev = ""
  BY ScannedFields
<1>3. validateSiblingDependency(x)
  BY <1>1, <1>2 DEF validateSiblingDependency
<1>4. validateDependency(x)
  BY <1>1, <1>2, <1>3 DEF validateDependency
<1> QED BY <1>2, <1>4

LEMMA ScannedHeader ==
  ASSUME NEW t, NEW f, f = InitScan(t)
  PROVE  /\ f.secret = FALSE /\ f.syntax = "ok" /\ f.wsRoot = "" /\ f.router = "none"
         /\ f.resources = "none" /\ f.proxy.resources = "none"
         /\ f.pre = <<>> /\ f.preUp = <<>> /\ f.post = <<>>
BY DEF InitScan

LEMMA NothingIn ==
  ASSUME NEW s, s = <<>>
  PROVE  Range(s) = {}
<1>1. DOMAIN s = {}
  OBVIOUS
<1> QED BY <1>1 DEF Range

\* Where nothing odd is found, `raioz init` writes a file that loads.
LEMMA ScanLoads ==
  ASSUME in \in Inputs, in.way = "init", DOMAIN File.services \cup DOMAIN File.deps # {}, ~Odd
  PROVE  LoadDepsFromYAML(File)
<1> DEFINE t == in.tree
<1>1. in.way # "file" /\ in.way # "auto"
  OBVIOUS
<1>2. PICK f : IsScan(t, f) /\ Configuration = YAMLToDeps(f) /\ f = File /\ f = InitScan(t)
  BY <1>1, ScanOf
<1>3. t.name # ""
  BY InputsAssumption
<1>4. /\ DOMAIN Configuration.services \cap DOMAIN Configuration.infra = {}
      /\ \A i \in DOMAIN t.compose : t.compose[i].image # ""
  BY DEF Odd
<1> HIDE DEF t
<1>5. /\ f.project = t.name /\ DOMAIN f.services = ScannedServices(t)
      /\ InferDepsFromEnv(t).deps \subseteq DOMAIN f.deps
      /\ \A n \in DOMAIN f.services : f.services[n].dependsOn = LinksFrom(t, n)
      /\ \A n \in DOMAIN f.deps : \E image : f.deps[n] = scannedDependency(image) /\ image # ""
  BY <1>2, <1>4 DEF IsScan
<1>6. \A n \in DOMAIN f.services : f.services[n] = buildServiceFromDetection(t, n)
  BY <1>2, ScannedIs
<1>7. DOMAIN f.services \cap DOMAIN f.deps = {}
  BY <1>2, <1>4, BridgeIs
<1>8. /\ f.secret = FALSE /\ f.syntax = "ok" /\ f.wsRoot = "" /\ f.router = "none"
      /\ f.resources = "none" /\ f.proxy.resources = "none"
      /\ f.pre = <<>> /\ f.preUp = <<>> /\ f.post = <<>>
  BY <1>2, ScannedHeader
<1>9. ASSUME NEW s \in Range(f.services)
      PROVE  /\ validateService(s) /\ s.auth \in {"", "inherit", "gh", "ssh"}
             /\ s.dependsOn \subseteq DOMAIN f.services \cup DOMAIN f.deps
             /\ \A p \in {s.path, s.env, s.compose, pathFromCommand(s.command), pathFromCommand(s.stop)} :
                  p \in {"", "inside"}
  <2>1. PICK n \in DOMAIN f.services : s = f.services[n]
    BY DEF Range
  <2>2. s = buildServiceFromDetection(t, n)
    BY <1>6, <2>1
  <2>3. s.dependsOn \subseteq DOMAIN f.deps
    BY <1>5, <2>1, LinksAre
  <2> QED BY <2>2, <2>3, BuiltValid
<1>10. ASSUME NEW x \in Range(f.deps)
       PROVE  /\ validateDependency(x) /\ x.compose = ""
              /\ \A p \in {x.env, x.compose, x.dev} : p \in {"", "inside"}
  <2>1. PICK n \in DOMAIN f.deps : x = f.deps[n]
    BY DEF Range
  <2>2. PICK image : x = scannedDependency(image) /\ image # ""
    BY <1>5, <2>1
  <2> QED BY <2>2, ScannedValid, ScannedFields
<1>11. validateYAMLConfig(f)
  <2>1. validateDependsOnRefs(f) /\ validateAuthValues(f)
    BY <1>9 DEF validateDependsOnRefs, validateAuthValues
  <2>2. f.project # "" /\ (DOMAIN f.services # {} \/ DOMAIN f.deps # {})
    BY <1>2, <1>3, <1>5
  <2>3. f.resources # "bad" /\ f.proxy.resources # "bad"
    BY <1>8
  <2> QED BY <2>1, <2>2, <2>3, <1>9, <1>10 DEF validateYAMLConfig
<1>12. validatePathSafety(f)
  <2>1. ASSUME NEW p \in PathsRead(f) PROVE p \in {"", "inside"}
    <3>1. Range(f.pre) = {} /\ Range(f.preUp) = {} /\ Range(f.post) = {}
      BY <1>8, NothingIn
    <3>2. \/ \E s \in Range(f.services) :
               p \in {s.path, s.env, s.compose, pathFromCommand(s.command), pathFromCommand(s.stop)}
          \/ \E x \in Range(f.deps) : p \in {x.env, x.compose, x.dev}
      BY <3>1 DEF PathsRead
    <3> QED BY <3>2, <1>9, <1>10
  <2>2. \A p \in PathsRead(f) : InsideRoot(f, p)
    BY <2>1 DEF InsideRoot
  <2>3. f.wsRoot # "system" /\ f.router # "system"
    BY <1>8
  <2> QED BY <2>2, <2>3 DEF validatePathSafety
<1>13. LoadYAML(f)
  <2>1. ScanForSecrets(f) /\ f.syntax # "bad" /\ f.router # "empty"
    BY <1>8 DEF ScanForSecrets
  <2> QED BY <2>1, <1>11, <1>12 DEF LoadYAML
<1>14. BridgeAccepts(f)
  BY <1>7, <1>10 DEF BridgeAccepts
<1> QED BY <1>2, <1>13, <1>14 DEF LoadDepsFromYAML

\* A walk that starts from nothing leads nowhere.
LEMMA NoSiblingsNoAudit ==
  ASSUME NEW d, seedAuditQueue(d) = {}
  PROVE  auditSiblingYAMLs(d)
<1> DEFINE n == Cardinality(Dirs)
           Val(f, k) == IF k = 0 THEN seedAuditQueue(d)
                        ELSE f[k - 1] \cup UNION {nestedAuditTargets(x) : x \in f[k - 1]}
           Fix(f) == f = [k \in 0..n |-> Val(f, k)]
           w == CHOOSE f : Fix(f)
<1>1. n \in Nat
  BY SiblingAssumption, FS_CardinalityType
<1>2. auditSiblingYAMLs(d) = (\A x \in w[n] : ResolveSibling(x) /\ AuditYAMLStrict(SiblingFile[x]))
  BY DEF auditSiblingYAMLs
<1> HIDE DEF n
<1>3. \E f : Fix(f)
  <2> DEFINE f == [k \in 0..n |-> {}]
  <2>1. ASSUME NEW k \in 0..n PROVE Val(f, k) = {}
    <3>1. CASE k = 0
      BY <3>1
    <3>2. CASE k # 0
      <4>1. k - 1 \in 0..n
        BY <1>1, <3>2
      <4>2. f[k - 1] = {}
        BY <4>1
      <4> HIDE DEF f
      <4> QED BY <3>2, <4>2
    <3> QED BY <3>1, <3>2
  <2> HIDE DEF Val
  <2>2. Fix(f)
    BY <2>1
  <2> QED BY <2>2
<1>4. Fix(w)
  <2> HIDE DEF Fix
  <2> QED BY <1>3
<1> HIDE DEF w
<1>5. \A k \in 0..n : w[k] = Val(w, k)
  <2> HIDE DEF Val
  <2> QED BY <1>4
<1> DEFINE G == {k \in 0..n : w[k] = {}}
<1>6. 0 \in G
  <2>1. 0 \in 0..n
    BY <1>1
  <2>2. w[0] = Val(w, 0)
    BY <1>5, <2>1
  <2>3. w[0] = {}
    BY <2>2
  <2> QED BY <2>1, <2>3
<1>7. ASSUME NEW m \in 1..n, m - 1 \in G PROVE m \in G
  <2>1. m \in 0..n /\ m # 0 /\ w[m - 1] = {}
    BY <1>1, <1>7
  <2>2. w[m] = w[m - 1] \cup UNION {nestedAuditTargets(x) : x \in w[m - 1]}
    BY <1>5, <2>1
  <2>3. w[m] = {}
    BY <2>1, <2>2
  <2> QED BY <2>1, <2>3
<1> HIDE DEF G
<1>8. \A m \in 0..n : m \in G
  BY <1>1, <1>6, <1>7, Climb
<1>9. w[n] = {}
  BY <1>1, <1>8 DEF G
<1> QED BY <1>2, <1>9

\* What is scanned and selected whole is refused only where something is odd,
\* or the machine is not ready.
LEMMA ScanValid ==
  ASSUME PlanInv, in.way # "file", rewritten = {}, pc \in Planned, in.only = {}, ~Odd
  PROVE  ValidateRefusals(deps) \subseteq {"preflight"}
<1>1. /\ IsDeps(deps) /\ deps.project = in.tree.name /\ deps.proxy = NoProxy
      /\ DOMAIN deps.services \subseteq ScannedServices(in.tree)
      /\ \A n \in DOMAIN deps.services : IsScanned(deps, n)
      /\ \A n \in DOMAIN deps.infra : IsInferred(deps, n)
      /\ DOMAIN deps.infra = DOMAIN Configuration.infra
      /\ DOMAIN deps.services = NotIgnored(Configuration)
      /\ \A n \in DOMAIN deps.services : deps.services[n].dependsOn \subseteq DOMAIN deps.infra
  BY ScanKept
<1>2. DOMAIN deps.services \cap DOMAIN deps.infra = {}
  BY <1>1 DEF NotIgnored, Odd
<1>3. validateProject(deps)
  BY <1>1 DEF validateProject, Odd
<1>4. validateServices(deps)
  <2>1. ASSUME NEW n \in DOMAIN deps.services PROVE n \notin BadNames
    <3>1. n \in {in.tree.name} \cup DOMAIN in.tree.dirs
      BY <1>1 DEF ScannedServices
    <3> QED BY <3>1 DEF Odd
  <2>2. \A n \in DOMAIN deps.services :
          deps.services[n].kind # "git" /\ deps.services[n].profiles # "bad"
    BY <1>1 DEF IsScanned
  <2> QED BY <2>1, <2>2 DEF validateServices
<1>5. validateInfra(deps)
  <2>1. \A n \in DOMAIN deps.infra : n \notin BadNames /\ deps.infra[n].image # ""
    BY <1>1 DEF IsInferred
  <2> QED BY <2>1 DEF validateInfra
<1>6. Dangling(deps) = {}
  BY <1>1 DEF Dangling
<1>7. validateTransitiveDependencies(deps) = {}
  BY <1>6 DEF validateTransitiveDependencies
<1>8. ValidateDependencyCycle(deps)
  <2>1. SUFFICES ASSUME NEW n \in OnCycle(deps) PROVE FALSE
    BY DEF ValidateDependencyCycle
  <2> DEFINE S == deps.services[n].dependsOn
  <2>2. n \in DOMAIN deps.services /\ n \in Reach(deps, S)
    BY DEF OnCycle
  <2>3. Named(deps) /\ S \in SUBSET Names
    BY <1>1, <2>2 DEF IsDeps, Named
  <2>4. S \subseteq DOMAIN deps.infra
    BY <1>1, <2>2
  <2> HIDE DEF S
  <2>5. ClosedIn(deps, S)
    BY <1>2, <2>4 DEF ClosedIn
  <2>6. Reach(deps, S) \subseteq S
    BY <2>3, <2>5, ReachIs
  <2> QED BY <1>2, <2>2, <2>4, <2>6
<1>9. CheckProxyRequirements(deps)
  <2>1. deps.proxy.enabled = FALSE
    BY <1>1 DEF NoProxy
  <2> QED BY <2>1 DEF CheckProxyRequirements
<1> QED BY <1>3, <1>4, <1>5, <1>6, <1>7, <1>8, <1>9 DEF ValidateRefusals

LEMMA ScanAudited ==
  ASSUME PlanInv, in.way # "file", rewritten = {}, pc \in Planned
  PROVE  auditSiblingYAMLs(deps)
<1>1. \A n \in DOMAIN deps.infra : deps.infra[n].project = "" /\ deps.infra[n].sibling = ""
  BY ScanKept DEF IsInferred
<1>2. \A x \in Range(deps.infra) : siblingDirOf(x) = ""
  BY <1>1 DEF Range, siblingDirOf
<1>3. seedAuditQueue(deps) = {}
  BY <1>2 DEF seedAuditQueue
<1> QED BY <1>3, NoSiblingsNoAudit

\* Nothing is cloned, so no checkout has a say.
LEMMA ScanAsksNothing ==
  ASSUME PlanInv, in.way # "file", rewritten = {}, pc \in Planned
  PROVE  /\ DetectDependencyConflicts(deps) = {}
         /\ \A m \in DetectMissingDependencies(deps) : m.found = FALSE
         /\ in.only = {} => DetectMissingDependencies(deps) = {}
<1>1. /\ \A n \in DOMAIN deps.services : IsScanned(deps, n)
      /\ in.only = {} =>
           \A n \in DOMAIN deps.services : deps.services[n].dependsOn \subseteq DOMAIN deps.infra
  BY ScanKept
<1>2. \A n \in DOMAIN deps.services : FindServiceConfig(deps, n) = <<>>
  BY <1>1 DEF IsScanned, FindServiceConfig
<1>3. \A n \in DOMAIN deps.services : DOMAIN FindServiceConfig(deps, n) = {}
  BY <1>2
<1>4. DetectDependencyConflicts(deps) = {}
  BY <1>3 DEF DetectDependencyConflicts
<1>5. ASSUME NEW m \in DetectMissingDependencies(deps)
      PROVE  m.found = FALSE /\ in.only # {}
  <2>1. PICK n \in DOMAIN deps.services :
          \/ \E x \in deps.services[n].dependsOn \ (DOMAIN deps.services \cup DOMAIN deps.infra) :
               m = [name |-> x, by |-> n, found |-> FALSE]
          \/ \E x \in DOMAIN FindServiceConfig(deps, n) \ DOMAIN deps.services :
               m = [name |-> x, by |-> n, found |-> TRUE]
    BY DEF DetectMissingDependencies
  <2>2. PICK x \in deps.services[n].dependsOn \ (DOMAIN deps.services \cup DOMAIN deps.infra) :
          m = [name |-> x, by |-> n, found |-> FALSE]
    BY <1>3, <2>1
  <2> QED BY <1>1, <2>2
<1> QED BY <1>4, <1>5

\* A scan with no --only, on its way: nothing is asked, nothing is brought in,
\* and what refuses it is one of the good reasons.
ScanInv ==
  in.way # "file" /\ in.only = {} =>
    /\ rewritten = {}
    /\ in.way = "init" /\ pc \notin {"scan", "refused"} =>
         DOMAIN File.services \cup DOMAIN File.deps # {}
    /\ pc = "refused" => cause \in {"nothing", "preflight", "selection"} \/ Odd

LEMMA SameOdd ==
  ASSUME in' = in
  PROVE  Odd' = Odd /\ File' = File
BY SameIn DEF Odd

\* A step that refuses nothing and answers nothing.
LEMMA ScanGoesOn ==
  ASSUME ScanInv, in' = in, rewritten' = {}, pc \notin {"scan", "refused"}, pc' # "refused"
  PROVE  ScanInv'
BY SameOdd DEF ScanInv

LEMMA ScanRefused ==
  ASSUME ScanInv, NEW c, Refuse(c),
         (in.way # "file" /\ in.only = {}) => c \in {"nothing", "preflight", "selection"} \/ Odd
  PROVE  ScanInv'
<1>1. pc' = "refused" /\ cause' = c /\ in' = in /\ rewritten' = rewritten
  BY DEF Refuse
<1>2. Odd' = Odd
  BY <1>1, SameOdd
<1> QED BY <1>1, <1>2 DEF ScanInv

LEMMA ScanInvNext ==
  ASSUME ConfigInv, ScanInv, [ConfigNext]_configVars
  PROVE  ScanInv'
<1> DEFINE Scans == in.way # "file" /\ in.only = {}
<1>0. SUFFICES ASSUME Scans PROVE ScanInv'
  <2>1. in' = in
    BY DEF ConfigNext, Check, ScanToFile, ScanAndGo, Load, ApplyFilters, AuditSiblings, Validate,
           HandleDependencyConflicts, HandleDependencyAssist, generateEnvFilesFromTemplates,
           KilledInWrite, Edit, Again, OrderBegin, StartNext, Done, Goto, Refuse, configVars
  <2> QED BY <2>1 DEF ScanInv
<1>a. rewritten = {} /\ PlanInv /\ in \in Inputs
  BY <1>0 DEF ScanInv, ConfigInv, PlanInv
<1>1. CASE Check
  <2>1. pc = "load" /\ in' = in /\ pc' = pc /\ rewritten' = rewritten
    BY <1>1 DEF Check
  <2> QED BY <1>a, <2>1, ScanGoesOn
<1>2. CASE ScanToFile
  <2>1. CASE DOMAIN File.services \cup DOMAIN File.deps = {}
    BY <1>2, <2>1, ScanRefused DEF ScanToFile
  <2>2. CASE DOMAIN File.services \cup DOMAIN File.deps # {}
    <3>1. in' = in /\ pc' = "load" /\ rewritten' = rewritten
      BY <1>2, <2>2 DEF ScanToFile, Goto
    <3> QED BY <1>a, <2>2, <3>1, SameOdd DEF ScanInv
  <2> QED BY <2>1, <2>2
<1>3. CASE ScanAndGo
  <2>1. CASE Refuse("nothing")
    BY <2>1, ScanRefused
  <2>2. CASE Goto("filter") /\ UNCHANGED <<rewritten, env>>
    <3>1. in.way = "auto" /\ in' = in /\ pc' = "filter" /\ rewritten' = rewritten
      BY <1>3, <2>2 DEF ScanAndGo, Goto
    <3> QED BY <1>a, <3>1 DEF ScanInv
  <2> QED BY <1>3, <2>1, <2>2 DEF ScanAndGo
<1>4. CASE Load
  <2>1. pc = "load" /\ in.way = "init"
    <3>1. pc = "load" /\ in.way # "auto"
      BY <1>4, <1>a DEF Load, PlanInv
    <3> QED BY <1>0, <1>a, <3>1, InputsAssumption
  <2>2. CASE Goto("filter") /\ UNCHANGED <<rewritten, env>>
    <3>1. in' = in /\ pc' = "filter" /\ rewritten' = rewritten
      BY <2>2 DEF Goto
    <3> QED BY <1>a, <2>1, <3>1, ScanGoesOn
  <2>3. CASE ~LoadDepsFromYAML(File) /\ Refuse("load")
    <3>1. DOMAIN File.services \cup DOMAIN File.deps # {}
      BY <1>0, <2>1 DEF ScanInv
    <3>2. Odd
      BY <1>a, <2>1, <2>3, <3>1, ScanLoads
    <3> QED BY <2>3, <3>2, ScanRefused
  <2> QED BY <1>4, <2>2, <2>3 DEF Load
<1>5. CASE ApplyFilters
  <2>1. CASE Refuse("selection")
    BY <2>1, ScanRefused
  <2>2. CASE Goto("audit") /\ UNCHANGED <<rewritten, env>>
    <3>1. pc = "filter" /\ in' = in /\ pc' = "audit" /\ rewritten' = rewritten
      BY <1>5, <2>2 DEF Goto, ApplyFilters
    <3> QED BY <1>a, <3>1, ScanGoesOn
  <2> QED BY <1>5, <2>1, <2>2 DEF ApplyFilters
<1>6. CASE AuditSiblings
  <2>1. pc = "audit" /\ auditSiblingYAMLs(deps)
    BY <1>0, <1>6, <1>a, ScanAudited DEF AuditSiblings, Planned
  <2>2. in' = in /\ pc' = "validate" /\ rewritten' = rewritten
    BY <1>6, <2>1 DEF AuditSiblings, Goto
  <2> QED BY <1>a, <2>1, <2>2, ScanGoesOn
<1>7. CASE Validate
  <2>1. pc = "validate" /\ pc \in Planned
    BY <1>7 DEF Validate, Planned
  <2>2. ASSUME NEW c \in ValidateRefusals(deps), Refuse(c) PROVE ScanInv'
    <3>1. c = "preflight" \/ Odd
      BY <1>0, <1>a, <2>1, ScanValid
    <3> QED BY <2>2, <3>1, ScanRefused
  <2>3. CASE Goto("conflicts") /\ UNCHANGED <<deps, rewritten, env>>
    <3>1. in' = in /\ pc' = "conflicts" /\ rewritten' = rewritten
      BY <2>3 DEF Goto
    <3> QED BY <1>a, <2>1, <3>1, ScanGoesOn
  <2> QED BY <1>7, <2>2, <2>3 DEF Validate
<1>8. CASE HandleDependencyConflicts
  <2>1. pc = "conflicts" /\ DetectDependencyConflicts(deps) = {}
    BY <1>0, <1>8, <1>a, ScanAsksNothing DEF HandleDependencyConflicts, Planned
  <2>2. rewritten' = rewritten /\ Goto("assist")
    BY <1>8, <2>1 DEF HandleDependencyConflicts
  <2>3. in' = in /\ pc' = "assist"
    BY <2>2 DEF Goto
  <2> QED BY <1>a, <2>1, <2>2, <2>3, ScanGoesOn
<1>9. CASE HandleDependencyAssist
  <2>1. pc = "assist" /\ DetectMissingDependencies(deps) = {}
    BY <1>0, <1>9, <1>a, ScanAsksNothing DEF HandleDependencyAssist, Planned
  <2>2. rewritten' = rewritten /\ Goto("env")
    BY <1>9, <2>1 DEF HandleDependencyAssist
  <2>3. in' = in /\ pc' = "env"
    BY <2>2 DEF Goto
  <2> QED BY <1>a, <2>1, <2>2, <2>3, ScanGoesOn
<1>10. CASE generateEnvFilesFromTemplates \/ KilledInWrite
  <2>1. pc = "env" /\ in' = in /\ pc' \in {"order", "killed"} /\ rewritten' = rewritten
    BY <1>10 DEF generateEnvFilesFromTemplates, KilledInWrite, Goto
  <2> QED BY <1>a, <2>1, ScanGoesOn
<1>11. CASE Edit \/ OrderBegin \/ StartNext \/ Done
  <2>1. /\ pc \in {"done", "killed", "order", "start"} /\ pc' \in {"done", "killed", "start"}
        /\ in' = in /\ rewritten' = rewritten
    BY <1>11 DEF Edit, OrderBegin, StartNext, Done
  <2> QED BY <1>a, <2>1, ScanGoesOn
<1>12. CASE Again
  <2>1. pc \in {"done", "killed"} /\ in' = in /\ rewritten' = {} /\ pc' \in {"scan", "load"}
    BY <1>12 DEF Again
  <2> QED BY <2>1, ScanGoesOn
<1>13. CASE UNCHANGED configVars
  <2>1. in' = in /\ rewritten' = rewritten /\ pc' = pc /\ cause' = cause
    BY <1>13 DEF configVars
  <2> QED BY <2>1, SameOdd DEF ScanInv
<1> QED BY <1>1, <1>2, <1>3, <1>4, <1>5, <1>6, <1>7, <1>8, <1>9, <1>10, <1>11, <1>12, <1>13 DEF ConfigNext

\* ScanComesUp, from the invariants.
LEMMA ScanHolds ==
  ASSUME ConfigInv, ScanInv
  PROVE  ScanComesUp
<1> DEFINE t == in.tree
<1>1. ASSUME in.way # "file", in.only = {}, pc = "refused"
      PROVE  cause \in {"nothing", "preflight", "selection"} \/ Odd
  BY <1>1 DEF ScanInv
<1>2. ASSUME in.way # "file", in.only = {}, pc = "done",
             NEW n \in DOMAIN t.dirs \ (IgnoredDirs \cup ForProject(t.name)), Recognised(t.dirs[n])
      PROVE  n \in Range(started) /\ Mentions(t.dirs[n]) \subseteq deps.services[n].dependsOn \cap DOMAIN deps.infra
  <2>1. rewritten = {} /\ PlanInv /\ in \in Inputs /\ pc \in Planned
    BY <1>2 DEF ScanInv, ConfigInv, PlanInv, Planned
  <2>2. /\ \A m \in DOMAIN deps.services : IsScanned(deps, m)
        /\ DOMAIN deps.services = NotIgnored(Configuration)
        /\ \A m \in DOMAIN deps.services : deps.services[m].dependsOn \subseteq DOMAIN deps.infra
    BY <1>2, <2>1, ScanKept
  <2>3. Configuration.project = t.name /\ DOMAIN Configuration.services = ScannedServices(t)
    BY <1>2, <2>1, ScanDeps
  <2>4. n \in ScannedServices(t)
    BY <1>2 DEF ScannedServices
  <2>5. n \in DOMAIN deps.services
    BY <1>2, <2>2, <2>3, <2>4 DEF NotIgnored
  <2>6. StartedInOrder
    BY OrderHolds DEF ConfigInv
  <2>7. n \in Range(started)
    BY <1>2, <2>1, <2>5, <2>6 DEF StartedInOrder
  <2>8. deps.services[n].dependsOn = Mentions(t.dirs[n])
    BY <1>2, <2>2, <2>5, LinksAre DEF IsScanned
  <2> QED BY <2>2, <2>5, <2>7, <2>8
<1> QED BY <1>1, <1>2 DEF ScanComesUp, Odd, Mentions, findEnvFiles

LEMMA ScanInvInit ==
  ASSUME ConfigInit
  PROVE  ScanInv
BY DEF ConfigInit, ScanInv

\* What `raioz init` or an up without a file finds is started with the
\* dependencies its .env files speak of, or refused for one of the good reasons.
THEOREM ConfigScanComesUp == ConfigSpec => []ScanComesUp
<1>1. ConfigInv /\ ScanInv => ScanComesUp
  BY ScanHolds
<1>2. ConfigInit => ScanInv
  BY ScanInvInit
<1>3. ConfigInv /\ ScanInv /\ [ConfigNext]_configVars => ScanInv'
  BY ScanInvNext
<1> QED BY <1>1, <1>2, <1>3, ConfigInvariant, PTL DEF ConfigSpec

-----------------------------------------------------------------------------
(* ConfigPipeline. What is read of a .env, and what is written to it.      *)

Read(v) ==
  [v EXCEPT !.wrapped = FALSE, !.esc = IF v.wrapped /\ @ % 2 = 1 THEN @ \div 2 ELSE @]
Unwrap(v) == [v EXCEPT !.wrapped = FALSE]
Escape(v) == [v EXCEPT !.esc = @ + 1, !.wrapped = TRUE]
Write(v) == IF v.quote THEN Escape(v) ELSE v

ValueFields == [by : Author, quote : BOOLEAN, esc : Nat, wrapped : BOOLEAN]

\* The fields of a value.
LEMMA ValueIs ==
  ASSUME NEW v \in EnvValue
  PROVE  v \in ValueFields /\ (~v.quote => v.esc = 0)
<1>1. CASE v \in [by : Author, quote : {TRUE}, esc : Nat, wrapped : BOOLEAN]
  <2>1. v \in ValueFields
    BY <1>1 DEF ValueFields
  <2>2. v.quote = TRUE
    BY <1>1
  <2> QED BY <2>1, <2>2
<1>2. CASE v \in [by : Author, quote : {FALSE}, esc : {0}, wrapped : BOOLEAN]
  <2>1. v \in ValueFields
    <3>1. v \in [by : Author, quote : BOOLEAN, esc : {0}, wrapped : BOOLEAN]
      BY <1>2
    <3> QED BY <3>1 DEF ValueFields
  <2>2. v.esc = 0
    BY <1>2
  <2> QED BY <2>1, <2>2
<1> QED BY <1>1, <1>2 DEF EnvValue

LEMMA IsValue ==
  ASSUME NEW v \in ValueFields, ~v.quote => v.esc = 0
  PROVE  v \in EnvValue
<1>1. CASE v.quote = TRUE
  <2>1. v \in [by : Author, quote : {TRUE}, esc : Nat, wrapped : BOOLEAN]
    BY <1>1 DEF ValueFields
  <2> QED BY <2>1 DEF EnvValue
<1>2. CASE v.quote = FALSE
  <2>1. v.esc = 0
    BY <1>2
  <2>2. v \in [by : Author, quote : {FALSE}, esc : {0}, wrapped : BOOLEAN]
    BY <1>2, <2>1 DEF ValueFields
  <2> QED BY <2>2 DEF EnvValue
<1> QED BY <1>1, <1>2 DEF ValueFields

LEMMA SameFields ==
  ASSUME NEW v \in ValueFields, NEW w \in ValueFields,
         v.by = w.by, v.quote = w.quote, v.esc = w.esc, v.wrapped = w.wrapped
  PROVE  v = w
  BY DEF ValueFields

\* What each of the three does to the fields.
LEMMA UnwrapFields ==
  ASSUME NEW v \in ValueFields
  PROVE  /\ Unwrap(v) \in ValueFields /\ Unwrap(v).wrapped = FALSE /\ Unwrap(v).by = v.by
         /\ Unwrap(v).quote = v.quote /\ Unwrap(v).esc = v.esc
<1>1. Unwrap(v) \in ValueFields
  BY DEF Unwrap, ValueFields
<1>2. Unwrap(v).wrapped = FALSE
  BY DEF Unwrap, ValueFields
<1>3. Unwrap(v).by = v.by
  BY DEF Unwrap, ValueFields
<1>4. Unwrap(v).quote = v.quote
  BY DEF Unwrap, ValueFields
<1>5. Unwrap(v).esc = v.esc
  BY DEF Unwrap, ValueFields
<1> QED BY <1>1, <1>2, <1>3, <1>4, <1>5

LEMMA ReadFields ==
  ASSUME NEW v \in ValueFields
  PROVE  /\ Read(v) \in ValueFields /\ Read(v).wrapped = FALSE /\ Read(v).by = v.by
         /\ Read(v).quote = v.quote
         /\ v.wrapped = FALSE \/ v.esc = 0 => Read(v).esc = v.esc
         /\ v.wrapped = TRUE /\ v.esc = 1 => Read(v).esc = 0
<1> DEFINE e == IF v.wrapped /\ v.esc % 2 = 1 THEN v.esc \div 2 ELSE v.esc
<1>1. e \in Nat
  BY DEF ValueFields
<1>2. Read(v) = [v EXCEPT !.wrapped = FALSE, !.esc = e]
  BY DEF Read
<1>3. /\ v.wrapped = FALSE \/ v.esc = 0 => e = v.esc
      /\ v.wrapped = TRUE /\ v.esc = 1 => e = 0
  BY DEF ValueFields
<1> HIDE DEF e
<1>4. Read(v) \in ValueFields
  BY <1>1, <1>2 DEF ValueFields
<1>5. Read(v).wrapped = FALSE
  BY <1>2 DEF ValueFields
<1>6. Read(v).by = v.by
  BY <1>2 DEF ValueFields
<1>7. Read(v).quote = v.quote
  BY <1>2 DEF ValueFields
<1>8. Read(v).esc = e
  BY <1>2 DEF ValueFields
<1> QED BY <1>3, <1>4, <1>5, <1>6, <1>7, <1>8

LEMMA EscapeFields ==
  ASSUME NEW v \in ValueFields
  PROVE  /\ Escape(v) \in ValueFields /\ Escape(v).wrapped = TRUE /\ Escape(v).by = v.by
         /\ Escape(v).quote = v.quote /\ Escape(v).esc = v.esc + 1
<1> DEFINE e == v.esc + 1
<1>1. e \in Nat
  BY DEF ValueFields
<1>2. Escape(v) = [v EXCEPT !.esc = e, !.wrapped = TRUE]
  BY DEF Escape
<1> HIDE DEF e
<1>3. Escape(v) \in ValueFields
  BY <1>1, <1>2 DEF ValueFields
<1>4. Escape(v).wrapped = TRUE
  BY <1>2 DEF ValueFields
<1>5. Escape(v).by = v.by
  BY <1>2 DEF ValueFields
<1>6. Escape(v).quote = v.quote
  BY <1>2 DEF ValueFields
<1>7. Escape(v).esc = e
  BY <1>2 DEF ValueFields
<1> QED BY <1>3, <1>4, <1>5, <1>6, <1>7 DEF e

\* What is read is a value again, without the quotes around it: what had none is
\* read as it is.
LEMMA ReadIs ==
  ASSUME NEW v \in EnvValue
  PROVE  /\ Read(v) \in EnvValue /\ Read(v).wrapped = FALSE /\ Read(v).quote = v.quote
         /\ ~v.wrapped => Read(v) = v
         /\ ~v.quote => Read(v) = Unwrap(v)
<1>1. v \in ValueFields /\ (~v.quote => v.esc = 0)
  BY ValueIs
<1>2. v.quote \in BOOLEAN /\ v.wrapped \in BOOLEAN
  BY <1>1 DEF ValueFields
<1>3. Read(v) \in EnvValue
  BY <1>1, <1>2, ReadFields, IsValue
<1>4. ASSUME ~v.wrapped PROVE Read(v) = v
  <2>1. v.wrapped = FALSE
    BY <1>2, <1>4
  <2>2. /\ Read(v) \in ValueFields /\ Read(v).wrapped = v.wrapped /\ Read(v).by = v.by
        /\ Read(v).quote = v.quote /\ Read(v).esc = v.esc
    BY <1>1, <2>1, ReadFields
  <2> QED BY <1>1, <2>2, SameFields
<1>5. ASSUME ~v.quote PROVE Read(v) = Unwrap(v)
  <2>1. v.esc = 0
    BY <1>1, <1>5
  <2>2. /\ Read(v) \in ValueFields /\ Read(v).wrapped = FALSE /\ Read(v).by = v.by
        /\ Read(v).quote = v.quote /\ Read(v).esc = v.esc
    BY <1>1, <2>1, ReadFields
  <2>3. /\ Unwrap(v) \in ValueFields /\ Unwrap(v).wrapped = FALSE /\ Unwrap(v).by = v.by
        /\ Unwrap(v).quote = v.quote /\ Unwrap(v).esc = v.esc
    BY <1>1, UnwrapFields
  <2> QED BY <2>2, <2>3, SameFields
<1> QED BY <1>1, <1>3, <1>4, <1>5, ReadFields

LEMMA UnwrapIs ==
  ASSUME NEW v \in EnvValue
  PROVE  /\ Unwrap(v) \in EnvValue /\ Unwrap(v).wrapped = FALSE /\ Unwrap(v).quote = v.quote
         /\ Unwrap(Unwrap(v)) = Unwrap(v)
         /\ ~v.wrapped => Unwrap(v) = v
<1>1. v \in ValueFields /\ (~v.quote => v.esc = 0)
  BY ValueIs
<1>2. Unwrap(v) \in EnvValue
  BY <1>1, UnwrapFields, IsValue
<1>3. Unwrap(Unwrap(v)) = Unwrap(v)
  BY <1>1, UnwrapFields, SameFields
<1>4. ASSUME ~v.wrapped PROVE Unwrap(v) = v
  <2>1. v.wrapped = FALSE
    BY <1>1, <1>4 DEF ValueFields
  <2> QED BY <1>1, <2>1, UnwrapFields, SameFields
<1> QED BY <1>1, <1>2, <1>3, <1>4, UnwrapFields

\* What is written is a value too. Without a quote nothing happens to it, and a
\* quote with no backslash before it is read again as it was.
LEMMA WriteIs ==
  ASSUME NEW v \in EnvValue
  PROVE  /\ Write(v) \in EnvValue
         /\ ~v.quote => Write(v) = v
         /\ v.wrapped = FALSE => Read(Write(v)) = v \/ Escaped(v)
<1>1. v \in ValueFields /\ (~v.quote => v.esc = 0)
  BY ValueIs
<1>2. ~v.quote => Write(v) = v
  BY DEF Write
<1>3. CASE ~v.quote
  <2>1. v.wrapped = FALSE => Read(v) = v
    BY ReadIs
  <2> QED BY <1>2, <1>3, <2>1
<1>4. CASE v.quote
  <2>1. Write(v) = Escape(v)
    BY <1>4 DEF Write
  <2>2. Write(v) \in EnvValue
    BY <1>1, <1>4, <2>1, EscapeFields, IsValue
  <2>3. ASSUME v.wrapped = FALSE, ~Escaped(v) PROVE Read(Write(v)) = v
    <3>1. v.esc = 0
      BY <1>1, <1>4, <2>3 DEF Escaped, ValueFields
    <3>2. Escape(v).esc = v.esc + 1
      BY <1>1, EscapeFields
    <3>3. /\ Escape(v) \in ValueFields /\ Escape(v).wrapped = TRUE /\ Escape(v).esc = 1
          /\ Escape(v).by = v.by /\ Escape(v).quote = v.quote
      <4>1. Escape(v).esc = 1
        BY <3>1, <3>2
      <4> QED BY <1>1, <4>1, EscapeFields
    <3>4. PICK x : x = Escape(v)
      OBVIOUS
    <3>5. Read(x).esc = v.esc
      BY <3>1, <3>3, <3>4, ReadFields
    <3>6. /\ Read(x) \in ValueFields /\ Read(x).wrapped = v.wrapped
          /\ Read(x).by = v.by /\ Read(x).quote = v.quote
      BY <2>3, <3>3, <3>4, ReadFields
    <3>7. Read(x) = v
      BY <1>1, <3>5, <3>6, SameFields
    <3> QED BY <2>1, <3>4, <3>7
  <2> QED BY <1>4, <2>2, <2>3
<1> QED BY <1>3, <1>4

\* A file: its variables have values.
LEMMA FileIs ==
  ASSUME NEW f, IsEnvFile(f)
  PROVE  /\ f # NoEnv /\ DOMAIN f \subseteq EnvVar
         /\ f = [k \in DOMAIN f |-> f[k]]
         /\ \A k \in DOMAIN f : f[k] \in EnvValue
<1>1. PICK names \in SUBSET EnvVar : f \in [names -> EnvValue]
  BY DEF IsEnvFile
<1> QED BY <1>1, NoEnvAssumption

LEMMA IsFile ==
  ASSUME NEW f, f = [k \in DOMAIN f |-> f[k]], DOMAIN f \subseteq EnvVar,
         \A k \in DOMAIN f : f[k] \in EnvValue
  PROVE  IsEnvFile(f)
<1>1. f \in [DOMAIN f -> EnvValue]
  OBVIOUS
<1> QED BY <1>1 DEF IsEnvFile

\* The greatest of some of the numbers up to n is one of them.
LEMMA MaxIs ==
  ASSUME NEW n \in Nat, NEW S \in SUBSET (1..n), S # {}
  PROVE  Max(S) \in S
<1> DEFINE T == {n - x : x \in S}
<1>1. T \in SUBSET Nat /\ T # {}
  <2>1. \A x \in S : n - x \in Nat
    OBVIOUS
  <2>2. PICK x \in S : TRUE
    OBVIOUS
  <2> QED BY <2>1, <2>2
<1>2. PICK y \in T : \A z \in T : y <= z
  BY <1>1, Least
<1>3. PICK x \in S : y = n - x
  OBVIOUS
<1>4. ASSUME NEW z \in S PROVE x >= z
  <2>1. n - z \in T
    OBVIOUS
  <2>2. n - x <= n - z
    BY <1>2, <1>3, <2>1
  <2>3. x \in Int /\ z \in Int
    OBVIOUS
  <2> QED BY <2>2, <2>3
<1> QED BY <1>4 DEF Max

\* What a list of env files says: values with no quotes around them.
LEMMA LoadIs ==
  ASSUME NEW files, files \in Seq(Range(files)), \A f \in Range(files) : IsEnvFile(f)
  PROVE  /\ DOMAIN LoadFiles(files) \subseteq EnvVar
         /\ \A k \in DOMAIN LoadFiles(files) :
              LoadFiles(files)[k] \in EnvValue /\ LoadFiles(files)[k].wrapped = FALSE
<1> DEFINE D == UNION {DOMAIN f : f \in Range(files)}
           At(k) == {j \in DOMAIN files : k \in DOMAIN files[j]}
           Val(k) == loadSingleFile(files[Max(At(k))])[k]
<1>1. LoadFiles(files) = [k \in D |-> Val(k)]
  BY DEF LoadFiles
<1>2. Len(files) \in Nat /\ DOMAIN files = 1..Len(files)
  OBVIOUS
<1>3. \A j \in DOMAIN files : files[j] \in Range(files)
  BY DEF Range
<1>4. ASSUME NEW k \in D PROVE k \in EnvVar /\ Val(k) \in EnvValue /\ Val(k).wrapped = FALSE
  <2>1. PICK f \in Range(files) : k \in DOMAIN f
    OBVIOUS
  <2>2. PICK j \in DOMAIN files : f = files[j]
    BY DEF Range
  <2>3. j \in At(k)
    BY <2>1, <2>2
  <2>4. At(k) \in SUBSET (1..Len(files)) /\ At(k) # {}
    BY <1>2, <2>3
  <2>5. Max(At(k)) \in At(k)
    BY <1>2, <2>4, MaxIs
  <2>6. PICK i : i = Max(At(k))
    OBVIOUS
  <2>7. i \in DOMAIN files /\ k \in DOMAIN files[i]
    BY <2>5, <2>6
  <2>8. IsEnvFile(files[i])
    BY <1>3, <2>7
  <2>9. k \in EnvVar /\ files[i][k] \in EnvValue
    BY <2>7, <2>8, FileIs
  <2>10. Val(k) = Read(files[i][k])
    BY <2>6, <2>7 DEF loadSingleFile, Read
  <2> QED BY <2>9, <2>10, ReadIs
<1> HIDE DEF D, Val
<1> QED BY <1>1, <1>4

\* A file put over another is a file.
LEMMA MergedFile ==
  ASSUME NEW f, NEW g, IsEnvFile(g), DOMAIN f \subseteq EnvVar,
         \A k \in DOMAIN f : f[k] \in EnvValue
  PROVE  IsEnvFile(Merged(f, g))
<1>1. \A k \in DOMAIN g : k \in EnvVar /\ g[k] \in EnvValue
  BY FileIs
<1>2. PICK m : m = Merged(f, g)
  OBVIOUS
<1>3. /\ DOMAIN m = DOMAIN f \cup DOMAIN g /\ m = [k \in DOMAIN m |-> m[k]]
      /\ \A k \in DOMAIN g : m[k] = g[k]
      /\ \A k \in DOMAIN f \ DOMAIN g : m[k] = f[k]
  BY <1>2 DEF Merged
<1>4. DOMAIN m \subseteq EnvVar /\ \A k \in DOMAIN m : m[k] \in EnvValue
  BY <1>1, <1>3
<1> QED BY <1>2, <1>3, <1>4, IsFile

LEMMA WrittenIs ==
  ASSUME NEW f
  PROVE  /\ DOMAIN writeEnvFile(f) = DOMAIN f
         /\ \A k \in DOMAIN f : writeEnvFile(f)[k] = Write(f[k])
  BY DEF writeEnvFile, Write, Escape

LEMMA ReadFileIs ==
  ASSUME NEW f
  PROVE  /\ DOMAIN loadSingleFile(f) = DOMAIN f
         /\ \A k \in DOMAIN f : loadSingleFile(f)[k] = Read(f[k])
  BY DEF loadSingleFile, Read

LEMMA ParsedIs ==
  ASSUME NEW f
  PROVE  /\ DOMAIN parseEnvContent(f) = DOMAIN f
         /\ \A k \in DOMAIN f : parseEnvContent(f)[k] = Unwrap(f[k])
  BY DEF parseEnvContent, Unwrap

LEMMA PlainIs ==
  PlainValue("template") \in EnvValue /\ PlainValue("garbled") \in EnvValue
<1>1. ASSUME NEW by \in Author PROVE PlainValue(by) \in EnvValue
  <2>1. PlainValue(by) \in ValueFields /\ PlainValue(by).esc = 0
    BY DEF PlainValue, ValueFields
  <2> QED BY <2>1, IsValue
<1>2. "template" \in Author /\ "garbled" \in Author
  BY DEF Author
<1>3. PICK t, g : t = "template" /\ g = "garbled"
  OBVIOUS
<1>4. PlainValue(t) \in EnvValue /\ PlainValue(g) \in EnvValue
  BY <1>1, <1>2, <1>3
<1> QED BY <1>3, <1>4

\* What an entry of the template may come out with: a value, and where it refers
\* to a variable that is set the value of that one, unless a shorter name is set
\* too.
LEMMA EntryIs ==
  ASSUME NEW e \in EnvEntry, NEW values, \A k \in DOMAIN values : values[k] \in EnvValue,
         NEW v \in processEntry(e, values)
  PROVE  /\ v \in EnvValue
         /\ e.kind # "value" /\ e.ref \in DOMAIN values =>
              v = values[e.ref] \/ \E p \in DOMAIN values : <<p, e.ref>> \in NamePrefixes
<1> DEFINE shorter == {p \in DOMAIN values : <<p, e.ref>> \in NamePrefixes}
<1>1. Unresolved \in EnvValue /\ Garbled \in EnvValue
  BY PlainIs DEF Unresolved, Garbled
<1>2. CASE e \in [kind : {"value"}, value : EnvValue]
  <2>1. e.kind = "value" /\ e.value \in EnvValue
    BY <1>2
  <2>2. v = e.value
    BY <2>1 DEF processEntry
  <2> QED BY <2>1, <2>2
<1>3. CASE e \in [kind : {"braces", "bare"}, ref : EnvVar]
  <2>1. CASE e.kind = "braces"
    <3>1. v = IF e.ref \in DOMAIN values THEN values[e.ref] ELSE Unresolved
      BY <2>1 DEF processEntry
    <3> QED BY <1>1, <3>1
  <2>2. CASE e.kind = "bare"
    <3>1. v \in (IF e.ref \in DOMAIN values THEN {values[e.ref]} ELSE {})
            \cup (IF shorter # {} THEN {Garbled} ELSE {})
            \cup (IF e.ref \notin DOMAIN values /\ shorter = {} THEN {Unresolved} ELSE {})
      BY <2>2 DEF processEntry
    <3>2. \/ e.ref \in DOMAIN values /\ v = values[e.ref]
          \/ shorter # {} /\ v = Garbled
          \/ e.ref \notin DOMAIN values /\ v = Unresolved
      BY <3>1
    <3> QED BY <1>1, <3>2
  <2> QED BY <1>3, <2>1, <2>2
<1> QED BY <1>2, <1>3 DEF EnvEntry

\* What the env files say: values with no quotes around them.
EnvLoaded(values) ==
  /\ DOMAIN values \subseteq EnvVar
  /\ \A k \in DOMAIN values : values[k] \in EnvValue /\ values[k].wrapped = FALSE

\* What a .env is made of has values too.
Valued(f) == DOMAIN f \subseteq EnvVar /\ \A k \in DOMAIN f : f[k] \in EnvValue

\* What of a template a new .env may start from.
LEMMA ProcessedIs ==
  ASSUME NEW t, IsEnvTemplate(t), NEW values, EnvLoaded(values), NEW f \in processTemplate(t, values)
  PROVE  /\ DOMAIN f = DOMAIN t /\ DOMAIN t \subseteq EnvVar
         /\ \A k \in DOMAIN t : f[k] \in EnvValue
         /\ \A k \in DOMAIN t : t[k].kind # "value" /\ t[k].ref \in DOMAIN values =>
              \/ f[k] = values[t[k].ref]
              \/ \E p \in DOMAIN values : <<p, t[k].ref>> \in NamePrefixes
<1>1. PICK names \in SUBSET EnvVar : t \in [names -> EnvEntry]
  BY DEF IsEnvTemplate
<1>2. DOMAIN f = DOMAIN t /\ \A k \in DOMAIN t : f[k] \in processEntry(t[k], values)
  BY DEF processTemplate
<1>3. \A k \in DOMAIN values : values[k] \in EnvValue
  BY DEF EnvLoaded
<1>4. ASSUME NEW k \in DOMAIN t
      PROVE  /\ f[k] \in EnvValue
             /\ t[k].kind # "value" /\ t[k].ref \in DOMAIN values =>
                  \/ f[k] = values[t[k].ref]
                  \/ \E p \in DOMAIN values : <<p, t[k].ref>> \in NamePrefixes
  <2>1. t[k] \in EnvEntry /\ f[k] \in processEntry(t[k], values)
    BY <1>1, <1>2
  <2> QED BY <1>3, <2>1, EntryIs
<1> QED BY <1>1, <1>2, <1>4

\* A list of env files, and what may be there of a .env.
IsEnvFiles(files) == files \in Seq(Range(files)) /\ \A f \in Range(files) : IsEnvFile(f)

LEMMA LoadedIs == ASSUME NEW files, IsEnvFiles(files) PROVE EnvLoaded(LoadFiles(files))
  BY LoadIs DEF IsEnvFiles, EnvLoaded

\* What of the old .env, or of the template, the new one is made of.
LEMMA GeneratedFrom ==
  ASSUME NEW t, IsEnvTemplate(t), NEW files, EnvLoaded(LoadFiles(files)),
         NEW file, file = NoEnv \/ IsEnvFile(file),
         NEW g \in GenerateEnvFromTemplate(t, files, file)
  PROVE  \E f : /\ Valued(f) /\ g = writeEnvFile(Merged(f, LoadFiles(files)))
                /\ file = NoEnv => f \in processTemplate(t, LoadFiles(files))
                /\ file # NoEnv => f = parseEnvContent(file)
<1>1. CASE file = NoEnv
  <2>1. PICK f \in processTemplate(t, LoadFiles(files)) : g = writeEnvFile(Merged(f, LoadFiles(files)))
    BY <1>1 DEF GenerateEnvFromTemplate, Fresh
  <2>2. DOMAIN f = DOMAIN t /\ DOMAIN t \subseteq EnvVar /\ \A k \in DOMAIN t : f[k] \in EnvValue
    BY ProcessedIs
  <2> QED BY <1>1, <2>1, <2>2 DEF Valued
<1>2. CASE file # NoEnv
  <2>1. PICK f : f = parseEnvContent(file)
    OBVIOUS
  <2>2. g = writeEnvFile(Merged(f, LoadFiles(files)))
    BY <1>2, <2>1 DEF GenerateEnvFromTemplate, Existing
  <2>3. DOMAIN f = DOMAIN file /\ \A k \in DOMAIN file : f[k] = Unwrap(file[k])
    BY <2>1, ParsedIs
  <2>4. DOMAIN file \subseteq EnvVar /\ \A k \in DOMAIN file : file[k] \in EnvValue
    BY <1>2, FileIs
  <2>5. ASSUME NEW k \in DOMAIN f PROVE f[k] \in EnvValue
    <3>1. file[k] \in EnvValue /\ f[k] = Unwrap(file[k])
      BY <2>3, <2>4
    <3> QED BY <3>1, UnwrapIs
  <2> QED BY <1>2, <2>1, <2>2, <2>3, <2>4, <2>5 DEF Valued
<1> QED BY <1>1, <1>2

\* g: the env files over f.
IsOver(g, f, told) ==
  /\ IsEnvFile(g) /\ DOMAIN g = DOMAIN f \cup DOMAIN told
  /\ \A k \in DOMAIN told : Read(g[k]) = told[k] \/ Escaped(told[k])
  /\ \A k \in DOMAIN f \ DOMAIN told : g[k] = Write(f[k])

\* The env files win over what it is made of, which otherwise is there as it was,
\* and what is read of it is what was put in, but for an escaped quote.
LEMMA WrittenOver ==
  ASSUME NEW f, Valued(f), NEW told, EnvLoaded(told), NEW g, g = writeEnvFile(Merged(f, told))
  PROVE  IsOver(g, f, told)
<1>1. PICK m : m = Merged(f, told)
  OBVIOUS
<1>2. /\ DOMAIN m = DOMAIN f \cup DOMAIN told
      /\ \A k \in DOMAIN told : m[k] = told[k]
      /\ \A k \in DOMAIN f \ DOMAIN told : m[k] = f[k]
  BY <1>1 DEF Merged
<1>3. DOMAIN m \subseteq EnvVar /\ \A k \in DOMAIN m : m[k] \in EnvValue
  BY <1>2 DEF EnvLoaded, Valued
<1>4. g = writeEnvFile(m)
  BY <1>1
<1>5. DOMAIN g = DOMAIN m /\ \A k \in DOMAIN m : g[k] = Write(m[k])
  BY <1>4, WrittenIs
<1>6. g = [k \in DOMAIN g |-> g[k]]
  BY <1>4 DEF writeEnvFile
<1>7. \A k \in DOMAIN g : g[k] \in EnvValue
  BY <1>3, <1>5, WriteIs
<1>8. IsEnvFile(g)
  BY <1>3, <1>5, <1>6, <1>7, IsFile
<1>9. ASSUME NEW k \in DOMAIN told PROVE Read(g[k]) = told[k] \/ Escaped(told[k])
  <2>1. told[k] \in EnvValue /\ told[k].wrapped = FALSE
    BY DEF EnvLoaded
  <2>2. g[k] = Write(told[k])
    BY <1>2, <1>5
  <2> QED BY <2>1, <2>2, WriteIs
<1> QED BY <1>2, <1>5, <1>8, <1>9 DEF IsOver

\* The .env generated over one that was there.
LEMMA GeneratedOver ==
  ASSUME NEW t, IsEnvTemplate(t), NEW files, IsEnvFiles(files), NEW file, IsEnvFile(file),
         NEW g \in GenerateEnvFromTemplate(t, files, file),
         NEW told, told = LoadFiles(files)
  PROVE  /\ IsEnvFile(g) /\ DOMAIN told \subseteq DOMAIN g /\ DOMAIN file \subseteq DOMAIN g
         /\ \A k \in DOMAIN told : Read(g[k]) = told[k] \/ Escaped(told[k])
         /\ \A k \in DOMAIN file \ DOMAIN told : g[k] = Write(Unwrap(file[k]))
<1>1. EnvLoaded(told) /\ file # NoEnv
  BY LoadedIs, FileIs
<1>2. PICK f : /\ Valued(f) /\ g = writeEnvFile(Merged(f, told))
               /\ f = parseEnvContent(file)
  BY <1>1, GeneratedFrom
<1>3. /\ IsEnvFile(g) /\ DOMAIN g = DOMAIN f \cup DOMAIN told
      /\ \A k \in DOMAIN told : Read(g[k]) = told[k] \/ Escaped(told[k])
      /\ \A k \in DOMAIN f \ DOMAIN told : g[k] = Write(f[k])
  <2>1. IsOver(g, f, told)
    BY <1>1, <1>2, WrittenOver
  <2> QED BY <2>1 DEF IsOver
<1>4. DOMAIN f = DOMAIN file /\ \A k \in DOMAIN file : f[k] = Unwrap(file[k])
  BY <1>2, ParsedIs
<1> QED BY <1>3, <1>4

\* g: the env files over the template, whose references to them are resolved.
IsNew(g, t, told) ==
  /\ IsEnvFile(g) /\ DOMAIN told \subseteq DOMAIN g /\ DOMAIN t \subseteq DOMAIN g
  /\ \A k \in DOMAIN told : Read(g[k]) = told[k] \/ Escaped(told[k])
  /\ \A k \in DOMAIN t \ DOMAIN told :
       t[k].kind # "value" /\ t[k].ref \in DOMAIN told =>
         \/ Read(g[k]) = told[t[k].ref] \/ Escaped(told[t[k].ref])
         \/ \E p \in DOMAIN told : <<p, t[k].ref>> \in NamePrefixes

\* And the .env generated where there was none.
LEMMA GeneratedFresh ==
  ASSUME NEW t, IsEnvTemplate(t), NEW files, IsEnvFiles(files),
         NEW g \in GenerateEnvFromTemplate(t, files, NoEnv),
         NEW told, told = LoadFiles(files)
  PROVE  IsNew(g, t, told)
<1>1. EnvLoaded(told)
  BY LoadedIs
<1>2. PICK f : /\ Valued(f) /\ g = writeEnvFile(Merged(f, told))
               /\ f \in processTemplate(t, told)
  BY <1>1, GeneratedFrom
<1>3. /\ IsEnvFile(g) /\ DOMAIN g = DOMAIN f \cup DOMAIN told
      /\ \A k \in DOMAIN told : Read(g[k]) = told[k] \/ Escaped(told[k])
      /\ \A k \in DOMAIN f \ DOMAIN told : g[k] = Write(f[k])
  <2>1. IsOver(g, f, told)
    BY <1>1, <1>2, WrittenOver
  <2> QED BY <2>1 DEF IsOver
<1>4. /\ DOMAIN f = DOMAIN t
      /\ \A k \in DOMAIN t : t[k].kind # "value" /\ t[k].ref \in DOMAIN told =>
           \/ f[k] = told[t[k].ref]
           \/ \E p \in DOMAIN told : <<p, t[k].ref>> \in NamePrefixes
  BY <1>1, <1>2, ProcessedIs
<1>5. ASSUME NEW k \in DOMAIN t \ DOMAIN told, t[k].kind # "value", t[k].ref \in DOMAIN told
      PROVE  \/ Read(g[k]) = told[t[k].ref] \/ Escaped(told[t[k].ref])
             \/ \E p \in DOMAIN told : <<p, t[k].ref>> \in NamePrefixes
  <2>1. CASE f[k] = told[t[k].ref]
    <3>1. told[t[k].ref] \in EnvValue /\ told[t[k].ref].wrapped = FALSE
      BY <1>1, <1>5 DEF EnvLoaded
    <3>2. g[k] = Write(told[t[k].ref])
      BY <1>3, <1>4, <2>1
    <3> QED BY <3>1, <3>2, WriteIs
  <2> QED BY <1>4, <1>5, <2>1
<1> QED BY <1>3, <1>4, <1>5 DEF IsNew

-----------------------------------------------------------------------------
(* ConfigPipeline. The .env of a service, from one up to the next.         *)

\* What the env files of this up or an earlier one said.
Ever == UNION {DOMAIN LoadFiles(in.dotenv.files[u]) : u \in 1..env.ups}

EnvTyped ==
  /\ in \in Inputs
  /\ DOMAIN env = {"file", "mine", "ups", "fresh", "cut"}
  /\ env.ups \in DOMAIN in.dotenv.files
  /\ env.file = NoEnv \/ IsEnvFile(env.file)
  /\ \A k \in DOMAIN env.mine : env.mine[k] \in EnvValue

\* What the developer wrote and no env file ever said is in the file, its quotes
\* and what stands before them left aside.
MineKept ==
  /\ env.file = NoEnv => DOMAIN env.mine = {}
  /\ ~env.cut => \A k \in DOMAIN env.mine \ Ever :
       /\ k \in DOMAIN env.file
       /\ env.mine[k].quote \/ Unwrap(env.file[k]) = Unwrap(env.mine[k])

\* Until the first up has written it the file is the one it found.
FirstFound ==
  env.ups = 1 /\ pc \notin {"order", "start", "done", "killed"} =>
    env.file = in.dotenv.start /\ (in.dotenv.start = NoEnv \/ env.mine = in.dotenv.start)

\* A file that a template made has its variables.
TemplateKept ==
  in.dotenv.start = NoEnv /\ env.file # NoEnv /\ ~env.cut =>
    DOMAIN in.dotenv.template \subseteq DOMAIN env.file

EnvInv == EnvTyped /\ MineKept /\ FirstFound /\ TemplateKept /\ EnvIsMerged

\* What is assumed of the .env files of an input.
LEMMA EnvInputs ==
  ASSUME NEW i \in Inputs
  PROVE  /\ i.dotenv.files \in Seq(Range(i.dotenv.files)) /\ i.dotenv.files # <<>>
         /\ \A u \in DOMAIN i.dotenv.files : IsEnvFiles(i.dotenv.files[u])
         /\ i.dotenv.template = NoTemplate \/ IsEnvTemplate(i.dotenv.template)
         /\ i.dotenv.start = NoEnv \/ IsEnvFile(i.dotenv.start)
         /\ \A e \in i.dotenv.edits : IsEnvFile(e)
<1>1. /\ i.dotenv.files \in Seq(Range(i.dotenv.files)) /\ i.dotenv.files # <<>>
      /\ \A files \in Range(i.dotenv.files) :
           files \in Seq(Range(files)) /\ \A f \in Range(files) : IsEnvFile(f)
      /\ i.dotenv.template = NoTemplate \/ IsEnvTemplate(i.dotenv.template)
      /\ i.dotenv.start = NoEnv \/ IsEnvFile(i.dotenv.start)
      /\ \A e \in i.dotenv.edits : IsEnvFile(e)
  BY InputsAssumption
<1>2. \A u \in DOMAIN i.dotenv.files : IsEnvFiles(i.dotenv.files[u])
  BY <1>1 DEF Range, IsEnvFiles
<1> QED BY <1>1, <1>2

LEMMA UpsAre ==
  ASSUME EnvTyped
  PROVE  /\ env.ups \in Nat /\ env.ups \in 1..env.ups
         /\ IsEnvFiles(EnvFiles) /\ DOMAIN LoadFiles(EnvFiles) \subseteq Ever
<1>1. in \in Inputs /\ env.ups \in DOMAIN in.dotenv.files
  BY DEF EnvTyped
<1>2. PICK fs : fs = in.dotenv.files
  OBVIOUS
<1>3. fs \in Seq(Range(fs)) /\ IsEnvFiles(fs[env.ups])
  BY <1>1, <1>2, EnvInputs
<1>4. env.ups \in 1..Len(fs) /\ Len(fs) \in Nat
  BY <1>1, <1>2, <1>3
<1>5. env.ups \in Nat /\ env.ups \in 1..env.ups
  BY <1>4
<1> QED BY <1>2, <1>3, <1>5 DEF EnvFiles, Ever

\* What the invariant says of a generated file.
LEMMA EnvOver ==
  ASSUME EnvTyped, MineKept, TemplateKept, HasTemplate, env.file # NoEnv, NEW f \in Generated
  PROVE  /\ IsEnvFile(f)
         /\ \A k \in DOMAIN LoadFiles(EnvFiles) :
              k \in DOMAIN f /\ (Read(f[k]) = LoadFiles(EnvFiles)[k] \/ Escaped(LoadFiles(EnvFiles)[k]))
         /\ ~env.cut => \A k \in DOMAIN env.mine \ Ever :
              /\ k \in DOMAIN f
              /\ env.mine[k].quote \/ Unwrap(f[k]) = Unwrap(env.mine[k])
         /\ \A k \in DOMAIN env.file \ Ever : f[k] = Write(Unwrap(env.file[k]))
         /\ in.dotenv.start = NoEnv /\ ~env.cut => DOMAIN in.dotenv.template \subseteq DOMAIN f
<1>1. /\ IsEnvFiles(EnvFiles) /\ DOMAIN LoadFiles(EnvFiles) \subseteq Ever
      /\ IsEnvTemplate(in.dotenv.template) /\ IsEnvFile(env.file)
  BY UpsAre, EnvInputs DEF EnvTyped, HasTemplate
<1>2. PICK told : told = LoadFiles(EnvFiles)
  OBVIOUS
<1>3. f \in GenerateEnvFromTemplate(in.dotenv.template, EnvFiles, env.file)
  BY DEF Generated
<1>4. /\ IsEnvFile(f) /\ DOMAIN told \subseteq DOMAIN f /\ DOMAIN env.file \subseteq DOMAIN f
      /\ \A k \in DOMAIN told : Read(f[k]) = told[k] \/ Escaped(told[k])
      /\ \A k \in DOMAIN env.file \ DOMAIN told : f[k] = Write(Unwrap(env.file[k]))
  BY <1>1, <1>2, <1>3, GeneratedOver
<1>5. \A k \in DOMAIN env.file \ Ever : f[k] = Write(Unwrap(env.file[k]))
  BY <1>1, <1>2, <1>4
<1>6. ASSUME ~env.cut, NEW k \in DOMAIN env.mine \ Ever
      PROVE  /\ k \in DOMAIN f
             /\ env.mine[k].quote \/ Unwrap(f[k]) = Unwrap(env.mine[k])
  <2>1. /\ k \in DOMAIN env.file
        /\ env.mine[k].quote \/ Unwrap(env.file[k]) = Unwrap(env.mine[k])
    BY <1>6 DEF MineKept
  <2>2. f[k] = Write(Unwrap(env.file[k]))
    BY <1>5, <1>6, <2>1
  <2>3. env.mine[k] \in EnvValue /\ env.file[k] \in EnvValue
    BY <1>1, <1>6, <2>1, FileIs DEF EnvTyped
  <2>4. ASSUME ~env.mine[k].quote PROVE Unwrap(f[k]) = Unwrap(env.mine[k])
    <3>1. Unwrap(env.file[k]) = Unwrap(env.mine[k])
      BY <2>1, <2>4
    <3>2. ~Unwrap(env.mine[k]).quote /\ Unwrap(env.mine[k]) \in EnvValue
      BY <2>3, <2>4, UnwrapIs
    <3>3. f[k] = Unwrap(env.mine[k])
      BY <2>2, <3>1, <3>2, WriteIs
    <3> QED BY <2>3, <3>3, UnwrapIs
  <2> QED BY <1>4, <2>1, <2>4
<1>7. in.dotenv.start = NoEnv /\ ~env.cut => DOMAIN in.dotenv.template \subseteq DOMAIN f
  BY <1>4 DEF TemplateKept
<1>8. \A k \in DOMAIN told : k \in DOMAIN f /\ (Read(f[k]) = told[k] \/ Escaped(told[k]))
  BY <1>4
<1> QED BY <1>2, <1>4, <1>5, <1>6, <1>7, <1>8

LEMMA EnvFresh ==
  ASSUME EnvTyped, MineKept, HasTemplate, env.file = NoEnv, NEW f \in Generated
  PROVE  /\ IsEnvFile(f) /\ DOMAIN env.mine = {} /\ DOMAIN in.dotenv.template \subseteq DOMAIN f
         /\ \A k \in DOMAIN LoadFiles(EnvFiles) :
              k \in DOMAIN f /\ (Read(f[k]) = LoadFiles(EnvFiles)[k] \/ Escaped(LoadFiles(EnvFiles)[k]))
         /\ \A k \in DOMAIN in.dotenv.template \ DOMAIN LoadFiles(EnvFiles) :
              LET e == in.dotenv.template[k] told == LoadFiles(EnvFiles) IN
              e.kind # "value" /\ e.ref \in DOMAIN told =>
                \/ Read(f[k]) = told[e.ref] \/ Escaped(told[e.ref])
                \/ \E p \in DOMAIN told : <<p, e.ref>> \in NamePrefixes
<1>1. IsEnvFiles(EnvFiles) /\ IsEnvTemplate(in.dotenv.template)
  BY UpsAre, EnvInputs DEF EnvTyped, HasTemplate
<1>2. PICK told, t : told = LoadFiles(EnvFiles) /\ t = in.dotenv.template
  OBVIOUS
<1>3. f \in GenerateEnvFromTemplate(t, EnvFiles, NoEnv)
  BY <1>2 DEF Generated
<1>4. /\ IsEnvFile(f) /\ DOMAIN told \subseteq DOMAIN f /\ DOMAIN t \subseteq DOMAIN f
      /\ \A k \in DOMAIN told : Read(f[k]) = told[k] \/ Escaped(told[k])
      /\ \A k \in DOMAIN t \ DOMAIN told :
           t[k].kind # "value" /\ t[k].ref \in DOMAIN told =>
             \/ Read(f[k]) = told[t[k].ref] \/ Escaped(told[t[k].ref])
             \/ \E p \in DOMAIN told : <<p, t[k].ref>> \in NamePrefixes
  <2>1. IsNew(f, t, told)
    BY <1>1, <1>2, <1>3, GeneratedFresh
  <2> QED BY <2>1 DEF IsNew
<1>5. DOMAIN env.mine = {}
  BY DEF MineKept
<1>6. \A k \in DOMAIN told : k \in DOMAIN f /\ (Read(f[k]) = told[k] \/ Escaped(told[k]))
  BY <1>4
<1> QED BY <1>2, <1>4, <1>5, <1>6

\* A step that leaves the .env alone.
LEMMA EnvKept ==
  ASSUME EnvInv, UNCHANGED <<in, env>>,
         \/ pc \in {"order", "start"} /\ pc' \in {"order", "start"} /\ UNCHANGED deps
         \/ pc' = "done"
         \/ pc \notin {"order", "start", "done", "killed"} /\ pc' \notin {"order", "start"}
  PROVE  EnvInv'
<1>1. EnvTyped'
  BY DEF EnvInv, EnvTyped
<1>2. MineKept'
  BY DEF EnvInv, MineKept, Ever
<1>3. FirstFound'
  BY DEF EnvInv, FirstFound
<1>4. TemplateKept'
  BY DEF EnvInv, TemplateKept
<1>5. EnvIsMerged'
  <2>1. CASE pc \in {"order", "start"} /\ pc' \in {"order", "start"} /\ UNCHANGED deps
    BY <2>1 DEF EnvInv, EnvIsMerged, HasTemplate, EnvFiles
  <2>2. CASE pc' \notin {"order", "start"}
    BY <2>2 DEF EnvIsMerged
  <2> QED BY <2>1, <2>2
<1> QED BY <1>1, <1>2, <1>3, <1>4, <1>5 DEF EnvInv

\* The next up.
LEMMA EnvAgain == EnvInv /\ Again => EnvInv'
<1> SUFFICES ASSUME EnvInv, Again PROVE EnvInv'
  OBVIOUS
<1>1. /\ in' = in /\ pc' \in {"scan", "load"} /\ env.ups < Len(in.dotenv.files)
      /\ env' = [env EXCEPT !.ups = env.ups + 1, !.fresh = FALSE]
  BY DEF Again
<1>2. /\ DOMAIN env' = DOMAIN env /\ env'.ups = env.ups + 1
      /\ env'.file = env.file /\ env'.mine = env.mine /\ env'.cut = env.cut
  BY <1>1 DEF EnvInv, EnvTyped
<1>3. env.ups \in Nat /\ env.ups \in 1..env.ups
  BY UpsAre DEF EnvInv
<1>4. env'.ups \in DOMAIN in.dotenv.files
  <2>1. PICK fs : fs = in.dotenv.files
    OBVIOUS
  <2>2. fs \in Seq(Range(fs))
    BY <2>1, EnvInputs DEF EnvInv, EnvTyped
  <2>3. env.ups + 1 \in 1..Len(fs)
    BY <1>1, <1>3, <2>1, <2>2
  <2> QED BY <1>2, <2>1, <2>2, <2>3
<1>5. EnvTyped'
  BY <1>1, <1>2, <1>4 DEF EnvInv, EnvTyped
<1>6. Ever \subseteq Ever'
  <2>1. 1..env.ups \subseteq 1..env'.ups
    BY <1>2, <1>3
  <2> QED BY <1>1, <2>1 DEF Ever
<1>7. MineKept'
  BY <1>2, <1>6 DEF EnvInv, MineKept
<1>8. FirstFound'
  <2>1. env'.ups # 1
    BY <1>2, <1>3
  <2> QED BY <2>1 DEF FirstFound
<1>9. TemplateKept'
  BY <1>1, <1>2 DEF EnvInv, TemplateKept
<1>10. EnvIsMerged'
  BY <1>1 DEF EnvIsMerged
<1> QED BY <1>5, <1>7, <1>8, <1>9, <1>10 DEF EnvInv

\* The developer's edit.
LEMMA EnvEdited == EnvInv /\ Edit => EnvInv'
<1> SUFFICES ASSUME EnvInv, Edit PROVE EnvInv'
  OBVIOUS
<1>1. PICK e \in in.dotenv.edits :
        env' = [env EXCEPT !.file = Merged(env.file, e), !.mine = Merged(env.mine, e)]
  BY DEF Edit
<1>2. pc \in {"done", "killed"} /\ env.file # NoEnv /\ in' = in /\ pc' = pc
  BY DEF Edit
<1>3. PICK f, m : f = Merged(env.file, e) /\ m = Merged(env.mine, e)
  OBVIOUS
<1>4. /\ DOMAIN env' = DOMAIN env /\ env'.ups = env.ups /\ env'.cut = env.cut
      /\ env'.file = f /\ env'.mine = m
  BY <1>1, <1>3 DEF EnvInv, EnvTyped
<1>5. IsEnvFile(e) /\ IsEnvFile(env.file)
  BY <1>2, EnvInputs DEF EnvInv, EnvTyped
<1>6. /\ DOMAIN f = DOMAIN env.file \cup DOMAIN e /\ \A k \in DOMAIN e : f[k] = e[k]
      /\ \A k \in DOMAIN env.file \ DOMAIN e : f[k] = env.file[k]
  BY <1>3 DEF Merged
<1>7. /\ DOMAIN m = DOMAIN env.mine \cup DOMAIN e /\ \A k \in DOMAIN e : m[k] = e[k]
      /\ \A k \in DOMAIN env.mine \ DOMAIN e : m[k] = env.mine[k]
  BY <1>3 DEF Merged
<1>8. IsEnvFile(f)
  <2>1. DOMAIN env.file \subseteq EnvVar /\ \A k \in DOMAIN env.file : env.file[k] \in EnvValue
    BY <1>5, FileIs
  <2> QED BY <1>3, <1>5, <2>1, MergedFile
<1>9. f # NoEnv
  BY <1>8, FileIs
<1>10. EnvTyped'
  <2>1. \A k \in DOMAIN e : e[k] \in EnvValue
    BY <1>5, FileIs
  <2>2. \A k \in DOMAIN env.mine : env.mine[k] \in EnvValue
    BY DEF EnvInv, EnvTyped
  <2>3. \A k \in DOMAIN m : m[k] \in EnvValue
    BY <1>7, <2>1, <2>2
  <2> QED BY <1>2, <1>4, <1>8, <2>3 DEF EnvInv, EnvTyped
<1>11. MineKept'
  <2>1. Ever' = Ever
    BY <1>2, <1>4 DEF Ever
  <2>2. ASSUME ~env.cut, NEW k \in DOMAIN m \ Ever
        PROVE  k \in DOMAIN f /\ (m[k].quote \/ Unwrap(f[k]) = Unwrap(m[k]))
    <3>1. CASE k \in DOMAIN e
      BY <1>6, <1>7, <3>1
    <3>2. CASE k \notin DOMAIN e
      <4>1. k \in DOMAIN env.mine \ Ever /\ m[k] = env.mine[k]
        BY <1>7, <2>2, <3>2
      <4>2. /\ k \in DOMAIN env.file
            /\ env.mine[k].quote \/ Unwrap(env.file[k]) = Unwrap(env.mine[k])
        BY <2>2, <4>1 DEF EnvInv, MineKept
      <4> QED BY <1>6, <3>2, <4>1, <4>2
    <3> QED BY <3>1, <3>2
  <2> QED BY <1>4, <1>9, <2>1, <2>2 DEF MineKept
<1>12. FirstFound'
  BY <1>2 DEF FirstFound
<1>13. TemplateKept'
  BY <1>2, <1>4, <1>6 DEF EnvInv, TemplateKept
<1>14. EnvIsMerged'
  BY <1>2 DEF EnvIsMerged
<1> QED BY <1>10, <1>11, <1>12, <1>13, <1>14 DEF EnvInv

\* A write that is killed.
LEMMA EnvCut == EnvInv /\ KilledInWrite => EnvInv'
<1> SUFFICES ASSUME EnvInv, KilledInWrite PROVE EnvInv'
  OBVIOUS
<1>1. PICK f \in Generated : \E S \in SUBSET DOMAIN f :
        env' = [env EXCEPT !.file = Restrict(f, S), !.cut = TRUE]
  BY DEF KilledInWrite
<1>2. PICK S \in SUBSET DOMAIN f : env' = [env EXCEPT !.file = Restrict(f, S), !.cut = TRUE]
  BY <1>1
<1>3. HasTemplate /\ in' = in /\ pc' = "killed"
  BY DEF KilledInWrite, Goto
<1>4. /\ DOMAIN env' = DOMAIN env /\ env'.ups = env.ups /\ env'.cut = TRUE
      /\ env'.file = Restrict(f, S) /\ env'.mine = env.mine
  BY <1>2 DEF EnvInv, EnvTyped
<1>5. IsEnvFile(f)
  <2>1. CASE env.file = NoEnv
    BY <2>1, <1>3, EnvFresh DEF EnvInv
  <2>2. CASE env.file # NoEnv
    BY <2>2, <1>3, EnvOver DEF EnvInv
  <2> QED BY <2>1, <2>2
<1>6. IsEnvFile(Restrict(f, S))
  <2>1. PICK r : r = Restrict(f, S)
    OBVIOUS
  <2>2. r = [k \in DOMAIN r |-> r[k]] /\ DOMAIN r = S /\ \A k \in S : r[k] = f[k]
    BY <2>1 DEF Restrict
  <2>3. DOMAIN f \subseteq EnvVar /\ \A k \in DOMAIN f : f[k] \in EnvValue
    BY <1>5, FileIs
  <2>4. DOMAIN r \subseteq EnvVar /\ \A k \in DOMAIN r : r[k] \in EnvValue
    BY <2>2, <2>3
  <2> QED BY <2>1, <2>2, <2>4, IsFile
<1>7. Restrict(f, S) # NoEnv
  BY <1>6, FileIs
<1>8. EnvTyped'
  BY <1>3, <1>4, <1>6 DEF EnvInv, EnvTyped
<1>9. MineKept'
  BY <1>4, <1>7 DEF MineKept
<1>10. FirstFound'
  BY <1>3 DEF FirstFound
<1>11. TemplateKept'
  BY <1>4 DEF TemplateKept
<1>12. EnvIsMerged'
  BY <1>3 DEF EnvIsMerged
<1> QED BY <1>8, <1>9, <1>10, <1>11, <1>12 DEF EnvInv

\* The write that comes to its end.
LEMMA EnvWrites == EnvInv /\ generateEnvFilesFromTemplates /\ HasTemplate => EnvInv'
<1> SUFFICES ASSUME EnvInv, generateEnvFilesFromTemplates, HasTemplate PROVE EnvInv'
  OBVIOUS
<1>1. PICK f \in Generated : env' = [env EXCEPT !.file = f, !.fresh = env.file = NoEnv]
  BY DEF generateEnvFilesFromTemplates
<1>2. in' = in /\ pc = "env" /\ pc' = "order" /\ deps' = deps
  BY DEF generateEnvFilesFromTemplates, Goto
<1>3. /\ DOMAIN env' = DOMAIN env /\ env'.ups = env.ups /\ env'.cut = env.cut
      /\ env'.file = f /\ env'.mine = env.mine
  BY <1>1 DEF EnvInv, EnvTyped
<1>4. env'.fresh = (env.file = NoEnv)
  BY <1>1 DEF EnvInv, EnvTyped
<1>5. /\ IsEnvFile(f)
      /\ \A k \in DOMAIN LoadFiles(EnvFiles) :
           k \in DOMAIN f /\ (Read(f[k]) = LoadFiles(EnvFiles)[k] \/ Escaped(LoadFiles(EnvFiles)[k]))
      /\ ~env.cut => \A k \in DOMAIN env.mine \ Ever :
           k \in DOMAIN f /\ (env.mine[k].quote \/ Unwrap(f[k]) = Unwrap(env.mine[k]))
      /\ in.dotenv.start = NoEnv /\ ~env.cut => DOMAIN in.dotenv.template \subseteq DOMAIN f
  <2>1. CASE env.file = NoEnv
    BY <2>1, EnvFresh DEF EnvInv
  <2>2. CASE env.file # NoEnv
    BY <2>2, EnvOver DEF EnvInv
  <2> QED BY <2>1, <2>2
<1>6. f # NoEnv
  BY <1>5, FileIs
<1>7. EnvTyped'
  BY <1>2, <1>3, <1>5 DEF EnvInv, EnvTyped
<1>8. MineKept'
  <2>1. Ever' = Ever
    BY <1>2, <1>3 DEF Ever
  <2> QED BY <1>3, <1>5, <1>6, <2>1 DEF MineKept
<1>9. FirstFound'
  BY <1>2 DEF FirstFound
<1>10. TemplateKept'
  BY <1>2, <1>3, <1>5 DEF TemplateKept
<1>11. EnvIsMerged'
  <2>1. PICK told, read, t :
          told = LoadFiles(EnvFiles) /\ read = loadSingleFile(f) /\ t = in.dotenv.template
    OBVIOUS
  <2>2. DOMAIN read = DOMAIN f /\ \A k \in DOMAIN f : read[k] = Read(f[k])
    BY <2>1, ReadFileIs
  <2>3. ASSUME NEW k \in DOMAIN told
        PROVE  k \in DOMAIN read /\ (read[k] = told[k] \/ Escaped(told[k]))
    BY <1>5, <2>1, <2>2, <2>3
  <2>4. ASSUME NEW k \in DOMAIN env.mine \ Ever
        PROVE  \/ k \in DOMAIN read /\ read[k] = loadSingleFile(env.mine)[k]
               \/ env.mine[k].quote
                    /\ (env.mine[k].wrapped \/ Escaped(env.mine[k]) \/ env.ups > 1)
               \/ env.cut
    <3> SUFFICES ASSUME ~env.cut
                 PROVE  \/ k \in DOMAIN read /\ read[k] = loadSingleFile(env.mine)[k]
                        \/ env.mine[k].quote
                             /\ (env.mine[k].wrapped \/ Escaped(env.mine[k]) \/ env.ups > 1)
      OBVIOUS
    <3>1. PICK v : v = env.mine[k]
      OBVIOUS
    <3>2. v \in EnvValue /\ loadSingleFile(env.mine)[k] = Read(v)
      BY <2>4, <3>1, ReadFileIs DEF EnvInv, EnvTyped
    <3>3. k \in DOMAIN f /\ (v.quote \/ Unwrap(f[k]) = Unwrap(v))
      BY <1>5, <2>4, <3>1
    <3>4. f[k] \in EnvValue
      BY <1>5, <3>3, FileIs
    <3>5. CASE ~v.quote
      <4>1. Unwrap(f[k]) = Unwrap(v)
        BY <3>3, <3>5
      <4>2. ~f[k].quote
        BY <3>2, <3>4, <3>5, <4>1, UnwrapIs
      <4>3. Read(f[k]) = Unwrap(f[k]) /\ Read(v) = Unwrap(v)
        BY <3>2, <3>4, <3>5, <4>2, ReadIs
      <4> QED BY <2>2, <3>2, <3>3, <4>1, <4>3
    <3>6. CASE v.quote /\ ~v.wrapped /\ ~Escaped(v) /\ env.ups = 1
      <4>1. env.file = in.dotenv.start /\ (in.dotenv.start = NoEnv \/ env.mine = in.dotenv.start)
        BY <1>2, <3>6 DEF EnvInv, FirstFound
      <4>2. env.file # NoEnv
        BY <2>4 DEF EnvInv, MineKept
      <4>3. env.file = env.mine
        BY <4>1, <4>2
      <4>4. f[k] = Write(Unwrap(v))
        BY <2>4, <3>1, <4>2, <4>3, EnvOver DEF EnvInv
      <4>5. Unwrap(v) = v /\ v.wrapped = FALSE
        BY <3>2, <3>6, UnwrapIs
      <4>6. Read(f[k]) = v /\ Read(v) = v
        BY <3>2, <3>6, <4>4, <4>5, WriteIs, ReadIs
      <4> QED BY <2>2, <3>2, <3>3, <4>6
    <3>7. env.ups = 1 \/ env.ups > 1
      <4>1. env.ups \in Nat /\ env.ups \in 1..env.ups
        BY UpsAre DEF EnvInv
      <4> QED BY <4>1
    <3> QED BY <3>1, <3>5, <3>6, <3>7
  <2>5. in.dotenv.start = NoEnv => DOMAIN t \subseteq DOMAIN read \/ env.cut
    BY <1>5, <2>1, <2>2
  <2>6. ASSUME env.file = NoEnv, NEW k \in DOMAIN t \ DOMAIN told,
               t[k].kind # "value", t[k].ref \in DOMAIN told
        PROVE  \/ k \in DOMAIN read /\ (read[k] = told[t[k].ref] \/ Escaped(told[t[k].ref]))
               \/ \E p \in DOMAIN told : <<p, t[k].ref>> \in NamePrefixes
    <3>1. /\ k \in DOMAIN f
          /\ \/ Read(f[k]) = told[t[k].ref] \/ Escaped(told[t[k].ref])
             \/ \E p \in DOMAIN told : <<p, t[k].ref>> \in NamePrefixes
      BY <2>1, <2>6, EnvFresh DEF EnvInv
    <3> QED BY <2>2, <3>1
  <2>7. EnvFiles' = EnvFiles /\ Ever' = Ever
    BY <1>2, <1>3 DEF EnvFiles, Ever
  <2>8. env'.fresh => env.file = NoEnv
    BY <1>4
  <2> QED BY <1>2, <1>3, <2>1, <2>3, <2>4, <2>5, <2>6, <2>7, <2>8 DEF EnvIsMerged, Ever
<1> QED BY <1>7, <1>8, <1>9, <1>10, <1>11 DEF EnvInv

LEMMA EnvInvInit == ConfigInit => EnvInv
<1> SUFFICES ASSUME ConfigInit PROVE EnvInv
  OBVIOUS
<1>1. in \in Inputs /\ pc \in {"load", "scan"}
  BY DEF ConfigInit
<1>2. PICK s, fs : s = in.dotenv.start /\ fs = in.dotenv.files
  OBVIOUS
<1>3. env = [file |-> s, ups |-> 1, fresh |-> FALSE, cut |-> FALSE,
             mine |-> IF s = NoEnv THEN <<>> ELSE s]
  BY <1>2 DEF ConfigInit
<1>4. /\ DOMAIN env = {"file", "mine", "ups", "fresh", "cut"}
      /\ env.file = s /\ env.ups = 1 /\ env.cut = FALSE
  BY <1>3
<1>5. env.mine = IF s = NoEnv THEN <<>> ELSE s
  BY <1>3
<1>6. /\ fs \in Seq(Range(fs)) /\ fs # <<>> /\ (s = NoEnv \/ IsEnvFile(s))
  BY <1>1, <1>2, EnvInputs
<1>7. 1 \in DOMAIN fs
  BY <1>6
<1>8. s = NoEnv => DOMAIN env.mine = {}
  BY <1>5
<1>9. s # NoEnv => env.mine = s
  BY <1>5
<1>10. \A k \in DOMAIN env.mine : env.mine[k] \in EnvValue
  BY <1>6, <1>8, <1>9, FileIs
<1>11. EnvTyped
  BY <1>1, <1>2, <1>4, <1>6, <1>7, <1>10 DEF EnvTyped
<1>12. MineKept
  BY <1>4, <1>8, <1>9 DEF MineKept
<1>13. FirstFound
  BY <1>2, <1>4, <1>9 DEF FirstFound
<1>14. TemplateKept
  BY <1>2, <1>4 DEF TemplateKept
<1>15. EnvIsMerged
  BY <1>1 DEF EnvIsMerged
<1> QED BY <1>11, <1>12, <1>13, <1>14, <1>15 DEF EnvInv

LEMMA EnvInvNext == EnvInv /\ [ConfigNext]_configVars => EnvInv'
<1> SUFFICES ASSUME EnvInv, [ConfigNext]_configVars PROVE EnvInv'
  OBVIOUS
<1> DEFINE Kept ==
      /\ UNCHANGED <<in, env>>
      /\ \/ pc \in {"order", "start"} /\ pc' \in {"order", "start"} /\ UNCHANGED deps
         \/ pc' = "done"
         \/ pc \notin {"order", "start", "done", "killed"} /\ pc' \notin {"order", "start"}
<1>1. Kept => EnvInv'
  BY EnvKept
<1>2. CASE UNCHANGED configVars
  <2>1. UNCHANGED <<in, env, pc, deps>>
    BY <1>2 DEF configVars
  <2>2. EnvTyped' /\ FirstFound' /\ TemplateKept'
    BY <2>1 DEF EnvInv, EnvTyped, FirstFound, TemplateKept
  <2>3. MineKept'
    BY <2>1 DEF EnvInv, MineKept, Ever
  <2>4. EnvIsMerged'
    BY <2>1 DEF EnvInv, EnvIsMerged, HasTemplate, EnvFiles
  <2> QED BY <2>2, <2>3, <2>4 DEF EnvInv
<1>3. CASE Check
  BY <1>1, <1>3 DEF Check
<1>4. CASE ScanToFile
  BY <1>1, <1>4 DEF ScanToFile, Goto, Refuse
<1>5. CASE ScanAndGo
  BY <1>1, <1>5 DEF ScanAndGo, Goto, Refuse
<1>6. CASE Load
  BY <1>1, <1>6 DEF Load, Goto, Refuse
<1>7. CASE ApplyFilters
  BY <1>1, <1>7 DEF ApplyFilters, Goto, Refuse
<1>8. CASE AuditSiblings
  BY <1>1, <1>8 DEF AuditSiblings, Goto, Refuse
<1>9. CASE Validate
  BY <1>1, <1>9 DEF Validate, Goto, Refuse
<1>10. CASE HandleDependencyConflicts
  <2>1. pc = "conflicts" /\ UNCHANGED <<in, env>> /\ pc' \in {"assist", "refused"}
    BY <1>10 DEF HandleDependencyConflicts, Goto, Refuse
  <2> QED BY <1>1, <2>1
<1>11. CASE HandleDependencyAssist
  <2>1. pc = "assist" /\ UNCHANGED <<in, env>> /\ pc' \in {"env", "refused"}
    BY <1>11 DEF HandleDependencyAssist, Goto, Refuse
  <2> QED BY <1>1, <2>1
<1>12. CASE generateEnvFilesFromTemplates
  <2>1. CASE HasTemplate
    BY <1>12, <2>1, EnvWrites
  <2>2. CASE ~HasTemplate
    <3>1. UNCHANGED <<in, env, deps>> /\ pc' = "order"
      BY <1>12, <2>2 DEF generateEnvFilesFromTemplates, Goto
    <3>2. EnvTyped' /\ FirstFound' /\ TemplateKept'
      BY <3>1 DEF EnvInv, EnvTyped, FirstFound, TemplateKept
    <3>3. MineKept'
      BY <3>1 DEF EnvInv, MineKept, Ever
    <3>4. EnvIsMerged'
      <4>1. ~HasTemplate'
        BY <2>2, <3>1 DEF HasTemplate
      <4> QED BY <4>1 DEF EnvIsMerged
    <3> QED BY <3>2, <3>3, <3>4 DEF EnvInv
  <2> QED BY <2>1, <2>2
<1>13. CASE KilledInWrite
  BY <1>13, EnvCut
<1>14. CASE Edit
  BY <1>14, EnvEdited
<1>15. CASE Again
  BY <1>15, EnvAgain
<1>16. CASE OrderBegin
  BY <1>1, <1>16 DEF OrderBegin
<1>17. CASE StartNext
  BY <1>1, <1>17 DEF StartNext
<1>18. CASE Done
  BY <1>1, <1>18 DEF Done
<1> QED
  BY <1>2, <1>3, <1>4, <1>5, <1>6, <1>7, <1>8, <1>9, <1>10, <1>11, <1>12, <1>13, <1>14,
     <1>15, <1>16, <1>17, <1>18 DEF ConfigNext

\* When the .env of a service has been written it says what the env files say, what
\* the developer wrote, or else what the template gives, in that order: over any
\* number of ups, edits between them and writes that are killed.
THEOREM ConfigEnvIsMerged == ConfigSpec => []EnvIsMerged
<1>1. EnvInv => EnvIsMerged
  BY DEF EnvInv
<1> QED BY <1>1, EnvInvInit, EnvInvNext, PTL DEF ConfigSpec
=============================================================================
