---------------------------- MODULE MetaRunProofs ----------------------------
(***************************************************************************)
(* Proofs about MetaRun, for any projects, meta files and flags, and any   *)
(* number of commands.                                                     *)
(***************************************************************************)
EXTENDS MetaRun, WellFoundedInduction, TLAPS

-----------------------------------------------------------------------------
(* Induction and sequences. *)

Less == {ss \in Nat \X Nat : ss[1] < ss[2]}

\* A non-empty set of numbers has a least one.
LEMMA Least ==
  ASSUME NEW T \in SUBSET Nat, T # {}
  PROVE  \E x \in T : \A y \in T : x <= y
<1>1. IsWellFoundedOn(Less, Nat)
  BY NatLessThanWellFounded DEF OpToRel, Less
<1>2. \E x \in T : \A y \in T : ~ (<<y, x>> \in Less)
  BY <1>1, WFMin
<1>3. PICK x \in T : \A y \in T : ~ (<<y, x>> \in Less)
  BY <1>2
<1>4. ASSUME NEW y \in T PROVE x <= y
  <2>1. x \in Nat /\ y \in Nat /\ ~ (<<y, x>> \in Less)
    BY <1>3
  <2> QED BY <2>1 DEF Less
<1> QED BY <1>4

\* Induction up to n, over the set of those it holds of.
LEMMA Climb ==
  ASSUME NEW n \in Nat, NEW G, 0 \in G, \A m \in 1..n : m - 1 \in G => m \in G
  PROVE  \A m \in 0..n : m \in G
<1> DEFINE Bad == {m \in 0..n : m \notin G}
<1>1. Bad \in SUBSET Nat
  OBVIOUS
<1>2. ASSUME Bad # {} PROVE FALSE
  <2> HIDE DEF Bad
  <2>1. PICK m \in Bad : \A y \in Bad : m <= y
    BY <1>1, <1>2, Least
  <2> USE DEF Bad
  <2>2. m \in 0..n /\ m \notin G /\ m # 0
    BY <2>1
  <2>3. m - 1 \in 0..n /\ m \in 1..n
    BY <2>2
  <2>4. m - 1 \in Bad
    BY <2>2, <2>3
  <2>5. m <= m - 1
    BY <2>1, <2>4
  <2> QED BY <2>5, <2>2
<1> QED BY <1>2

\* The last of some positions.
LEMMA Greatest ==
  ASSUME NEW n \in Nat, NEW T \in SUBSET (0..n), T # {}
  PROVE  LastOf(T) \in T /\ \A j \in T : j <= LastOf(T)
<1> DEFINE D == {n - k : k \in T}
<1>1. D \in SUBSET Nat
  <2>1. ASSUME NEW k \in T PROVE n - k \in Nat
    <3>1. k \in 0..n
      OBVIOUS
    <3> QED BY <3>1
  <2> QED BY <2>1
<1>2. D # {}
  OBVIOUS
<1> HIDE DEF D
<1>3. PICK x \in D : \A y \in D : x <= y
  BY <1>1, <1>2, Least
<1> USE DEF D
<1>4. PICK k \in T : x = n - k
  BY <1>3
<1>5. ASSUME NEW j \in T PROVE j <= k
  <2>1. n - k <= n - j
    BY <1>3, <1>4
  <2>2. k \in 0..n /\ j \in 0..n
    OBVIOUS
  <2> QED BY <2>1, <2>2
<1> HIDE DEF D
<1>6. \E l \in T : \A j \in T : j <= l
  BY <1>5
<1> QED BY <1>6 DEF LastOf

LEMMA AppendIs ==
  ASSUME NEW S, NEW t \in Seq(S), NEW e \in S
  PROVE  Append(t, e) \in Seq(S) /\ Range(Append(t, e)) = Range(t) \cup {e}
<1>1. DOMAIN Append(t, e) = 1..Len(t) + 1 /\ DOMAIN t = 1..Len(t)
  OBVIOUS
<1>2. \A k \in 1..Len(t) + 1 : Append(t, e)[k] = IF k <= Len(t) THEN t[k] ELSE e
  OBVIOUS
<1> QED BY <1>1, <1>2 DEF Range

\* What Kept keeps is there and is in K, and nothing else: by induction over
\* the length of the sequence.
LEMMA KeptIs ==
  ASSUME NEW S, NEW K, NEW s \in Seq(S)
  PROVE  Kept(s, K) \in Seq(S) /\ Range(Kept(s, K)) = Range(s) \cap K
<1> DEFINE n == Len(s)
           Val(f, k) == IF k = 0 THEN <<>>
                        ELSE IF s[k] \in K THEN Append(f[k - 1], s[k]) ELSE f[k - 1]
           Is(f, m) == f \in [0..m -> Seq(S)] /\ \A k \in 0..m : f[k] = Val(f, k)
           Fix(f) == f = [k \in 0..n |-> Val(f, k)]
<1>0. n \in Nat /\ \A k \in 1..n : s[k] \in S
  OBVIOUS
<1>1. \E f : Is(f, n)
  <2> DEFINE G == {m \in 0..n : \E f : Is(f, m)}
  <2>1. 0 \in G
    <3>1. Is([k \in 0..0 |-> <<>>], 0)
      OBVIOUS
    <3> HIDE DEF Is
    <3> QED BY <3>1, <1>0
  <2>2. ASSUME NEW m \in 1..n, m - 1 \in G PROVE m \in G
    <3>1. PICK f : Is(f, m - 1)
      BY <2>2
    <3> DEFINE g == [k \in 0..m |-> IF k < m THEN f[k] ELSE Val(f, m)]
    <3>2. m \in Nat /\ m # 0 /\ m - 1 \in 0..m - 1 /\ s[m] \in S /\ m \in 0..n
      BY <1>0
    <3>3. Val(f, m) \in Seq(S)
      BY <3>1, <3>2
    <3>4. g \in [0..m -> Seq(S)]
      BY <3>1, <3>2, <3>3
    <3>5. ASSUME NEW k \in 0..m PROVE g[k] = Val(g, k)
      <4>1. CASE k = m
        <5>1. g[m - 1] = f[m - 1] /\ g[m] = Val(f, m)
          BY <3>2
        <5> QED BY <5>1, <4>1
      <4>2. CASE k # m
        <5>1. k \in 0..m - 1 /\ k < m
          BY <4>2, <3>2
        <5>2. g[k] = f[k] /\ f[k] = Val(f, k)
          BY <5>1, <3>1
        <5>3. k # 0 => g[k - 1] = f[k - 1]
          BY <5>1, <3>2
        <5> QED BY <5>2, <5>3
      <4> QED BY <4>1, <4>2
    <3>6. Is(g, m)
      BY <3>4, <3>5
    <3> HIDE DEF Is
    <3> QED BY <3>2, <3>6
  <2> HIDE DEF G, n
  <2>3. \A m \in 0..n : m \in G
    BY <2>1, <2>2, <1>0, Climb
  <2>4. n \in G
    BY <2>3, <1>0
  <2> QED BY <2>4 DEF G
<1>2. \E f : Fix(f)
  <2>1. PICK f : Is(f, n)
    BY <1>1
  <2>2. f = [k \in 0..n |-> f[k]]
    BY <2>1
  <2>3. \A k \in 0..n : f[k] = Val(f, k)
    BY <2>1
  <2>4. Fix(f)
    BY <2>2, <2>3
  <2> QED BY <2>4
<1> DEFINE h == CHOOSE f : Fix(f)
<1>3. Fix(h)
  <2> HIDE DEF Fix
  <2> QED BY <1>2
<1>4. Kept(s, K) = h[n]
  BY DEF Kept
<1> HIDE DEF h
<1>5. \A m \in 0..n : h[m] = Val(h, m)
  BY <1>3
<1> DEFINE Right(m) == h[m] \in Seq(S) /\ Range(h[m]) = {s[k] : k \in 1..m} \cap K
           G == {m \in 0..n : Right(m)}
<1>6. 0 \in G
  <2>1. h[0] = <<>>
    BY <1>5, <1>0
  <2>2. Range(<<>>) = {} /\ 1..0 = {}
    BY DEF Range
  <2>3. <<>> \in Seq(S) /\ {s[k] : k \in 1..0} = {}
    BY <2>2
  <2>4. Right(0)
    BY <2>1, <2>2, <2>3
  <2> QED BY <2>4, <1>0
<1>7. ASSUME NEW m \in 1..n, m - 1 \in G PROVE m \in G
  <2>1. h[m - 1] \in Seq(S) /\ Range(h[m - 1]) = {s[k] : k \in 1..m - 1} \cap K
    BY <1>7
  <2>2. s[m] \in S /\ h[m] = IF s[m] \in K THEN Append(h[m - 1], s[m]) ELSE h[m - 1]
    BY <1>5, <1>0
  <2>3. {s[k] : k \in 1..m} = {s[k] : k \in 1..m - 1} \cup {s[m]}
    <3>1. 1..m = 1..m - 1 \cup {m}
      OBVIOUS
    <3> QED BY <3>1
  <2>4. CASE s[m] \in K
    <3>1. h[m] \in Seq(S) /\ Range(h[m]) = Range(h[m - 1]) \cup {s[m]}
      BY <2>1, <2>2, <2>4, AppendIs
    <3>2. Range(h[m]) = {s[k] : k \in 1..m} \cap K
      BY <2>1, <2>3, <2>4, <3>1
    <3> QED BY <3>1, <3>2, <1>0
  <2>5. CASE s[m] \notin K
    <3>1. h[m] = h[m - 1]
      BY <2>2, <2>5
    <3>2. Range(h[m]) = {s[k] : k \in 1..m} \cap K
      BY <2>1, <2>3, <2>5, <3>1
    <3> QED BY <2>1, <3>1, <3>2, <1>0
  <2> QED BY <2>4, <2>5
<1>8. n \in G
  <2> HIDE DEF G, n
  <2>1. \A m \in 0..n : m \in G
    BY <1>6, <1>7, <1>0, Climb
  <2> QED BY <2>1, <1>0
<1>9. Right(n)
  BY <1>8
<1>10. Range(s) = {s[k] : k \in 1..n}
  BY DEF Range
<1> QED BY <1>4, <1>9, <1>10

-----------------------------------------------------------------------------
(* Loading, and what the loop goes through. *)

\* What a file that loads is made of.
LEMMA OrderedIs ==
  ASSUME TypeOK, Valid(cfg)
  PROVE  /\ Ordered(cfg) \in Seq(EntryOfFile)
         /\ \A p \in Paths(cfg) : \E k \in DOMAIN Ordered(cfg) : Ordered(cfg)[k].path = p
         /\ \A k \in DOMAIN Ordered(cfg) :
              LET e == Ordered(cfg)[k] IN
              /\ e.mode = "skip" => e.optional
              /\ e.mode \in {"clone", "skip", "remote"} => disk[e.path] = "absent"
<1> DEFINE P == cfg.projects
           N == DOMAIN P
           pinned == [k \in DOMAIN cfg.startOrder |-> byPath(cfg, cfg.startOrder[k])]
           ids == [k \in N |-> k]
           rest == Kept(ids, Nat \ Range(pinned))
           order == pinned \o rest
           made(e) == [e EXCEPT !.mode = decideMetaMode(e)]
<1>1. P \in Seq(EntryOfFile) /\ cfg.startOrder \in Seq(Project)
  BY ConfigsAssumption DEF TypeOK
<1>2. N = 1..Len(P) /\ Len(P) \in Nat
  BY <1>1
<1>3. ASSUME NEW p \in Paths(cfg) PROVE byPath(cfg, p) \in N
  <2> DEFINE T == {k \in N : P[k].path = p}
  <2>1. T # {}
    BY DEF Paths
  <2>2. T \in SUBSET (0..Len(P))
    BY <1>2
  <2>3. LastOf(T) \in T
    BY <2>1, <2>2, <1>2, Greatest
  <2> QED BY <2>3 DEF byPath
<1>4. \A k \in DOMAIN cfg.startOrder : cfg.startOrder[k] \in Paths(cfg)
  BY DEF Valid, Range
<1>5. pinned \in Seq(N)
  <2>1. DOMAIN cfg.startOrder = 1..Len(cfg.startOrder) /\ Len(cfg.startOrder) \in Nat
    BY <1>1
  <2>2. pinned \in [1..Len(cfg.startOrder) -> N]
    BY <2>1, <1>3, <1>4
  <2> QED BY <2>1, <2>2
<1>6. ids \in Seq(N) /\ Range(ids) = N
  <2>1. ids \in [1..Len(P) -> N] /\ ids = [k \in 1..Len(P) |-> k]
    BY <1>2
  <2>2. ids \in Seq(N)
    BY <2>1, <1>2
  <2>3. Range(ids) = {ids[k] : k \in 1..Len(P)} /\ \A k \in 1..Len(P) : ids[k] = k
    BY <2>1 DEF Range
  <2> HIDE DEF ids
  <2>4. Range(ids) = 1..Len(P)
    BY <2>3
  <2> QED BY <2>2, <2>4, <1>2
<1>7. rest \in Seq(N) /\ Range(rest) = N \cap (Nat \ Range(pinned))
  BY <1>6, KeptIs
<1> HIDE DEF pinned, ids, rest
<1>8. /\ order \in Seq(N)
      /\ \A k \in DOMAIN pinned : k \in DOMAIN order /\ order[k] = pinned[k]
      /\ \A k \in DOMAIN rest : Len(pinned) + k \in DOMAIN order /\ order[Len(pinned) + k] = rest[k]
  BY <1>5, <1>7
<1>9. \A j \in N : \E k \in DOMAIN order : order[k] = j
  <2> TAKE j \in N
  <2>1. CASE j \in Range(pinned)
    BY <2>1, <1>8 DEF Range
  <2>2. CASE j \notin Range(pinned)
    <3>1. j \in Range(rest)
      BY <2>2, <1>7, <1>2
    <3> QED BY <3>1, <1>8 DEF Range
  <2> QED BY <2>1, <2>2
<1> HIDE DEF order
<1>10. Ordered(cfg) = [k \in DOMAIN order |-> made(P[order[k]])]
  BY DEF Ordered, order, rest, pinned, ids
<1>11. \A k \in DOMAIN order : order[k] \in N /\ P[order[k]] \in EntryOfFile
  BY <1>8, <1>1
<1>12. ASSUME NEW e \in EntryOfFile
       PROVE  /\ made(e) \in EntryOfFile /\ made(e).path = e.path
              /\ made(e).mode = "skip" => made(e).optional
              /\ made(e).mode \in {"clone", "skip", "remote"} => disk[made(e).path] = "absent"
  <2>1. decideMetaMode(e) \in {"local", "clone", "remote", "skip"}
    BY DEF decideMetaMode, EntryOfFile
  <2>2. decideMetaMode(e) = "skip" => e.optional
    BY DEF decideMetaMode, EntryOfFile
  <2>3. decideMetaMode(e) \in {"clone", "skip", "remote"} => disk[e.path] = "absent"
    BY DEF decideMetaMode, EntryOfFile
  <2> HIDE DEF decideMetaMode
  <2> QED BY <2>1, <2>2, <2>3 DEF EntryOfFile, Mode
<1> HIDE DEF made
<1>13. DOMAIN Ordered(cfg) = 1..Len(order) /\ Len(order) \in Nat /\ DOMAIN order = 1..Len(order)
  BY <1>8, <1>10
<1>14. \A k \in DOMAIN order : Ordered(cfg)[k] = made(P[order[k]])
  BY <1>10
<1>15. Ordered(cfg) \in [1..Len(order) -> EntryOfFile]
  BY <1>10, <1>11, <1>12, <1>13
<1>16. Ordered(cfg) \in Seq(EntryOfFile)
  BY <1>13, <1>15
<1>17. ASSUME NEW p \in Paths(cfg) PROVE \E k \in DOMAIN Ordered(cfg) : Ordered(cfg)[k].path = p
  <2>1. PICK j \in N : P[j].path = p
    BY DEF Paths
  <2>2. PICK k \in DOMAIN order : order[k] = j
    BY <1>9
  <2>3. Ordered(cfg)[k].path = p
    BY <2>1, <2>2, <1>11, <1>12, <1>14
  <2> QED BY <2>3, <1>13
<1> QED BY <1>11, <1>12, <1>13, <1>14, <1>16, <1>17

LEMMA ReverseIs ==
  ASSUME NEW S, NEW s \in Seq(S)
  PROVE  Reverse(s) \in Seq(S) /\ Range(Reverse(s)) = Range(s)
<1>1. Reverse(s) = [k \in 1..Len(s) |-> s[(Len(s) - k) + 1]] /\ Len(s) \in Nat
  BY DEF Reverse
<1>2. \A k \in 1..Len(s) : (Len(s) - k) + 1 \in 1..Len(s) /\ s[(Len(s) - k) + 1] \in S
  BY <1>1
<1>3. Reverse(s) \in Seq(S)
  BY <1>1, <1>2
<1>4. \A k \in 1..Len(s) : Reverse(s)[k] = s[(Len(s) - k) + 1]
  BY <1>1
<1>5. \A k \in 1..Len(s) : s[k] = Reverse(s)[(Len(s) - k) + 1]
  BY <1>1, <1>2
<1>6. DOMAIN s = 1..Len(s) /\ DOMAIN Reverse(s) = 1..Len(s)
  BY <1>1
<1>7. Range(Reverse(s)) \subseteq Range(s)
  BY <1>2, <1>4, <1>6 DEF Range
<1>8. Range(s) \subseteq Range(Reverse(s))
  BY <1>2, <1>5, <1>6 DEF Range
<1> QED BY <1>3, <1>7, <1>8

\* What the loop goes through.
LEMMA ConsumersIs ==
  ASSUME NEW projects \in Seq(EntryOfFile), NEW kind, NEW opts
  PROVE  /\ Consumers(projects, kind, opts) \in Seq(EntryOfFile)
         /\ Range(Consumers(projects, kind, opts)) =
              {e \in Range(projects) : /\ e.path # skipPath(kind, opts)
                                       /\ kind = "down" \/ shouldIncludeMetaProject(e, opts.active)}
<1> DEFINE others == Kept(projects, {e \in Range(projects) : e.path # skipPath(kind, opts)})
<1>1. others \in Seq(EntryOfFile) /\ Range(others) = {e \in Range(projects) : e.path # skipPath(kind, opts)}
  BY KeptIs
<1> HIDE DEF others
<1>2. /\ Included(others, opts.active) \in Seq(EntryOfFile)
      /\ Range(Included(others, opts.active)) =
           {e \in Range(others) : shouldIncludeMetaProject(e, opts.active)}
  BY <1>1, KeptIs DEF Included
<1>3. Reverse(others) \in Seq(EntryOfFile) /\ Range(Reverse(others)) = Range(others)
  BY <1>1, ReverseIs
<1>4. Consumers(projects, kind, opts) =
        IF kind = "down" THEN Reverse(others) ELSE Included(others, opts.active)
  BY DEF Consumers, others
<1> QED BY <1>1, <1>2, <1>3, <1>4

\* What `down` goes through.
LEMMA DownConsumersAre ==
  ASSUME NEW projects \in Seq(EntryOfFile)
  PROVE  Range(Consumers(projects, "down", NoOptions)) = {e \in Range(projects) : e.path # cfg.router}
<1>1. skipPath("down", NoOptions) = cfg.router
  BY DEF skipPath
<1>2. Range(Consumers(projects, "down", NoOptions)) =
        {e \in Range(projects) : e.path # skipPath("down", NoOptions)}
  BY ConsumersIs
<1> QED BY <1>1, <1>2

-----------------------------------------------------------------------------
(* Types and places. *)

\* What an action leaves alone keeps its type.
LEMMA RunnerTypes ==
  ASSUME TypeOK, Places, Runner
  PROVE  TypeOK'
<1> USE DEF TypeOK, world
<1>0. run \in Run /\ sub \in Sub /\ NoSub \in Sub /\ MaxAttempts = 3
  BY DEF Sub, NoSub, MaxAttempts
<1>1. \A k \in DOMAIN run.projects : run.projects[k] \in EntryOfFile
  BY DEF Run
<1>a. ASSUME NEW p \in Project, Abort(p) PROVE run' \in Run
  BY <1>a, <1>0 DEF Abort, Run
<1>b. ASSUME NEW w \in {"force", "router", "end"}, run.kind # "none", Goto(w) PROVE run' \in Run
  BY <1>b, <1>0 DEF Goto, Run
<1>2. CASE auditMetaTargets
  <2>1. run' \in Run
    BY <1>2, <1>a, <1>b DEF auditMetaTargets, Places
  <2> QED BY <2>1, <1>2 DEF auditMetaTargets
<1>3. CASE applyForceRemote
  <2> DEFINE forced == {byName(n) : n \in run.opts.force
                          \cap {Base[run.projects[k].path] : k \in DOMAIN run.projects}}
             projs == [k \in DOMAIN run.projects |->
                         IF k \in forced THEN [run.projects[k] EXCEPT !.mode = "remote"]
                         ELSE run.projects[k]]
  <2>1. projs \in Seq(EntryOfFile)
    <3>1. DOMAIN run.projects = 1..Len(run.projects) /\ Len(run.projects) \in Nat
      BY DEF Run
    <3>2. \A e \in EntryOfFile : [e EXCEPT !.mode = "remote"] \in EntryOfFile
      BY DEF EntryOfFile, Mode
    <3> HIDE DEF forced
    <3>3. projs \in [1..Len(run.projects) -> EntryOfFile]
      BY <3>1, <3>2, <1>1
    <3> QED BY <3>1, <3>3
  <2>2. \/ run' = [run EXCEPT !.at = "end", !.error = TRUE]
        \/ run' = [run EXCEPT !.projects = projs,
                              !.at = IF run.opts.noClone THEN "router" ELSE "bootstrap"]
    BY <1>3 DEF applyForceRemote
  <2>3. run' \in Run
    <3>1. [run EXCEPT !.at = "end", !.error = TRUE] \in Run
      BY <1>0 DEF Run
    <3>2. ASSUME NEW q \in Seq(EntryOfFile), NEW w \in {"router", "bootstrap"}
          PROVE  [run EXCEPT !.projects = q, !.at = w] \in Run
      BY <1>0 DEF Run
    <3> HIDE DEF projs
    <3> QED BY <2>1, <2>2, <3>1, <3>2
  <2> QED BY <2>3, <1>3 DEF applyForceRemote
<1>4. ASSUME NEW m \in Mode, run.at = "bootstrap", run.next \in DOMAIN run.projects
      PROVE  /\ SetMode(m) => run' \in Run
             /\ NextEntry(m) => run' \in Run
  <2> DEFINE projs == [run.projects EXCEPT ![run.next].mode = m]
  <2>1. projs \in Seq(EntryOfFile)
    <3>1. DOMAIN run.projects = 1..Len(run.projects) /\ Len(run.projects) \in Nat
      BY DEF Run
    <3>2. \A e \in EntryOfFile : [e EXCEPT !.mode = m] \in EntryOfFile
      BY DEF EntryOfFile
    <3>3. projs \in [1..Len(run.projects) -> EntryOfFile]
      BY <3>1, <3>2, <1>1
    <3> HIDE DEF projs
    <3> QED BY <3>1, <3>3
  <2>2. SetMode(m) => run' = [run EXCEPT !.projects = projs, !.tries = 0]
    BY <1>0 DEF SetMode, Run
  <2>3. NextEntry(m) => run' = [run EXCEPT !.projects = projs, !.tries = 0, !.next = run.next + 1]
    BY <1>0 DEF NextEntry, Run
  <2>4. ASSUME NEW q \in Seq(EntryOfFile)
        PROVE  /\ [run EXCEPT !.projects = q, !.tries = 0] \in Run
               /\ [run EXCEPT !.projects = q, !.tries = 0, !.next = run.next + 1] \in Run
    <3>1. 0 \in 0..MaxAttempts - 1
      BY DEF MaxAttempts
    <3>2. run.next + 1 \in Nat
      BY <1>0 DEF Run
    <3>3. [run EXCEPT !.projects = q, !.tries = 0] \in Run
      BY <1>0, <3>1 DEF Run
    <3>4. [run EXCEPT !.projects = q, !.tries = 0, !.next = run.next + 1] \in Run
      BY <1>0, <3>1, <3>2 DEF Run
    <3> QED BY <3>3, <3>4
  <2> HIDE DEF projs
  <2> QED BY <2>1, <2>2, <2>3, <2>4
<1>5. CASE bootstrapPass
  <2>1. \/ Goto("router") /\ run.kind # "none"
        \/ run' = [run EXCEPT !.next = @ + 1]
    BY <1>5 DEF bootstrapPass, Places
  <2>2. ASSUME NEW m \in Nat PROVE [run EXCEPT !.next = m] \in Run
    BY <1>0 DEF Run
  <2>3. run.next + 1 \in Nat
    BY <1>0 DEF Run
  <2>4. [run EXCEPT !.next = run.next + 1] \in Run
    BY <2>2, <2>3
  <2>5. run' \in Run
    BY <2>1, <2>4, <1>b
  <2> QED BY <2>5, <1>5 DEF bootstrapPass
<1>6. ASSUME Bootstrapping("clone") \/ Bootstrapping("remote")
      PROVE  /\ run.at = "bootstrap" /\ run.next \in DOMAIN run.projects
             /\ Cloning \in EntryOfFile /\ Cloning.path \in Project
  BY <1>6, <1>1 DEF Bootstrapping, Cloning, EntryOfFile
<1>7. {"local", "skip", "remote"} \subseteq Mode
  BY DEF Mode
<1>9. CASE cloneOK
  <2>1. run' \in Run
    BY <1>9, <1>4, <1>6, <1>7 DEF cloneOK
  <2> QED BY <2>1, <1>9, <1>6 DEF cloneOK
<1>10. CASE cloneAgain
  <2>1. ASSUME NEW t \in 0..MaxAttempts - 1 PROVE [run EXCEPT !.tries = t] \in Run
    BY <1>0 DEF Run
  <2>2. run.tries + 1 \in 0..MaxAttempts - 1
    BY <1>10, <1>0 DEF cloneAgain, Run
  <2>3. run' \in Run
    BY <2>1, <2>2, <1>10 DEF cloneAgain
  <2> QED BY <2>3, <1>10 DEF cloneAgain
<1>11. CASE cloneFails
  <2>1. PICK left \in {"absent", "half", "full"} :
          /\ Bootstrapping("clone")
          /\ disk' = [disk EXCEPT ![Cloning.path] = left]
          /\ NextEntry("skip") \/ SetMode("remote") \/ Abort(Cloning.path)
    BY <1>11, <1>6 DEF cloneFails, EntryOfFile
  <2>2. run' \in Run
    BY <2>1, <1>4, <1>6, <1>7, <1>a
  <2> QED BY <2>1, <2>2, <1>6, <1>11 DEF cloneFails
<1>12. CASE publishRemote
  <2>1. /\ Bootstrapping("remote")
        /\ routes' = routes \cup {Cloning.path} \/ routes' = routes
        /\ NextEntry("remote") \/ NextEntry("skip") \/ Abort(Cloning.path)
    BY <1>12, <1>6 DEF publishRemote, EntryOfFile
  <2>2. run' \in Run
    BY <2>1, <1>4, <1>6, <1>7, <1>a
  <2> QED BY <2>1, <2>2, <1>6, <1>12 DEF publishRemote
<1>13. ASSUME NEW r \in Run PROVE Loop(r) \in Run
  <2>1. Consumers(r.projects, r.kind, r.opts) \in Seq(EntryOfFile)
    BY ConsumersIs DEF Run
  <2>2. ASSUME NEW l \in Seq(EntryOfFile) PROVE [r EXCEPT !.at = "subs", !.left = l] \in Run
    BY DEF Run
  <2> QED BY <2>1, <2>2 DEF Loop
<1>14. ASSUME NEW p \in Project, NEW w \in {"routing", "subs", "edge"}, run.kind # "none",
              runSingle(p, w)
       PROVE  sub' \in Sub /\ run' \in Run
  <2> DEFINE a == IF run.cancelled \/ disk[p] = "absent" THEN "failed"
                  ELSE IF run.kind = "up" THEN "decide" ELSE run.kind
  <2>1. sub' = [NoSub EXCEPT !.proj = p, !.at = a] /\ run' = [run EXCEPT !.at = w]
    BY <1>14 DEF runSingle, Goto
  <2>2. run.kind \in {"up", "down", "status"}
    BY <1>0, <1>14 DEF Run
  <2>3. a \in {"failed", "decide", "down", "status"}
    BY <2>2
  <2> HIDE DEF a
  <2>4. sub' \in Sub
    BY <2>1, <2>3, <1>0 DEF Sub
  <2>5. run' \in Run
    BY <2>1, <1>0 DEF Run
  <2> QED BY <2>4, <2>5
<1>15. CASE Router
  <2>1. sub' \in Sub /\ run' \in Run
    BY <1>15, <1>0, <1>13, <1>14 DEF Router, Places
  <2> QED BY <2>1, <1>15 DEF Router
<1>16. CASE RouterDone
  <2>1. sub.proj \in Project /\ Base[sub.proj] \in STRING
    BY <1>16, MetaRunAssumption DEF RouterDone, Places
  <2>2. /\ [run EXCEPT !.hint = @ \cup {Base[sub.proj]}, !.ok = @ \cup {sub.proj}] \in Run
        /\ [run EXCEPT !.failed = @ \cup {sub.proj}, !.error = TRUE] \in Run
        /\ [run EXCEPT !.ok = @ \cup {sub.proj}] \in Run
    BY <2>1, <1>0, ZenonT(60) DEF Run
  <2>3. run.kind \in {"up", "status"}
    BY <1>16 DEF RouterDone, Places
  <2>4. run' \in Run
    BY <2>1, <2>2, <2>3, <1>a, <1>13, <1>16 DEF RouterDone
  <2> QED BY <2>4, <1>0, <1>16 DEF RouterDone
<1>17. ASSUME run.at = "subs", run.left # <<>>
       PROVE  /\ Entry \in EntryOfFile /\ Entry.path \in Project
              /\ Tail(run.left) \in Seq(EntryOfFile)
  <2>1. run.left \in Seq(EntryOfFile)
    BY DEF Run
  <2>2. Head(run.left) \in EntryOfFile /\ Tail(run.left) \in Seq(EntryOfFile)
    BY <2>1, <1>17
  <2> QED BY <2>2 DEF Entry, EntryOfFile
<1>18. CASE Turn
  <2>1. Tail(run.left) \in Seq(EntryOfFile) /\ Entry.path \in Project /\ run.kind # "none"
    BY <1>17, <1>18 DEF Turn, Places
  <2>2. [run EXCEPT !.left = Tail(@)] \in Run
    BY <2>1, <1>0 DEF Run
  <2>3. sub' \in Sub /\ run' \in Run
    BY <2>1, <2>2, <1>0, <1>14, <1>18 DEF Turn
  <2> QED BY <2>3, <1>18 DEF Turn
<1>19. CASE Return
  <2>1. Tail(run.left) \in Seq(EntryOfFile) /\ Entry.path \in Project /\ Base[Entry.path] \in STRING
    BY <1>17, <1>19, MetaRunAssumption DEF Return
  <2>2. /\ [run EXCEPT !.left = Tail(@), !.ok = @ \cup {Entry.path},
                       !.hint = IF run.kind = "up" THEN @ \cup {Base[Entry.path]} ELSE @] \in Run
        /\ [run EXCEPT !.left = Tail(@), !.failed = @ \cup {Entry.path}] \in Run
        /\ [run EXCEPT !.left = Tail(@), !.failed = @ \cup {Entry.path}, !.error = TRUE] \in Run
    BY <2>1, <1>0, ZenonT(60) DEF Run
  <2>3. Entry.optional \in BOOLEAN
    BY <1>17, <1>19 DEF Return, EntryOfFile
  <2>4. run' \in Run
    BY <2>1, <2>2, <2>3, <1>a, <1>19 DEF Return
  <2> QED BY <2>4, <1>0, <1>19 DEF Return
<1>20. CASE LastTurn
  <2>1. sub' \in Sub /\ run' \in Run
    <3>1. CASE run.kind = "down" /\ cfg.router \in Project
      BY <3>1, <1>14, <1>20 DEF LastTurn
    <3>2. CASE ~(run.kind = "down" /\ cfg.router \in Project)
      BY <3>2, <1>0, <1>20 DEF LastTurn, Goto, Run
    <3> QED BY <3>1, <3>2
  <2> QED BY <2>1, <1>20 DEF LastTurn
<1>21. CASE EdgeDone
  <2>1. sub.proj \in Project
    BY <1>21 DEF EdgeDone, Places
  <2>2. run' \in Run
    BY <2>1, <1>a, <1>b, <1>21 DEF EdgeDone, Places
  <2> QED BY <2>2, <1>0, <1>21 DEF EdgeDone
<1>22. CASE Done
  BY <1>22, <1>0 DEF Done, Run, NoRun, MaxAttempts
<1> QED BY <1>2, <1>3, <1>5, <1>9, <1>10, <1>11, <1>12, <1>15, <1>16, <1>18, <1>19, <1>20, <1>21,
           <1>22 DEF Runner

\* So do the steps of the process at hand and of the rest.
LEMMA OtherTypes ==
  ASSUME TypeOK, Places, [Next]_vars, ~Runner
  PROVE  TypeOK'
<1> USE DEF TypeOK, world
<1>0. run \in Run /\ sub \in Sub /\ NoSub \in Sub /\ NoRun \in Run /\ Started(sub.proj) \in {"starting", "up"}
  <2>1. NoSub \in Sub
    BY DEF Sub, NoSub
  <2>2. <<>> \in Seq(EntryOfFile) /\ 0 \in 0..MaxAttempts - 1 /\ 1 \in Nat
    BY DEF MaxAttempts
  <2>3. NoRun \in Run
    BY <2>2 DEF NoRun, Run
  <2> QED BY <2>1, <2>3 DEF Started
<1>1. ASSUME NEW kind \in {"up", "down", "status"}, NEW o \in Options \cup {NoOptions},
             tryHandleMeta(kind, o)
      PROVE  TypeOK'
  <2>1. CASE ~Valid(cfg)
    <3>1. [NoRun EXCEPT !.kind = kind, !.at = "end", !.error = TRUE] \in Run
      BY <1>0 DEF Run
    <3>2. count' \in Nat
      BY <1>1 DEF tryHandleMeta
    <3> QED BY <2>1, <3>1, <3>2, <1>1 DEF tryHandleMeta
  <2>2. CASE Valid(cfg)
    <3>1. Ordered(cfg) \in Seq(EntryOfFile)
      BY <2>2, OrderedIs
    <3>2. Consumers(Ordered(cfg), "down", NoOptions) \in Seq(EntryOfFile)
      BY <3>1, ConsumersIs
    <3>3. ASSUME NEW q \in Seq(EntryOfFile), NEW l \in Seq(EntryOfFile),
                 NEW w \in {"audit", "router", "subs"}
          PROVE  [NoRun EXCEPT !.kind = kind, !.opts = o, !.projects = q, !.at = w, !.left = l] \in Run
      BY <1>0 DEF Run
    <3>4. run' = [NoRun EXCEPT !.kind = kind, !.opts = o, !.projects = Ordered(cfg),
                    !.at = CASE kind = "up" -> "audit" [] kind = "status" -> "router"
                             [] kind = "down" -> "subs",
                    !.left = IF kind = "down" THEN Consumers(Ordered(cfg), "down", NoOptions) ELSE <<>>]
      BY <2>2, <1>1 DEF tryHandleMeta
    <3>5. run' \in Run
      <4> <<>> \in Seq(EntryOfFile)
        OBVIOUS
      <4>1. CASE kind = "up"
        <5>1. [NoRun EXCEPT !.kind = kind, !.opts = o, !.projects = Ordered(cfg),
                            !.at = "audit", !.left = <<>>] \in Run
          BY <3>1, <3>3
        <5> QED BY <5>1, <4>1, <3>4
      <4>2. CASE kind = "status"
        <5>1. [NoRun EXCEPT !.kind = kind, !.opts = o, !.projects = Ordered(cfg),
                            !.at = "router", !.left = <<>>] \in Run
          BY <3>1, <3>3
        <5> QED BY <5>1, <4>2, <3>4
      <4>3. CASE kind = "down"
        <5>1. [NoRun EXCEPT !.kind = kind, !.opts = o, !.projects = Ordered(cfg), !.at = "subs",
                            !.left = Consumers(Ordered(cfg), "down", NoOptions)] \in Run
          BY <3>1, <3>2, <3>3
        <5> QED BY <5>1, <4>3, <3>4
      <4> QED BY <4>1, <4>2, <4>3
    <3>6. count' \in Nat
      BY <1>1 DEF tryHandleMeta
    <3> QED BY <3>5, <3>6, <1>1 DEF tryHandleMeta
  <2> QED BY <2>1, <2>2
<1>2. ASSUME NEW w \in {"none", "decide", "verify", "start", "down", "status", "ok", "failed"}
      PROVE  [sub EXCEPT !.at = w] \in Sub
  BY <1>0 DEF Sub
<1>3. CASE decideModeA
  <2>1. sub.proj \in Project
    BY <1>3 DEF decideModeA, Places
  <2>2. Sibling[sub.proj] \subseteq Project
    BY <2>1, MetaRunAssumption
  <2>3. ASSUME NEW t \in SUBSET Project, NEW f \in SUBSET Project, NEW p \in SUBSET Project
        PROVE  [sub EXCEPT !.at = "verify", !.trusted = t, !.found = f, !.spawn = p] \in Sub
    BY <1>0 DEF Sub
  <2> DEFINE deps == Sibling[sub.proj]
             trusted == {q \in deps : metaAlreadyCompleted(q)}
             found == {q \in deps \ trusted : state[q] = "up"}
  <2>4. \/ sub' = [sub EXCEPT !.at = "failed"]
        \/ sub' = [sub EXCEPT !.at = "verify", !.trusted = trusted, !.found = found,
                             !.spawn = deps \ (trusted \cup found)]
    BY <1>3 DEF decideModeA, SubGoto
  <2>5. trusted \subseteq Project /\ found \subseteq Project
        /\ deps \ (trusted \cup found) \subseteq Project
    BY <2>2
  <2>6. sub' \in Sub
    <3> HIDE DEF deps, trusted, found
    <3>1. [sub EXCEPT !.at = "failed"] \in Sub
      BY <1>2
    <3>2. [sub EXCEPT !.at = "verify", !.trusted = trusted, !.found = found,
                      !.spawn = deps \ (trusted \cup found)] \in Sub
      BY <2>3, <2>5
    <3> QED BY <2>4, <3>1, <3>2
  <2> QED BY <2>6, <1>3 DEF decideModeA, Stays
<1>4. CASE verifySiblingsStillUp
  BY <1>2, <1>4 DEF verifySiblingsStillUp, SubGoto, Stays
<1>5. CASE spawnSibling
  <2>1. PICK q \in sub.spawn, ok \in BOOLEAN :
          /\ state' = IF ok THEN [state EXCEPT ![q] = Started(q)] ELSE state
          /\ sub' = IF ok THEN [sub EXCEPT !.spawn = @ \ {q}] ELSE [sub EXCEPT !.at = "failed"]
    BY <1>5 DEF spawnSibling
  <2>2. q \in Project /\ Started(q) \in {"starting", "up"}
    BY <1>0 DEF Sub, Started
  <2>3. [sub EXCEPT !.spawn = @ \ {q}] \in Sub
    BY <1>0 DEF Sub
  <2> QED BY <2>1, <2>2, <2>3, <1>2, <1>5 DEF spawnSibling, Stays
<1>6. CASE SubStarts
  <2>1. sub.proj \in Project
    BY <1>6 DEF SubStarts, Places
  <2>2. lacking' \subseteq Project \X Project
    <3>1. \A r \in sub.trusted : <<sub.proj, r>> \in Project \X Project
      BY <2>1, <1>0 DEF Sub
    <3>2. lacking' = lacking \cup {<<sub.proj, q>> : q \in {r \in sub.trusted : state[r] = "down"}}
      BY <1>6 DEF SubStarts
    <3> QED BY <3>1, <3>2
  <2> QED BY <2>2, <1>0, <1>2, <1>6 DEF SubStarts, SubGoto, Stays
<1>7. CASE SubStops
  BY <1>0, <1>2, <1>7 DEF SubStops, SubGoto, Stays
<1>8. CASE SubReports
  BY <1>0, <1>2, <1>8 DEF SubReports, SubGoto, Stays
<1>9. CASE Deadline
  BY <1>0, <1>2, <1>9 DEF Deadline, SubGoto, Stays
<1>10. CASE Interrupt
  <2>1. [run EXCEPT !.cancelled = TRUE] \in Run
    BY <1>0 DEF Run
  <2>2. sub.at \in {"none", "decide", "verify", "start", "down", "status", "ok", "failed"}
    BY <1>0 DEF Sub
  <2> QED BY <2>1, <2>2, <1>2, <1>10 DEF Interrupt, SubGoto
<1>11. ASSUME NEW p \in Project, Materialise(p) \/ GoesDown(p) PROVE TypeOK'
  BY <1>11 DEF Materialise, GoesDown
<1>12. CASE UNCHANGED vars
  BY <1>12 DEF vars
<1> QED BY <1>1, <1>3, <1>4, <1>5, <1>6, <1>7, <1>8, <1>9, <1>10, <1>11, <1>12 DEF Next, Child

\* Every step keeps the types.
LEMMA Types ==
  ASSUME TypeOK, Places, [Next]_vars
  PROVE  TypeOK'
BY RunnerTypes, OtherTypes

\* A sequence is its head and its tail.
LEMMA TailIs ==
  ASSUME NEW S, NEW s \in Seq(S), s # <<>>
  PROVE  /\ Tail(s) \in Seq(S) /\ Head(s) \in S
         /\ Head(s) \in Range(s)
         /\ \A k \in DOMAIN Tail(s) : k + 1 \in DOMAIN s /\ Tail(s)[k] = s[k + 1]
         /\ \A k \in DOMAIN s : s[k] = Head(s) \/ (k - 1 \in DOMAIN Tail(s) /\ s[k] = Tail(s)[k - 1])
<1>1. DOMAIN s = 1..Len(s) /\ Len(s) \in Nat \ {0} /\ Head(s) = s[1]
  OBVIOUS
<1>2. Tail(s) \in Seq(S) /\ Head(s) \in S
  OBVIOUS
<1>3. DOMAIN Tail(s) = 1..Len(s) - 1 /\ \A k \in 1..Len(s) - 1 : Tail(s)[k] = s[k + 1]
  OBVIOUS
<1>4. ASSUME NEW k \in DOMAIN s, k # 1
      PROVE  k - 1 \in DOMAIN Tail(s) /\ s[k] = Tail(s)[k - 1]
  <2>1. k - 1 \in 1..Len(s) - 1 /\ (k - 1) + 1 = k
    BY <1>1, <1>4
  <2> QED BY <2>1, <1>3
<1>5. \A k \in DOMAIN Tail(s) : k + 1 \in DOMAIN s /\ Tail(s)[k] = s[k + 1]
  BY <1>1, <1>3
<1>6. Head(s) \in Range(s)
  BY <1>1 DEF Range
<1>7. \A k \in DOMAIN s : s[k] = Head(s) \/ (k - 1 \in DOMAIN Tail(s) /\ s[k] = Tail(s)[k - 1])
  BY <1>1, <1>4
<1> QED BY <1>2, <1>5, <1>6, <1>7

LEMMA EntryIs ==
  ASSUME run \in Run, run.left # <<>>
  PROVE  /\ run.left \in Seq(EntryOfFile) /\ Tail(run.left) \in Seq(EntryOfFile)
         /\ Entry \in EntryOfFile /\ Entry.path \in Project /\ Entry.optional \in BOOLEAN
<1>1. run.left \in Seq(EntryOfFile)
  BY DEF Run
<1>2. Tail(run.left) \in Seq(EntryOfFile) /\ Entry \in EntryOfFile
  BY <1>1 DEF Entry
<1> QED BY <1>1, <1>2 DEF EntryOfFile

\* The run at the start of its loop.
LEMMA LoopIs ==
  ASSUME NEW r \in Run
  PROVE  /\ Loop(r) \in Run /\ Loop(r).at = "subs" /\ Loop(r).kind = r.kind
         /\ Loop(r).projects = r.projects /\ Loop(r).opts = r.opts /\ Loop(r).hint = r.hint
         /\ Loop(r).ok = r.ok /\ Loop(r).failed = r.failed /\ Loop(r).error = r.error
         /\ Range(Loop(r).left) =
              {e \in Range(r.projects) :
                 /\ e.path # skipPath(r.kind, r.opts)
                 /\ r.kind = "down" \/ shouldIncludeMetaProject(e, r.opts.active)}
<1> DEFINE L == Consumers(r.projects, r.kind, r.opts)
<1>1. r.projects \in Seq(EntryOfFile)
  BY DEF Run
<1>2. /\ L \in Seq(EntryOfFile)
      /\ Range(L) =
           {e \in Range(r.projects) :
              /\ e.path # skipPath(r.kind, r.opts)
              /\ r.kind = "down" \/ shouldIncludeMetaProject(e, r.opts.active)}
  BY <1>1, ConsumersIs
<1> HIDE DEF L
<1>3. Loop(r) = [r EXCEPT !.at = "subs", !.left = L]
  BY DEF Loop, L
<1>4. /\ Loop(r) \in Run /\ Loop(r).at = "subs" /\ Loop(r).kind = r.kind /\ Loop(r).left = L
      /\ Loop(r).projects = r.projects /\ Loop(r).opts = r.opts /\ Loop(r).hint = r.hint
      /\ Loop(r).ok = r.ok /\ Loop(r).failed = r.failed /\ Loop(r).error = r.error
  BY <1>2, <1>3 DEF Run
<1> QED BY <1>2, <1>4

\* Every step keeps the runner and its process where they belong.
LEMMA PlacesStep ==
  ASSUME TypeOK, Places, [Next]_vars
  PROVE  Places'
<1> USE DEF world
<1>0. run \in Run /\ sub \in Sub
  BY DEF TypeOK
<1>1. NoSub.at = "none"
  BY DEF NoSub
<1>2. CASE auditMetaTargets
  <2>1. /\ run.at = "audit" /\ UNCHANGED <<sub, cfg, lacking>>
        /\ Goto("force") \/ \E p : Abort(p)
    BY <1>2 DEF auditMetaTargets
  <2>2. run'.kind = run.kind /\ run'.at \in {"force", "end"}
    BY <2>1, <1>0 DEF Abort, Goto, Run
  <2> QED BY <2>1, <2>2 DEF Places
<1>3. CASE applyForceRemote
  <2>1. /\ run'.kind = run.kind /\ run'.left = run.left
        /\ run.at = "force" /\ run'.at \in {"end", "router", "bootstrap"}
    BY <1>3, <1>0 DEF applyForceRemote, Run
  <2> QED BY <2>1, <1>3 DEF applyForceRemote, Places
<1>4. CASE bootstrapPass \/ cloneOK \/ cloneAgain \/ cloneFails \/ publishRemote
  <2>1. /\ run'.kind = run.kind /\ run.at = "bootstrap" /\ run'.at \in {"router", "bootstrap", "end"}
        /\ UNCHANGED <<sub, cfg, lacking>>
    <3>1. CASE bootstrapPass
      BY <3>1, <1>0 DEF bootstrapPass, Goto, Run
    <3>2. CASE cloneOK
      BY <3>2, <1>0 DEF cloneOK, Bootstrapping, SetMode, Run
    <3>3. CASE cloneAgain
      BY <3>3, <1>0 DEF cloneAgain, Bootstrapping, Run
    <3>4. CASE cloneFails
      BY <3>4, <1>0, ZenonT(60) DEF cloneFails, Bootstrapping, SetMode, NextEntry, Abort, Run
    <3>5. CASE publishRemote
      BY <3>5, <1>0 DEF publishRemote, Bootstrapping, SetMode, NextEntry, Abort, Run
    <3> QED BY <1>4, <3>1, <3>2, <3>3, <3>4, <3>5
  <2> QED BY <2>1 DEF Places
<1>5. CASE Router
  <2>1. CASE cfg.router \in Project /\ ~run.opts.routerOff
    <3>1. /\ run'.at = "routing" /\ run'.kind = run.kind /\ run'.left = run.left
          /\ sub'.at \in {"failed", "decide", run.kind} /\ sub'.proj = cfg.router
          /\ sub'.at = "decide" => run.kind = "up"
      BY <1>5, <2>1, <1>0 DEF Router, runSingle, Goto, NoSub, Run
    <3> QED BY <3>1, <2>1, <1>5 DEF Router, Places
  <2>2. CASE ~(cfg.router \in Project /\ ~run.opts.routerOff)
    BY <2>2, <1>0, <1>5, LoopIs DEF Router, Places
  <2> QED BY <2>1, <2>2
<1>6. CASE RouterDone
  <2>1. sub.proj \in Project /\ run.kind \in {"up", "status"} /\ sub' = NoSub
    BY <1>6 DEF RouterDone, Places
  <2> DEFINE ru == [run EXCEPT !.hint = @ \cup {Base[sub.proj]}, !.ok = @ \cup {sub.proj}]
             rf == [run EXCEPT !.failed = @ \cup {sub.proj}, !.error = TRUE]
             rs == [run EXCEPT !.ok = @ \cup {sub.proj}]
  <2>2. Base[sub.proj] \in STRING
    BY <2>1, MetaRunAssumption
  <2>3. ru \in Run /\ ru.kind = run.kind
    BY <2>1, <2>2, <1>0 DEF Run
  <2>4. rf \in Run /\ rf.kind = run.kind
    BY <2>1, <1>0 DEF Run
  <2>5. rs \in Run /\ rs.kind = run.kind
    BY <2>1, <1>0 DEF Run
  <2>6. Abort(sub.proj) \/ run' = Loop(ru) \/ run' = Loop(rf) \/ run' = Loop(rs)
    BY <2>1, <1>6 DEF RouterDone
  <2>7. Abort(sub.proj) => run'.at = "end" /\ run'.kind = run.kind
    BY <1>0 DEF Abort, Run
  <2> HIDE DEF ru, rf, rs
  <2>8. \/ run'.at = "end" /\ run'.kind = run.kind
        \/ \E r \in Run : r.kind = run.kind /\ run' = Loop(r)
    BY <2>3, <2>4, <2>5, <2>6, <2>7
  <2> QED BY <2>1, <2>8, <1>1, <1>6, LoopIs DEF RouterDone, Places
<1>7. CASE Turn
  <2>0. /\ run.at = "subs" /\ sub.at = "none" /\ run.left # <<>> /\ run.left \in Seq(EntryOfFile)
        /\ UNCHANGED <<cfg, lacking>>
    BY <1>7, <1>0 DEF Turn, Run
  <2>1. CASE run' = [run EXCEPT !.left = Tail(@)] /\ UNCHANGED sub
    <3>1. run'.left = Tail(run.left) /\ run'.at = "subs" /\ run'.kind = run.kind
      BY <2>0, <2>1, <1>0 DEF Run
    <3> QED BY <2>0, <2>1, <3>1, TailIs DEF Places
  <2>2. CASE runSingle(Entry.path, "subs")
    <3>1. /\ run'.at = "subs" /\ run'.kind = run.kind /\ run'.left = run.left
          /\ sub'.at \in {"failed", "decide", run.kind} /\ sub'.proj = Entry.path
          /\ sub'.at = "decide" => run.kind = "up"
      BY <2>2, <1>0 DEF runSingle, Goto, NoSub, Run
    <3>2. Entry.path \in Project
      BY <2>0, <1>0, EntryIs
    <3>3. Entry' = Entry
      BY <3>1 DEF Entry
    <3>4. sub'.at # "none"
      BY <3>1, <2>0 DEF Places
    <3>5. /\ run.kind # "none"
          /\ run.kind = "down" => \A k \in DOMAIN run.left : run.left[k].path # cfg.router
      BY <2>0 DEF Places
    <3>6. sub'.at \in {"down", "status"} => run.kind = sub'.at
      BY <3>1
    <3>7. sub'.at \notin {"verify", "start"}
      BY <3>1, <1>0 DEF Run
    <3> QED BY <3>1, <3>2, <3>3, <3>4, <3>5, <3>6, <3>7, <2>0 DEF Places
  <2> QED BY <2>1, <2>2, <1>7 DEF Turn
<1>8. CASE Return
  <2>0. /\ run.at = "subs" /\ run.left # <<>> /\ run.left \in Seq(EntryOfFile) /\ sub' = NoSub
        /\ UNCHANGED <<cfg, lacking>>
    BY <1>8, <1>0 DEF Return, Run
  <2>1. /\ run'.kind = run.kind
        /\ run'.at = "end" \/ (run'.at = "subs" /\ run'.left = Tail(run.left))
    <3>1. Entry.optional \in BOOLEAN
      BY <2>0, <1>0, EntryIs
    <3> QED BY <3>1, <1>8, <1>0 DEF Return, Abort, Run
  <2>2. run.kind = "down" =>
          \A k \in DOMAIN Tail(run.left) : Tail(run.left)[k].path # cfg.router
    BY <2>0, TailIs DEF Places
  <2> QED BY <2>0, <2>1, <2>2, <1>1 DEF Places
<1>9. CASE LastTurn
  <2>1. CASE run.kind = "down" /\ cfg.router \in Project
    <3>1. /\ run'.at = "edge" /\ run'.kind = run.kind
          /\ sub'.at \in {"failed", "down"} /\ sub'.proj = cfg.router
      BY <1>9, <2>1, <1>0 DEF LastTurn, runSingle, Goto, NoSub, Run
    <3> QED BY <3>1, <2>1, <1>9 DEF LastTurn, Places
  <2>2. CASE ~(run.kind = "down" /\ cfg.router \in Project)
    <3>1. run'.at = "end" /\ run'.kind = run.kind /\ sub' = sub /\ sub.at = "none" /\ run.at = "subs"
      BY <1>9, <2>2, <1>0 DEF LastTurn, Goto, Run
    <3> QED BY <3>1, <1>9 DEF LastTurn, Places
  <2> QED BY <2>1, <2>2
<1>10. CASE EdgeDone
  <2>1. run'.at = "end" /\ run'.kind = run.kind /\ sub' = NoSub /\ run.at = "edge"
    BY <1>10, <1>0 DEF EdgeDone, Abort, Goto, Run
  <2> QED BY <2>1, <1>1, <1>10 DEF EdgeDone, Places
<1>11. CASE Done
  BY <1>11 DEF Done, NoRun, Places
<1>12. ASSUME NEW kind \in {"up", "down", "status"}, NEW o, tryHandleMeta(kind, o)
       PROVE  Places'
  <2>1. sub.at = "none" /\ UNCHANGED <<sub, cfg, lacking>> /\ lacking = {}
    BY <1>12 DEF tryHandleMeta, Places
  <2>2. /\ run'.kind = kind
        /\ \/ run'.at = "end"
           \/ kind = "up" /\ run'.at = "audit"
           \/ kind = "status" /\ run'.at = "router"
           \/ /\ kind = "down" /\ run'.at = "subs" /\ Valid(cfg)
              /\ run'.left = Consumers(Ordered(cfg), "down", NoOptions)
    BY <1>12 DEF tryHandleMeta, NoRun
  <2>3. ASSUME Valid(cfg)
        PROVE  \A k \in DOMAIN Consumers(Ordered(cfg), "down", NoOptions) :
                  Consumers(Ordered(cfg), "down", NoOptions)[k].path # cfg.router
    <3>1. Ordered(cfg) \in Seq(EntryOfFile)
      BY <2>3, OrderedIs
    <3>2. \A e \in Range(Consumers(Ordered(cfg), "down", NoOptions)) : e.path # cfg.router
      BY <3>1, DownConsumersAre
    <3> QED BY <3>2 DEF Range
  <2> QED BY <2>1, <2>2, <2>3 DEF Places
<1>13. ASSUME UNCHANGED <<run, cfg>>, sub'.proj = sub.proj, sub.at # "none", sub'.at # "none",
              lacking' = lacking \/ run.at # "idle",
              sub'.at \in {"verify", "start"} => run.kind = "up",
              sub'.at \notin {"decide", "down", "status"}
       PROVE  Places'
  <2>1. Entry' = Entry
    BY <1>13 DEF Entry
  <2> QED BY <2>1, <1>13 DEF Places
<1>14. CASE Child \/ Deadline
  <2>1. /\ UNCHANGED <<run, cfg>>
        /\ sub'.proj = sub.proj /\ sub.at # "none" /\ sub'.at # "none"
        /\ lacking' = lacking \/ run.at # "idle"
        /\ sub'.at \in {"verify", "start"} => run.kind = "up"
        /\ sub'.at \notin {"decide", "down", "status"}
    <3>1. CASE decideModeA
      BY <3>1, <1>0 DEF decideModeA, SubGoto, Stays, Sub, Places
    <3>2. CASE verifySiblingsStillUp
      BY <3>2, <1>0 DEF verifySiblingsStillUp, SubGoto, Stays, Sub, Places
    <3>3. CASE spawnSibling
      BY <3>3, <1>0 DEF spawnSibling, Stays, Sub, Places
    <3>4. CASE SubStarts
      BY <3>4, <1>0 DEF SubStarts, SubGoto, Stays, Sub, Places
    <3>5. CASE SubStops
      BY <3>5, <1>0 DEF SubStops, SubGoto, Stays, Sub, Places
    <3>6. CASE SubReports
      BY <3>6, <1>0 DEF SubReports, SubGoto, Stays, Sub, Places
    <3>7. CASE Deadline
      BY <3>7, <1>0 DEF Deadline, Working, SubGoto, Stays, Sub, Places
    <3> QED BY <1>14, <3>1, <3>2, <3>3, <3>4, <3>5, <3>6, <3>7 DEF Child
  <2> QED BY <2>1, <1>13
<1>15. CASE Interrupt
  <2>1. /\ run'.kind = run.kind /\ run'.at = run.at /\ run'.left = run.left
        /\ UNCHANGED <<cfg, lacking>> /\ Entry' = Entry
    BY <1>15, <1>0 DEF Interrupt, Run, Entry
  <2>2. CASE Working
    <3>1. sub'.at = "failed" /\ sub'.proj = sub.proj /\ sub.at # "none"
      BY <1>15, <2>2, <1>0 DEF Interrupt, SubGoto, Working, Sub
    <3> QED BY <3>1, <2>1 DEF Places
  <2>3. CASE ~Working
    <3>1. sub' = sub
      BY <1>15, <2>3, <1>0 DEF Interrupt, SubGoto, Sub
    <3> QED BY <3>1, <2>1 DEF Places
  <2> QED BY <2>2, <2>3
<1>16. ASSUME NEW p \in Project, Materialise(p) \/ GoesDown(p) PROVE Places'
  BY <1>16 DEF Materialise, GoesDown, Places, Entry
<1>17. CASE UNCHANGED vars
  BY <1>17 DEF vars, Places, Entry
<1> QED BY <1>2, <1>3, <1>4, <1>5, <1>6, <1>7, <1>8, <1>9, <1>10, <1>11, <1>12, <1>14, <1>15,
           <1>16, <1>17 DEF Next, Runner

-----------------------------------------------------------------------------
(* What the steps do, by kind. *)

\* The steps before the first process is started.
BootStep ==
  \/ auditMetaTargets \/ applyForceRemote \/ bootstrapPass \/ cloneOK \/ cloneAgain
  \/ cloneFails \/ publishRemote

\* The entry that the bootstrap is at.
LEMMA CloningIs ==
  ASSUME TypeOK, Bootstrapping("clone") \/ Bootstrapping("remote")
  PROVE  /\ run.at = "bootstrap" /\ run.next \in DOMAIN run.projects /\ Cloning \in EntryOfFile
         /\ Cloning.path \in Project /\ Cloning.optional \in BOOLEAN
<1>1. run.projects \in Seq(EntryOfFile)
  BY DEF TypeOK, Run
<1>2. run.at = "bootstrap" /\ run.next \in DOMAIN run.projects /\ Cloning \in EntryOfFile
  BY <1>1 DEF Bootstrapping, Cloning
<1> QED BY <1>2 DEF EntryOfFile

\* The bootstrap comes before anything is brought up.
LEMMA BootFrame ==
  ASSUME TypeOK, Places, BootStep
  PROVE  /\ run.kind = "up" /\ run'.kind = run.kind /\ run'.opts = run.opts
         /\ run'.ok = run.ok /\ run'.hint = run.hint
         /\ run.at \in {"audit", "force", "bootstrap"}
         /\ run'.at \in {"force", "bootstrap", "router", "end"} /\ (run'.at = "end" => run'.error)
         /\ sub.at = "none" /\ UNCHANGED <<cfg, state, gone, lacking, sub>>
<1>0. run \in Run
  BY DEF TypeOK
<1>1. CASE auditMetaTargets
  <2>1. /\ run.at = "audit" /\ UNCHANGED <<sub, world>>
        /\ Goto("force") \/ \E p : Abort(p)
    BY <1>1 DEF auditMetaTargets
  <2>2. /\ run'.kind = run.kind /\ run'.opts = run.opts /\ run'.ok = run.ok /\ run'.hint = run.hint
        /\ run'.at \in {"force", "end"} /\ (run'.at = "end" => run'.error)
    BY <2>1, <1>0 DEF Abort, Goto, Run
  <2> QED BY <2>1, <2>2 DEF Places, world
<1>2. CASE applyForceRemote
  <2>1. run.at = "force" /\ UNCHANGED <<sub, world>>
    BY <1>2 DEF applyForceRemote
  <2>2. /\ run'.kind = run.kind /\ run'.opts = run.opts /\ run'.ok = run.ok /\ run'.hint = run.hint
        /\ run'.at \in {"bootstrap", "router", "end"} /\ (run'.at = "end" => run'.error)
    BY <1>2, <1>0 DEF applyForceRemote, Run
  <2> QED BY <2>1, <2>2 DEF Places, world
<1>3. CASE bootstrapPass
  BY <1>3, <1>0 DEF bootstrapPass, Goto, Places, Run, world
<1>4. CASE cloneOK
  BY <1>4, <1>0 DEF cloneOK, Bootstrapping, SetMode, Places, Run
<1>5. CASE cloneAgain
  BY <1>5, <1>0 DEF cloneAgain, Bootstrapping, Places, Run, world
<1>a. Bootstrapping("clone") \/ Bootstrapping("remote") =>
        run.at = "bootstrap" /\ run.kind = "up" /\ sub.at = "none" /\ Cloning.optional \in BOOLEAN
  BY CloningIs DEF Places, Bootstrapping
<1>b. ASSUME run.at = "bootstrap",
             SetMode("remote") \/ NextEntry("skip") \/ NextEntry("remote") \/ Abort(Cloning.path)
      PROVE  /\ run'.kind = run.kind /\ run'.opts = run.opts /\ run'.ok = run.ok
             /\ run'.hint = run.hint /\ run'.at \in {"bootstrap", "end"}
             /\ run'.at = "end" => run'.error
  BY <1>0, <1>b DEF SetMode, NextEntry, Abort, Run
<1>6. CASE cloneFails
  <2>1. /\ Bootstrapping("clone") /\ UNCHANGED <<cfg, state, routes, gone, lacking, sub, count>>
        /\ SetMode("remote") \/ NextEntry("skip") \/ Abort(Cloning.path)
    BY <1>6, <1>a DEF cloneFails
  <2> QED BY <2>1, <1>a, <1>b
<1>7. CASE publishRemote
  <2>1. /\ Bootstrapping("remote") /\ UNCHANGED <<cfg, disk, state, gone, lacking, sub, count>>
        /\ NextEntry("remote") \/ NextEntry("skip") \/ Abort(Cloning.path)
    BY <1>7, <1>a DEF publishRemote
  <2> QED BY <2>1, <1>a, <1>b
<1> QED BY <1>1, <1>2, <1>3, <1>4, <1>5, <1>6, <1>7 DEF BootStep

\* The steps of the loop, and the router's around it.
LoopStep == Router \/ RouterDone \/ Turn \/ Return \/ LastTurn \/ EdgeDone

\* What they do to what the run has brought up.
LEMMA LoopFrame ==
  ASSUME TypeOK, Places, LoopStep
  PROVE  /\ run'.kind = run.kind /\ run.kind # "none" /\ run'.opts = run.opts
         /\ run'.projects = run.projects
         /\ run.at \in {"router", "routing", "subs", "edge"}
         /\ UNCHANGED <<cfg, disk, state, routes, gone, lacking>>
         /\ \/ run'.ok = run.ok
            \/ sub.at = "ok" /\ run'.ok = run.ok \cup {sub.proj}
         /\ \/ run'.hint = run.hint
            \/ /\ run.kind = "up" /\ run'.ok = run.ok \cup {sub.proj}
               /\ run'.hint = run.hint \cup {Base[sub.proj]}
         /\ \/ sub' = NoSub \/ sub' = sub
            \/ /\ sub.at = "none"
               /\ \E p \in Project :
                    sub' = [NoSub EXCEPT !.proj = p,
                              !.at = IF run.cancelled \/ disk[p] = "absent" THEN "failed"
                                     ELSE IF run.kind = "up" THEN "decide" ELSE run.kind]
<1>0. run \in Run /\ sub \in Sub
  BY DEF TypeOK
<1>1. CASE Router
  <2>1. CASE cfg.router \in Project /\ ~run.opts.routerOff
    BY <1>1, <2>1, <1>0 DEF Router, runSingle, Goto, Places, Run, world
  <2>2. CASE ~(cfg.router \in Project /\ ~run.opts.routerOff)
    BY <1>1, <2>2, <1>0, LoopIs DEF Router, Places, world
  <2> QED BY <2>1, <2>2
<1>2. CASE RouterDone
  <2>1. sub.proj \in Project /\ run.kind \in {"up", "status"} /\ sub' = NoSub
    BY <1>2 DEF RouterDone, Places
  <2> DEFINE ru == [run EXCEPT !.hint = @ \cup {Base[sub.proj]}, !.ok = @ \cup {sub.proj}]
             rf == [run EXCEPT !.failed = @ \cup {sub.proj}, !.error = TRUE]
             rs == [run EXCEPT !.ok = @ \cup {sub.proj}]
  <2>2. Base[sub.proj] \in STRING
    BY <2>1, MetaRunAssumption
  <2>3. /\ ru \in Run /\ ru.kind = run.kind /\ ru.opts = run.opts /\ ru.projects = run.projects
        /\ ru.ok = run.ok \cup {sub.proj} /\ ru.hint = run.hint \cup {Base[sub.proj]}
    BY <2>1, <2>2, <1>0 DEF Run
  <2>4. /\ rf \in Run /\ rf.kind = run.kind /\ rf.opts = run.opts /\ rf.projects = run.projects
        /\ rf.ok = run.ok /\ rf.hint = run.hint
    BY <2>1, <1>0 DEF Run
  <2>5. /\ rs \in Run /\ rs.kind = run.kind /\ rs.opts = run.opts /\ rs.projects = run.projects
        /\ rs.ok = run.ok \cup {sub.proj} /\ rs.hint = run.hint
    BY <2>1, <1>0 DEF Run
  <2>6. \/ run.kind = "up" /\ sub.at = "failed" /\ Abort(sub.proj)
        \/ run.kind = "up" /\ sub.at = "ok" /\ run' = Loop(ru)
        \/ run.kind = "status" /\ sub.at = "failed" /\ run' = Loop(rf)
        \/ run.kind = "status" /\ sub.at = "ok" /\ run' = Loop(rs)
    BY <2>1, <1>2 DEF RouterDone
  <2>7. run.at = "routing" /\ UNCHANGED world
    BY <1>2 DEF RouterDone
  <2> HIDE DEF ru, rf, rs
  <2>8. CASE Abort(sub.proj)
    BY <2>8, <2>1, <2>7, <1>0 DEF Abort, Run, world
  <2>9. CASE run.kind = "up" /\ sub.at = "ok" /\ run' = Loop(ru)
    BY <2>9, <2>1, <2>3, <2>7, LoopIs DEF world
  <2>10. CASE run' = Loop(rf)
    BY <2>10, <2>1, <2>4, <2>7, LoopIs DEF world
  <2>11. CASE sub.at = "ok" /\ run' = Loop(rs)
    BY <2>11, <2>1, <2>5, <2>7, LoopIs DEF world
  <2> QED BY <2>6, <2>8, <2>9, <2>10, <2>11
<1>3. CASE Turn
  <2>1. Entry.path \in Project /\ run.at = "subs" /\ sub.at = "none" /\ run.kind # "none"
    BY <1>3, <1>0, EntryIs DEF Turn, Places
  <2>2. CASE run' = [run EXCEPT !.left = Tail(@)] /\ UNCHANGED sub
    BY <2>1, <2>2, <1>0, <1>3 DEF Turn, Run, world
  <2>3. CASE runSingle(Entry.path, "subs")
    BY <2>1, <2>3, <1>0, <1>3 DEF Turn, runSingle, Goto, Run, world
  <2> QED BY <2>2, <2>3, <1>3 DEF Turn
<1>4. CASE Return
  <2>1. Entry.optional \in BOOLEAN /\ Entry.path = sub.proj /\ run.at = "subs" /\ run.kind # "none"
    BY <1>4, <1>0, EntryIs DEF Return, Places
  <2> DEFINE ok == [run EXCEPT !.left = Tail(@), !.ok = @ \cup {Entry.path},
                      !.hint = IF run.kind = "up" THEN @ \cup {Base[Entry.path]} ELSE @]
             late == [run EXCEPT !.left = Tail(@), !.failed = @ \cup {Entry.path}]
             fail == [run EXCEPT !.left = Tail(@), !.failed = @ \cup {Entry.path}, !.error = TRUE]
  <2>2. /\ \/ sub.at = "ok" /\ run' = ok
           \/ run' = late \/ run' = fail \/ Abort(Entry.path)
        /\ sub' = NoSub /\ UNCHANGED world
    BY <1>4, <2>1 DEF Return
  <2>3. CASE sub.at = "ok" /\ run' = ok
    BY <2>1, <2>2, <2>3, <1>0 DEF Run, world
  <2>4. CASE run' = late
    BY <2>1, <2>2, <2>4, <1>0 DEF Run, world
  <2>5. CASE run' = fail
    BY <2>1, <2>2, <2>5, <1>0 DEF Run, world
  <2>6. CASE Abort(Entry.path)
    BY <2>1, <2>2, <2>6, <1>0 DEF Abort, Run, world
  <2> QED BY <2>2, <2>3, <2>4, <2>5, <2>6
<1>5. CASE LastTurn
  <2>1. run.at = "subs" /\ sub.at = "none" /\ run.kind # "none"
    BY <1>5 DEF LastTurn, Places
  <2>2. CASE run.kind = "down" /\ cfg.router \in Project
    BY <2>1, <2>2, <1>0, <1>5 DEF LastTurn, runSingle, Goto, Run, world
  <2>3. CASE ~(run.kind = "down" /\ cfg.router \in Project)
    BY <2>1, <2>3, <1>0, <1>5 DEF LastTurn, Goto, Run, world
  <2> QED BY <2>2, <2>3
<1>6. CASE EdgeDone
  <2>1. /\ run.at = "edge" /\ sub' = NoSub /\ UNCHANGED world
        /\ Abort(sub.proj) \/ Goto("end")
    BY <1>6 DEF EdgeDone
  <2>2. /\ run'.kind = run.kind /\ run'.opts = run.opts /\ run'.projects = run.projects
        /\ run'.ok = run.ok /\ run'.hint = run.hint
    BY <2>1, <1>0 DEF Abort, Goto, Run
  <2> QED BY <2>1, <2>2 DEF Places, world
<1> QED BY <1>1, <1>2, <1>3, <1>4, <1>5, <1>6 DEF LoopStep

\* What the process at hand does: the run is left alone, and so is every route.
ChildStep == Child \/ Deadline

LEMMA ChildFrame ==
  ASSUME TypeOK, Places, ChildStep
  PROVE  /\ UNCHANGED <<cfg, disk, routes, run, gone>> /\ sub'.proj = sub.proj
         /\ sub.at \in {"decide", "verify", "start", "down", "status"}
         /\ run.at \in {"routing", "subs", "edge"} /\ sub.proj \in Project
         /\ sub'.at \in {"verify", "start", "ok", "failed"}
         /\ sub'.at \in {"verify", "start"} => run.kind = "up"
         /\ sub'.at = "ok" => sub.at \in {"start", "down", "status"}
         /\ sub.at = "start" /\ sub'.at = "ok" => state'[sub.proj] # "down"
         /\ sub.at = "down" /\ sub'.at = "ok" => state'[sub.proj] = "down"
         /\ \A p \in Project : \/ state'[p] = state[p]
                               \/ sub.at = "start" /\ state'[p] # "down" /\ p \in sub.spawn \cup {sub.proj}
                               \/ sub.at = "down" /\ state'[p] = "down" /\ p = sub.proj
         /\ \/ lacking' = lacking
            \/ /\ sub.at = "start"
               /\ lacking' = lacking \cup {<<sub.proj, q>> : q \in {r \in sub.trusted : state[r] = "down"}}
<1>0. sub \in Sub /\ state \in [Project -> {"down", "starting", "up"}]
  BY DEF TypeOK
<1>1. sub.at # "none" => sub.proj \in Project /\ run.at \in {"routing", "subs", "edge"}
  BY DEF Places
<1>2. \A p \in Project : Started(p) # "down"
  BY DEF Started
<1>3. CASE decideModeA
  BY <1>3, <1>0, <1>1 DEF decideModeA, SubGoto, Stays, Sub, Places
<1>4. CASE verifySiblingsStillUp
  BY <1>4, <1>0, <1>1 DEF verifySiblingsStillUp, SubGoto, Stays, Sub, Places
<1>5. CASE spawnSibling
  <2>1. PICK q \in sub.spawn, ok \in BOOLEAN :
          /\ state' = IF ok THEN [state EXCEPT ![q] = Started(q)] ELSE state
          /\ sub' = IF ok THEN [sub EXCEPT !.spawn = @ \ {q}] ELSE [sub EXCEPT !.at = "failed"]
    BY <1>5 DEF spawnSibling
  <2>2. q \in Project
    BY <1>0 DEF Sub
  <2>3. sub.at = "start" /\ Stays /\ UNCHANGED lacking /\ run.kind = "up"
    BY <1>5 DEF spawnSibling, Places
  <2> QED BY <2>1, <2>2, <2>3, <1>0, <1>1, <1>2 DEF Stays, Sub
<1>6. CASE SubStarts
  <2>1. PICK ok \in BOOLEAN :
          /\ sub' = [sub EXCEPT !.at = IF ok THEN "ok" ELSE "failed"]
          /\ state' = IF ok THEN [state EXCEPT ![sub.proj] = Started(sub.proj)] ELSE state
    BY <1>6 DEF SubStarts, SubGoto
  <2>2. /\ sub.at = "start" /\ Stays
        /\ lacking' = lacking \cup {<<sub.proj, q>> : q \in {r \in sub.trusted : state[r] = "down"}}
    BY <1>6 DEF SubStarts
  <2>3. sub.proj \in Project /\ run.at \in {"routing", "subs", "edge"}
    BY <2>2, <1>1
  <2>4. sub'.proj = sub.proj /\ sub'.at = IF ok THEN "ok" ELSE "failed"
    BY <2>1, <1>0 DEF Sub
  <2>5. \A p \in Project : state'[p] = state[p] \/ (p = sub.proj /\ ok /\ state'[p] = Started(p))
    BY <2>1, <1>0
  <2>6. ok => state'[sub.proj] = Started(sub.proj)
    BY <2>1, <2>3, <1>0
  <2> QED BY <2>2, <2>3, <2>4, <2>5, <2>6, <1>2 DEF Stays
<1>7. CASE SubStops
  <2>1. PICK ok \in BOOLEAN :
          /\ sub' = [sub EXCEPT !.at = IF ok THEN "ok" ELSE "failed"]
          /\ state' = IF ok THEN [state EXCEPT ![sub.proj] = "down"] ELSE state
    BY <1>7 DEF SubStops, SubGoto
  <2>2. sub.at = "down" /\ Stays /\ UNCHANGED lacking
    BY <1>7 DEF SubStops
  <2> QED BY <2>1, <2>2, <1>0, <1>1 DEF Stays, Sub
<1>8. CASE SubReports
  BY <1>8, <1>0, <1>1 DEF SubReports, SubGoto, Stays, Sub
<1>9. CASE Deadline
  <2>1. PICK partly \in BOOLEAN :
          state' = IF partly /\ sub.at = "start" THEN [state EXCEPT ![sub.proj] = Started(sub.proj)]
                   ELSE IF partly /\ sub.at = "down" THEN [state EXCEPT ![sub.proj] = "down"]
                   ELSE state
    BY <1>9 DEF Deadline
  <2>2. /\ sub.at \in {"decide", "verify", "start", "down", "status"}
        /\ sub' = [sub EXCEPT !.at = "failed"] /\ Stays /\ UNCHANGED lacking
    BY <1>9 DEF Deadline, Working, SubGoto
  <2>3. sub.proj \in Project /\ run.at \in {"routing", "subs", "edge"}
    BY <2>2, <1>1
  <2>4. sub'.proj = sub.proj /\ sub'.at = "failed"
    BY <2>2, <1>0 DEF Sub
  <2>5. \A p \in Project : \/ state'[p] = state[p]
                           \/ sub.at = "start" /\ p = sub.proj /\ state'[p] = Started(p)
                           \/ sub.at = "down" /\ p = sub.proj /\ state'[p] = "down"
    BY <2>1, <1>0
  <2> QED BY <2>2, <2>3, <2>4, <2>5, <1>2 DEF Stays
<1> QED BY <1>3, <1>4, <1>5, <1>6, <1>7, <1>8, <1>9 DEF ChildStep, Child

\* Ctrl+C changes nothing but the process at hand.
LEMMA InterruptFrame ==
  ASSUME TypeOK, Interrupt
  PROVE  /\ run'.kind = run.kind /\ run'.at = run.at /\ run'.opts = run.opts
         /\ run'.projects = run.projects /\ run'.next = run.next /\ run'.left = run.left
         /\ run'.ok = run.ok /\ run'.hint = run.hint /\ run'.failed = run.failed
         /\ run'.error = run.error /\ UNCHANGED <<cfg, disk, state, routes, gone, lacking>>
         /\ sub'.proj = sub.proj /\ sub'.trusted = sub.trusted /\ sub'.spawn = sub.spawn
         /\ sub' = sub \/ sub'.at = "failed"
<1>0. run \in Run /\ sub \in Sub
  BY DEF TypeOK
<1>1. sub' = [sub EXCEPT !.at = IF Working THEN "failed" ELSE sub.at]
  BY DEF Interrupt, SubGoto
<1> QED BY <1>0, <1>1 DEF Interrupt, Run, Sub, world

\* A step is one of these.
LEMMA Steps ==
  ASSUME [Next]_vars
  PROVE  \/ \E kind \in {"up", "down", "status"}, o \in Options \cup {NoOptions} : tryHandleMeta(kind, o)
         \/ BootStep \/ LoopStep \/ Done \/ ChildStep \/ Interrupt
         \/ \E p \in Project : Materialise(p) \/ GoesDown(p)
         \/ UNCHANGED vars
BY DEF Next, Runner, BootStep, LoopStep, ChildStep

\* How a run begins.
LEMMA Begins ==
  ASSUME TypeOK, Places,
         NEW kind \in {"up", "down", "status"}, NEW o \in Options \cup {NoOptions},
         tryHandleMeta(kind, o)
  PROVE  /\ UNCHANGED <<cfg, disk, state, routes, gone, lacking, sub>> /\ sub.at = "none"
         /\ run.at = "idle" /\ lacking = {}
         /\ run'.kind = kind /\ run'.ok = {} /\ run'.hint = {} /\ run'.next = 1
         /\ \/ run'.at = "end" /\ run'.error = TRUE /\ run'.projects = <<>> /\ run'.left = <<>>
            \/ /\ Valid(cfg) /\ run'.projects = Ordered(cfg) /\ run'.error = FALSE
               /\ \/ kind = "up" /\ run'.at = "audit" /\ run'.left = <<>>
                  \/ kind = "status" /\ run'.at = "router" /\ run'.left = <<>>
                  \/ /\ kind = "down" /\ run'.at = "subs"
                     /\ run'.left = Consumers(Ordered(cfg), "down", NoOptions)
<1>1. /\ run.at = "idle" /\ UNCHANGED <<cfg, disk, state, routes, gone, lacking, sub>>
      /\ sub.at = "none" /\ lacking = {}
  BY DEF tryHandleMeta, world, Places
<1>2. CASE ~Valid(cfg)
  BY <1>1, <1>2 DEF tryHandleMeta, NoRun
<1>3. CASE Valid(cfg)
  BY <1>1, <1>3 DEF tryHandleMeta, NoRun
<1> QED BY <1>2, <1>3

\* Where a step of the loop leaves the runner.
Began == /\ run.at \in {"router", "routing"} /\ run'.at = "subs"
         /\ Range(run'.left) = {e \in Range(run.projects) :
              /\ e.path # skipPath(run.kind, run.opts)
              /\ run.kind = "down" \/ shouldIncludeMetaProject(e, run.opts.active)}
         /\ cfg.router \in Project /\ ~run.opts.routerOff /\ run.kind = "up" =>
              sub.at = "ok" /\ sub.proj = cfg.router
Same == run.at = "subs" /\ run'.at = "subs" /\ run'.left = run.left
Passed == /\ run.at = "subs" /\ run'.at = "subs" /\ run.left # <<>> /\ run'.left = Tail(run.left)
          /\ \/ Entry.mode \in {"skip", "remote"}
             \/ disk[Entry.path] = "absent" /\ Entry.optional
             \/ sub.at = "ok" /\ sub.proj = Entry.path
             \/ run.kind = "up" /\ Entry.optional
             \/ run.kind # "up" /\ Entry.path \in run'.failed
Over == /\ run'.left = run.left
        /\ \/ run.at = "subs" /\ run.left = <<>> /\ run'.at \in {"edge", "end"}
           \/ run'.at = "end" /\ (run'.error \/ run.at = "edge")
           \/ run.at = "router" /\ run'.at = "routing"

LEMMA LoopGoes ==
  ASSUME TypeOK, Places, LoopStep
  PROVE  /\ run.error => run'.error
         /\ run.failed \subseteq run'.failed
         /\ run'.next = run.next
         /\ Began \/ Same \/ Passed \/ Over
<1>0. run \in Run /\ sub \in Sub
  BY DEF TypeOK
<1>a. ASSUME NEW p, Abort(p)
      PROVE  /\ run'.at = "end" /\ run'.error /\ run.failed \subseteq run'.failed
             /\ run'.left = run.left /\ run'.next = run.next
  BY <1>a, <1>0 DEF Abort, Run
<1>b. ASSUME NEW w, Goto(w)
      PROVE  /\ run'.at = w /\ run'.error = run.error /\ run'.failed = run.failed
             /\ run'.left = run.left /\ run'.next = run.next
  BY <1>b, <1>0 DEF Goto, Run
<1>c. ASSUME NEW r \in Run, run' = Loop(r)
      PROVE  run'.next = r.next
  BY <1>c DEF Loop, Run
<1>1. CASE Router
  <2>1. CASE cfg.router \in Project /\ ~run.opts.routerOff
    <3>1. Goto("routing") /\ run.at = "router"
      BY <1>1, <2>1 DEF Router, runSingle
    <3> QED BY <3>1, <1>b DEF Over
  <2>2. CASE ~(cfg.router \in Project /\ ~run.opts.routerOff)
    <3>1. run' = Loop(run) /\ run.at = "router"
      BY <1>1, <2>2 DEF Router
    <3> QED BY <3>1, <2>2, <1>0, <1>c, LoopIs DEF Began
  <2> QED BY <2>1, <2>2
<1>2. CASE RouterDone
  <2>1. /\ sub.proj \in Project /\ run.kind \in {"up", "status"} /\ run.at = "routing"
        /\ sub.proj = cfg.router /\ Base[sub.proj] \in STRING
    BY <1>2, MetaRunAssumption DEF RouterDone, Places
  <2> DEFINE ru == [run EXCEPT !.hint = @ \cup {Base[sub.proj]}, !.ok = @ \cup {sub.proj}]
             rf == [run EXCEPT !.failed = @ \cup {sub.proj}, !.error = TRUE]
             rs == [run EXCEPT !.ok = @ \cup {sub.proj}]
             Is(r) == /\ r \in Run /\ r.kind = run.kind /\ r.opts = run.opts
                      /\ r.projects = run.projects /\ r.next = run.next
                      /\ run.failed \subseteq r.failed /\ (run.error => r.error)
  <2>3. Is(ru)
    BY <2>1, <1>0 DEF Run
  <2>4. Is(rf)
    BY <2>1, <1>0 DEF Run
  <2>5. Is(rs)
    BY <2>1, <1>0 DEF Run
  <2>6. \/ Abort(sub.proj)
        \/ run.kind = "up" /\ sub.at = "ok" /\ run' = Loop(ru)
        \/ run.kind = "status" /\ run' = Loop(rf)
        \/ run.kind = "status" /\ run' = Loop(rs)
    BY <2>1, <1>2 DEF RouterDone
  <2>7. ASSUME NEW r, Is(r), run' = Loop(r), (run.kind = "up" => sub.at = "ok")
        PROVE  (run.error => run'.error) /\ run.failed \subseteq run'.failed /\ run'.next = run.next /\ Began
    BY <2>1, <2>7, <1>c, LoopIs DEF Began
  <2> HIDE DEF ru, rf, rs, Is
  <2> QED BY <2>1, <2>3, <2>4, <2>5, <2>6, <2>7, <1>a DEF Over
<1>3. CASE Turn
  <2>1. run.at = "subs" /\ run.left # <<>>
    BY <1>3 DEF Turn
  <2>2. CASE run' = [run EXCEPT !.left = Tail(@)] /\ UNCHANGED sub
    <3>1. /\ run'.left = Tail(run.left) /\ run'.at = "subs" /\ run'.error = run.error
          /\ run'.failed = run.failed /\ run'.next = run.next
      BY <2>1, <2>2, <1>0 DEF Run
    <3>2. CASE Entry.mode \in {"skip", "remote"} \/ (disk[Entry.path] = "absent" /\ Entry.optional)
      BY <3>1, <3>2, <2>1 DEF Passed
    <3>3. CASE runSingle(Entry.path, "subs")
      BY <3>3, <2>1, <1>b DEF runSingle, Same
    <3> QED BY <3>2, <3>3, <1>3 DEF Turn
  <2>3. CASE runSingle(Entry.path, "subs")
    BY <2>1, <2>3, <1>b DEF runSingle, Same
  <2> QED BY <2>2, <2>3, <1>3 DEF Turn
<1>4. CASE Return
  <2>1. /\ Entry.optional \in BOOLEAN /\ Entry.path = sub.proj /\ run.at = "subs"
        /\ run.left # <<>> /\ Entry.path \in Project
    BY <1>4, <1>0, EntryIs DEF Return, Places
  <2>2. \/ sub.at = "ok" /\ run' = [run EXCEPT !.left = Tail(@), !.ok = @ \cup {Entry.path},
                !.hint = IF run.kind = "up" THEN @ \cup {Base[Entry.path]} ELSE @]
        \/ run.kind = "up" /\ Entry.optional
             /\ run' = [run EXCEPT !.left = Tail(@), !.failed = @ \cup {Entry.path}]
        \/ run.kind # "up" /\ run' = [run EXCEPT !.left = Tail(@), !.failed = @ \cup {Entry.path},
                                                 !.error = TRUE]
        \/ Abort(Entry.path)
    BY <1>4, <2>1 DEF Return
  <2>3. CASE sub.at = "ok" /\ run' = [run EXCEPT !.left = Tail(@), !.ok = @ \cup {Entry.path},
                !.hint = IF run.kind = "up" THEN @ \cup {Base[Entry.path]} ELSE @]
    BY <2>1, <2>3, <1>0 DEF Run, Passed
  <2>4. CASE run.kind = "up" /\ Entry.optional
             /\ run' = [run EXCEPT !.left = Tail(@), !.failed = @ \cup {Entry.path}]
    BY <2>1, <2>4, <1>0 DEF Run, Passed
  <2>5. CASE run.kind # "up" /\ run' = [run EXCEPT !.left = Tail(@), !.failed = @ \cup {Entry.path},
                                                   !.error = TRUE]
    BY <2>1, <2>5, <1>0 DEF Run, Passed
  <2>6. CASE Abort(Entry.path)
    BY <2>6, <1>a DEF Over
  <2> QED BY <2>2, <2>3, <2>4, <2>5, <2>6
<1>5. CASE LastTurn
  <2>1. Goto("edge") \/ Goto("end")
    BY <1>5 DEF LastTurn, runSingle
  <2> QED BY <2>1, <1>5, <1>b DEF LastTurn, Over
<1>6. CASE EdgeDone
  <2>1. run.at = "edge" /\ (Abort(sub.proj) \/ Goto("end"))
    BY <1>6 DEF EdgeDone
  <2> QED BY <2>1, <1>a, <1>b DEF Over
<1> QED BY <1>1, <1>2, <1>3, <1>4, <1>5, <1>6 DEF LoopStep

\* Whom the process at hand trusts, and whom it is about to start.
LEMMA ChildSub ==
  ASSUME TypeOK, Places, ChildStep, sub'.at \in {"verify", "start"}
  PROVE  \/ /\ sub.at \in {"verify", "start"}
            /\ sub'.trusted = sub.trusted /\ sub'.spawn \subseteq sub.spawn
         \/ /\ sub.at = "decide" /\ disk[sub.proj] # "half"
            /\ \A q \in sub'.trusted : Named[q] \in run.hint
            /\ \A q \in sub'.spawn : disk[q] = "full"
<1>0. sub \in Sub
  BY DEF TypeOK
<1>1. CASE decideModeA
  <2> DEFINE deps == Sibling[sub.proj]
             trusted == {q \in deps : metaAlreadyCompleted(q)}
             found == {q \in deps \ trusted : state[q] = "up"}
  <2>1. /\ sub.at = "decide" /\ disk[sub.proj] # "half" /\ \A q \in deps : disk[q] = "full"
        /\ sub' = [sub EXCEPT !.at = "verify", !.trusted = trusted, !.found = found,
                             !.spawn = deps \ (trusted \cup found)]
    <3>1. ~ SubGoto("failed")
      BY <1>0 DEF SubGoto, Sub
    <3> QED BY <3>1, <1>1 DEF decideModeA
  <2>2. sub'.trusted = trusted /\ sub'.spawn \subseteq deps
    <3> HIDE DEF deps, trusted, found
    <3>1. sub'.trusted = trusted /\ sub'.spawn = deps \ (trusted \cup found)
      BY <2>1, <1>0 DEF Sub
    <3> QED BY <3>1
  <2> QED BY <2>1, <2>2 DEF metaAlreadyCompleted
<1>2. CASE verifySiblingsStillUp
  BY <1>2, <1>0 DEF verifySiblingsStillUp, SubGoto, Sub
<1>3. CASE spawnSibling
  BY <1>3, <1>0 DEF spawnSibling, SubGoto, Sub
<1>4. CASE SubStarts \/ SubStops \/ SubReports \/ Deadline
  BY <1>4, <1>0 DEF SubStarts, SubStops, SubReports, Deadline, SubGoto, Sub
<1> QED BY <1>1, <1>2, <1>3, <1>4 DEF ChildStep, Child

-----------------------------------------------------------------------------
(* The parts of the invariant, one by one. *)

\* What has been up in a run stays so on record.
LEMMA ServedStays ==
  ASSUME TypeOK, Places, [Next]_vars, run.kind = "up", run'.kind = "up",
         NEW p \in Project, Served(p)
  PROVE  Served(p)'
<1>1. CASE \E kind \in {"up", "down", "status"}, o \in Options \cup {NoOptions} : tryHandleMeta(kind, o)
  BY <1>1 DEF tryHandleMeta, Places
<1>2. CASE BootStep
  BY <1>2, BootFrame DEF Served
<1>3. CASE LoopStep
  BY <1>3, LoopFrame DEF Served
<1>4. CASE Done
  BY <1>4 DEF Done, NoRun
<1>5. CASE ChildStep
  <2>1. sub.at # "down"
    BY DEF Places
  <2> QED BY <1>5, <2>1, ChildFrame DEF Served
<1>6. CASE Interrupt
  BY <1>6, InterruptFrame DEF Served
<1>7. ASSUME NEW q \in Project, Materialise(q) \/ GoesDown(q) PROVE Served(p)'
  <2>1. state \in [Project -> {"down", "starting", "up"}]
    BY DEF TypeOK
  <2>2. CASE Materialise(q)
    BY <2>1, <2>2 DEF Materialise, Served
  <2>3. CASE GoesDown(q)
    BY <2>1, <2>3 DEF GoesDown, Served
  <2> QED BY <1>7, <2>2, <2>3
<1>8. CASE UNCHANGED vars
  BY <1>8 DEF vars, Served
<1> QED BY <1>1, <1>2, <1>3, <1>4, <1>5, <1>6, <1>7, <1>8, Steps

\* What runs stays on disk: a clone is made only of what is down.
LEMMA OnDiskStep ==
  ASSUME TypeOK, Places, OnDisk, ModesTrue, [Next]_vars
  PROVE  OnDisk'
<1>0. /\ state \in [Project -> {"down", "starting", "up"}]
      /\ disk \in [Project -> {"absent", "half", "full"}] /\ sub \in Sub
  BY DEF TypeOK
<1>1. CASE \E kind \in {"up", "down", "status"}, o \in Options \cup {NoOptions} : tryHandleMeta(kind, o)
  BY <1>1 DEF tryHandleMeta, world, OnDisk
<1>2. CASE BootStep
  <2>1. sub.at = "none" /\ UNCHANGED <<state, sub>>
    BY <1>2, BootFrame
  <2>2. \/ disk' = disk
        \/ /\ Bootstrapping("clone")
           /\ \E left \in {"absent", "half", "full"} : disk' = [disk EXCEPT ![Cloning.path] = left]
    BY <1>2 DEF BootStep, auditMetaTargets, applyForceRemote, bootstrapPass, cloneOK, cloneAgain,
                cloneFails, publishRemote, world
  <2>3. Bootstrapping("clone") => Cloning.path \in Project /\ state[Cloning.path] = "down"
    BY CloningIs DEF ModesTrue, Bootstrapping, Cloning
  <2> QED BY <2>1, <2>2, <2>3, <1>0 DEF OnDisk
<1>3. CASE LoopStep
  <2>1. UNCHANGED <<disk, state>>
    BY <1>3, LoopFrame
  <2>2. \/ sub'.at = "none" \/ sub' = sub
        \/ /\ sub'.at \in {"failed", "decide", run.kind}
           /\ sub'.at = "decide" => disk[sub'.proj] # "absent"
    <3>1. NoSub.at = "none"
      BY DEF NoSub
    <3>2. ASSUME NEW p \in Project,
                 sub' = [NoSub EXCEPT !.proj = p,
                              !.at = IF run.cancelled \/ disk[p] = "absent" THEN "failed"
                                     ELSE IF run.kind = "up" THEN "decide" ELSE run.kind]
          PROVE  /\ sub'.at \in {"failed", "decide", run.kind}
                 /\ sub'.at = "decide" => disk[sub'.proj] # "absent" \/ run.kind = "decide"
      BY <3>2 DEF NoSub
    <3>3. run.kind \in {"none", "up", "down", "status"}
      BY DEF TypeOK, Run
    <3> QED BY <1>3, <3>1, <3>2, <3>3, LoopFrame
  <2>3. run.kind \in {"none", "up", "down", "status"}
    BY DEF TypeOK, Run
  <2> QED BY <2>1, <2>2, <2>3 DEF OnDisk
<1>4. CASE Done
  BY <1>4 DEF Done, OnDisk
<1>5. CASE ChildStep
  <2>1. \A p \in Project : state'[p] # "down" => disk'[p] = "full"
    BY <1>5, <1>0, ChildFrame DEF OnDisk
  <2>2. sub'.at \in {"verify", "start"} =>
          disk'[sub'.proj] = "full" /\ \A q \in sub'.spawn : disk'[q] = "full"
    <3> SUFFICES ASSUME sub'.at \in {"verify", "start"}
                 PROVE  disk'[sub'.proj] = "full" /\ \A q \in sub'.spawn : disk'[q] = "full"
      OBVIOUS
    <3>1. sub'.proj = sub.proj /\ disk' = disk /\ sub.proj \in Project
      BY <1>5, ChildFrame
    <3>2. disk[sub.proj] \in {"absent", "half", "full"}
      BY <3>1, <1>0
    <3>3. CASE sub.at \in {"verify", "start"} /\ sub'.spawn \subseteq sub.spawn
      BY <3>1, <3>3 DEF OnDisk
    <3>4. CASE sub.at = "decide" /\ disk[sub.proj] # "half" /\ \A q \in sub'.spawn : disk[q] = "full"
      BY <3>1, <3>2, <3>4 DEF OnDisk
    <3> QED BY <1>5, <3>3, <3>4, ChildSub
  <2>3. sub'.at # "decide"
    BY <1>5, ChildFrame
  <2> QED BY <2>1, <2>2, <2>3 DEF OnDisk
<1>6. CASE Interrupt
  <2>1. UNCHANGED <<disk, state>> /\ sub'.proj = sub.proj /\ sub'.spawn = sub.spawn
        /\ (sub' = sub \/ sub'.at = "failed")
    BY <1>6, InterruptFrame
  <2> QED BY <2>1 DEF OnDisk
<1>7. ASSUME NEW q \in Project, Materialise(q) \/ GoesDown(q) PROVE OnDisk'
  <2>1. CASE Materialise(q)
    BY <1>0, <2>1 DEF Materialise, OnDisk
  <2>2. CASE GoesDown(q)
    BY <1>0, <2>2 DEF GoesDown, OnDisk
  <2> QED BY <1>7, <2>1, <2>2
<1>8. CASE UNCHANGED vars
  BY <1>8 DEF vars, OnDisk
<1> QED BY <1>1, <1>2, <1>3, <1>4, <1>5, <1>6, <1>7, <1>8, Steps

\* The list goes on telling the truth.
LEMMA ListStep ==
  ASSUME TypeOK, Places, ListTrue, [Next]_vars
  PROVE  ListTrue'
<1>0. /\ state \in [Project -> {"down", "starting", "up"}] /\ sub \in Sub
      /\ run.kind \in {"none", "up", "down", "status"} /\ run.ok \subseteq Project
  BY DEF TypeOK, Run
<1>1. CASE \E kind \in {"up", "down", "status"}, o \in Options \cup {NoOptions} : tryHandleMeta(kind, o)
  <2>1. sub' = sub /\ sub.at = "none" /\ run'.ok = {} /\ run'.hint = {}
    BY <1>1, Begins
  <2> QED BY <2>1 DEF ListTrue
<1>2. CASE BootStep
  <2>1. /\ sub.at = "none" /\ sub' = sub /\ run'.ok = run.ok /\ run'.hint = run.hint
        /\ run'.kind = run.kind /\ UNCHANGED <<state, gone>>
    BY <1>2, BootFrame
  <2> QED BY <2>1 DEF ListTrue, Served
<1>3. CASE LoopStep
  <2>1. run'.kind = run.kind /\ UNCHANGED <<state, gone>>
    BY <1>3, LoopFrame
  <2>2. \A h \in run'.hint : \E x \in run'.ok : Base[x] = h
    <3>1. /\ run.ok \subseteq run'.ok
          /\ \A h \in run'.hint : h \in run.hint \/ (h = Base[sub.proj] /\ sub.proj \in run'.ok)
      BY <1>3, LoopFrame
    <3> QED BY <3>1 DEF ListTrue
  <2>3. run.kind = "up" => \A x \in run'.ok : Served(x)
    BY <1>3, LoopFrame DEF ListTrue
  <2>4. sub' = sub \/ sub'.at \in {"none", "failed", "decide", "down", "status"}
    <3>1. NoSub.at = "none" /\ \A p, w : [NoSub EXCEPT !.proj = p, !.at = w].at = w
      BY DEF NoSub
    <3>2. run.kind # "none"
      BY <1>3, LoopFrame
    <3>3. ASSUME NEW p \in Project,
                 sub' = [NoSub EXCEPT !.proj = p,
                              !.at = IF run.cancelled \/ disk[p] = "absent" THEN "failed"
                                     ELSE IF run.kind = "up" THEN "decide" ELSE run.kind]
          PROVE  sub'.at \in {"none", "failed", "decide", "down", "status"}
      BY <3>1, <3>2, <3>3, <1>0
    <3> QED BY <1>3, <3>1, <3>3, LoopFrame
  <2>5. sub.at \in {"verify", "start"} => run.hint \subseteq run'.hint
    BY <1>3, LoopFrame
  <2> QED BY <2>1, <2>2, <2>3, <2>4, <2>5 DEF ListTrue, Served
<1>4. CASE Done
  <2>1. sub' = sub /\ run'.ok = {} /\ run'.hint = {} /\ sub.at = "none"
    BY <1>4 DEF Done, NoRun, Places
  <2> QED BY <2>1 DEF ListTrue
<1>5. CASE ChildStep
  <2>1. run' = run /\ sub'.proj = sub.proj /\ sub.proj \in Project
    BY <1>5, ChildFrame
  <2>2. run.kind = "up" => \A x \in run'.ok : Served(x)'
    BY <2>1, <1>0, ServedStays DEF ListTrue
  <2>3. sub'.at \in {"verify", "start"} => \A q \in sub'.trusted : Named[q] \in run.hint
    BY <1>5, ChildSub DEF ListTrue
  <2>4. run.kind = "up" /\ sub'.at = "ok" => state'[sub.proj] # "down"
    BY <1>5, ChildFrame DEF Places
  <2>5. run.kind = "down" /\ sub'.at = "ok" => state'[sub.proj] = "down"
    BY <1>5, ChildFrame DEF Places
  <2> QED BY <2>1, <2>2, <2>3, <2>4, <2>5 DEF ListTrue, Served
<1>6. CASE Interrupt
  <2>1. /\ run'.kind = run.kind /\ run'.ok = run.ok /\ run'.hint = run.hint
        /\ UNCHANGED <<state, gone>> /\ sub'.proj = sub.proj /\ sub'.trusted = sub.trusted
        /\ (sub' = sub \/ sub'.at = "failed")
    BY <1>6, InterruptFrame
  <2> QED BY <2>1 DEF ListTrue, Served
<1>7. ASSUME NEW q \in Project, Materialise(q) \/ GoesDown(q) PROVE ListTrue'
  <2>1. UNCHANGED <<run, sub>>
    BY <1>7 DEF Materialise, GoesDown
  <2>2. run.kind = "up" => /\ \A x \in run.ok : Served(x)'
                           /\ sub.at = "ok" => Served(sub.proj)'
    BY <2>1, <1>0, ServedStays DEF ListTrue, Places
  <2>3. run.kind = "down" /\ sub.at = "ok" => state'[sub.proj] = "down"
    BY <1>7, <1>0 DEF ListTrue, Materialise, GoesDown, Places
  <2> QED BY <2>1, <2>2, <2>3 DEF ListTrue, Served
<1>8. CASE UNCHANGED vars
  BY <1>8 DEF vars, ListTrue, Served
<1> QED BY <1>1, <1>2, <1>3, <1>4, <1>5, <1>6, <1>7, <1>8, Steps

\* Whoever starts on the word of the list finds its sibling up, or recorded.
LEMMA HintStep ==
  ASSUME TypeOK, Places, ListTrue, HintHolds, [Next]_vars
  PROVE  HintHolds'
<1>1. CASE \E kind \in {"up", "down", "status"}, o \in Options \cup {NoOptions} : tryHandleMeta(kind, o)
  <2>1. lacking = {} /\ lacking' = lacking
    BY <1>1, Begins
  <2> QED BY <2>1 DEF HintHolds
<1>2. CASE BootStep
  BY <1>2, BootFrame DEF HintHolds
<1>3. CASE LoopStep
  <2>1. UNCHANGED <<lacking, gone>> /\ run.ok \subseteq run'.ok
    BY <1>3, LoopFrame
  <2> QED BY <2>1 DEF HintHolds
<1>4. CASE Done
  BY <1>4 DEF Done, HintHolds
<1>5. CASE ChildStep
  <2>1. run' = run /\ gone' = gone
    BY <1>5, ChildFrame
  <2>2. ASSUME sub.at = "start", NEW q \in sub.trusted, state[q] = "down"
        PROVE  q \in gone \/ \E x \in run.ok : x # q /\ Base[x] = Named[q]
    <3>1. PICK x \in run.ok : Base[x] = Named[q]
      BY <2>2 DEF ListTrue
    <3>2. Served(x)
      BY <2>2 DEF ListTrue, Places
    <3> QED BY <3>1, <3>2, <2>2 DEF Served
  <2>3. ASSUME NEW d \in lacking'
        PROVE  d[2] \in gone \/ \E x \in run.ok : x # d[2] /\ Base[x] = Named[d[2]]
    <3>1. CASE d \in lacking
      BY <3>1 DEF HintHolds
    <3>2. CASE d \notin lacking
      <4>1. sub.at = "start"
            /\ \E q \in sub.trusted : state[q] = "down" /\ d = <<sub.proj, q>>
        BY <1>5, <2>3, <3>2, ChildFrame
      <4> QED BY <4>1, <2>2
    <3> QED BY <3>1, <3>2
  <2> QED BY <2>1, <2>3 DEF HintHolds
<1>6. CASE Interrupt
  BY <1>6, InterruptFrame DEF HintHolds
<1>7. ASSUME NEW q \in Project, Materialise(q) \/ GoesDown(q) PROVE HintHolds'
  BY <1>7 DEF Materialise, GoesDown, HintHolds
<1>8. CASE UNCHANGED vars
  BY <1>8 DEF vars, HintHolds
<1> QED BY <1>1, <1>2, <1>3, <1>4, <1>5, <1>6, <1>7, <1>8, Steps

\* What the bootstrap does to the modes.
LEMMA BootModes ==
  ASSUME TypeOK, Places, ModesTrue, BootStep
  PROVE  /\ run'.next >= 1 /\ (run'.at \in {"audit", "force"} => run'.next = 1)
         /\ run'.left = run.left
         /\ DOMAIN run'.projects = DOMAIN run.projects
         /\ \A k \in DOMAIN run.projects :
              /\ run'.projects[k].path = run.projects[k].path
              /\ run'.projects[k].optional = run.projects[k].optional
              /\ run'.projects[k].mode = "skip" => run.projects[k].optional
              /\ run'.projects[k].mode = "clone" => run.projects[k].mode = "clone"
              /\ run'.projects[k].mode = "remote" =>
                   \/ run.projects[k].path \in routes'
                   \/ run'.opts.noClone \/ run'.error
                   \/ run'.at \in {"audit", "force"}
                   \/ run'.at = "bootstrap" /\ run'.next <= k
<1> DEFINE Same1 == /\ run'.next >= 1 /\ (run'.at \in {"audit", "force"} => run'.next = 1)
                 /\ run'.left = run.left
                 /\ DOMAIN run'.projects = DOMAIN run.projects
           Right(k) ==
              /\ run'.projects[k].path = run.projects[k].path
              /\ run'.projects[k].optional = run.projects[k].optional
              /\ run'.projects[k].mode = "skip" => run.projects[k].optional
              /\ run'.projects[k].mode = "clone" => run.projects[k].mode = "clone"
              /\ run'.projects[k].mode = "remote" =>
                   \/ run.projects[k].path \in routes'
                   \/ run'.opts.noClone \/ run'.error
                   \/ run'.at \in {"audit", "force"}
                   \/ run'.at = "bootstrap" /\ run'.next <= k
           All == \A k \in DOMAIN run.projects : Right(k)
<1>0. run \in Run /\ run.next \in Nat /\ run.projects \in Seq(EntryOfFile)
  BY DEF TypeOK, Run
<1>1. /\ DOMAIN run.projects = 1..Len(run.projects) /\ Len(run.projects) \in Nat
      /\ \A k \in DOMAIN run.projects : run.projects[k] \in EntryOfFile
  BY <1>0
<1>2. run.kind = "up"
  BY BootFrame
<1>3. ASSUME NEW k \in DOMAIN run.projects, NEW m
      PROVE  LET e == [run.projects[k] EXCEPT !.mode = m] IN
             e.path = run.projects[k].path /\ e.optional = run.projects[k].optional /\ e.mode = m
  BY <1>1 DEF EntryOfFile
<1>4. ASSUME NEW m, run.at = "bootstrap", run.next \in DOMAIN run.projects,
             SetMode(m) \/ NextEntry(m)
      PROVE  /\ run'.projects = [run.projects EXCEPT ![run.next] = [run.projects[run.next] EXCEPT !.mode = m]]
             /\ run'.at = run.at /\ run'.left = run.left /\ run'.error = run.error
             /\ run'.opts = run.opts
             /\ SetMode(m) => run'.next = run.next
             /\ NextEntry(m) => run'.next = run.next + 1
             /\ run'.next \in {run.next, run.next + 1}
  BY <1>0, <1>4 DEF SetMode, NextEntry, Run
<1>5. ASSUME NEW p, Abort(p)
      PROVE  /\ run'.projects = run.projects /\ run'.at = "end" /\ run'.left = run.left /\ run'.error
             /\ run'.opts = run.opts /\ run'.next = run.next
  BY <1>0, <1>5 DEF Abort, Run
\* The modes before the step.
<1>6. ASSUME NEW k \in DOMAIN run.projects
      PROVE  /\ run.projects[k].mode = "skip" => run.projects[k].optional
             /\ run.projects[k].mode = "remote" =>
                  \/ run.projects[k].path \in routes
                  \/ run.opts.noClone \/ run.error
                  \/ run.at \in {"audit", "force"}
                  \/ run.at = "bootstrap" /\ run.next <= k
  BY <1>2 DEF ModesTrue
<1>7. run.next >= 1 /\ (run.at \in {"audit", "force"} => run.next = 1)
  BY DEF ModesTrue
<1>8. ASSUME NEW p, Abort(p) PROVE Same1 /\ All
  BY <1>5, <1>6, <1>7, <1>8
\* The entry at hand gets a mode, the others keep theirs.
<1>9. ASSUME NEW m \in {"local", "skip", "remote"}, run.at = "bootstrap",
             run.next \in DOMAIN run.projects, SetMode(m) \/ NextEntry(m),
             m = "skip" => Cloning.optional,
             m = "remote" /\ NextEntry(m) => Cloning.path \in routes',
             NextEntry(m) \/ m = "remote" \/ m = "local",
             routes \subseteq routes'
      PROVE  Same1 /\ All
  <2>1. /\ run'.projects = [run.projects EXCEPT ![run.next] = [run.projects[run.next] EXCEPT !.mode = m]]
        /\ run'.at = run.at /\ run'.left = run.left /\ run'.error = run.error
        /\ run'.opts = run.opts /\ run'.next \in {run.next, run.next + 1}
        /\ SetMode(m) => run'.next = run.next
    BY <1>4, <1>9
  <2>2. Same1
    BY <2>1, <1>0, <1>7, <1>9
  <2>3. ASSUME NEW k \in DOMAIN run.projects, k # run.next PROVE Right(k)
    <3>1. run'.projects[k] = run.projects[k]
      BY <2>1, <2>3
    <3>2. run.at = "bootstrap" /\ run.next <= k => run'.next <= k
      BY <2>1, <2>3, <1>0, <1>1
    <3> QED BY <3>1, <3>2, <2>1, <1>6, <1>9
  <2>4. Right(run.next)
    <3>1. /\ run'.projects[run.next].path = Cloning.path /\ run'.projects[run.next].mode = m
          /\ run'.projects[run.next].optional = Cloning.optional
      <4>1. run'.projects[run.next] = [run.projects[run.next] EXCEPT !.mode = m]
        BY <2>1, <1>9
      <4>2. LET e == [run.projects[run.next] EXCEPT !.mode = m] IN
            /\ e.path = run.projects[run.next].path /\ e.mode = m
            /\ e.optional = run.projects[run.next].optional
        BY <1>3, <1>9
      <4> QED BY <4>1, <4>2 DEF Cloning
    <3>2. run.projects[run.next] = Cloning
      BY DEF Cloning
    <3>3. m = "remote" => NextEntry(m) \/ run'.next <= run.next
      BY <2>1, <1>0, <1>9
    <3> QED BY <3>1, <3>2, <3>3, <2>1, <1>9
  <2> QED BY <2>2, <2>3, <2>4
<1>10. CASE auditMetaTargets
  <2>1. (\E p : Abort(p)) \/ (Goto("force") /\ run.at = "audit")
    BY <1>10 DEF auditMetaTargets
  <2>2. CASE Goto("force") /\ run.at = "audit"
    <3>1. /\ run'.projects = run.projects /\ run'.at = "force" /\ run'.next = run.next
          /\ run'.left = run.left
      BY <2>2, <1>0 DEF Goto, Run
    <3> QED BY <3>1, <2>2, <1>6, <1>7
  <2> QED BY <2>1, <2>2, <1>8
<1>11. CASE applyForceRemote
  <2> DEFINE forced == {byName(n) : n \in run.opts.force
                          \cap {Base[run.projects[k].path] : k \in DOMAIN run.projects}}
             projs == [k \in DOMAIN run.projects |->
                         IF k \in forced THEN [run.projects[k] EXCEPT !.mode = "remote"]
                         ELSE run.projects[k]]
  <2>1. /\ run.at = "force"
        /\ \/ run' = [run EXCEPT !.at = "end", !.error = TRUE]
           \/ run' = [run EXCEPT !.projects = projs,
                                  !.at = IF run.opts.noClone THEN "router" ELSE "bootstrap"]
    BY <1>11 DEF applyForceRemote
  <2> HIDE DEF forced
  <2>2. CASE run' = [run EXCEPT !.at = "end", !.error = TRUE]
    <3>1. /\ run'.projects = run.projects /\ run'.at = "end" /\ run'.next = run.next
          /\ run'.left = run.left /\ run'.error
      BY <2>2, <1>0 DEF Run
    <3> QED BY <3>1, <1>6, <1>7
  <2>3. ASSUME NEW k \in DOMAIN run.projects
        PROVE  /\ projs[k].path = run.projects[k].path /\ projs[k].optional = run.projects[k].optional
               /\ projs[k].mode \in {"remote", run.projects[k].mode}
    <3>1. projs[k] = IF k \in forced THEN [run.projects[k] EXCEPT !.mode = "remote"]
                    ELSE run.projects[k]
      OBVIOUS
    <3> HIDE DEF projs
    <3> QED BY <3>1, <1>3
  <2>4. DOMAIN projs = DOMAIN run.projects
    OBVIOUS
  <2> HIDE DEF projs
  <2>5. CASE run' = [run EXCEPT !.projects = projs,
                                !.at = IF run.opts.noClone THEN "router" ELSE "bootstrap"]
    <3>1. /\ run'.projects = projs /\ run'.at = IF run.opts.noClone THEN "router" ELSE "bootstrap"
          /\ run'.next = run.next /\ run'.left = run.left /\ run'.opts = run.opts
      BY <2>5, <1>0 DEF Run
    <3>2. run.next = 1
      BY <2>1, <1>7
    <3>3. \A k \in DOMAIN run.projects : run'.at = "bootstrap" => run'.next <= k
      BY <3>1, <3>2, <1>1
    <3>4. Same1
      BY <3>1, <3>2, <2>4
    <3>5. ASSUME NEW k \in DOMAIN run.projects PROVE Right(k)
      BY <3>1, <3>3, <2>3, <1>6
    <3> QED BY <3>4, <3>5
  <2> QED BY <2>1, <2>2, <2>5
<1>12. CASE bootstrapPass
  <2>1. CASE run.next \notin DOMAIN run.projects
    <3>1. /\ run'.projects = run.projects /\ run'.at = "router" /\ run'.next = run.next
          /\ run'.left = run.left /\ run'.opts = run.opts /\ run'.error = run.error
          /\ routes' = routes /\ run.at = "bootstrap"
      BY <1>12, <2>1, <1>0 DEF bootstrapPass, Goto, Run, world
    <3>2. \A k \in DOMAIN run.projects : ~ (run.next <= k)
      BY <2>1, <1>0, <1>1, <1>7
    <3> QED BY <3>1, <3>2, <1>6, <1>7
  <2>2. CASE run.next \in DOMAIN run.projects
    <3>1. /\ run'.projects = run.projects /\ run'.at = "bootstrap" /\ run'.next = run.next + 1
          /\ run'.left = run.left /\ run'.opts = run.opts /\ run'.error = run.error
          /\ routes' = routes /\ run.at = "bootstrap"
          /\ run.projects[run.next].mode \in {"local", "skip"}
      BY <1>12, <2>2, <1>0 DEF bootstrapPass, Cloning, Run, world
    <3>2. Same1
      BY <3>1, <1>0, <1>7
    <3>3. ASSUME NEW k \in DOMAIN run.projects PROVE Right(k)
      <4>1. run.projects[k].mode = "remote" /\ run.next <= k => run'.next <= k
        <5>1. run.projects[k].mode = "remote" => k # run.next
          BY <3>1
        <5> QED BY <5>1, <3>1, <1>0, <1>1
      <4> QED BY <4>1, <3>1, <1>6
    <3> QED BY <3>2, <3>3
  <2> QED BY <2>1, <2>2
<1>13. CASE cloneOK
  BY <1>9, <1>13, CloningIs DEF cloneOK
<1>14. CASE cloneAgain
  <2>1. /\ run'.projects = run.projects /\ run'.at = run.at /\ run'.next = run.next
        /\ run'.left = run.left /\ run'.opts = run.opts /\ run'.error = run.error /\ routes' = routes
    BY <1>14, <1>0 DEF cloneAgain, Run, world
  <2> QED BY <2>1, <1>6, <1>7
<1>15. CASE cloneFails
  <2>1. /\ Bootstrapping("clone") /\ routes' = routes
        /\ \/ SetMode("remote") \/ Abort(Cloning.path)
           \/ NextEntry("skip") /\ Cloning.optional
    BY <1>15, CloningIs DEF cloneFails
  <2>2. CASE SetMode("remote")
    <3>1. ~ NextEntry("remote")
      <4>1. SetMode("remote") => run'.next = run.next
        BY <1>0 DEF SetMode, Run
      <4>2. NextEntry("remote") => run'.next = run.next + 1
        BY <1>0 DEF NextEntry, Run
      <4> QED BY <4>1, <4>2, <2>2, <1>0
    <3> QED BY <2>1, <2>2, <3>1, <1>9, CloningIs
  <2>3. CASE NextEntry("skip") /\ Cloning.optional
    BY <2>1, <2>3, <1>9, CloningIs
  <2> QED BY <2>1, <2>2, <2>3, <1>8
<1>16. CASE publishRemote
  <2>1. /\ Bootstrapping("remote") /\ routes \subseteq routes'
        /\ \/ NextEntry("remote") /\ Cloning.path \in routes'
           \/ Abort(Cloning.path)
           \/ NextEntry("skip") /\ Cloning.optional
    BY <1>16, CloningIs DEF publishRemote
  <2> QED BY <2>1, <1>8, <1>9, CloningIs
<1> QED BY <1>10, <1>11, <1>12, <1>13, <1>14, <1>15, <1>16 DEF BootStep

\* The entries of a sequence of them.
LEMMA EntriesAre ==
  ASSUME NEW s \in Seq(EntryOfFile)
  PROVE  /\ DOMAIN s = 1..Len(s) /\ Len(s) \in Nat
         /\ \A k \in DOMAIN s : s[k] \in EntryOfFile /\ s[k].path \in Project
<1>1. DOMAIN s = 1..Len(s) /\ Len(s) \in Nat /\ \A k \in DOMAIN s : s[k] \in EntryOfFile
  OBVIOUS
<1>2. \A e \in EntryOfFile : e.path \in Project
  BY DEF EntryOfFile
<1> QED BY <1>1, <1>2

\* What is left to do, after a step of the loop.
LEMMA Remains ==
  ASSUME TypeOK, Places, LoopStep, run.at \notin {"router", "routing"}, NEW k \in DOMAIN run'.left
  PROVE  \E j \in DOMAIN run.left : run'.left[k] = run.left[j]
<1>1. run.left \in Seq(EntryOfFile)
  BY DEF TypeOK, Run
<1>2. CASE run'.left = run.left
  BY <1>2
<1>3. CASE run.left # <<>> /\ run'.left = Tail(run.left)
  BY <1>1, <1>3, TailIs
<1> QED BY <1>2, <1>3, LoopGoes DEF Began, Same, Passed, Over

\* The modes stay right.
LEMMA ModesStep ==
  ASSUME TypeOK, Places, OnDisk, ModesTrue, [Next]_vars
  PROVE  ModesTrue'
<1>0. /\ state \in [Project -> {"down", "starting", "up"}] /\ run \in Run
      /\ run.projects \in Seq(EntryOfFile) /\ run.next \in Nat
      /\ DOMAIN run.projects = 1..Len(run.projects)
      /\ \A k \in DOMAIN run.projects : run.projects[k].path \in Project
  <2>1. /\ state \in [Project -> {"down", "starting", "up"}] /\ run \in Run
        /\ run.projects \in Seq(EntryOfFile) /\ run.next \in Nat
    BY DEF TypeOK, Run
  <2> QED BY <2>1, EntriesAre
<1>1. ASSUME NEW kind \in {"up", "down", "status"}, NEW o \in Options \cup {NoOptions},
             tryHandleMeta(kind, o)
      PROVE  ModesTrue'
  <2>1. /\ UNCHANGED <<cfg, disk, state, routes>> /\ run'.next = 1 /\ run'.kind = kind
    BY <1>1, Begins
  <2>2. CASE run'.at = "end" /\ run'.projects = <<>> /\ run'.left = <<>>
    BY <2>1, <2>2 DEF ModesTrue
  <2>3. CASE /\ Valid(cfg) /\ run'.projects = Ordered(cfg)
             /\ \/ kind = "up" /\ run'.at = "audit" /\ run'.left = <<>>
                \/ kind = "status" /\ run'.at = "router" /\ run'.left = <<>>
                \/ /\ kind = "down" /\ run'.at = "subs"
                   /\ run'.left = Consumers(Ordered(cfg), "down", NoOptions)
    <3> DEFINE P == Ordered(cfg)
               L == Consumers(P, "down", NoOptions)
    <3>1. /\ P \in Seq(EntryOfFile)
          /\ \A k \in DOMAIN P :
               /\ P[k].mode = "skip" => P[k].optional
               /\ P[k].mode \in {"clone", "skip", "remote"} => disk[P[k].path] = "absent"
      BY <2>3, OrderedIs
    <3>2. \A k \in DOMAIN P : P[k].mode = "clone" => state[P[k].path] = "down"
      <4> HIDE DEF P
      <4>1. \A k \in DOMAIN P : P[k].path \in Project
        BY <3>1, EntriesAre
      <4> QED BY <3>1, <4>1 DEF OnDisk
    <3>3. \A e \in Range(L) : e.mode \in {"skip", "remote"} => disk[e.path] = "absent"
      <4>1. Range(L) \subseteq Range(P)
        BY <3>1, ConsumersIs
      <4> HIDE DEF P, L
      <4> QED BY <3>1, <4>1 DEF Range
    <3>4. \A k \in DOMAIN L : L[k].mode \in {"skip", "remote"} => disk[L[k].path] = "absent"
      <4> HIDE DEF P, L
      <4> QED BY <3>3 DEF Range
    <3>5. run'.projects = P /\ (run'.left = <<>> \/ run'.left = L)
          /\ (run'.kind = "up" => run'.at = "audit" /\ run'.left = <<>>)
      BY <2>1, <2>3
    <3> HIDE DEF P, L
    <3>6. \A k \in DOMAIN run'.left :
            run'.left[k].mode \in {"skip", "remote"} => disk[run'.left[k].path] = "absent"
      BY <3>4, <3>5
    <3> QED BY <2>1, <3>1, <3>2, <3>5, <3>6 DEF ModesTrue
  <2> QED BY <1>1, <2>2, <2>3, Begins
<1>2. CASE BootStep
  <2>1. run.kind = "up" /\ run'.kind = run.kind /\ UNCHANGED state
        /\ run.at \in {"audit", "force", "bootstrap"}
    BY <1>2, BootFrame
  <2>2. \A k \in DOMAIN run.projects : run.projects[k].mode = "clone" =>
            state[run.projects[k].path] = "down"
    BY <2>1 DEF ModesTrue
  <2> QED BY <1>2, <2>1, <2>2, BootModes DEF ModesTrue
<1>3. CASE LoopStep
  <2>1. /\ run'.kind = run.kind /\ run'.projects = run.projects /\ run'.opts = run.opts
        /\ run.at \in {"router", "routing", "subs", "edge"} /\ UNCHANGED <<disk, state, routes>>
    BY <1>3, LoopFrame
  <2>2. run'.next = run.next /\ (run.error => run'.error)
        /\ run'.at \in {"routing", "subs", "edge", "end"}
    BY <1>3, LoopGoes DEF Began, Same, Passed, Over
  <2>3. run.kind = "down" => \A k \in DOMAIN run'.left :
          run'.left[k].mode \in {"skip", "remote"} => disk[run'.left[k].path] = "absent"
    <3> SUFFICES ASSUME run.kind = "down", NEW k \in DOMAIN run'.left
                 PROVE  run'.left[k].mode \in {"skip", "remote"} => disk[run'.left[k].path] = "absent"
      OBVIOUS
    <3>1. \E j \in DOMAIN run.left : run'.left[k] = run.left[j]
      BY <1>3, Remains DEF Places
    <3> QED BY <3>1 DEF ModesTrue
  <2> QED BY <2>1, <2>2, <2>3 DEF ModesTrue
<1>4. CASE Done
  <2>1. /\ run'.projects = <<>> /\ run'.left = <<>> /\ run'.next = 1 /\ run'.kind = "none"
    BY <1>4 DEF Done, NoRun
  <2> QED BY <2>1 DEF ModesTrue
<1>5. CASE ChildStep
  <2>1. UNCHANGED <<run, disk, routes>> /\ run.at \in {"routing", "subs", "edge"}
    BY <1>5, ChildFrame
  <2> QED BY <2>1 DEF ModesTrue
<1>6. CASE Interrupt
  BY <1>6, InterruptFrame DEF ModesTrue
<1>7. ASSUME NEW q \in Project, Materialise(q) \/ GoesDown(q) PROVE ModesTrue'
  <2>1. UNCHANGED <<run, disk, routes>>
    BY <1>7 DEF Materialise, GoesDown
  <2>2. \A p \in Project : state[p] = "down" => state'[p] = "down"
    BY <1>0, <1>7 DEF Materialise, GoesDown
  <2> QED BY <1>0, <2>1, <2>2 DEF ModesTrue
<1>8. CASE UNCHANGED vars
  BY <1>8 DEF vars, ModesTrue
<1> QED BY <1>1, <1>2, <1>3, <1>4, <1>5, <1>6, <1>7, <1>8, Steps

\* What an `up` has seen to stays seen to.
LEMMA SettledStays ==
  ASSUME TypeOK, Places, [Next]_vars, run.kind = "up", run'.kind = "up",
         run'.opts = run.opts, routes \subseteq routes', NEW e \in EntryOfFile, Settled(e)
  PROVE  Settled(e)'
<1>1. e.path \in Project
  BY DEF EntryOfFile
<1>2. Served(e.path) => Served(e.path)'
  BY <1>1, ServedStays
<1> QED BY <1>2 DEF Settled, Served

LEMMA TailHas ==
  ASSUME NEW S, NEW s \in Seq(S), s # <<>>
  PROVE  \A e \in Range(s) : e = Head(s) \/ e \in Range(Tail(s))
<1> TAKE e \in Range(s)
<1>1. PICK k \in DOMAIN s : e = s[k]
  BY DEF Range
<1>2. s[k] = Head(s) \/ (k - 1 \in DOMAIN Tail(s) /\ s[k] = Tail(s)[k - 1])
  BY TailIs
<1> QED BY <1>1, <1>2 DEF Range

\* The loop of `up` leaves behind only what has been seen to.
LEMMA UpStep ==
  ASSUME TypeOK, Places, ListTrue, ModesTrue, UpSoFar, [Next]_vars
  PROVE  UpSoFar'
<1>0. /\ run \in Run /\ run.projects \in Seq(EntryOfFile) /\ run.left \in Seq(EntryOfFile)
      /\ \A k \in DOMAIN run.projects : run.projects[k] \in EntryOfFile
      /\ \A k \in DOMAIN run.projects : run.projects[k] \in Range(run.projects)
  <2>1. /\ run \in Run /\ run.projects \in Seq(EntryOfFile) /\ run.left \in Seq(EntryOfFile)
    BY DEF TypeOK, Run
  <2>2. \A k \in DOMAIN run.projects : run.projects[k] \in Range(run.projects)
    BY DEF Range
  <2> QED BY <2>1, <2>2, EntriesAre
\* A step that is none of the runner's.
<1>a. ASSUME run'.kind = run.kind, run'.at = run.at, run'.opts = run.opts, run'.error = run.error,
             run'.projects = run.projects, run'.left = run.left, UNCHANGED <<cfg, routes>>
      PROVE  UpSoFar'
  <2> SUFFICES ASSUME run.kind = "up", run.at \in {"subs", "end"}, ~run.error
               PROVE  /\ cfg.router \in Project /\ ~run.opts.routerOff => Served(cfg.router)'
                      /\ \A k \in DOMAIN run.projects : Wanted(run.projects[k]) =>
                            \/ Settled(run.projects[k])'
                            \/ run.at = "subs" /\ run.projects[k] \in Range(run.left)
    BY <1>a DEF UpSoFar, Wanted, Served, Settled
  <2>1. cfg.router \in Project /\ ~run.opts.routerOff => Served(cfg.router)'
    BY <1>a, ServedStays DEF UpSoFar
  <2>2. ASSUME NEW k \in DOMAIN run.projects, Wanted(run.projects[k])
        PROVE  \/ Settled(run.projects[k])'
               \/ run.at = "subs" /\ run.projects[k] \in Range(run.left)
    <3>1. \/ Settled(run.projects[k])
          \/ run.at = "subs" /\ run.projects[k] \in Range(run.left)
      BY <2>2 DEF UpSoFar
    <3>2. run'.kind = "up" /\ run'.opts = run.opts /\ routes \subseteq routes'
      BY <1>a
    <3>3. Settled(run.projects[k]) => Settled(run.projects[k])'
      <4>1. PICK e \in EntryOfFile : e = run.projects[k]
        BY <1>0
      <4>2. run'.projects[k] = e
        BY <1>a, <4>1
      <4>3. ASSUME Settled(e) PROVE Settled(e)'
        BY <3>2, <4>3, SettledStays
      <4> QED BY <4>1, <4>2, <4>3 DEF Settled, Served
    <3> QED BY <3>1, <3>3
  <2> QED BY <2>1, <2>2
<1>1. CASE \E kind \in {"up", "down", "status"}, o \in Options \cup {NoOptions} : tryHandleMeta(kind, o)
  <2>1. \/ run'.at = "end" /\ run'.error = TRUE
        \/ run'.kind = "up" /\ run'.at = "audit"
        \/ run'.kind \in {"status", "down"}
    BY <1>1, Begins
  <2> QED BY <2>1 DEF UpSoFar
<1>2. CASE BootStep
  <2>1. /\ run'.at \in {"force", "bootstrap", "router", "end"}
        /\ run'.at = "end" => run'.error
    BY <1>2, BootFrame
  <2> QED BY <2>1 DEF UpSoFar
<1>3. CASE LoopStep
  <2>0. /\ run'.kind = run.kind /\ run'.opts = run.opts /\ run'.projects = run.projects
        /\ UNCHANGED <<cfg, state, routes, gone>> /\ (run.error => run'.error)
    BY <1>3, LoopFrame, LoopGoes
  <2> SUFFICES ASSUME run.kind = "up", run'.at \in {"subs", "end"}, ~run'.error
               PROVE  /\ cfg.router \in Project /\ ~run.opts.routerOff => Served(cfg.router)
                      /\ \A k \in DOMAIN run.projects : Wanted(run.projects[k]) =>
                            \/ Settled(run.projects[k])
                            \/ run'.at = "subs" /\ run.projects[k] \in Range(run'.left)
    BY <2>0 DEF UpSoFar, Wanted, Served, Settled
  <2>1. CASE Began
    <3>1. cfg.router \in Project /\ ~run.opts.routerOff => Served(cfg.router)
      BY <2>1 DEF Began, ListTrue
    <3>2. ASSUME NEW k \in DOMAIN run.projects, Wanted(run.projects[k]),
                 run.projects[k] \notin Range(run'.left)
          PROVE  Settled(run.projects[k])
      <4>1. run.projects[k].path = skipPath("up", run.opts)
        BY <2>1, <3>2, <1>0 DEF Began, Wanted
      <4>2. cfg.router \in Project /\ ~run.opts.routerOff /\ run.projects[k].path = cfg.router
        BY <4>1, <1>0, MetaRunAssumption DEF skipPath, EntryOfFile
      <4> QED BY <4>2, <3>1 DEF Settled, Served
    <3> QED BY <2>1, <3>1, <3>2 DEF Began
  <2>2. CASE Same
    BY <2>2, <2>0 DEF Same, UpSoFar
  <2>3. CASE Passed
    <3>1. cfg.router \in Project /\ ~run.opts.routerOff => Served(cfg.router)
      BY <2>3, <2>0 DEF Passed, UpSoFar
    <3>2. \A e \in Range(run.left) : e = Entry \/ e \in Range(run'.left)
      BY <2>3, <1>0, TailHas DEF Passed, Entry
    <3>3. ASSUME NEW k \in DOMAIN run.projects, Wanted(run.projects[k]), run.projects[k] = Entry
          PROVE  Settled(Entry)
      <4>1. Wanted(Entry) /\ ~Entry.optional /\ ~run.error /\ run.at = "subs"
        BY <3>3, <2>3, <2>0 DEF Wanted, Passed
      <4>2. Entry.mode # "skip"
        BY <3>3, <4>1 DEF ModesTrue
      <4>3. CASE Entry.mode = "remote"
        BY <3>3, <4>1, <4>3 DEF ModesTrue, Settled
      <4>4. CASE sub.at = "ok" /\ sub.proj = Entry.path
        BY <4>4 DEF ListTrue, Settled
      <4> QED BY <4>1, <4>2, <4>3, <4>4, <2>3 DEF Passed
    <3> QED BY <3>1, <3>2, <3>3, <2>3, <2>0 DEF Passed, UpSoFar
  <2>4. CASE Over
    <3>1. run.at = "subs" /\ run.left = <<>> /\ run'.at = "end"
      BY <2>4 DEF Over, Places
    <3>2. Range(run.left) = {}
      BY <3>1 DEF Range
    <3> QED BY <3>1, <3>2, <2>0 DEF UpSoFar
  <2> QED BY <1>3, <2>1, <2>2, <2>3, <2>4, LoopGoes
<1>4. CASE Done
  BY <1>4 DEF Done, NoRun, UpSoFar
<1>5. CASE ChildStep
  BY <1>5, <1>a, ChildFrame
<1>6. CASE Interrupt
  BY <1>6, <1>a, InterruptFrame
<1>7. ASSUME NEW q \in Project, Materialise(q) \/ GoesDown(q) PROVE UpSoFar'
  BY <1>7, <1>a DEF Materialise, GoesDown
<1>8. CASE UNCHANGED vars
  BY <1>8, <1>a DEF vars
<1> QED BY <1>1, <1>2, <1>3, <1>4, <1>5, <1>6, <1>7, <1>8, Steps

\* The loop of `down` leaves behind only what is down.
LEMMA DownStep ==
  ASSUME TypeOK, Places, OnDisk, ListTrue, ModesTrue, DownSoFar, [Next]_vars
  PROVE  DownSoFar'
<1>0. /\ state \in [Project -> {"down", "starting", "up"}] /\ run \in Run
      /\ run.left \in Seq(EntryOfFile) /\ Paths(cfg) \subseteq Project
  <2>1. cfg.projects \in Seq(EntryOfFile)
    BY ConfigsAssumption DEF TypeOK
  <2> QED BY <2>1, EntriesAre DEF TypeOK, Run, Paths
<1>a. ASSUME run'.kind = run.kind, run'.at = run.at, run'.left = run.left, cfg' = cfg,
             run'.failed = run.failed,
             run.kind = "down" => \A p \in Project : state[p] = "down" => state'[p] = "down"
      PROVE  DownSoFar'
  BY <1>0, <1>a DEF DownSoFar, Paths
<1>1. ASSUME NEW kind \in {"up", "down", "status"}, NEW o \in Options \cup {NoOptions},
             tryHandleMeta(kind, o), run'.kind = "down", run'.at \in {"subs", "edge"}
      PROVE  DownSoFar'
  <2>1. /\ Valid(cfg) /\ cfg' = cfg /\ run'.at = "subs"
        /\ run'.left = Consumers(Ordered(cfg), "down", NoOptions)
    BY <1>1, Begins
  <2> DEFINE P == Ordered(cfg)
             L == Consumers(P, "down", NoOptions)
  <2>2. P \in Seq(EntryOfFile) /\ \A p \in Paths(cfg) : \E k \in DOMAIN P : P[k].path = p
    BY <2>1, OrderedIs
  <2>3. Range(L) = {e \in Range(P) : e.path # cfg.router}
    <3> HIDE DEF P
    <3> QED BY <2>2, DownConsumersAre
  <2>4. run'.left = L
    BY <2>1
  <2> HIDE DEF P, L
  <2>5. ASSUME NEW p \in Paths(cfg), p # cfg.router
        PROVE  \E k \in DOMAIN L : L[k].path = p
    BY <2>2, <2>3, <2>5 DEF Range
  <2> QED BY <2>1, <2>4, <2>5 DEF DownSoFar, Paths
<1>2. CASE BootStep
  BY <1>2, BootFrame DEF DownSoFar
<1>3. CASE LoopStep
  <2>0. /\ run'.kind = run.kind /\ UNCHANGED <<cfg, state>> /\ run.failed \subseteq run'.failed
    BY <1>3, LoopFrame, LoopGoes
  <2> SUFFICES ASSUME run.kind = "down", run'.at \in {"subs", "edge"}, NEW p \in Paths(cfg),
                      p # cfg.router, state[p] # "down", p \notin run'.failed
               PROVE  run'.at = "subs" /\ \E k \in DOMAIN run'.left : run'.left[k].path = p
    BY <2>0 DEF DownSoFar, Paths
  <2>1. run.at \in {"subs", "edge"} => run.at = "subs" /\ \E k \in DOMAIN run.left : run.left[k].path = p
    BY <2>0 DEF DownSoFar
  <2>2. ~Began
    BY DEF Began, Places
  <2>3. CASE Same
    BY <2>1, <2>3 DEF Same
  <2>4. CASE Passed
    <3>1. PICK k \in DOMAIN run.left : run.left[k].path = p
      BY <2>1, <2>4 DEF Passed
    <3>2. p \in Project
      BY <1>0
    <3>3. Entry.path # p
      <4>1. CASE Entry.mode \in {"skip", "remote"}
        <5>1. run.left[1] = Entry /\ 1 \in DOMAIN run.left
          BY <1>0, <2>4 DEF Passed, Entry
        <5> QED BY <3>2, <4>1, <5>1 DEF ModesTrue, OnDisk
      <4>2. CASE disk[Entry.path] = "absent"
        BY <3>2, <4>2 DEF OnDisk
      <4>3. CASE sub.at = "ok" /\ sub.proj = Entry.path
        BY <4>3 DEF ListTrue
      <4>4. CASE Entry.path \in run'.failed
        BY <4>4
      <4> QED BY <4>1, <4>2, <4>3, <4>4, <2>4 DEF Passed
    <3>4. run.left[k] # Entry
      BY <3>1, <3>3
    <3>5. k - 1 \in DOMAIN Tail(run.left) /\ run.left[k] = Tail(run.left)[k - 1]
      BY <3>4, <2>4, <1>0, TailIs DEF Passed, Entry
    <3> QED BY <3>1, <3>5, <2>4 DEF Passed
  <2>5. CASE Over
    <3>1. run.at = "subs" /\ run.left = <<>>
      BY <2>5 DEF Over
    <3> QED BY <3>1, <2>1
  <2> QED BY <1>3, <2>2, <2>3, <2>4, <2>5, LoopGoes
<1>4. CASE Done
  BY <1>4 DEF Done, NoRun, DownSoFar
<1>5. CASE ChildStep
  <2>1. run' = run /\ cfg' = cfg
    BY <1>5, ChildFrame
  <2>2. run.kind = "down" => \A p \in Project : state[p] = "down" => state'[p] = "down"
    BY <1>5, ChildFrame DEF Places
  <2> QED BY <2>1, <2>2, <1>a
<1>6. CASE Interrupt
  BY <1>6, <1>a, InterruptFrame
<1>7. ASSUME NEW q \in Project, Materialise(q) \/ GoesDown(q) PROVE DownSoFar'
  <2>1. \A p \in Project : state[p] = "down" => state'[p] = "down"
    BY <1>0, <1>7 DEF Materialise, GoesDown
  <2> QED BY <2>1, <1>7, <1>a DEF Materialise, GoesDown
<1>8. CASE UNCHANGED vars
  BY <1>8, <1>a DEF vars
<1>9. CASE \E kind \in {"up", "down", "status"}, o \in Options \cup {NoOptions} : tryHandleMeta(kind, o)
  <2>1. ~ (run'.kind = "down" /\ run'.at \in {"subs", "edge"}) => DownSoFar'
    BY DEF DownSoFar
  <2> QED BY <1>1, <1>9, <2>1
<1> QED BY <1>2, <1>3, <1>4, <1>5, <1>6, <1>7, <1>8, <1>9, Steps

-----------------------------------------------------------------------------
(* The theorems. *)

\* Nothing runs to begin with.
LEMMA InitHolds == Init => IInv
<1> SUFFICES ASSUME Init PROVE IInv
  OBVIOUS
<1>0. /\ run = NoRun /\ sub = NoSub /\ lacking = {} /\ routes = {} /\ gone = {}
      /\ state = [p \in Project |-> "down"] /\ cfg \in Configs /\ count = 0
      /\ disk \in [Project -> {"absent", "half", "full"}]
  BY MetaRunAssumption DEF Init
<1>1. /\ NoRun.kind = "none" /\ NoRun.at = "idle" /\ NoRun.projects = <<>> /\ NoRun.next = 1
      /\ NoRun.left = <<>> /\ NoRun.hint = {} /\ NoRun.ok = {} /\ NoSub.at = "none"
  BY DEF NoRun, NoSub
<1>2. TypeOK
  <2>1. <<>> \in Seq(EntryOfFile) /\ 0 \in 0..MaxAttempts - 1 /\ 1 \in Nat
    BY DEF MaxAttempts
  <2>2. NoRun \in Run
    BY <2>1 DEF NoRun, Run
  <2>3. NoSub \in Sub
    BY DEF NoSub, Sub
  <2> QED BY <2>2, <2>3, <1>0 DEF TypeOK
<1>3. Places
  BY <1>0, <1>1 DEF Places
<1>4. OnDisk /\ ListTrue
  BY <1>0, <1>1 DEF OnDisk, ListTrue
<1>5. ModesTrue
  BY <1>0, <1>1 DEF ModesTrue
<1>6. UpSoFar /\ DownSoFar /\ HintHolds
  BY <1>0, <1>1 DEF UpSoFar, DownSoFar, HintHolds
<1> QED BY <1>2, <1>3, <1>4, <1>5, <1>6 DEF IInv

\* Every step keeps the invariant: the runner's, the process's and the rest.
LEMMA StepKeeps == IInv /\ [Next]_vars => IInv'
<1> SUFFICES ASSUME IInv, [Next]_vars PROVE IInv'
  OBVIOUS
<1>1. TypeOK /\ Places /\ OnDisk /\ ListTrue /\ ModesTrue /\ UpSoFar /\ DownSoFar /\ HintHolds
  BY DEF IInv
<1>2. TypeOK' /\ Places'
  BY <1>1, Types, PlacesStep
<1>3. OnDisk' /\ ListTrue' /\ HintHolds'
  BY <1>1, OnDiskStep, ListStep, HintStep
<1>4. ModesTrue' /\ UpSoFar' /\ DownSoFar'
  BY <1>1, ModesStep, UpStep, DownStep
<1> QED BY <1>2, <1>3, <1>4 DEF IInv

\* The invariant holds throughout.
LEMMA Invariance == Spec => []IInv
<1>1. Init => IInv
  BY InitHolds
<1>2. IInv /\ [Next]_vars => IInv'
  BY StepKeeps
<1> QED BY <1>1, <1>2, PTL DEF Spec

(***************************************************************************)
(* The type invariant: whatever the meta file, the flags and the projects  *)
(* that go down meanwhile, every variable of the runner keeps its type.    *)
(***************************************************************************)
THEOREM TypeCorrect == Spec => []TypeOK
<1>1. IInv => TypeOK
  BY DEF IInv
<1> QED BY <1>1, Invariance, PTL

(***************************************************************************)
(* An `up` of the workspace that reports success has brought up the router *)
(* (with --router-off, only if its entry is asked for) and every project   *)
(* asked for that is not optional, or has published its route.             *)
(***************************************************************************)
THEOREM SuccessHolds == Spec => []SuccessMeansUp
<1>1. IInv => SuccessMeansUp
  <2> SUFFICES ASSUME IInv, run.kind = "up", run.at = "end", ~run.error
               PROVE  /\ cfg.router \in Project /\ ~run.opts.routerOff =>
                            state[cfg.router] # "down" \/ cfg.router \in gone
                      /\ \A e \in Range(run.projects) : Wanted(e) => Settled(e)
    BY DEF SuccessMeansUp, Wanted, Settled, Served
  <2>1. UpSoFar
    BY DEF IInv
  <2>2. \A e \in Range(run.projects) : \E k \in DOMAIN run.projects : e = run.projects[k]
    BY DEF Range
  <2> QED BY <2>1, <2>2 DEF UpSoFar, Served
<1> QED BY <1>1, Invariance, PTL

(***************************************************************************)
(* A project that starts on the word of the list has its sibling up,       *)
(* unless it has gone down since or is another one, with the name of a     *)
(* directory on the list.                                                  *)
(***************************************************************************)
THEOREM HintsHold == Spec => []HintHolds
<1>1. IInv => HintHolds
  BY DEF IInv
<1> QED BY <1>1, Invariance, PTL

(***************************************************************************)
(* The router is the last to go: the step of `down` that stops it comes    *)
(* when no other project of the workspace is up, but for one whose own     *)
(* `down` failed.                                                          *)
(***************************************************************************)
THEOREM EdgeHolds == Spec => EdgeOutlives
<1>1. IInv /\ [Next]_vars =>
        [cfg.router \in Project /\ run.kind = "down" /\ sub.proj = cfg.router
           /\ state[cfg.router] # "down" /\ state'[cfg.router] = "down" =>
         \A p \in Paths(cfg) : p = cfg.router \/ state[p] = "down" \/ p \in run.failed]_vars
  <2> SUFFICES ASSUME IInv, cfg.router \in Project, run.kind = "down", sub.proj = cfg.router
               PROVE  \A p \in Paths(cfg) : p = cfg.router \/ state[p] = "down" \/ p \in run.failed
    OBVIOUS
  <2>1. sub # NoSub
    <3>1. NoSub.proj = ""
      BY DEF NoSub
    <3>2. "" \notin Project
      BY MetaRunAssumption
    <3> QED BY <3>1, <3>2
  <2>2. run.at \in {"subs", "edge"} /\ sub.at # "none"
    BY <2>1 DEF IInv, Places
  <2>3. run.at = "edge"
    <3> SUFFICES ASSUME run.at = "subs" PROVE FALSE
      BY <2>2
    <3>1. run.left # <<>> /\ Entry.path = cfg.router
      BY <2>2 DEF IInv, Places
    <3>2. run.left \in Seq(EntryOfFile)
      BY DEF IInv, TypeOK, Run
    <3>3. 1 \in DOMAIN run.left /\ run.left[1] = Entry
      BY <3>1, <3>2 DEF Entry
    <3> QED BY <3>1, <3>3 DEF IInv, Places
  <2> QED BY <2>3 DEF IInv, DownSoFar
<1> QED BY <1>1, Invariance, PTL DEF Spec, EdgeOutlives

================================================================================
