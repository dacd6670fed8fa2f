--------------------------- MODULE VolumesProofs ---------------------------
(***************************************************************************)
(* Proofs about Volumes, for every set of commands, projects and           *)
(* dependencies, every start and every bound.                              *)
(***************************************************************************)
EXTENDS Volumes, TLAPS

-----------------------------------------------------------------------------
(* What volumes, archives and moments hold.                                *)

Contents(V) == UNION {[W -> Data] : W \in SUBSET V}

LEMMA ContentsIs ==
  ASSUME NEW V, NEW f
  PROVE  f \in Contents(V) <=> DOMAIN f \subseteq V /\ f \in [DOMAIN f -> Data]
<1>1. ASSUME f \in Contents(V) PROVE DOMAIN f \subseteq V /\ f \in [DOMAIN f -> Data]
  <2>1. PICK W \in SUBSET V : f \in [W -> Data]
    BY <1>1 DEF Contents
  <2> QED
    BY <2>1
<1>2. ASSUME DOMAIN f \subseteq V, f \in [DOMAIN f -> Data] PROVE f \in Contents(V)
  BY <1>2 DEF Contents
<1> QED
  BY <1>1, <1>2

LEMMA DataIs == 0 \in Data /\ Torn \in Data /\ \A n \in Nat : n <= MaxWrites => n \in Data
BY BoundsAssumption DEF Data, Torn

LEMMA Nothing == \A V : <<>> \in Contents(V) /\ DOMAIN <<>> = {}
<1> TAKE V
<1>1. DOMAIN <<>> = {}
  OBVIOUS
<1>2. <<>> \in [{} -> Data]
  OBVIOUS
<1> QED
  BY <1>1, <1>2, ContentsIs

LEMMA PutDomain ==
  ASSUME NEW f, NEW S, NEW x
  PROVE  DOMAIN Put(f, S, x) = DOMAIN f \cup S
BY DEF Put

LEMMA PutNew ==
  ASSUME NEW f, NEW S, NEW x
  PROVE  \A w \in S : Put(f, S, x)[w] = x
BY DEF Put

LEMMA PutOld ==
  ASSUME NEW f, NEW S, NEW x
  PROVE  \A w \in DOMAIN f \ S : Put(f, S, x)[w] = f[w]
BY DEF Put

LEMMA PutType ==
  ASSUME NEW V, NEW f \in Contents(V), NEW S \in SUBSET V, NEW x \in Data
  PROVE  Put(f, S, x) \in Contents(V)
<1>1. DOMAIN f \subseteq V /\ f \in [DOMAIN f -> Data]
  BY ContentsIs
<1>2. Put(f, S, x) \in [DOMAIN f \cup S -> Data]
  BY <1>1 DEF Put
<1> QED
  BY <1>1, <1>2, ContentsIs

LEMMA RestrictOver ==
  ASSUME NEW f, NEW S
  PROVE  DOMAIN Restrict(f, S) = S
BY DEF Restrict

LEMMA RestrictAt ==
  ASSUME NEW f, NEW S
  PROVE  \A w \in S : Restrict(f, S)[w] = f[w]
BY DEF Restrict

LEMMA RestrictType ==
  ASSUME NEW V, NEW f \in Contents(V), NEW S \in SUBSET DOMAIN f
  PROVE  Restrict(f, S) \in Contents(V)
<1>1. DOMAIN f \subseteq V /\ f \in [DOMAIN f -> Data]
  BY ContentsIs
<1>2. Restrict(f, S) \in [S -> Data]
  BY <1>1 DEF Restrict
<1> QED
  BY <1>1, <1>2, ContentsIs

-----------------------------------------------------------------------------
(* The type invariant, for a fixed set V of volumes, and what goes with it. *)

Op == {"none", "create", "restore", "delete", "volumes"}
Pc == {"idle", "list", "stop", "export", "meta", "remove", "resume", "wipe", "untar", "rm"}

CmdRec(V) ==
  [op : Op, pc : Pc, vols : SUBSET V, left : SUBSET V, stops : SUBSET Deps, now : SUBSET V,
   dir : Stores, ok : BOOLEAN, calm : BOOLEAN, moment : Contents(V)]

Container(V) == [st : {"none", "running", "stopped"}, vol : V \cup {<<>>}, mem : Data]
Dir(V) ==
  [there : BOOLEAN, done : BOOLEAN, torn : BOOLEAN, meta : SUBSET V, arch : Contents(V)]

Typed(V) ==
  /\ disk \in Contents(V)
  /\ labelled \subseteq DOMAIN disk /\ emptied \subseteq DOMAIN disk
  /\ cont \in [Deps -> Container(V)]
  /\ \A d \in Deps : cont[d].st # "none" => cont[d].vol \in DOMAIN disk
  /\ store \in [Stores -> Dir(V)]
  /\ \A s \in Stores : store[s].there \/ store[s] = NoDir
  /\ cmd \in [Cmd -> CmdRec(V)]
  /\ clock \in 0..MaxWrites
  /\ saved \in Contents(V)

\* Where a command of each kind can be, and how far it has come there.
Shaped(k) ==
  /\ \/ k.op = "none" /\ k.pc = "idle"
     \/ k.op = "create" /\ k.pc \in {"list", "stop", "export", "meta", "remove", "resume"}
     \/ k.op = "restore" /\ k.pc \in {"list", "stop", "wipe", "untar", "resume"}
     \/ k.op = "delete" /\ k.pc \in {"remove", "resume"}
     \/ k.op = "volumes" /\ k.pc = "rm"
  /\ k.left \subseteq k.vols /\ k.now \subseteq k.vols
  /\ k.op = "create" => k.dir = "current" /\ (k.pc = "remove" => ~k.ok)
  /\ k.pc \in {"list", "stop"} => k.left = k.vols /\ k.now = {}
  /\ k.pc = "meta" => k.left = {}
  /\ k.pc = "wipe" => k.now = {}
  /\ k.pc = "untar" => \E v \in k.vols : k.now = {v}

Base(V) == Typed(V) /\ \A c \in Cmd : Shaped(cmd[c])

\* The commands other than those of C go on, and are disturbed where they are
\* about a volume of S.
Beside(C, S) ==
  \A k \in Cmd \ C : \/ cmd'[k] = cmd[k] /\ (cmd[k].pc = "idle" \/ cmd[k].vols \cap S = {})
                     \/ cmd'[k] = [cmd[k] EXCEPT !.calm = FALSE]

\* Nothing happens to a volume of V that is not one of S and that no engine runs
\* on, and nobody starts one on it.
Untouched(V, S) ==
  /\ \A v \in V \ S : v \in DOMAIN disk => v \in DOMAIN disk'
  /\ \A v \in V \ S : v \in DOMAIN disk /\ Running(v) = {} => disk'[v] = disk[v]
  /\ \A v \in V \ S : Running(v)' \subseteq Running(v)

LEMMA IdleType == \A V : Idle \in CmdRec(V) /\ Shaped(Idle)
<1> TAKE V
<1>1. <<>> \in Contents(V)
  BY Nothing
<1> QED
  BY <1>1 DEF Idle, Started, CmdRec, Shaped, Op, Pc, Stores

\* A command as it begins.
LEMMA StartedType ==
  ASSUME NEW V, NEW op \in Op, NEW pc \in Pc, NEW vols \in SUBSET V, NEW dir \in Stores
  PROVE  Started(op, pc, vols, dir) \in CmdRec(V)
<1>1. <<>> \in Contents(V)
  BY Nothing
<1> QED
  BY <1>1 DEF Started, CmdRec

LEMMA DisturbedIs ==
  ASSUME NEW V, cmd \in [Cmd -> CmdRec(V)], NEW C, NEW S
  PROVE  /\ Disturbed(C, S) \in [Cmd -> CmdRec(V)]
         /\ \A k \in Cmd : k \in C => Disturbed(C, S)[k] = cmd[k]
         /\ \A k \in Cmd : \/ Disturbed(C, S)[k] = cmd[k]
                              /\ (k \in C \/ cmd[k].pc = "idle" \/ cmd[k].vols \cap S = {})
                           \/ Disturbed(C, S)[k] = [cmd[k] EXCEPT !.calm = FALSE]
<1>1. ASSUME NEW k \in Cmd PROVE [cmd[k] EXCEPT !.calm = FALSE] \in CmdRec(V)
  <2>1. cmd[k] \in CmdRec(V)
    OBVIOUS
  <2> QED
    BY <2>1 DEF CmdRec
<1> QED
  BY <1>1 DEF Disturbed

\* A step of c alone, and one that disturbs others.
LEMMA OwnCmd ==
  ASSUME NEW V, Base(V), NEW c \in Cmd, NEW S, NEW rec \in CmdRec(V), Shaped(rec),
         cmd' = [Disturbed({c}, S) EXCEPT ![c] = rec]
  PROVE  /\ cmd' \in [Cmd -> CmdRec(V)] /\ \A k \in Cmd : Shaped(cmd'[k])
         /\ cmd'[c] = rec /\ Beside({c}, S)
<1>1. cmd \in [Cmd -> CmdRec(V)] /\ \A k \in Cmd : Shaped(cmd[k])
  BY DEF Base, Typed
<1>2. /\ Disturbed({c}, S) \in [Cmd -> CmdRec(V)]
      /\ \A k \in Cmd : \/ Disturbed({c}, S)[k] = cmd[k]
                           /\ (k \in {c} \/ cmd[k].pc = "idle" \/ cmd[k].vols \cap S = {})
                        \/ Disturbed({c}, S)[k] = [cmd[k] EXCEPT !.calm = FALSE]
  BY <1>1, DisturbedIs
<1>3. ASSUME NEW k \in Cmd PROVE Shaped([cmd[k] EXCEPT !.calm = FALSE])
  <2>1. Shaped(cmd[k]) /\ cmd[k] \in CmdRec(V)
    BY <1>1
  <2> QED
    BY <2>1 DEF Shaped, CmdRec
<1>4. cmd'[c] = rec /\ \A k \in Cmd \ {c} : cmd'[k] = Disturbed({c}, S)[k]
  BY <1>2
<1>5. Beside({c}, S)
  BY <1>2, <1>4 DEF Beside
<1>6. ASSUME NEW k \in Cmd PROVE Shaped(cmd'[k])
  <2>1. CASE k = c
    BY <1>4, <2>1
  <2>2. CASE k # c
    <3>1. cmd'[k] \in {cmd[k], [cmd[k] EXCEPT !.calm = FALSE]}
      BY <1>2, <1>4, <2>2
    <3> QED
      BY <1>1, <1>3, <3>1
  <2> QED
    BY <2>1, <2>2
<1> QED
  BY <1>2, <1>4, <1>5, <1>6

LEMMA Undisturbed ==
  ASSUME NEW V, cmd \in [Cmd -> CmdRec(V)], NEW C
  PROVE  Disturbed(C, {}) = cmd
BY DEF Disturbed

\* Nobody but c takes a step, and the volumes and engines stay as they are.
LEMMA Alone ==
  ASSUME NEW V, Base(V), NEW c \in Cmd, NEW rec \in CmdRec(V), Shaped(rec),
         cmd' = [cmd EXCEPT ![c] = rec]
  PROVE  /\ cmd' \in [Cmd -> CmdRec(V)] /\ \A k \in Cmd : Shaped(cmd'[k])
         /\ cmd'[c] = rec /\ Beside({c}, {})
<1>1. cmd' = [Disturbed({c}, {}) EXCEPT ![c] = rec]
  BY Undisturbed DEF Base, Typed
<1> QED
  BY <1>1, OwnCmd

-----------------------------------------------------------------------------
(* The engines.                                                            *)

LEMMA Stays ==
  ASSUME NEW V, NEW S, UNCHANGED <<disk, cont>>
  PROVE  Untouched(V, S)
BY DEF Untouched, Running, Mounting

\* What Docker has of the volumes when the containers of S stop.
LEMMA FlushedIs ==
  ASSUME NEW V, Typed(V), NEW S \in SUBSET Deps
  PROVE  /\ Flushed(S) \in Contents(V) /\ DOMAIN Flushed(S) = DOMAIN disk
         /\ \A v \in DOMAIN disk : Running(v) \cap S = {} => Flushed(S)[v] = disk[v]
<1>1. disk \in [DOMAIN disk -> Data] /\ DOMAIN disk \subseteq V
  BY ContentsIs DEF Typed
<1>2. ASSUME NEW v \in DOMAIN disk, Running(v) \cap S # {}
      PROVE  cont[CHOOSE d \in Running(v) \cap S : TRUE].mem \in Data
  <2>1. (CHOOSE d \in Running(v) \cap S : TRUE) \in S
    BY <1>2
  <2> QED
    BY <2>1 DEF Typed, Container
<1>3. Flushed(S) \in [DOMAIN disk -> Data]
  BY <1>1, <1>2 DEF Flushed
<1>4. \A v \in DOMAIN disk : Running(v) \cap S = {} => Flushed(S)[v] = disk[v]
  BY DEF Flushed
<1> QED
  BY <1>1, <1>3, <1>4, ContentsIs

LEMMA StopIs ==
  ASSUME NEW V, Typed(V), NEW S \in SUBSET Deps,
         cont' = StopContainers(S), disk' = Flushed(S)
  PROVE  /\ disk' \in Contents(V) /\ DOMAIN disk' = DOMAIN disk
         /\ cont' \in [Deps -> Container(V)]
         /\ \A d \in Deps : cont'[d].st # "none" => cont'[d].vol \in DOMAIN disk'
         /\ \A d \in Deps : /\ cont'[d].vol = cont[d].vol
                            /\ cont'[d].st = IF d \in S /\ cont[d].st = "running"
                                               THEN "stopped" ELSE cont[d].st
         /\ \A v : Running(v)' = Running(v) \ S
         /\ Untouched(V, {})
<1>1. disk' \in Contents(V) /\ DOMAIN disk' = DOMAIN disk
  BY FlushedIs
<1>2. \A d \in Deps : cont[d] \in Container(V)
  BY DEF Typed
<1>3. ASSUME NEW d \in Deps
      PROVE  /\ cont'[d] \in Container(V) /\ cont'[d].vol = cont[d].vol
             /\ cont'[d].st = IF d \in S /\ cont[d].st = "running"
                                THEN "stopped" ELSE cont[d].st
  <2>1. cont'[d] = IF d \in S /\ cont[d].st = "running" THEN [cont[d] EXCEPT !.st = "stopped"]
                   ELSE cont[d]
    BY DEF StopContainers
  <2>2. cont[d] \in Container(V)
    BY <1>2
  <2> QED
    BY <2>1, <2>2 DEF Container
<1>4. cont' \in [Deps -> Container(V)]
  <2>1. DOMAIN cont' = Deps /\ cont' = [d \in Deps |-> cont'[d]]
    BY DEF StopContainers
  <2> QED
    BY <1>3, <2>1
<1>5. \A d \in Deps : cont'[d].st # "none" => cont'[d].vol \in DOMAIN disk'
  BY <1>1, <1>3 DEF Typed
<1>6. ASSUME NEW v PROVE Running(v)' = Running(v) \ S
  BY <1>3 DEF Running, Mounting
<1>7. Untouched(V, {})
  <2>1. \A v \in DOMAIN disk : Running(v) = {} => disk'[v] = disk[v]
    BY FlushedIs
  <2> QED
    BY <1>1, <1>6, <2>1 DEF Untouched
<1> QED
  BY <1>1, <1>3, <1>4, <1>5, <1>6, <1>7

-----------------------------------------------------------------------------
(* Names.                                                                  *)

LEMMA NamesIn ==
  ASSUME NEW d \in NamedDeps
  PROVE  /\ d \in Deps
         /\ \A p \in Projects : composeVolume(p, d) \in Volume
         /\ \A i \in 1..3 : candidates(d)[i] \in Volume
<1>1. d \in Deps
  BY DEF NamedDeps
<1>2. \A i \in 1..3 : candidates(d)[i] \in Range(candidates(d))
  <2>1. DOMAIN candidates(d) = 1..3
    BY DEF candidates
  <2> QED
    BY <2>1 DEF Range
<1>3. Range(candidates(d)) \cup {composeVolume(p, d) : p \in Projects} \subseteq Volume
  BY Zenon DEF Volume
<1>4. \A p \in Projects : composeVolume(p, d) \in {composeVolume(q, d) : q \in Projects}
  OBVIOUS
<1> QED
  BY <1>1, <1>2, <1>3, <1>4

LEMMA FirstIs ==
  ASSUME NEW d \in NamedDeps
  PROVE  /\ FirstThere(d).name \in Volume
         /\ FirstThere(d).exists => FirstThere(d).name \in DOMAIN disk
         /\ candidates(d)[1] \in DOMAIN disk =>
              FirstThere(d).exists /\ FirstThere(d).name = candidates(d)[1]
<1> DEFINE there == {i \in 1..3 : candidates(d)[i] \in DOMAIN disk}
           first == IF there = {} THEN 1
                    ELSE CHOOSE i \in there : \A j \in there : i <= j
<1>1. FirstThere(d).name = candidates(d)[first] /\ (FirstThere(d).exists <=> there # {})
  BY DEF FirstThere
<1>2. there # {} => first \in there /\ \A j \in there : first <= j
  <2>1. SUFFICES ASSUME there # {} PROVE \E i \in there : \A j \in there : i <= j
    OBVIOUS
  <2>2. there \subseteq 1..3
    OBVIOUS
  <2>3. CASE 1 \in there
    BY <2>2, <2>3
  <2>4. CASE 1 \notin there /\ 2 \in there
    BY <2>2, <2>4
  <2>5. CASE 1 \notin there /\ 2 \notin there
    BY <2>1, <2>2, <2>5
  <2> QED
    BY <2>3, <2>4, <2>5
<1>3. first \in 1..3
  BY <1>2
<1>4. 1 \in there => first = 1
  BY <1>2, <1>3
<1>5. candidates(d)[1] \in DOMAIN disk => 1 \in there
  OBVIOUS
<1>6. there # {} => candidates(d)[first] \in DOMAIN disk
  BY <1>2
<1> HIDE DEF first, there
<1>7. candidates(d)[first] \in Volume
  BY <1>3, NamesIn
<1> QED
  BY <1>1, <1>4, <1>5, <1>6, <1>7

LEMMA DepVolumeIs ==
  ASSUME NEW V, V = Volume, Typed(V), NEW d \in NamedDeps
  PROVE  /\ DepVolume(d).name \in V
         /\ DepVolume(d).exists => DepVolume(d).name \in DOMAIN disk
<1>1. d \in Deps
  BY NamesIn
<1>2. CASE ~ws /\ cont[d].st # "none"
  <2>1. DepVolume(d) = [exists |-> TRUE, name |-> cont[d].vol]
    BY <1>2 DEF DepVolume, mountedVolume
  <2>2. cont[d].vol \in DOMAIN disk /\ DOMAIN disk \subseteq V
    BY <1>1, <1>2, ContentsIs DEF Typed
  <2> QED
    BY <2>1, <2>2
<1>3. CASE ~(~ws /\ cont[d].st # "none")
  <2>1. DepVolume(d) = FirstThere(d)
    BY <1>3 DEF DepVolume
  <2> QED
    BY <2>1, FirstIs
<1> QED
  BY <1>2, <1>3

LEMMA ResolvedIs ==
  ASSUME NEW V, V = Volume, Typed(V), NEW S
  PROVE  /\ \A f \in ResolvedVolumes(S) : f.name \in V /\ (f.exists => f.name \in DOMAIN disk)
         /\ {f.name : f \in ResolvedVolumes(S)} \subseteq V
         /\ collectVolumes \subseteq V
BY DepVolumeIs DEF ResolvedVolumes, collectVolumes

-----------------------------------------------------------------------------
(* One lemma per action: the type invariant, and what it is to the others.  *)

\* A step of c that leaves volumes and engines alone.
LEMMA LightBase ==
  ASSUME NEW V, Base(V), NEW c \in Cmd, NEW rec \in CmdRec(V), Shaped(rec),
         cmd' = [cmd EXCEPT ![c] = rec], UNCHANGED <<cont, disk, labelled, clock>>,
         emptied' \subseteq emptied, saved' \in Contents(V),
         store' \in [Stores -> Dir(V)],
         \A s \in Stores : store'[s].there \/ store'[s] = NoDir
  PROVE  Base(V)' /\ Beside({c}, {}) /\ Untouched(V, {}) /\ cmd'[c] = rec
<1>1. /\ cmd' \in [Cmd -> CmdRec(V)] /\ \A k \in Cmd : Shaped(cmd'[k])
      /\ cmd'[c] = rec /\ Beside({c}, {})
  BY Alone
<1>2. Untouched(V, {})
  BY Stays
<1>3. Typed(V)'
  BY <1>1 DEF Base, Typed
<1> QED
  BY <1>1, <1>2, <1>3 DEF Base

LEMMA GotoIs ==
  ASSUME NEW V, Base(V), NEW c \in Cmd, NEW p, Goto(c, p)
  PROVE  cmd' = [cmd EXCEPT ![c] = [cmd[c] EXCEPT !.pc = p]]
BY DEF Goto

LEMMA FailIs ==
  ASSUME NEW V, Base(V), NEW c \in Cmd, NEW p, Fail(c, p)
  PROVE  cmd' = [cmd EXCEPT ![c] = [cmd[c] EXCEPT !.pc = p, !.ok = FALSE]]
<1>1. cmd \in [Cmd -> CmdRec(V)]
  BY DEF Base, Typed
<1> QED
  BY <1>1 DEF Fail, CmdRec

LEMMA CreateBase ==
  ASSUME NEW V, V = Volume, Base(V), NEW c \in Cmd, Create(c)
  PROVE  Base(V)' /\ Beside({c}, {}) /\ Untouched(V, {})
<1>1. PICK S \in collectInfraVolumes :
        LET found == ResolvedVolumes(S)
            vols == {f.name : f \in found} IN
        /\ CreateAccepts(found)
        /\ cmd' = [cmd EXCEPT ![c] = Started("create", "list", vols, "current")]
  BY DEF Create
<1> DEFINE vols == {f.name : f \in ResolvedVolumes(S)}
           rec == Started("create", "list", vols, "current")
<1>2. vols \subseteq V
  BY ResolvedIs DEF Base
<1> HIDE DEF vols
<1>3. rec \in CmdRec(V)
  BY <1>2, StartedType DEF Op, Pc, Stores
<1>4. Shaped(rec)
  BY DEF Shaped, Started
<1>5. cmd' = [cmd EXCEPT ![c] = rec]
  BY <1>1 DEF vols
<1>6. /\ store' \in [Stores -> Dir(V)]
      /\ \A s \in Stores : store'[s].there \/ store'[s] = NoDir
  <2>1. store \in [Stores -> Dir(V)] /\ \A s \in Stores : store[s].there \/ store[s] = NoDir
    BY DEF Base, Typed
  <2>2. [store["current"] EXCEPT !.there = TRUE] \in Dir(V)
    BY <2>1 DEF Dir, Stores
  <2>3. store' = [store EXCEPT !["current"] = [store["current"] EXCEPT !.there = TRUE]]
    BY DEF Create
  <2>4. store'["current"].there
    BY <2>1, <2>3 DEF Dir, Stores
  <2> QED
    BY <2>1, <2>2, <2>3, <2>4 DEF Stores
<1>7. UNCHANGED <<cont, disk, labelled, clock>> /\ saved' \in {saved, <<>>} /\ emptied' \subseteq emptied
  <2>1. NewAccount(c) /\ UNCHANGED <<cont, disk, labelled, clock>>
    BY DEF Create
  <2>2. saved' \in {saved, <<>>}
    BY <2>1 DEF NewAccount
  <2>3. emptied' \subseteq emptied
    BY <2>1, ZenonT(60) DEF NewAccount
  <2> QED
    BY <2>1, <2>2, <2>3
<1> HIDE DEF rec
<1>8. saved' \in Contents(V)
  BY <1>7, Nothing DEF Base, Typed
<1> QED
  BY <1>3, <1>4, <1>5, <1>6, <1>7, <1>8, LightBase

LEMMA QuiesceListBase ==
  ASSUME NEW V, Base(V), NEW c \in Cmd, QuiesceList(c)
  PROVE  /\ Base(V)' /\ Beside({c}, {}) /\ Untouched(V, {})
         /\ cmd'[c] = [cmd[c] EXCEPT !.stops = UNION {Running(v) : v \in cmd[c].vols},
                                     !.pc = "stop"]
<1> DEFINE stops == UNION {Running(v) : v \in cmd[c].vols}
           rec == [cmd[c] EXCEPT !.stops = stops, !.pc = "stop"]
<1>1. cmd \in [Cmd -> CmdRec(V)] /\ Shaped(cmd[c]) /\ cmd[c].pc = "list"
  BY DEF Base, Typed, QuiesceList
<1>2. stops \subseteq Deps
  BY DEF Running, Mounting
<1>3. cmd' = [cmd EXCEPT ![c].stops = stops, ![c].pc = "stop"]
  BY DEF QuiesceList
<1> HIDE DEF stops
<1>4. cmd' = [cmd EXCEPT ![c] = rec]
  BY <1>1, <1>3 DEF CmdRec
<1>5. rec \in CmdRec(V)
  BY <1>1, <1>2, ZenonT(60) DEF CmdRec, Pc
<1>6. Shaped(rec)
  BY <1>1 DEF Shaped, CmdRec
<1>7. UNCHANGED <<cont, disk, labelled, clock, saved, emptied, store>>
  BY DEF QuiesceList
<1> HIDE DEF rec
<1>8. /\ saved' \in Contents(V) /\ store' \in [Stores -> Dir(V)]
      /\ \A s \in Stores : store'[s].there \/ store'[s] = NoDir
  BY <1>7 DEF Base, Typed
<1>9. Base(V)' /\ Beside({c}, {}) /\ Untouched(V, {}) /\ cmd'[c] = rec
  BY <1>4, <1>5, <1>6, <1>7, <1>8, LightBase
<1> QED
  BY <1>9 DEF rec, stops

LEMMA ExportFailsBase ==
  ASSUME NEW V, Base(V), NEW c \in Cmd, ExportFails(c)
  PROVE  /\ Base(V)' /\ Beside({c}, {}) /\ Untouched(V, {})
         /\ cmd'[c] = [cmd[c] EXCEPT !.pc = "remove", !.ok = FALSE]
<1> DEFINE rec == [cmd[c] EXCEPT !.pc = "remove", !.ok = FALSE]
<1>1. cmd[c] \in CmdRec(V) /\ Shaped(cmd[c]) /\ cmd[c].pc = "export"
  BY DEF Base, Typed, ExportFails
<1>2. cmd' = [cmd EXCEPT ![c] = rec]
  BY FailIs DEF ExportFails
<1>3. rec \in CmdRec(V)
  BY <1>1 DEF CmdRec, Pc
<1>4. Shaped(rec)
  BY <1>1 DEF Shaped, CmdRec
<1>5. UNCHANGED <<cont, disk, labelled, clock, saved, emptied, store>>
  BY DEF ExportFails
<1> HIDE DEF rec
<1>6. /\ saved' \in Contents(V) /\ store' \in [Stores -> Dir(V)]
      /\ \A s \in Stores : store'[s].there \/ store'[s] = NoDir
  BY <1>5 DEF Base, Typed
<1>7. Base(V)' /\ Beside({c}, {}) /\ Untouched(V, {}) /\ cmd'[c] = rec
  BY <1>2, <1>3, <1>4, <1>5, <1>6, LightBase
<1> QED
  BY <1>7 DEF rec

LEMMA CreateMetaBase ==
  ASSUME NEW V, Base(V), NEW c \in Cmd, CreateMeta(c)
  PROVE  /\ Base(V)' /\ Beside({c}, {}) /\ Untouched(V, {})
         /\ cmd'[c] \in {[cmd[c] EXCEPT !.pc = "resume"],
                         [cmd[c] EXCEPT !.pc = "resume", !.ok = FALSE]}
<1>1. cmd[c] \in CmdRec(V) /\ Shaped(cmd[c]) /\ cmd[c].pc = "meta"
  BY DEF Base, Typed, CreateMeta
<1>2. /\ store \in [Stores -> Dir(V)] /\ \A s \in Stores : store[s].there \/ store[s] = NoDir
      /\ saved \in Contents(V)
  BY DEF Base, Typed
<1>3. UNCHANGED <<cont, disk, labelled, clock, emptied>>
  BY DEF CreateMeta
<1>4. CASE store.current.there
  <2> DEFINE rec == [cmd[c] EXCEPT !.pc = "resume"]
             new == [store["current"] EXCEPT !.done = TRUE, !.torn = FALSE, !.meta = cmd[c].vols]
  <2>1. cmd' = [cmd EXCEPT ![c] = rec]
    BY <1>4, GotoIs DEF CreateMeta
  <2>2. rec \in CmdRec(V) /\ Shaped(rec)
    BY <1>1 DEF CmdRec, Pc, Shaped
  <2>3. new \in Dir(V) /\ new.there
    <3>1. cmd[c].vols \subseteq V
      BY <1>1 DEF CmdRec
    <3>2. store["current"] \in Dir(V) /\ store["current"].there
      BY <1>2, <1>4 DEF Stores
    <3> QED
      BY <3>1, <3>2 DEF Dir
  <2>4. store' = [store EXCEPT !["current"] = new]
    <3>1. store' = [store EXCEPT !.current.done = TRUE, !.current.torn = FALSE,
                                 !.current.meta = cmd[c].vols]
      BY <1>4 DEF CreateMeta
    <3> QED
      BY <1>2, <3>1 DEF Dir, Stores
  <2>5. saved' \in Contents(V)
    <3>1. store["current"].arch \in Contents(V)
      BY <1>2 DEF Dir, Stores
    <3>2. saved' = Restrict(store.current.arch, cmd[c].vols \cap DOMAIN store.current.arch)
      BY <1>4 DEF CreateMeta
    <3> QED
      BY <3>1, <3>2, RestrictType
  <2> HIDE DEF rec, new
  <2>6. store' \in [Stores -> Dir(V)] /\ \A s \in Stores : store'[s].there \/ store'[s] = NoDir
    BY <1>2, <2>3, <2>4 DEF Stores
  <2>7. Base(V)' /\ Beside({c}, {}) /\ Untouched(V, {}) /\ cmd'[c] = rec
    BY <1>3, <2>1, <2>2, <2>5, <2>6, LightBase
  <2> QED
    BY <2>7 DEF rec
<1>5. CASE ~store.current.there
  <2> DEFINE rec == [cmd[c] EXCEPT !.pc = "resume", !.ok = FALSE]
  <2>1. cmd' = [cmd EXCEPT ![c] = rec] /\ UNCHANGED <<store, saved>>
    BY <1>5, FailIs DEF CreateMeta
  <2>2. rec \in CmdRec(V) /\ Shaped(rec)
    BY <1>1 DEF CmdRec, Pc, Shaped
  <2> HIDE DEF rec
  <2>3. Base(V)' /\ Beside({c}, {}) /\ Untouched(V, {}) /\ cmd'[c] = rec
    BY <1>2, <1>3, <2>1, <2>2, LightBase
  <2> QED
    BY <2>3 DEF rec
<1> QED
  BY <1>4, <1>5

\* What a WriteFile that is cut short leaves of the directory.
LEMMA TornIs ==
  ASSUME NEW V, Base(V), store.current.there, store' = TornMeta
  PROVE  /\ store' \in [Stores -> Dir(V)]
         /\ \A s \in Stores : store'[s].there \/ store'[s] = NoDir
         /\ store'["legacy"] = store["legacy"] /\ ~store'["current"].done
<1> DEFINE new == [store["current"] EXCEPT !.done = FALSE, !.torn = TRUE, !.meta = {}]
<1>1. /\ store \in [Stores -> Dir(V)] /\ \A s \in Stores : store[s].there \/ store[s] = NoDir
  BY DEF Base, Typed
<1>2. store["current"] \in Dir(V)
  BY <1>1 DEF Stores
<1>3. new \in Dir(V) /\ new.there /\ ~new.done
  BY <1>2 DEF Dir
<1>4. store' = [store EXCEPT !["current"] = new]
  BY <1>1, <1>2 DEF TornMeta, Dir, Stores
<1> HIDE DEF new
<1> QED
  BY <1>1, <1>3, <1>4 DEF Stores

LEMMA CreateMetaFailsBase ==
  ASSUME NEW V, Base(V), NEW c \in Cmd, CreateMetaFails(c)
  PROVE  /\ Base(V)' /\ Beside({c}, {}) /\ Untouched(V, {})
         /\ cmd'[c] = [cmd[c] EXCEPT !.pc = "resume", !.ok = FALSE]
<1> DEFINE rec == [cmd[c] EXCEPT !.pc = "resume", !.ok = FALSE]
<1>1. cmd[c] \in CmdRec(V) /\ Shaped(cmd[c]) /\ cmd[c].pc = "meta"
  BY DEF Base, Typed, CreateMetaFails
<1>2. cmd' = [cmd EXCEPT ![c] = rec]
  BY FailIs DEF CreateMetaFails
<1>3. rec \in CmdRec(V) /\ Shaped(rec)
  BY <1>1 DEF CmdRec, Pc, Shaped
<1>4. UNCHANGED <<cont, disk, labelled, clock, saved, emptied>>
  BY DEF CreateMetaFails
<1> HIDE DEF rec
<1>5. /\ store' \in [Stores -> Dir(V)]
      /\ \A s \in Stores : store'[s].there \/ store'[s] = NoDir
  <2>1. CASE store' = store
    BY <2>1 DEF Base, Typed
  <2>2. CASE store' = TornMeta
    BY <2>2, TornIs DEF CreateMetaFails
  <2> QED
    BY <2>1, <2>2 DEF CreateMetaFails
<1>6. saved' \in Contents(V)
  BY <1>4 DEF Base, Typed
<1>7. Base(V)' /\ Beside({c}, {}) /\ Untouched(V, {}) /\ cmd'[c] = rec
  BY <1>2, <1>3, <1>4, <1>5, <1>6, LightBase
<1> QED
  BY <1>7 DEF rec

LEMMA RemoveAllBase ==
  ASSUME NEW V, Base(V), NEW c \in Cmd, RemoveAll(c)
  PROVE  /\ Base(V)' /\ Beside({c}, {}) /\ Untouched(V, {})
         /\ cmd'[c] = [cmd[c] EXCEPT !.pc = "resume"]
         /\ store' = [store EXCEPT ![cmd[c].dir] = NoDir]
<1> DEFINE rec == [cmd[c] EXCEPT !.pc = "resume"]
<1>1. cmd[c] \in CmdRec(V) /\ Shaped(cmd[c]) /\ cmd[c].pc = "remove" /\ cmd[c].dir \in Stores
  BY DEF Base, Typed, RemoveAll, CmdRec
<1>2. cmd' = [cmd EXCEPT ![c] = rec]
  BY GotoIs DEF RemoveAll
<1>3. rec \in CmdRec(V) /\ Shaped(rec)
  BY <1>1 DEF CmdRec, Pc, Shaped
<1>4. UNCHANGED <<cont, disk, labelled, clock, saved, emptied>>
  BY DEF RemoveAll
<1>5. NoDir \in Dir(V)
  BY Nothing DEF NoDir, Dir
<1> HIDE DEF rec
<1>6. /\ saved' \in Contents(V) /\ store' \in [Stores -> Dir(V)]
      /\ \A s \in Stores : store'[s].there \/ store'[s] = NoDir
  BY <1>1, <1>4, <1>5 DEF Base, Typed, RemoveAll
<1>7. Base(V)' /\ Beside({c}, {}) /\ Untouched(V, {}) /\ cmd'[c] = rec
  BY <1>2, <1>3, <1>4, <1>6, LightBase
<1> QED
  BY <1>7 DEF rec, RemoveAll

LEMMA RestoreBase ==
  ASSUME NEW V, Base(V), NEW c \in Cmd, Restore(c)
  PROVE  /\ Base(V)' /\ Beside({c}, {}) /\ Untouched(V, {})
         /\ cmd'[c] = Started("restore", "list", store[snapshotDir].meta, snapshotDir)
<1> DEFINE rec == Started("restore", "list", store[snapshotDir].meta, snapshotDir)
<1>1. snapshotDir \in Stores /\ store[snapshotDir].meta \subseteq V
  <2>1. snapshotDir \in Stores
    BY DEF snapshotDir, Stores
  <2> QED
    BY <2>1 DEF Base, Typed, Dir
<1>2. cmd' = [cmd EXCEPT ![c] = rec]
  BY DEF Restore
<1>3. rec \in CmdRec(V)
  BY <1>1, StartedType DEF Op, Pc
<1>4. Shaped(rec)
  BY DEF Shaped, Started
<1>5. UNCHANGED <<cont, disk, labelled, clock, saved, emptied, store>>
  BY DEF Restore
<1> HIDE DEF rec
<1>6. /\ saved' \in Contents(V) /\ store' \in [Stores -> Dir(V)]
      /\ \A s \in Stores : store'[s].there \/ store'[s] = NoDir
  BY <1>5 DEF Base, Typed
<1>7. Base(V)' /\ Beside({c}, {}) /\ Untouched(V, {}) /\ cmd'[c] = rec
  BY <1>2, <1>3, <1>4, <1>5, <1>6, LightBase
<1> QED
  BY <1>7 DEF rec

LEMMA DeleteBase ==
  ASSUME NEW V, Base(V), NEW c \in Cmd, Delete(c)
  PROVE  /\ Base(V)' /\ Beside({c}, {}) /\ Untouched(V, {})
         /\ cmd'[c] = Started("delete", "remove", {}, snapshotDir)
<1> DEFINE rec == Started("delete", "remove", {}, snapshotDir)
<1>1. snapshotDir \in Stores
  BY DEF snapshotDir, Stores
<1>2. cmd' = [cmd EXCEPT ![c] = rec]
  BY DEF Delete
<1>3. rec \in CmdRec(V)
  BY <1>1, StartedType DEF Op, Pc
<1>4. Shaped(rec)
  BY DEF Shaped, Started
<1>5. /\ UNCHANGED <<cont, disk, labelled, clock, store>>
      /\ saved' = <<>> /\ emptied' \subseteq emptied
  BY DEF Delete
<1> HIDE DEF rec
<1>6. /\ saved' \in Contents(V) /\ store' \in [Stores -> Dir(V)]
      /\ \A s \in Stores : store'[s].there \/ store'[s] = NoDir
  BY <1>5, Nothing DEF Base, Typed
<1>7. Base(V)' /\ Beside({c}, {}) /\ Untouched(V, {}) /\ cmd'[c] = rec
  BY <1>2, <1>3, <1>4, <1>5, <1>6, LightBase
<1> QED
  BY <1>7 DEF rec

LEMMA RemoveVolumesBase ==
  ASSUME NEW V, V = Volume, Base(V), NEW c \in Cmd, RemoveVolumes(c)
  PROVE  /\ Base(V)' /\ Beside({c}, {}) /\ Untouched(V, {})
         /\ cmd'[c].op = "volumes" /\ cmd'[c].pc = "rm"
<1>1. PICK S \in filterSpecificVolumes :
        cmd' = [cmd EXCEPT ![c] = Started("volumes", "rm", S, "current")]
  BY DEF RemoveVolumes
<1> DEFINE rec == Started("volumes", "rm", S, "current")
<1>2. S \subseteq V
  BY ResolvedIs DEF filterSpecificVolumes, Base
<1>3. rec \in CmdRec(V)
  BY <1>2, StartedType DEF Op, Pc, Stores
<1>4. Shaped(rec) /\ rec.op = "volumes" /\ rec.pc = "rm"
  BY DEF Shaped, Started
<1>5. UNCHANGED <<cont, disk, labelled, clock, saved, emptied, store>>
  BY DEF RemoveVolumes
<1> HIDE DEF rec
<1>6. /\ saved' \in Contents(V) /\ store' \in [Stores -> Dir(V)]
      /\ \A s \in Stores : store'[s].there \/ store'[s] = NoDir
  BY <1>5 DEF Base, Typed
<1>7. Base(V)' /\ Beside({c}, {}) /\ Untouched(V, {}) /\ cmd'[c] = rec
  BY <1>1, <1>3, <1>4, <1>5, <1>6, LightBase DEF rec
<1> QED
  BY <1>4, <1>7

LEMMA SameDir ==
  ASSUME NEW V, NEW x \in Dir(V), NEW y \in Dir(V),
         x.there = y.there, x.done = y.done, x.torn = y.torn, x.meta = y.meta, x.arch = y.arch
  PROVE  x = y
BY DEF Dir

LEMMA KillBase ==
  ASSUME NEW V, Base(V), NEW c \in Cmd, Kill(c)
  PROVE  /\ Base(V)' /\ Beside({c}, {}) /\ Untouched(V, {})
         /\ cmd'[c] = Idle
<1> DEFINE old == store[cmd[c].dir]
<1>1. cmd[c] \in CmdRec(V) /\ Shaped(cmd[c]) /\ cmd[c].dir \in Stores
  BY DEF Base, Typed, CmdRec
<1>2. /\ store \in [Stores -> Dir(V)] /\ \A s \in Stores : store[s].there \/ store[s] = NoDir
  BY DEF Base, Typed
<1>3. old \in Dir(V) /\ (old.there \/ old = NoDir)
  BY <1>1, <1>2
<1>4. ASSUME NEW s \in Stores, NEW new \in Dir(V), new.there \/ new = NoDir,
             store' = [store EXCEPT ![s] = new]
      PROVE  /\ store' \in [Stores -> Dir(V)]
             /\ \A t \in Stores : store'[t].there \/ store'[t] = NoDir
  BY <1>2, <1>4
<1>5. /\ store' \in [Stores -> Dir(V)]
      /\ \A s \in Stores : store'[s].there \/ store'[s] = NoDir
  <2>1. CASE UNCHANGED store
    BY <1>2, <2>1
  <2>2. ASSUME cmd[c].pc = "export", old.there, NEW v \in cmd[c].left,
               store' = [store EXCEPT !.current.arch = Put(@, {v}, Torn)]
        PROVE  /\ store' \in [Stores -> Dir(V)]
               /\ \A s \in Stores : store'[s].there \/ store'[s] = NoDir
    <3>1. cmd[c].dir = "current"
      BY <1>1, <2>2 DEF Shaped
    <3>2. Put(old.arch, {v}, Torn) \in Contents(V)
      BY <1>1, <1>3, <2>2, PutType, DataIs DEF Dir, CmdRec
    <3>3. /\ [old EXCEPT !.arch = Put(old.arch, {v}, Torn)] \in Dir(V)
          /\ [old EXCEPT !.arch = Put(old.arch, {v}, Torn)].there
      BY <1>3, <2>2, <3>2 DEF Dir
    <3>4. store' = [store EXCEPT !["current"] = [old EXCEPT !.arch = Put(old.arch, {v}, Torn)]]
      BY <2>2, <3>1
    <3> QED
      BY <1>4, <3>3, <3>4 DEF Stores
  <2>3. ASSUME NEW S \in SUBSET DOMAIN old.arch, NEW keep \in BOOLEAN,
               store' = [store EXCEPT ![cmd[c].dir].arch = Without(@, S),
                           ![cmd[c].dir].done = keep /\ @,
                           ![cmd[c].dir].torn = keep /\ @,
                           ![cmd[c].dir].meta = IF keep THEN @ ELSE {}]
        PROVE  /\ store' \in [Stores -> Dir(V)]
               /\ \A s \in Stores : store'[s].there \/ store'[s] = NoDir
    <3> DEFINE rest == Without(old.arch, S)
               meta == IF keep THEN old.meta ELSE {}
               fin == keep /\ old.done
               cut == keep /\ old.torn
               new == [old EXCEPT !.arch = rest, !.done = fin, !.torn = cut, !.meta = meta]
    <3>1. rest \in Contents(V)
      <4>1. old.arch \in Contents(V)
        BY <1>3 DEF Dir
      <4> QED
        BY <4>1, RestrictType DEF Without
    <3>2. meta \subseteq V
      BY <1>3 DEF Dir
    <3>3. store' = [store EXCEPT ![cmd[c].dir] = new]
      BY <1>1, <1>2, <2>3 DEF Dir
    <3>4. new \in Dir(V) /\ new.there = old.there
      <4> HIDE DEF rest, meta, old
      <4> QED
        BY <1>3, <3>1, <3>2 DEF Dir
    <3>5. old = NoDir => new = NoDir
      <4>1. SUFFICES ASSUME old = NoDir PROVE new = NoDir
        OBVIOUS
      <4>2. rest = <<>>
        BY <4>1 DEF Without, Restrict, NoDir
      <4>3. meta = {} /\ fin = FALSE /\ cut = FALSE
        BY <4>1 DEF NoDir
      <4> HIDE DEF rest, meta, fin, cut, old
      <4>4. /\ new.there = old.there /\ new.done = fin /\ new.torn = cut
            /\ new.meta = meta /\ new.arch = rest
        BY <1>3 DEF Dir
      <4>5. old.there = FALSE
        BY <4>1 DEF NoDir
      <4> HIDE DEF new
      <4>6. /\ new.there = FALSE /\ new.done = FALSE /\ new.torn = FALSE
            /\ new.meta = {} /\ new.arch = <<>>
        BY <4>2, <4>3, <4>4, <4>5
      <4>7. NoDir \in Dir(V)
        BY Nothing DEF NoDir, Dir
      <4> QED
        BY <3>4, <4>6, <4>7, SameDir DEF NoDir
    <3> HIDE DEF new
    <3> QED
      BY <1>1, <1>3, <1>4, <3>3, <3>4, <3>5
  <2>4. CASE cmd[c].pc = "meta" /\ old.there /\ store' = TornMeta
    <3>1. cmd[c].dir = "current"
      BY <1>1, <2>4 DEF Shaped
    <3> QED
      BY <2>4, <3>1, TornIs
  <2> QED
    BY <2>1, <2>2, <2>3, <2>4 DEF Kill
<1>6. UNCHANGED <<cont, disk, labelled, clock, saved, emptied>> /\ cmd' = [cmd EXCEPT ![c] = Idle]
  BY DEF Kill
<1>7. saved' \in Contents(V)
  BY <1>6 DEF Base, Typed
<1> QED
  BY <1>5, <1>6, <1>7, IdleType, LightBase

LEMMA QuiesceStopBase ==
  ASSUME NEW V, Base(V), NEW c \in Cmd, QuiesceStop(c)
  PROVE  Base(V)' /\ Beside({c}, {}) /\ Untouched(V, {})
<1> DEFINE here == {d \in cmd[c].stops : cont[d].st # "none"}
           next == IF cmd[c].op = "create" THEN "export" ELSE "wipe"
           moment == Restrict(disk', cmd[c].vols \cap DOMAIN disk')
           done == [cmd[c] EXCEPT !.pc = next, !.moment = moment]
           failed == [cmd[c] EXCEPT !.pc = "remove", !.ok = FALSE, !.stops = {}]
<1>1. cmd \in [Cmd -> CmdRec(V)] /\ cmd[c] \in CmdRec(V) /\ Shaped(cmd[c]) /\ cmd[c].pc = "stop"
  BY DEF Base, Typed, QuiesceStop
<1>2. here \subseteq Deps
  BY <1>1 DEF CmdRec
<1>3. UNCHANGED <<ws, entry, labelled, store, clock, last, saved, emptied>>
  BY DEF QuiesceStop
<1>4. ASSUME NEW S \in SUBSET here, NEW rec \in CmdRec(V), Shaped(rec),
             cont' = StopContainers(S), disk' = Flushed(S), cmd' = [cmd EXCEPT ![c] = rec]
      PROVE  Base(V)' /\ Beside({c}, {}) /\ Untouched(V, {})
  <2>1. /\ disk' \in Contents(V) /\ DOMAIN disk' = DOMAIN disk
        /\ cont' \in [Deps -> Container(V)]
        /\ \A d \in Deps : cont'[d].st # "none" => cont'[d].vol \in DOMAIN disk'
        /\ Untouched(V, {})
    BY <1>2, <1>4, StopIs DEF Base
  <2>2. /\ cmd' \in [Cmd -> CmdRec(V)] /\ \A k \in Cmd : Shaped(cmd'[k])
        /\ Beside({c}, {})
    BY <1>4, Alone
  <2>3. Typed(V)'
    BY <1>3, <2>1, <2>2 DEF Base, Typed
  <2> QED
    BY <2>1, <2>2, <2>3 DEF Base
<1>5. CASE /\ here = cmd[c].stops
           /\ cont' = StopContainers(here) /\ disk' = Flushed(here)
           /\ cmd' = [cmd EXCEPT ![c].pc = next, ![c].moment = moment]
  <2>1. moment \in Contents(V)
    <3>1. disk' \in Contents(V)
      BY <1>2, <1>5, FlushedIs DEF Base
    <3> QED
      BY <3>1, RestrictType
  <2> HIDE DEF moment
  <2>2. cmd' = [cmd EXCEPT ![c] = done]
    BY <1>1, <1>5 DEF CmdRec
  <2>3. done \in CmdRec(V)
    BY <1>1, <2>1 DEF CmdRec, Pc
  <2>4. Shaped(done)
    BY <1>1 DEF Shaped, CmdRec
  <2> HIDE DEF done
  <2> QED
    BY <1>4, <1>5, <2>2, <2>3, <2>4
<1>6. ASSUME NEW S \in SUBSET here, cont' = StopContainers(S), disk' = Flushed(S),
             cmd' = [cmd EXCEPT ![c] = IF @.op = "create" THEN [@ EXCEPT !.pc = "remove", !.ok = FALSE, !.stops = {}]
                                          ELSE Idle]
      PROVE  Base(V)' /\ Beside({c}, {}) /\ Untouched(V, {})
  <2>1. failed \in CmdRec(V) /\ (cmd[c].op = "create" => Shaped(failed))
    BY <1>1 DEF Shaped, CmdRec, Pc
  <2>2. CASE cmd[c].op = "create"
    <3>1. cmd' = [cmd EXCEPT ![c] = failed]
      BY <1>1, <1>6, <2>2
    <3> QED
      BY <1>4, <1>6, <2>1, <2>2, <3>1
  <2>3. CASE cmd[c].op # "create"
    <3>1. cmd' = [cmd EXCEPT ![c] = Idle]
      BY <1>1, <1>6, <2>3
    <3> QED
      BY <1>4, <1>6, <3>1, IdleType
  <2> QED
    BY <2>2, <2>3
<1> QED
  BY <1>5, <1>6 DEF QuiesceStop

LEMMA ExportBase ==
  ASSUME NEW V, Base(V), NEW c \in Cmd, NEW v, Export(c, v)
  PROVE  /\ Base(V)' /\ Beside({c}, {}) /\ Untouched(V, {})
         /\ cmd'[c] = [cmd[c] EXCEPT !.left = @ \ {v},
                         !.pc = IF cmd[c].left = {v} THEN "meta" ELSE "export"]
         /\ store' = [store EXCEPT !["current"] = [store["current"] EXCEPT
                        !.arch = Put(store["current"].arch, {v}, exportVolume(v)), !.there = TRUE]]
<1> DEFINE pc == IF cmd[c].left = {v} THEN "meta" ELSE "export"
           rec == [cmd[c] EXCEPT !.left = @ \ {v}, !.pc = pc]
           arch == Put(store["current"].arch, {v}, exportVolume(v))
           new == [store["current"] EXCEPT !.arch = arch, !.there = TRUE]
<1>1. /\ cmd \in [Cmd -> CmdRec(V)] /\ cmd[c] \in CmdRec(V) /\ Shaped(cmd[c])
      /\ cmd[c].pc = "export" /\ v \in cmd[c].left
  BY DEF Base, Typed, Export
<1>2. v \in V
  BY <1>1 DEF CmdRec
<1>3. /\ store \in [Stores -> Dir(V)] /\ \A s \in Stores : store[s].there \/ store[s] = NoDir
      /\ disk \in Contents(V) /\ store["current"] \in Dir(V)
  BY DEF Base, Typed, Stores
<1>4. disk' \in Contents(V) /\ DOMAIN disk \subseteq DOMAIN disk'
      /\ \A w \in DOMAIN disk : disk'[w] = disk[w]
  <2>1. CASE v \in DOMAIN disk
    BY <1>3, <2>1 DEF Export
  <2>2. CASE v \notin DOMAIN disk
    <3>1. disk' = Put(disk, {v}, 0)
      BY <2>2 DEF Export
    <3>2. disk' \in Contents(V)
      BY <1>2, <1>3, <3>1, PutType, DataIs
    <3>3. DOMAIN disk' = DOMAIN disk \cup {v}
      BY <3>1, PutDomain
    <3>4. \A w \in DOMAIN disk \ {v} : disk'[w] = disk[w]
      BY <3>1, PutOld
    <3> QED
      BY <2>2, <3>2, <3>3, <3>4
  <2> QED
    BY <2>1, <2>2
<1>5. exportVolume(v) \in Data
  <2>1. \A w \in DOMAIN disk : disk[w] \in Data
    BY <1>3, ContentsIs
  <2> QED
    BY <2>1, DataIs DEF exportVolume
<1>6. arch \in Contents(V)
  BY <1>2, <1>3, <1>5, PutType DEF Dir
<1>7. store' = [store EXCEPT !["current"] = new]
  <2>1. store' = [store EXCEPT !.current.arch = arch, !.current.there = TRUE]
    BY DEF Export
  <2> HIDE DEF arch
  <2> QED
    BY <1>3, <2>1 DEF Dir
<1>8. new \in Dir(V) /\ new.there
  <2> HIDE DEF arch
  <2> QED
    BY <1>3, <1>6 DEF Dir
<1>9. cmd' = [cmd EXCEPT ![c] = rec]
  <2>1. cmd' = [cmd EXCEPT ![c].left = @ \ {v}, ![c].pc = pc]
    BY DEF Export
  <2> HIDE DEF pc
  <2> QED
    BY <1>1, <2>1 DEF CmdRec
<1>10. rec \in CmdRec(V) /\ Shaped(rec)
  <2>1. rec \in CmdRec(V)
    BY <1>1 DEF CmdRec, Pc
  <2>2. /\ rec.left = cmd[c].left \ {v} /\ rec.pc = pc /\ rec.op = cmd[c].op /\ rec.now = cmd[c].now
        /\ rec.vols = cmd[c].vols /\ rec.dir = cmd[c].dir
    BY <1>1 DEF CmdRec
  <2> HIDE DEF rec
  <2> QED
    BY <1>1, <2>1, <2>2 DEF Shaped
<1>11. UNCHANGED <<cont, labelled, clock, saved, emptied>>
  BY DEF Export
<1>12. Untouched(V, {})
  BY <1>4, <1>11 DEF Untouched, Running, Mounting
<1> HIDE DEF rec, new
<1>13. /\ cmd' \in [Cmd -> CmdRec(V)] /\ \A k \in Cmd : Shaped(cmd'[k])
       /\ cmd'[c] = rec /\ Beside({c}, {})
  BY <1>9, <1>10, Alone
<1>14. Typed(V)'
  <2>1. store' \in [Stores -> Dir(V)] /\ \A s \in Stores : store'[s].there \/ store'[s] = NoDir
    BY <1>3, <1>7, <1>8 DEF Stores
  <2> QED
    BY <1>4, <1>11, <1>13, <2>1 DEF Base, Typed
<1> QED
  BY <1>7, <1>12, <1>13, <1>14 DEF Base, rec, new

LEMMA ResumeBase ==
  ASSUME NEW V, Base(V), NEW c \in Cmd,
         NEW S \in SUBSET {d \in cmd[c].stops : cont[d].st = "stopped"},
         cont' = [d \in Deps |->
                    IF d \in S THEN [cont[d] EXCEPT !.st = "running", !.mem = disk[cont[d].vol]]
                    ELSE cont[d]],
         cmd' = [Disturbed({c}, {cont[d].vol : d \in S}) EXCEPT ![c] = Idle],
         UNCHANGED <<disk, labelled, store, clock, saved, emptied>>
  PROVE  /\ Base(V)' /\ Beside({c}, {cont[d].vol : d \in S})
         /\ Untouched(V, {cont[d].vol : d \in S}) /\ cmd'[c] = Idle
<1> DEFINE vols == {cont[d].vol : d \in S}
<1>1. \A d \in Deps : cont[d] \in Container(V) /\ (cont[d].st # "none" => cont[d].vol \in DOMAIN disk)
  BY DEF Base, Typed
<1>2. \A w \in DOMAIN disk : disk[w] \in Data
  BY ContentsIs DEF Base, Typed
<1>3. ASSUME NEW d \in Deps
      PROVE  /\ cont'[d] \in Container(V) /\ cont'[d].vol = cont[d].vol
             /\ cont'[d].st = IF d \in S THEN "running" ELSE cont[d].st
             /\ cont'[d].st # "none" => cont[d].st # "none"
  <2>1. CASE d \in S
    <3>1. cont'[d] = [cont[d] EXCEPT !.st = "running", !.mem = disk[cont[d].vol]]
      BY <2>1
    <3>2. disk[cont[d].vol] \in Data /\ cont[d].st # "none"
      BY <1>1, <1>2, <2>1
    <3> QED
      BY <1>1, <2>1, <3>1, <3>2 DEF Container
  <2>2. CASE d \notin S
    BY <1>1, <2>2
  <2> QED
    BY <2>1, <2>2
<1>4. cont' \in [Deps -> Container(V)]
  BY <1>3
<1>5. /\ cmd' \in [Cmd -> CmdRec(V)] /\ \A k \in Cmd : Shaped(cmd'[k])
      /\ cmd'[c] = Idle /\ Beside({c}, vols)
  BY IdleType, OwnCmd
<1>6. Untouched(V, vols)
  <2>1. ASSUME NEW v \in V \ vols, NEW d \in Running(v)' PROVE d \in Running(v)
    <3>1. d \in Deps /\ cont'[d].st = "running" /\ cont'[d].vol = v
      BY <2>1 DEF Running, Mounting
    <3>2. cont[d].vol = v /\ d \notin S
      BY <1>3, <2>1, <3>1
    <3>3. cont[d].st = "running"
      BY <1>3, <3>1, <3>2
    <3> QED
      BY <3>1, <3>2, <3>3 DEF Running, Mounting
  <2> QED
    BY <2>1 DEF Untouched
<1>7. Typed(V)'
  BY <1>1, <1>3, <1>4, <1>5 DEF Base, Typed
<1> QED
  BY <1>5, <1>6, <1>7 DEF Base

LEMMA WipeBase ==
  ASSUME NEW V, Base(V), NEW c \in Cmd, NEW v, Wipe(c, v)
  PROVE  /\ Base(V)' /\ Beside({c}, {v}) /\ Untouched(V, {v})
         /\ cmd'[c] = [cmd[c] EXCEPT !.pc = "untar", !.left = @ \ {v}, !.now = {v}]
<1> DEFINE rec == [cmd[c] EXCEPT !.pc = "untar", !.left = @ \ {v}, !.now = {v}]
<1>1. /\ cmd \in [Cmd -> CmdRec(V)] /\ cmd[c] \in CmdRec(V) /\ Shaped(cmd[c])
      /\ cmd[c].pc = "wipe" /\ v \in cmd[c].left
  BY DEF Base, Typed, Wipe
<1>2. v \in V
  BY <1>1 DEF CmdRec
<1>3. rec \in CmdRec(V) /\ Shaped(rec)
  <2>1. rec \in CmdRec(V)
    BY <1>1 DEF CmdRec, Pc
  <2>2. /\ rec.left = cmd[c].left \ {v} /\ rec.pc = "untar" /\ rec.op = cmd[c].op /\ rec.now = {v}
        /\ rec.vols = cmd[c].vols /\ rec.dir = cmd[c].dir
    BY <1>1 DEF CmdRec
  <2> HIDE DEF rec
  <2> QED
    BY <1>1, <2>1, <2>2 DEF Shaped
<1>4. cmd' = [Disturbed({c}, {v}) EXCEPT ![c] = rec]
  <2>1. /\ Disturbed({c}, {v}) \in [Cmd -> CmdRec(V)] /\ Disturbed({c}, {v})[c] = cmd[c]
    BY <1>1, DisturbedIs
  <2>2. cmd' = [Disturbed({c}, {v}) EXCEPT ![c].pc = "untar", ![c].left = @ \ {v}, ![c].now = {v}]
    BY DEF Wipe
  <2> QED
    BY <2>1, <2>2 DEF CmdRec
<1> HIDE DEF rec
<1>5. /\ cmd' \in [Cmd -> CmdRec(V)] /\ \A k \in Cmd : Shaped(cmd'[k])
      /\ cmd'[c] = rec /\ Beside({c}, {v})
  BY <1>3, <1>4, OwnCmd
<1>6. disk' = Put(disk, {v}, 0) /\ emptied' = emptied \cup {v}
      /\ UNCHANGED <<cont, labelled, store, clock, saved>>
  BY DEF Wipe
<1>7. disk' \in Contents(V) /\ DOMAIN disk' = DOMAIN disk \cup {v}
      /\ \A w \in DOMAIN disk \ {v} : disk'[w] = disk[w]
  <2>1. disk \in Contents(V) /\ 0 \in Data
    BY DataIs DEF Base, Typed
  <2>2. disk' \in Contents(V)
    BY <1>2, <1>6, <2>1, PutType
  <2>3. DOMAIN disk' = DOMAIN disk \cup {v}
    BY <1>6, PutDomain
  <2>4. \A w \in DOMAIN disk \ {v} : disk'[w] = disk[w]
    BY <1>6, PutOld
  <2> QED
    BY <2>2, <2>3, <2>4
<1>8. Untouched(V, {v})
  BY <1>6, <1>7 DEF Untouched, Running, Mounting
<1>9. Typed(V)'
  BY <1>5, <1>6, <1>7 DEF Base, Typed
<1> QED
  BY <1>5, <1>8, <1>9 DEF Base, rec

LEMMA UntarBase ==
  ASSUME NEW V, Base(V), NEW c \in Cmd, Untar(c)
  PROVE  /\ Base(V)'
         /\ \/ \E v \in V :
                 /\ cmd[c].now = {v} /\ v \in DOMAIN store[cmd[c].dir].arch
                 /\ disk' = Put(disk, {v}, store[cmd[c].dir].arch[v])
                 /\ Beside({c}, {v}) /\ Untouched(V, {v})
                 /\ cmd'[c] = [cmd[c] EXCEPT
                      !.moment = Put(@, {v}, store[cmd[c].dir].arch[v]), !.now = {},
                      !.pc = IF cmd[c].left = {} THEN "resume" ELSE "wipe"]
                 /\ emptied' = emptied \ {v}
            \/ /\ Beside({c}, {}) /\ Untouched(V, {}) /\ UNCHANGED <<disk, emptied>>
               /\ cmd'[c] = [cmd[c] EXCEPT !.pc = "resume", !.ok = FALSE]
<1> DEFINE arch == store[cmd[c].dir].arch
<1>1. /\ cmd \in [Cmd -> CmdRec(V)] /\ cmd[c] \in CmdRec(V) /\ Shaped(cmd[c])
      /\ cmd[c].pc = "untar"
  BY DEF Base, Typed, Untar
<1>2. PICK v \in cmd[c].vols : cmd[c].now = {v}
  BY <1>1 DEF Shaped
<1>3. v \in V /\ v = CHOOSE x \in cmd[c].now : TRUE
  BY <1>1, <1>2 DEF CmdRec
<1>4. arch \in Contents(V) /\ disk \in Contents(V) /\ cmd[c].moment \in Contents(V)
  BY <1>1 DEF Base, Typed, CmdRec, Dir
<1>5. UNCHANGED <<cont, labelled, store, clock, saved>>
  BY DEF Untar
<1>6. CASE /\ v \in DOMAIN arch
           /\ disk' = Put(disk, {v}, arch[v])
           /\ cmd' = [Disturbed({c}, {v}) EXCEPT ![c].moment = Put(@, {v}, arch[v]),
                        ![c].now = {}, ![c].pc = IF cmd[c].left = {} THEN "resume" ELSE "wipe"]
           /\ emptied' = emptied \ {v}
  <2> DEFINE pc == IF cmd[c].left = {} THEN "resume" ELSE "wipe"
             moment == Put(cmd[c].moment, {v}, arch[v])
             rec == [cmd[c] EXCEPT !.moment = moment, !.now = {}, !.pc = pc]
  <2>1. arch[v] \in Data
    <3>1. PICK f : f = arch
      OBVIOUS
    <3>2. f \in Contents(V) /\ v \in DOMAIN f
      BY <1>4, <1>6, <3>1
    <3>3. f \in [DOMAIN f -> Data]
      BY <3>2, ContentsIs
    <3> QED
      BY <3>1, <3>2, <3>3
  <2>2. moment \in Contents(V)
    BY <1>3, <1>4, <2>1, PutType
  <2>3. disk' \in Contents(V)
    BY <1>3, <1>4, <1>6, <2>1, PutType
  <2>4. DOMAIN disk' = DOMAIN disk \cup {v}
    BY <1>6, PutDomain
  <2>5. \A w \in DOMAIN disk \ {v} : disk'[w] = disk[w]
    BY <1>6, PutOld
  <2>6. cmd' = [Disturbed({c}, {v}) EXCEPT ![c] = rec]
    <3>1. Disturbed({c}, {v}) \in [Cmd -> CmdRec(V)] /\ Disturbed({c}, {v})[c] = cmd[c]
      BY <1>1, DisturbedIs
    <3>2. cmd' = [Disturbed({c}, {v}) EXCEPT ![c].moment = moment, ![c].now = {}, ![c].pc = pc]
      BY <1>6, <3>1
    <3> HIDE DEF moment, pc
    <3> QED
      BY <3>1, <3>2 DEF CmdRec
  <2>7. rec \in CmdRec(V) /\ Shaped(rec)
    <3>1. pc \in {"resume", "wipe"}
      OBVIOUS
    <3> HIDE DEF moment, pc
    <3>2. rec \in CmdRec(V)
      BY <1>1, <2>2, <3>1 DEF CmdRec, Pc
    <3>3. /\ rec.left = cmd[c].left /\ rec.pc = pc /\ rec.op = cmd[c].op /\ rec.now = {}
          /\ rec.vols = cmd[c].vols /\ rec.dir = cmd[c].dir
      BY <1>1 DEF CmdRec
    <3> HIDE DEF rec
    <3> QED
      BY <1>1, <3>1, <3>2, <3>3 DEF Shaped
  <2> HIDE DEF rec
  <2>8. /\ cmd' \in [Cmd -> CmdRec(V)] /\ \A k \in Cmd : Shaped(cmd'[k])
        /\ cmd'[c] = rec /\ Beside({c}, {v})
    BY <2>6, <2>7, OwnCmd
  <2>9. Untouched(V, {v})
    BY <1>5, <2>4, <2>5 DEF Untouched, Running, Mounting
  <2>10. Typed(V)'
    BY <1>5, <1>6, <2>3, <2>4, <2>8 DEF Base, Typed
  <2> QED
    BY <1>2, <1>3, <1>6, <2>8, <2>9, <2>10 DEF Base, rec
<1>7. CASE Fail(c, "resume") /\ UNCHANGED <<disk, emptied>>
  <2> DEFINE rec == [cmd[c] EXCEPT !.pc = "resume", !.ok = FALSE]
  <2>1. cmd' = [cmd EXCEPT ![c] = rec]
    BY <1>7, FailIs
  <2>2. rec \in CmdRec(V) /\ Shaped(rec)
    BY <1>1 DEF CmdRec, Pc, Shaped
  <2>3. /\ saved' \in Contents(V) /\ store' \in [Stores -> Dir(V)]
        /\ \A s \in Stores : store'[s].there \/ store'[s] = NoDir
    BY <1>5 DEF Base, Typed
  <2> HIDE DEF rec
  <2>4. Base(V)' /\ Beside({c}, {}) /\ Untouched(V, {}) /\ cmd'[c] = rec
    BY <1>5, <1>7, <2>1, <2>2, <2>3, LightBase
  <2> QED
    BY <1>7, <2>4 DEF rec
<1> QED
  BY <1>3, <1>6, <1>7 DEF Untar

\* What stays when the volumes of gone, which nothing mounts, are removed.
LEMMA GoneIs ==
  ASSUME NEW V, Base(V), NEW gone, \A v \in gone : Mounting(v) = {},
         disk' = Without(disk, gone), UNCHANGED cont
  PROVE  /\ disk' \in Contents(V) /\ DOMAIN disk' = DOMAIN disk \ gone
         /\ \A d \in Deps : cont'[d].st # "none" => cont'[d].vol \in DOMAIN disk'
         /\ Untouched(V, gone)
<1>1. disk \in Contents(V)
  BY DEF Base, Typed
<1>2. disk' = Restrict(disk, DOMAIN disk \ gone)
  BY DEF Without
<1>3. disk' \in Contents(V)
  BY <1>1, <1>2, RestrictType
<1>4. DOMAIN disk' = DOMAIN disk \ gone
  BY <1>2, RestrictOver
<1>5. \A w \in DOMAIN disk \ gone : disk'[w] = disk[w]
  BY <1>2, RestrictAt
<1>6. ASSUME NEW d \in Deps, cont[d].st # "none" PROVE cont[d].vol \in DOMAIN disk'
  <2>1. d \in Mounting(cont[d].vol)
    BY <1>6 DEF Mounting
  <2> QED
    BY <1>4, <1>6, <2>1 DEF Base, Typed
<1>7. Untouched(V, gone)
  BY <1>4, <1>5 DEF Untouched, Running, Mounting
<1> QED
  BY <1>3, <1>4, <1>6, <1>7

LEMMA RemoveVolumeBase ==
  ASSUME NEW V, Base(V), NEW c \in Cmd, NEW v, RemoveVolume(c, v)
  PROVE  /\ Base(V)' /\ Beside({c}, RemoveVolumeWithContext(v))
         /\ Untouched(V, RemoveVolumeWithContext(v))
         /\ cmd'[c] \in {Idle, [cmd[c] EXCEPT !.left = cmd[c].left \ {v}]}
<1> DEFINE gone == RemoveVolumeWithContext(v)
           fewer == cmd[c].left \ {v}
           less == [cmd[c] EXCEPT !.left = fewer]
           rec == IF fewer = {} THEN Idle ELSE less
<1>1. cmd \in [Cmd -> CmdRec(V)] /\ cmd[c] \in CmdRec(V) /\ Shaped(cmd[c]) /\ cmd[c].pc = "rm"
  BY DEF Base, Typed, RemoveVolume
<1>2. /\ disk' = Without(disk, gone) /\ labelled' = labelled \ gone /\ emptied' = emptied \ gone
      /\ UNCHANGED <<cont, store, clock, saved>>
  BY DEF RemoveVolume
<1>3. \A w \in gone : Mounting(w) = {}
  BY DEF RemoveVolumeWithContext
<1> HIDE DEF gone
<1>4. cmd' = [Disturbed({c}, gone) EXCEPT ![c] = rec]
  <2>1. Disturbed({c}, gone) \in [Cmd -> CmdRec(V)] /\ Disturbed({c}, gone)[c] = cmd[c]
    BY <1>1, DisturbedIs
  <2>2. cmd' = [Disturbed({c}, gone) EXCEPT
                  ![c] = IF fewer = {} THEN Idle ELSE [@ EXCEPT !.left = fewer]]
    BY DEF RemoveVolume, gone
  <2> HIDE DEF fewer
  <2> QED
    BY <2>1, <2>2
<1>5. rec \in CmdRec(V) /\ Shaped(rec)
  <2>1. less \in CmdRec(V)
    BY <1>1 DEF CmdRec
  <2>2. /\ less.op = cmd[c].op /\ less.pc = cmd[c].pc /\ less.vols = cmd[c].vols
        /\ less.left \subseteq cmd[c].left /\ less.now = cmd[c].now
    BY <1>1 DEF CmdRec
  <2> HIDE DEF less
  <2>3. Shaped(less)
    BY <1>1, <2>2 DEF Shaped
  <2> QED
    BY <2>1, <2>3, IdleType
<1>6. rec \in {Idle, less}
  OBVIOUS
<1> HIDE DEF rec, less
<1>7. /\ cmd' \in [Cmd -> CmdRec(V)] /\ \A k \in Cmd : Shaped(cmd'[k])
      /\ cmd'[c] = rec /\ Beside({c}, gone)
  BY <1>4, <1>5, OwnCmd
<1>8. /\ disk' \in Contents(V) /\ DOMAIN disk' = DOMAIN disk \ gone
      /\ \A d \in Deps : cont'[d].st # "none" => cont'[d].vol \in DOMAIN disk'
      /\ Untouched(V, gone)
  BY <1>2, <1>3, GoneIs
<1>9. Typed(V)'
  BY <1>2, <1>7, <1>8 DEF Base, Typed
<1> QED
  BY <1>6, <1>7, <1>8, <1>9 DEF Base, gone, less

LEMMA CleanVolumesBase ==
  ASSUME NEW V, Base(V), NEW c \in Cmd, CleanVolumes(c)
  PROVE  Base(V)' /\ cmd'[c] = cmd[c] /\ cmd[c].pc = "idle"
         /\ \E gone : Beside({c}, gone) /\ Untouched(V, gone) /\ emptied' = emptied \ gone
<1>1. PICK all \in BOOLEAN :
        LET gone == CleanUnusedVolumes(all) IN
        /\ disk' = Without(disk, gone) /\ labelled' = labelled \ gone
        /\ emptied' = emptied \ gone
        /\ cmd' = Disturbed({c}, gone)
  BY DEF CleanVolumes
<1> DEFINE gone == CleanUnusedVolumes(all)
<1>2. \A w \in gone : Mounting(w) = {}
  BY DEF CleanUnusedVolumes
<1>3. /\ disk' = Without(disk, gone) /\ labelled' = labelled \ gone
      /\ emptied' = emptied \ gone /\ cmd' = Disturbed({c}, gone)
  BY <1>1
<1> HIDE DEF gone
<1>4. /\ cmd \in [Cmd -> CmdRec(V)] /\ cmd[c] \in CmdRec(V) /\ Shaped(cmd[c])
      /\ cmd[c].pc = "idle"
  BY DEF Base, Typed, CleanVolumes, Begin
<1>5. cmd' = [Disturbed({c}, gone) EXCEPT ![c] = cmd[c]]
  <2>1. Disturbed({c}, gone) \in [Cmd -> CmdRec(V)] /\ Disturbed({c}, gone)[c] = cmd[c]
    BY <1>4, DisturbedIs
  <2> QED
    BY <1>3, <2>1
<1>6. /\ cmd' \in [Cmd -> CmdRec(V)] /\ \A k \in Cmd : Shaped(cmd'[k])
      /\ cmd'[c] = cmd[c] /\ Beside({c}, gone)
  BY <1>4, <1>5, OwnCmd
<1>7. UNCHANGED <<cont, store, clock, saved>>
  BY DEF CleanVolumes
<1>8. /\ disk' \in Contents(V) /\ DOMAIN disk' = DOMAIN disk \ gone
      /\ \A d \in Deps : cont'[d].st # "none" => cont'[d].vol \in DOMAIN disk'
      /\ Untouched(V, gone)
  BY <1>2, <1>3, <1>7, GoneIs
<1>9. Typed(V)'
  BY <1>3, <1>6, <1>7, <1>8 DEF Base, Typed
<1> QED
  BY <1>3, <1>4, <1>6, <1>8, <1>9 DEF Base

LEMMA StartDepBase ==
  ASSUME NEW V, V = Volume, Base(V), NEW p \in Projects, NEW d \in Deps, StartDep(p, d)
  PROVE  /\ Base(V)' /\ Beside({}, {composeVolume(p, d)}) /\ Untouched(V, {composeVolume(p, d)})
         /\ \A e \in Deps \ {d} : cont'[e] = cont[e]
         /\ cont'[d].st = "running" /\ cont'[d].vol = composeVolume(p, d)
<1> DEFINE v == composeVolume(p, d)
           d1 == IF v \in DOMAIN disk THEN disk ELSE Put(disk, {v}, 0)
           new == [st |-> "running", vol |-> v, mem |-> d1[v]]
<1>1. d \in NamedDeps /\ v \in V
  BY NamesIn DEF StartDep
<1>2. /\ disk \in Contents(V) /\ cmd \in [Cmd -> CmdRec(V)] /\ \A k \in Cmd : Shaped(cmd[k])
      /\ cont \in [Deps -> Container(V)]
  BY DEF Base, Typed
<1>3. /\ disk' = d1 /\ labelled' \subseteq labelled \cup {v}
      /\ cont' = [cont EXCEPT ![d] = new] /\ cmd' = Disturbed({}, {v})
      /\ UNCHANGED <<store, clock, saved, emptied>>
  BY DEF StartDep, declareTopLevelVolumes
<1> HIDE DEF v
<1>4. d1 \in Contents(V)
  BY <1>1, <1>2, PutType, DataIs
<1>5. DOMAIN d1 = DOMAIN disk \cup {v}
  <2>1. DOMAIN Put(disk, {v}, 0) = DOMAIN disk \cup {v}
    BY PutDomain
  <2> QED
    BY <2>1
<1>6. \A w \in DOMAIN disk \ {v} : d1[w] = disk[w]
  <2>1. \A w \in DOMAIN disk \ {v} : Put(disk, {v}, 0)[w] = disk[w]
    BY PutOld
  <2> QED
    BY <2>1
<1> HIDE DEF d1
<1>7. new \in Container(V)
  <2>1. d1[v] \in Data
    BY <1>4, <1>5, ContentsIs
  <2> QED
    BY <1>1, <2>1 DEF Container
<1>8. new.st = "running" /\ new.vol = v
  OBVIOUS
<1> HIDE DEF new
<1>9. /\ cont' \in [Deps -> Container(V)] /\ cont'[d] = new
      /\ \A e \in Deps \ {d} : cont'[e] = cont[e]
  BY <1>2, <1>3, <1>7
<1>10. \A e \in Deps : cont'[e].st # "none" => cont'[e].vol \in DOMAIN disk'
  BY <1>3, <1>5, <1>8, <1>9 DEF Base, Typed
<1>11. Untouched(V, {v})
  <2>1. ASSUME NEW w \in V \ {v} PROVE Running(w)' \subseteq Running(w)
    BY <1>8, <1>9 DEF Running, Mounting
  <2> QED
    BY <1>3, <1>5, <1>6, <2>1 DEF Untouched
<1>12. cmd' \in [Cmd -> CmdRec(V)] /\ Beside({}, {v}) /\ \A k \in Cmd : Shaped(cmd'[k])
  <2>1. /\ cmd' \in [Cmd -> CmdRec(V)]
        /\ \A k \in Cmd : \/ cmd'[k] = cmd[k]
                             /\ (k \in {} \/ cmd[k].pc = "idle" \/ cmd[k].vols \cap {v} = {})
                          \/ cmd'[k] = [cmd[k] EXCEPT !.calm = FALSE]
    BY <1>2, <1>3, DisturbedIs
  <2>2. Beside({}, {v})
    BY <2>1 DEF Beside
  <2>3. ASSUME NEW k \in Cmd PROVE Shaped([cmd[k] EXCEPT !.calm = FALSE])
    <3>1. Shaped(cmd[k]) /\ cmd[k] \in CmdRec(V)
      BY <1>2
    <3> QED
      BY <3>1 DEF Shaped, CmdRec
  <2> QED
    BY <1>2, <2>1, <2>2, <2>3
<1>13. Typed(V)'
  BY <1>3, <1>4, <1>5, <1>9, <1>10, <1>12 DEF Base, Typed
<1> QED
  BY <1>8, <1>9, <1>11, <1>12, <1>13 DEF Base, v

LEMMA RemoveDepBase ==
  ASSUME NEW V, Base(V), NEW d \in Deps, RemoveDep(d)
  PROVE  /\ Base(V)' /\ Beside({}, {}) /\ Untouched(V, {})
         /\ cont'[d].st = "none" /\ \A e \in Deps \ {d} : cont'[e] = cont[e]
<1>1. /\ disk' = Flushed({d}) /\ cont' = [cont EXCEPT ![d] = NoContainer]
      /\ UNCHANGED <<labelled, store, cmd, clock, saved, emptied>>
  BY DEF RemoveDep
<1>2. /\ disk' \in Contents(V) /\ DOMAIN disk' = DOMAIN disk
      /\ \A v \in DOMAIN disk : Running(v) \cap {d} = {} => disk'[v] = disk[v]
  BY <1>1, FlushedIs DEF Base
<1>3. NoContainer \in Container(V) /\ NoContainer.st = "none"
  BY DataIs DEF NoContainer, Container
<1>4. /\ cont' \in [Deps -> Container(V)] /\ cont'[d] = NoContainer
      /\ \A e \in Deps \ {d} : cont'[e] = cont[e]
  BY <1>1, <1>3 DEF Base, Typed
<1>5. Untouched(V, {})
  <2>1. ASSUME NEW v \in V PROVE Running(v)' \subseteq Running(v)
    BY <1>3, <1>4 DEF Running, Mounting
  <2> QED
    BY <1>2, <2>1 DEF Untouched
<1>6. Beside({}, {}) /\ \A k \in Cmd : Shaped(cmd'[k])
  BY <1>1 DEF Beside, Base
<1>7. Typed(V)'
  BY <1>1, <1>2, <1>3, <1>4 DEF Base, Typed
<1> QED
  BY <1>3, <1>4, <1>5, <1>6, <1>7 DEF Base

LEMMA WriteBase ==
  ASSUME NEW V, Base(V), NEW d \in Deps, Write(d)
  PROVE  /\ Base(V)' /\ Beside({}, {}) /\ Untouched(V, {})
         /\ \A e \in Deps : cont'[e].st = cont[e].st /\ cont'[e].vol = cont[e].vol
<1>1. /\ cont \in [Deps -> Container(V)] /\ clock \in 0..MaxWrites
  BY DEF Base, Typed
<1>2. /\ clock < MaxWrites /\ clock' = clock + 1 /\ cont' = [cont EXCEPT ![d].mem = clock']
      /\ UNCHANGED <<disk, labelled, store, cmd, saved>> /\ emptied' \subseteq emptied
  BY DEF Write
<1>3. clock' \in 0..MaxWrites /\ clock' \in Data
  BY <1>1, <1>2, DataIs, BoundsAssumption
<1>4. [cont[d] EXCEPT !.mem = clock'] \in Container(V)
  BY <1>1, <1>3 DEF Container
<1>5. /\ cont' \in [Deps -> Container(V)]
      /\ \A e \in Deps : cont'[e].st = cont[e].st /\ cont'[e].vol = cont[e].vol
  BY <1>1, <1>2, <1>4 DEF Container
<1>6. Untouched(V, {})
  BY <1>2, <1>5 DEF Untouched, Running, Mounting
<1>7. Beside({}, {}) /\ \A k \in Cmd : Shaped(cmd'[k])
  BY <1>2 DEF Beside, Base
<1>8. Typed(V)'
  BY <1>2, <1>3, <1>5 DEF Base, Typed
<1> QED
  BY <1>5, <1>6, <1>7, <1>8 DEF Base

-----------------------------------------------------------------------------
(* Engines that stand still: what a command knows of the volumes it is about *)
(* while nobody disturbs it.                                               *)

Still(k) == k.pc \in {"export", "meta", "wipe", "untar"} \/ (k.pc = "resume" /\ k.ok)

\* The running containers are those it will stop, and from there on there are none.
Quiet(k) == k.calm /\ k.op \in {"create", "restore"} =>
  /\ k.pc = "stop" => \A v \in k.vols : Running(v) \subseteq k.stops
  /\ Still(k) => \A v \in k.vols : Running(v) = {}

\* A create copies what the volumes held when the containers had stopped.
CopyTrue(k) == k.calm /\ k.op = "create" =>
  /\ k.pc \in {"list", "stop"} => k.vols \subseteq DOMAIN disk
  /\ k.pc \in {"export", "meta"} =>
       \A v \in k.vols : v \in DOMAIN disk /\ v \in DOMAIN k.moment /\ k.moment[v] = disk[v]

\* What a restore has filled stays as it filled it.
FillTrue(k) == k.calm /\ k.op = "restore" =>
  /\ k.pc \in {"wipe", "untar"} =>
       \A v \in k.vols \ (k.left \cup k.now) :
          v \in DOMAIN disk /\ v \in DOMAIN k.moment /\ k.moment[v] = disk[v]
  /\ k.pc = "resume" /\ k.ok =>
       \A v \in k.vols : v \in DOMAIN disk /\ v \in DOMAIN k.moment /\ k.moment[v] = disk[v]

Calm(k) == Quiet(k) /\ CopyTrue(k) /\ FillTrue(k)

LEMMA Indifferent ==
  ASSUME NEW k \in Cmd,
         \/ cmd'[k].op \notin {"create", "restore"} \/ ~cmd'[k].calm
         \/ cmd'[k].pc \in {"idle", "remove"} \/ (cmd'[k].pc = "resume" /\ ~cmd'[k].ok)
         \/ cmd'[k].op = "restore" /\ cmd'[k].pc = "list"
  PROVE  Calm(cmd[k])'
BY DEF Calm, Quiet, CopyTrue, FillTrue, Still

\* What happens to others' volumes does not concern a command.
LEMMA OthersCalm ==
  ASSUME NEW V, Base(V), \A k \in Cmd : Calm(cmd[k]), NEW C, NEW S,
         Beside(C, S), Untouched(V, S)
  PROVE  \A k \in Cmd \ C : Calm(cmd[k])'
<1> SUFFICES ASSUME NEW k \in Cmd \ C PROVE Calm(cmd[k])'
  OBVIOUS
<1>1. /\ cmd[k] \in CmdRec(V) /\ Shaped(cmd[k]) /\ Calm(cmd[k])
  BY DEF Base, Typed
<1>2. CASE cmd'[k] = [cmd[k] EXCEPT !.calm = FALSE]
  <2>1. ~cmd'[k].calm
    BY <1>1, <1>2 DEF CmdRec
  <2> QED
    BY <2>1, Indifferent
<1>3. CASE cmd'[k] = cmd[k] /\ cmd[k].pc = "idle"
  BY <1>3, Indifferent
<1>4. CASE cmd'[k] = cmd[k] /\ cmd[k].vols \cap S = {}
  <2> DEFINE W == cmd[k].vols
  <2>1. W \subseteq V \ S
    BY <1>1, <1>4 DEF CmdRec
  <2>2. \A v \in W : v \in DOMAIN disk => v \in DOMAIN disk'
    BY <2>1 DEF Untouched
  <2>3. \A v \in W : v \in DOMAIN disk /\ Running(v) = {} => disk'[v] = disk[v]
    BY <2>1 DEF Untouched
  <2>4. \A v \in W : Running(v)' \subseteq Running(v)
    BY <2>1 DEF Untouched
  <2> HIDE DEF W
  <2>5. Quiet(cmd[k])'
    <3>1. cmd[k].calm /\ cmd[k].op \in {"create", "restore"} /\ cmd[k].pc = "stop" =>
            \A v \in W : Running(v) \subseteq cmd[k].stops
      BY <1>1 DEF Calm, Quiet, W
    <3>2. cmd[k].calm /\ cmd[k].op \in {"create", "restore"} /\ cmd[k].pc = "stop" =>
            \A v \in W : Running(v)' \subseteq cmd[k].stops
      BY <2>4, <3>1
    <3>3. cmd[k].calm /\ cmd[k].op \in {"create", "restore"} /\ Still(cmd[k]) =>
            \A v \in W : Running(v)' = {}
      <4>1. cmd[k].calm /\ cmd[k].op \in {"create", "restore"} /\ Still(cmd[k]) =>
              \A v \in W : Running(v) = {}
        BY <1>1 DEF Calm, Quiet, W
      <4> QED
        BY <2>4, <4>1
    <3> QED
      BY <1>4, <3>2, <3>3 DEF Quiet, Still, W
  <2>6. ASSUME cmd[k].calm, cmd[k].op \in {"create", "restore"}, Still(cmd[k])
        PROVE  \A v \in W : v \in DOMAIN disk => disk'[v] = disk[v]
    <3>1. \A v \in W : Running(v) = {}
      BY <1>1, <2>6 DEF Calm, Quiet, W
    <3> QED
      BY <2>3, <3>1
  <2>7. CopyTrue(cmd[k])'
    <3>1. SUFFICES ASSUME cmd[k].calm, cmd[k].op = "create" PROVE CopyTrue(cmd[k])'
      BY <1>4 DEF CopyTrue
    <3>2. CASE cmd[k].pc \in {"list", "stop"}
      <4>1. W \subseteq DOMAIN disk
        BY <1>1, <3>1, <3>2 DEF Calm, CopyTrue, W
      <4>2. W \subseteq DOMAIN disk'
        BY <2>2, <4>1
      <4> QED
        BY <1>4, <3>2, <4>2 DEF CopyTrue, W
    <3>3. CASE cmd[k].pc \in {"export", "meta"}
      <4>1. \A v \in W : v \in DOMAIN disk /\ v \in DOMAIN cmd[k].moment /\ cmd[k].moment[v] = disk[v]
        BY <1>1, <3>1, <3>3 DEF Calm, CopyTrue, W
      <4>2. \A v \in W : v \in DOMAIN disk' /\ v \in DOMAIN cmd[k].moment /\ cmd[k].moment[v] = disk'[v]
        BY <2>2, <2>6, <3>1, <3>3, <4>1 DEF Still
      <4> QED
        BY <1>4, <3>3, <4>2 DEF CopyTrue, W
    <3> QED
      BY <1>4, <3>2, <3>3 DEF CopyTrue
  <2>8. FillTrue(cmd[k])'
    <3>1. SUFFICES ASSUME cmd[k].calm, cmd[k].op = "restore" PROVE FillTrue(cmd[k])'
      BY <1>4 DEF FillTrue
    <3> DEFINE X == IF cmd[k].pc = "resume" THEN W ELSE W \ (cmd[k].left \cup cmd[k].now)
    <3>2. CASE cmd[k].pc \in {"wipe", "untar"} \/ (cmd[k].pc = "resume" /\ cmd[k].ok)
      <4>1. \A v \in X : v \in DOMAIN disk /\ v \in DOMAIN cmd[k].moment /\ cmd[k].moment[v] = disk[v]
        BY <1>1, <3>1, <3>2 DEF Calm, FillTrue, W
      <4>2. X \subseteq W
        OBVIOUS
      <4>3. \A v \in X : v \in DOMAIN disk' /\ v \in DOMAIN cmd[k].moment /\ cmd[k].moment[v] = disk'[v]
        <5> HIDE DEF X
        <5> QED
          BY <2>2, <2>6, <3>1, <3>2, <4>1, <4>2 DEF Still
      <4> QED
        BY <1>4, <3>2, <4>3 DEF FillTrue, W
    <3> QED
      BY <1>4, <3>2 DEF FillTrue
  <2> QED
    BY <2>5, <2>7, <2>8 DEF Calm
<1> QED
  BY <1>2, <1>3, <1>4 DEF Beside

LEMMA CreateCalm ==
  ASSUME NEW V, V = Volume, Base(V), NEW c \in Cmd, Create(c)
  PROVE  Calm(cmd[c])'
<1>1. PICK S \in collectInfraVolumes :
        LET found == ResolvedVolumes(S)
            vols == {f.name : f \in found} IN
        /\ CreateAccepts(found)
        /\ cmd' = [cmd EXCEPT ![c] = Started("create", "list", vols, "current")]
  BY DEF Create
<1> DEFINE vols == {f.name : f \in ResolvedVolumes(S)}
<1>2. \A f \in ResolvedVolumes(S) : f.name \in DOMAIN disk
  BY <1>1, ResolvedIs DEF CreateAccepts, Base
<1>3. vols \subseteq DOMAIN disk
  BY <1>2
<1>4. cmd'[c] = Started("create", "list", vols, "current")
  BY <1>1 DEF Base, Typed
<1> HIDE DEF vols
<1>5. cmd'[c].op = "create" /\ cmd'[c].pc = "list" /\ cmd'[c].vols = vols
  BY <1>4 DEF Started
<1>6. disk' = disk
  BY DEF Create
<1> QED
  BY <1>3, <1>5, <1>6 DEF Calm, Quiet, CopyTrue, FillTrue, Still

LEMMA QuiesceListCalm ==
  ASSUME NEW V, Base(V), NEW c \in Cmd, Calm(cmd[c]), QuiesceList(c)
  PROVE  Calm(cmd[c])'
<1> DEFINE stops == UNION {Running(v) : v \in cmd[c].vols}
<1>1. cmd[c] \in CmdRec(V) /\ cmd[c].pc = "list"
  BY DEF Base, Typed, QuiesceList
<1>2. cmd'[c] = [cmd[c] EXCEPT !.stops = stops, !.pc = "stop"]
  BY QuiesceListBase
<1>3. \A v \in cmd[c].vols : Running(v) \subseteq stops
  OBVIOUS
<1> HIDE DEF stops
<1>4. /\ cmd'[c].op = cmd[c].op /\ cmd'[c].pc = "stop" /\ cmd'[c].vols = cmd[c].vols
      /\ cmd'[c].calm = cmd[c].calm /\ cmd'[c].stops = stops
  BY <1>1, <1>2 DEF CmdRec
<1>5. disk' = disk /\ \A v : Running(v)' = Running(v)
  BY DEF QuiesceList, Running, Mounting
<1> QED
  BY <1>1, <1>3, <1>4, <1>5 DEF Calm, Quiet, CopyTrue, FillTrue, Still

LEMMA QuiesceStopCalm ==
  ASSUME NEW V, Base(V), NEW c \in Cmd, Calm(cmd[c]), QuiesceStop(c)
  PROVE  Calm(cmd[c])'
<1> DEFINE here == {d \in cmd[c].stops : cont[d].st # "none"}
           next == IF cmd[c].op = "create" THEN "export" ELSE "wipe"
           moment == Restrict(disk', cmd[c].vols \cap DOMAIN disk')
           done == [cmd[c] EXCEPT !.pc = next, !.moment = moment]
           failed == [cmd[c] EXCEPT !.pc = "remove", !.ok = FALSE, !.stops = {}]
<1>1. cmd \in [Cmd -> CmdRec(V)] /\ cmd[c] \in CmdRec(V) /\ Shaped(cmd[c]) /\ cmd[c].pc = "stop"
  BY DEF Base, Typed, QuiesceStop
<1>2. CASE /\ here = cmd[c].stops
           /\ cont' = StopContainers(here) /\ disk' = Flushed(here)
           /\ cmd' = [cmd EXCEPT ![c].pc = next, ![c].moment = moment]
  <2>1. DOMAIN disk' = DOMAIN disk /\ \A v : Running(v)' = Running(v) \ cmd[c].stops
    BY <1>1, <1>2, StopIs DEF Base, CmdRec
  <2>2. DOMAIN moment = cmd[c].vols \cap DOMAIN disk'
    BY RestrictOver
  <2>3. \A v \in cmd[c].vols \cap DOMAIN disk' : moment[v] = disk'[v]
    BY RestrictAt
  <2> HIDE DEF moment
  <2>4. cmd'[c] = done
    BY <1>1, <1>2 DEF CmdRec
  <2>5. /\ cmd'[c].op = cmd[c].op /\ cmd'[c].pc = next /\ cmd'[c].vols = cmd[c].vols
        /\ cmd'[c].calm = cmd[c].calm /\ cmd'[c].moment = moment
        /\ cmd'[c].left = cmd[c].vols
    BY <1>1, <2>4 DEF CmdRec, Shaped
  <2>6. Quiet(cmd[c])'
    <3>1. cmd[c].calm /\ cmd[c].op \in {"create", "restore"} =>
            \A v \in cmd[c].vols : Running(v) \subseteq cmd[c].stops
      BY <1>1 DEF Calm, Quiet
    <3>2. cmd[c].calm /\ cmd[c].op \in {"create", "restore"} =>
            \A v \in cmd[c].vols : Running(v)' = {}
      BY <2>1, <3>1
    <3>3. cmd'[c].pc # "stop"
      BY <2>5
    <3> QED
      BY <2>5, <3>2, <3>3 DEF Quiet
  <2>7. CopyTrue(cmd[c])'
    BY <1>1, <2>1, <2>2, <2>3, <2>5 DEF Calm, CopyTrue
  <2>8. FillTrue(cmd[c])'
    BY <2>5 DEF FillTrue
  <2> QED
    BY <2>6, <2>7, <2>8 DEF Calm
<1>3. CASE cmd' = [cmd EXCEPT ![c] = IF @.op = "create"
                                       THEN [@ EXCEPT !.pc = "remove", !.ok = FALSE, !.stops = {}]
                                       ELSE Idle]
  <2>1. cmd'[c] = IF cmd[c].op = "create" THEN failed ELSE Idle
    BY <1>1, <1>3
  <2>2. cmd'[c].pc \in {"remove", "idle"}
    BY <1>1, <2>1 DEF Idle, Started, CmdRec
  <2> QED
    BY <2>2, Indifferent
<1> QED
  BY <1>2, <1>3 DEF QuiesceStop
\* While its engines stand still and none of them starts, a command stays quiet.
LEMMA QuietStays ==
  ASSUME NEW V, NEW c \in Cmd, Quiet(cmd[c]), Still(cmd[c]), UNCHANGED cont,
         cmd[c].op \in {"create", "restore"},
         cmd'[c].vols = cmd[c].vols, cmd'[c].calm = cmd[c].calm, cmd'[c].pc # "stop"
  PROVE  Quiet(cmd[c])'
<1>1. \A v : Running(v)' = Running(v)
  BY DEF Running, Mounting
<1>2. cmd[c].calm => \A v \in cmd[c].vols : Running(v) = {}
  BY DEF Quiet
<1>3. cmd'[c].calm => \A v \in cmd'[c].vols : Running(v)' = {}
  BY <1>1, <1>2
<1> QED
  BY <1>3 DEF Quiet

LEMMA ExportCalm ==
  ASSUME NEW V, Base(V), NEW c \in Cmd, NEW v, Calm(cmd[c]), Export(c, v)
  PROVE  Calm(cmd[c])'
<1>1. /\ cmd[c] \in CmdRec(V) /\ Shaped(cmd[c]) /\ cmd[c].pc = "export" /\ v \in cmd[c].vols
      /\ UNCHANGED cont
  BY DEF Base, Typed, Export, Shaped
<1>2. cmd[c].op = "create"
  BY <1>1 DEF Shaped
<1>3. cmd'[c] = [cmd[c] EXCEPT !.left = @ \ {v},
                   !.pc = IF cmd[c].left = {v} THEN "meta" ELSE "export"]
  BY ExportBase
<1>4. /\ cmd'[c].op = "create" /\ cmd'[c].pc \in {"meta", "export"} /\ cmd'[c].vols = cmd[c].vols
      /\ cmd'[c].calm = cmd[c].calm /\ cmd'[c].moment = cmd[c].moment
  BY <1>1, <1>2, <1>3 DEF CmdRec
<1>5. Quiet(cmd[c])'
  BY <1>1, <1>2, <1>4, QuietStays DEF Calm, Still
<1>6. CopyTrue(cmd[c])'
  <2>1. cmd[c].calm => \A w \in cmd[c].vols : w \in DOMAIN disk /\ w \in DOMAIN cmd[c].moment
                                                /\ cmd[c].moment[w] = disk[w]
    BY <1>1, <1>2 DEF Calm, CopyTrue
  <2>2. cmd[c].calm => disk' = disk
    BY <1>1, <2>1 DEF Export
  <2> QED
    BY <1>4, <2>1, <2>2 DEF CopyTrue
<1> QED
  BY <1>4, <1>5, <1>6 DEF Calm, FillTrue

LEMMA CreateMetaCalm ==
  ASSUME NEW V, Base(V), NEW c \in Cmd, Calm(cmd[c]), CreateMeta(c)
  PROVE  Calm(cmd[c])'
<1>1. cmd[c] \in CmdRec(V) /\ Shaped(cmd[c]) /\ cmd[c].pc = "meta" /\ UNCHANGED cont
  BY DEF Base, Typed, CreateMeta
<1>2. cmd[c].op = "create"
  BY <1>1 DEF Shaped
<1>3. cmd'[c] \in {[cmd[c] EXCEPT !.pc = "resume"], [cmd[c] EXCEPT !.pc = "resume", !.ok = FALSE]}
  BY CreateMetaBase
<1>4. /\ cmd'[c].op = "create" /\ cmd'[c].pc = "resume" /\ cmd'[c].vols = cmd[c].vols
      /\ cmd'[c].calm = cmd[c].calm
  BY <1>1, <1>2, <1>3 DEF CmdRec
<1>5. Quiet(cmd[c])'
  BY <1>1, <1>2, <1>4, QuietStays DEF Calm, Still
<1> QED
  BY <1>4, <1>5 DEF Calm, CopyTrue, FillTrue

LEMMA RemoveAllCalm ==
  ASSUME NEW V, Base(V), NEW c \in Cmd, RemoveAll(c)
  PROVE  Calm(cmd[c])'
<1>1. cmd[c] \in CmdRec(V) /\ Shaped(cmd[c]) /\ cmd[c].pc = "remove"
  BY DEF Base, Typed, RemoveAll
<1>2. cmd'[c] = [cmd[c] EXCEPT !.pc = "resume"]
  BY RemoveAllBase
<1>3. cmd'[c].op = cmd[c].op /\ cmd'[c].pc = "resume" /\ cmd'[c].ok = cmd[c].ok
  BY <1>1, <1>2 DEF CmdRec
<1>4. cmd[c].op = "delete" \/ ~cmd[c].ok
  BY <1>1 DEF Shaped
<1> QED
  BY <1>3, <1>4, Indifferent

LEMMA WipeCalm ==
  ASSUME NEW V, Base(V), NEW c \in Cmd, NEW v, Calm(cmd[c]), Wipe(c, v)
  PROVE  Calm(cmd[c])'
<1>1. /\ cmd[c] \in CmdRec(V) /\ Shaped(cmd[c]) /\ cmd[c].pc = "wipe" /\ v \in cmd[c].left
      /\ UNCHANGED cont /\ disk' = Put(disk, {v}, 0)
  BY DEF Base, Typed, Wipe
<1>2. cmd[c].op = "restore" /\ cmd[c].now = {}
  BY <1>1 DEF Shaped
<1>3. cmd'[c] = [cmd[c] EXCEPT !.pc = "untar", !.left = @ \ {v}, !.now = {v}]
  BY WipeBase
<1>4. /\ cmd'[c].op = "restore" /\ cmd'[c].pc = "untar" /\ cmd'[c].vols = cmd[c].vols
      /\ cmd'[c].calm = cmd[c].calm /\ cmd'[c].moment = cmd[c].moment
      /\ cmd'[c].left = cmd[c].left \ {v} /\ cmd'[c].now = {v}
  BY <1>1, <1>2, <1>3 DEF CmdRec
<1>5. Quiet(cmd[c])'
  BY <1>1, <1>2, <1>4, QuietStays DEF Calm, Still
<1>6. FillTrue(cmd[c])'
  <2> DEFINE W == cmd[c].vols \ cmd[c].left
  <2>1. cmd[c].calm => \A w \in W : w \in DOMAIN disk /\ w \in DOMAIN cmd[c].moment
                                      /\ cmd[c].moment[w] = disk[w]
    BY <1>1, <1>2 DEF Calm, FillTrue
  <2>2. DOMAIN disk' = DOMAIN disk \cup {v}
    BY <1>1, PutDomain
  <2>3. \A w \in DOMAIN disk \ {v} : disk'[w] = disk[w]
    BY <1>1, PutOld
  <2>4. cmd[c].calm => \A w \in W : w \in DOMAIN disk' /\ w \in DOMAIN cmd[c].moment
                                      /\ cmd[c].moment[w] = disk'[w]
    BY <1>1, <2>1, <2>2, <2>3
  <2>5. cmd'[c].vols \ (cmd'[c].left \cup cmd'[c].now) = W
    BY <1>1, <1>4
  <2> HIDE DEF W
  <2> QED
    BY <1>4, <2>4, <2>5 DEF FillTrue
<1> QED
  BY <1>4, <1>5, <1>6 DEF Calm, CopyTrue

LEMMA UntarCalm ==
  ASSUME NEW V, Base(V), NEW c \in Cmd, Calm(cmd[c]), Untar(c)
  PROVE  Calm(cmd[c])'
<1> DEFINE arch == store[cmd[c].dir].arch
<1>1. /\ cmd[c] \in CmdRec(V) /\ Shaped(cmd[c]) /\ cmd[c].pc = "untar" /\ UNCHANGED cont
  BY DEF Base, Typed, Untar
<1>2. cmd[c].op = "restore"
  BY <1>1 DEF Shaped
<1>3. ASSUME NEW v \in V, cmd[c].now = {v}, disk' = Put(disk, {v}, arch[v]),
             cmd'[c] = [cmd[c] EXCEPT !.moment = Put(@, {v}, arch[v]), !.now = {},
                          !.pc = IF cmd[c].left = {} THEN "resume" ELSE "wipe"]
      PROVE  Calm(cmd[c])'
  <2> DEFINE moment == Put(cmd[c].moment, {v}, arch[v])
             pc == IF cmd[c].left = {} THEN "resume" ELSE "wipe"
             W == cmd[c].vols \ cmd[c].left
  <2>1. DOMAIN disk' = DOMAIN disk \cup {v} /\ DOMAIN moment = DOMAIN cmd[c].moment \cup {v}
    <3>1. DOMAIN disk' = DOMAIN disk \cup {v}
      BY <1>3, PutDomain
    <3>2. DOMAIN moment = DOMAIN cmd[c].moment \cup {v}
      BY PutDomain
    <3> QED
      BY <3>1, <3>2
  <2>2. \A w \in DOMAIN disk \ {v} : disk'[w] = disk[w]
    BY <1>3, PutOld
  <2>3. \A w \in DOMAIN cmd[c].moment \ {v} : moment[w] = cmd[c].moment[w]
    BY PutOld
  <2>4. disk'[v] = arch[v] /\ moment[v] = arch[v]
    <3>1. \A w \in {v} : disk'[w] = arch[v]
      BY <1>3, PutNew
    <3>2. \A w \in {v} : moment[w] = arch[v]
      BY PutNew
    <3> QED
      BY <3>1, <3>2
  <2> HIDE DEF moment
  <2>5. /\ cmd'[c].op = "restore" /\ cmd'[c].pc = pc /\ cmd'[c].vols = cmd[c].vols
        /\ cmd'[c].calm = cmd[c].calm /\ cmd'[c].moment = moment /\ cmd'[c].left = cmd[c].left
        /\ cmd'[c].now = {}
    <3>1. cmd'[c] = [cmd[c] EXCEPT !.moment = moment, !.now = {}, !.pc = pc]
      BY <1>3 DEF moment
    <3> HIDE DEF pc
    <3> QED
      BY <1>1, <1>2, <3>1 DEF CmdRec
  <2>6. Quiet(cmd[c])'
    BY <1>1, <1>2, <2>5, QuietStays DEF Calm, Still
  <2>7. cmd[c].calm => \A w \in W \ {v} : w \in DOMAIN disk /\ w \in DOMAIN cmd[c].moment
                                            /\ cmd[c].moment[w] = disk[w]
    BY <1>1, <1>2, <1>3 DEF Calm, FillTrue
  <2>8. cmd[c].calm => \A w \in W : w \in DOMAIN disk' /\ w \in DOMAIN moment /\ moment[w] = disk'[w]
    <3> HIDE DEF W, arch
    <3> QED
      BY <2>1, <2>2, <2>3, <2>4, <2>7
  <2>9. FillTrue(cmd[c])'
    BY <2>5, <2>8 DEF FillTrue
  <2> QED
    BY <2>5, <2>6, <2>9 DEF Calm, CopyTrue
<1>4. CASE cmd'[c] = [cmd[c] EXCEPT !.pc = "resume", !.ok = FALSE]
  <2>1. cmd'[c].pc = "resume" /\ ~cmd'[c].ok
    BY <1>1, <1>4 DEF CmdRec
  <2> QED
    BY <2>1, Indifferent
<1> QED
  BY <1>3, <1>4, UntarBase

\* The names of the volumes are those of the history.
LEMMA VolumeStays ==
  ASSUME ws' = ws, entry' = entry
  PROVE  Volume' = Volume
BY DEF Volume, NamedDeps, candidates, composeVolume, NormalizeVolumeName

LEMMA ResumeIs ==
  ASSUME NEW V, Base(V), NEW c \in Cmd, Resume(c)
  PROVE  \E S \in SUBSET {d \in cmd[c].stops : cont[d].st = "stopped"} :
           /\ cont' = [d \in Deps |->
                IF d \in S THEN [cont[d] EXCEPT !.st = "running", !.mem = disk[cont[d].vol]]
                ELSE cont[d]]
           /\ Base(V)' /\ Beside({c}, {cont[d].vol : d \in S})
           /\ Untouched(V, {cont[d].vol : d \in S}) /\ cmd'[c] = Idle
<1> DEFINE here == {d \in cmd[c].stops : cont[d].st = "stopped"}
<1>1. PICK S \in SUBSET here :
        /\ cont' = [d \in Deps |->
             IF d \in S THEN [cont[d] EXCEPT !.st = "running", !.mem = disk[cont[d].vol]]
             ELSE cont[d]]
        /\ cmd' = [Disturbed({c}, {cont[d].vol : d \in S}) EXCEPT ![c] = Idle]
  BY DEF Resume
<1>2. UNCHANGED <<disk, labelled, store, clock, saved, emptied>>
  BY DEF Resume
<1>3. /\ Base(V)' /\ Beside({c}, {cont[d].vol : d \in S})
      /\ Untouched(V, {cont[d].vol : d \in S}) /\ cmd'[c] = Idle
  BY <1>1, <1>2, ResumeBase
<1> QED
  BY <1>1, <1>3

\* The steps of one command.
LEMMA StepCalm ==
  ASSUME NEW V, V = Volume, Base(V), \A k \in Cmd : Calm(cmd[k]), NEW c \in Cmd, Step(c)
  PROVE  Base(V)' /\ \A k \in Cmd : Calm(cmd[k])'
<1> DEFINE Goal == Base(V)' /\ \A k \in Cmd : Calm(cmd[k])'
<1>1. ASSUME NEW S, Base(V)', Beside({c}, S), Untouched(V, S), Calm(cmd[c])' PROVE Goal
  <2>1. \A k \in Cmd \ {c} : Calm(cmd[k])'
    BY <1>1, OthersCalm
  <2> QED
    BY <1>1, <2>1
<1>2. ASSUME Create(c) PROVE Goal
  BY <1>1, <1>2, CreateBase, CreateCalm
<1>3. ASSUME QuiesceList(c) PROVE Goal
  BY <1>1, <1>3, QuiesceListBase, QuiesceListCalm
<1>4. ASSUME QuiesceStop(c) PROVE Goal
  BY <1>1, <1>4, QuiesceStopBase, QuiesceStopCalm
<1>5. ASSUME NEW v, Export(c, v) PROVE Goal
  BY <1>1, <1>5, ExportBase, ExportCalm
<1>6. ASSUME NEW v, Wipe(c, v) PROVE Goal
  BY <1>1, <1>6, WipeBase, WipeCalm
<1>7. ASSUME NEW v, RemoveVolume(c, v) PROVE Goal
  <2>1. /\ Base(V)' /\ Beside({c}, RemoveVolumeWithContext(v))
        /\ Untouched(V, RemoveVolumeWithContext(v))
        /\ cmd'[c] \in {Idle, [cmd[c] EXCEPT !.left = cmd[c].left \ {v}]}
    BY <1>7, RemoveVolumeBase
  <2>2. cmd[c] \in CmdRec(V) /\ cmd[c].op = "volumes"
    BY <1>7 DEF Base, Typed, RemoveVolume, Shaped
  <2>3. cmd'[c].op \in {"none", "volumes"}
    BY <2>1, <2>2 DEF CmdRec, Idle, Started
  <2>4. Calm(cmd[c])'
    BY <2>3, Indifferent
  <2> QED
    BY <1>1, <2>1, <2>4
<1>8. ASSUME ExportFails(c) PROVE Goal
  <2>1. /\ Base(V)' /\ Beside({c}, {}) /\ Untouched(V, {})
        /\ cmd'[c] = [cmd[c] EXCEPT !.pc = "remove", !.ok = FALSE]
    BY <1>8, ExportFailsBase
  <2>2. cmd'[c].pc = "remove"
    BY <2>1 DEF Base, Typed, CmdRec
  <2>3. Calm(cmd[c])'
    BY <2>2, Indifferent
  <2> QED
    BY <1>1, <2>1, <2>3
<1>9. ASSUME CreateMeta(c) PROVE Goal
  BY <1>1, <1>9, CreateMetaBase, CreateMetaCalm
<1>10. ASSUME RemoveAll(c) PROVE Goal
  BY <1>1, <1>10, RemoveAllBase, RemoveAllCalm
<1>18. ASSUME CreateMetaFails(c) PROVE Goal
  <2>1. /\ Base(V)' /\ Beside({c}, {}) /\ Untouched(V, {})
        /\ cmd'[c] = [cmd[c] EXCEPT !.pc = "resume", !.ok = FALSE]
    BY <1>18, CreateMetaFailsBase
  <2>2. cmd'[c].pc = "resume" /\ ~cmd'[c].ok
    BY <2>1 DEF Base, Typed, CmdRec
  <2>3. Calm(cmd[c])'
    BY <2>2, Indifferent
  <2> QED
    BY <1>1, <2>1, <2>3
<1>11. ASSUME Resume(c) PROVE Goal
  <2>1. PICK S \in SUBSET {d \in cmd[c].stops : cont[d].st = "stopped"} :
          /\ Base(V)' /\ Beside({c}, {cont[d].vol : d \in S})
          /\ Untouched(V, {cont[d].vol : d \in S}) /\ cmd'[c] = Idle
    BY <1>11, ResumeIs
  <2>2. Calm(cmd[c])'
    BY <2>1, Indifferent DEF Idle, Started
  <2> QED
    BY <1>1, <2>1, <2>2
<1>12. ASSUME Restore(c) PROVE Goal
  <2>1. /\ Base(V)' /\ Beside({c}, {}) /\ Untouched(V, {})
        /\ cmd'[c] = Started("restore", "list", store[snapshotDir].meta, snapshotDir)
    BY <1>12, RestoreBase
  <2>2. Calm(cmd[c])'
    BY <2>1, Indifferent DEF Started
  <2> QED
    BY <1>1, <2>1, <2>2
<1>13. ASSUME Untar(c) PROVE Goal
  <2>1. \E S : Beside({c}, S) /\ Untouched(V, S)
    BY <1>13, UntarBase
  <2>2. Base(V)' /\ Calm(cmd[c])'
    BY <1>13, UntarBase, UntarCalm
  <2> QED
    BY <1>1, <2>1, <2>2
<1>14. ASSUME Delete(c) PROVE Goal
  <2>1. /\ Base(V)' /\ Beside({c}, {}) /\ Untouched(V, {})
        /\ cmd'[c] = Started("delete", "remove", {}, snapshotDir)
    BY <1>14, DeleteBase
  <2>2. Calm(cmd[c])'
    BY <2>1, Indifferent DEF Started
  <2> QED
    BY <1>1, <2>1, <2>2
<1>15. ASSUME RemoveVolumes(c) PROVE Goal
  <2>1. Base(V)' /\ Beside({c}, {}) /\ Untouched(V, {}) /\ cmd'[c].op = "volumes"
    BY <1>15, RemoveVolumesBase
  <2>2. Calm(cmd[c])'
    BY <2>1, Indifferent
  <2> QED
    BY <1>1, <2>1, <2>2
<1>16. ASSUME CleanVolumes(c) PROVE Goal
  <2>1. /\ Base(V)' /\ cmd'[c].pc = "idle"
        /\ \E gone : Beside({c}, gone) /\ Untouched(V, gone)
    BY <1>16, CleanVolumesBase
  <2>2. Calm(cmd[c])'
    BY <2>1, Indifferent
  <2> QED
    BY <1>1, <2>1, <2>2
<1>17. ASSUME Kill(c) PROVE Goal
  <2>1. Base(V)' /\ Beside({c}, {}) /\ Untouched(V, {}) /\ cmd'[c] = Idle
    BY <1>17, KillBase
  <2>2. Calm(cmd[c])'
    BY <2>1, Indifferent DEF Idle, Started
  <2> QED
    BY <1>1, <2>1, <2>2
<1> QED
  BY <1>2, <1>3, <1>4, <1>5, <1>6, <1>7, <1>8, <1>9, <1>10, <1>11, <1>12, <1>13, <1>14, <1>15,
     <1>16, <1>17, <1>18 DEF Step

\* The type invariant, and that a command knows the volumes it is about.
AInv == Base(Volume) /\ \A c \in Cmd : Calm(cmd[c])

LEMMA AInit == Init => AInv
<1> SUFFICES ASSUME Init PROVE AInv
  OBVIOUS
<1>1. PICK s \in Starts :
        /\ disk = [v \in s.volumes \cap Volume |-> 0]
        /\ store = [current |-> NoDir,
                    legacy |-> IF s.legacy = {} THEN NoDir
                               ELSE [there |-> TRUE, done |-> TRUE, torn |-> FALSE,
                                     meta |-> s.legacy \cap Volume,
                                     arch |-> [v \in s.legacy \cap Volume |-> 0]]]
  BY DEF Init
<1> DEFINE vols == s.legacy \cap Volume
           arch == [v \in vols |-> 0]
           old == [there |-> TRUE, done |-> TRUE, torn |-> FALSE, meta |-> vols, arch |-> arch]
<1>2. disk \in Contents(Volume)
  <2>1. DOMAIN disk \subseteq Volume /\ disk \in [DOMAIN disk -> Data]
    BY <1>1, DataIs
  <2> QED
    BY <2>1, ContentsIs
<1>3. arch \in Contents(Volume)
  <2>1. DOMAIN arch \subseteq Volume /\ arch \in [DOMAIN arch -> Data]
    BY DataIs
  <2> QED
    BY <2>1, ContentsIs
<1>4. NoDir \in Dir(Volume)
  BY Nothing DEF NoDir, Dir
<1>5. old \in Dir(Volume) /\ old.there
  <2> HIDE DEF arch
  <2> QED
    BY <1>3 DEF Dir
<1>6. store \in [Stores -> Dir(Volume)] /\ \A s1 \in Stores : store[s1].there \/ store[s1] = NoDir
  <2>1. store = [current |-> NoDir, legacy |-> IF s.legacy = {} THEN NoDir ELSE old]
    BY <1>1
  <2> HIDE DEF old
  <2> QED
    BY <1>4, <1>5, <2>1 DEF Stores
<1>7. /\ labelled = {} /\ emptied = {} /\ cont = [d \in Deps |-> NoContainer]
      /\ cmd = [c \in Cmd |-> Idle] /\ clock = 0 /\ saved = <<>>
  BY DEF Init
<1>8. NoContainer \in Container(Volume) /\ NoContainer.st = "none"
  BY DataIs DEF NoContainer, Container
<1>9. cmd \in [Cmd -> CmdRec(Volume)] /\ \A c \in Cmd : Shaped(cmd[c])
  BY <1>7, IdleType
<1>10. clock \in 0..MaxWrites /\ saved \in Contents(Volume)
  BY <1>7, Nothing, BoundsAssumption
<1>11. Base(Volume)
  BY <1>2, <1>6, <1>7, <1>8, <1>9, <1>10 DEF Base, Typed
<1>12. ASSUME NEW c \in Cmd PROVE Calm(cmd[c])
  BY <1>7 DEF Idle, Started, Calm, Quiet, CopyTrue, FillTrue
<1> QED
  BY <1>11, <1>12 DEF AInv

LEMMA AStep == AInv /\ [Next]_vars => AInv'
<1> SUFFICES ASSUME AInv, [Next]_vars PROVE AInv'
  OBVIOUS
<1>1. PICK V : V = Volume
  OBVIOUS
<1>2. Base(V) /\ \A k \in Cmd : Calm(cmd[k])
  BY <1>1 DEF AInv
<1>3. ASSUME Base(V)', \A k \in Cmd : Calm(cmd[k])', ws' = ws, entry' = entry PROVE AInv'
  <2>1. Volume' = V
    BY <1>1, <1>3, VolumeStays
  <2> QED
    BY <1>3, <2>1 DEF AInv
<1>4. ASSUME NEW c \in Cmd, Step(c) PROVE AInv'
  <2>1. ws' = ws /\ entry' = entry
    BY <1>4 DEF Step, Create, QuiesceList, QuiesceStop, Export, Wipe, RemoveVolume, ExportFails,
       CreateMeta, CreateMetaFails, RemoveAll, Resume, Restore, Untar, Delete, RemoveVolumes,
       CleanVolumes, Kill
  <2> QED
    BY <1>1, <1>2, <1>3, <1>4, <2>1, StepCalm
<1>5. ASSUME NEW S, Base(V)', Beside({}, S), Untouched(V, S), ws' = ws, entry' = entry PROVE AInv'
  BY <1>2, <1>3, <1>5, OthersCalm
<1>6. ASSUME NEW d \in Deps, NEW p \in Projects, StartDep(p, d) PROVE AInv'
  <2>1. ws' = ws /\ entry' = entry
    BY <1>6 DEF StartDep
  <2> QED
    BY <1>1, <1>2, <1>5, <1>6, <2>1, StartDepBase
<1>7. ASSUME NEW d \in Deps, RemoveDep(d) PROVE AInv'
  <2>1. ws' = ws /\ entry' = entry
    BY <1>7 DEF RemoveDep
  <2> QED
    BY <1>2, <1>5, <1>7, <2>1, RemoveDepBase
<1>8. ASSUME NEW d \in Deps, Write(d) PROVE AInv'
  <2>1. ws' = ws /\ entry' = entry
    BY <1>8 DEF Write
  <2> QED
    BY <1>2, <1>5, <1>8, <2>1, WriteBase
<1>9. ASSUME UNCHANGED vars PROVE AInv'
  <2>1. UNCHANGED <<ws, entry, cont, disk, labelled, store, cmd, clock, saved, emptied>>
    BY <1>9 DEF vars
  <2>2. Base(V)'
    BY <1>2, <2>1 DEF Base, Typed
  <2>3. Beside({}, {}) /\ Untouched(V, {})
    BY <2>1, Stays DEF Beside
  <2> QED
    BY <1>5, <2>1, <2>2, <2>3
<1> QED
  BY <1>4, <1>6, <1>7, <1>8, <1>9 DEF Next

\* The shape of every variable, and what containers and commands hold exists:
\* the volumes of Docker, of the archives and of the commands are names of this
\* history, an engine that is there has its volume, and a store without a
\* directory has nothing else (internal/snapshot, docker/volumes.go).
THEOREM TypeCorrect == Spec => []TypeOK
<1>1. AInv => TypeOK
  <2> SUFFICES ASSUME AInv PROVE TypeOK
    OBVIOUS
  <2>1. Base(Volume)
    BY DEF AInv
  <2>2. ASSUME NEW f \in Contents(Volume) PROVE DOMAIN f \subseteq Volume /\ Range(f) \subseteq Data
    <3>1. DOMAIN f \subseteq Volume /\ f \in [DOMAIN f -> Data]
      BY ContentsIs
    <3> QED
      BY <3>1 DEF Range
  <2>3. DOMAIN disk \subseteq Volume /\ Range(disk) \subseteq Data
    BY <2>1, <2>2 DEF Base, Typed
  <2>4. labelled \subseteq DOMAIN disk /\ emptied \subseteq DOMAIN disk
    BY <2>1 DEF Base, Typed
  <2>5. \A d \in Deps : cont[d].st # "none" =>
          cont[d].st \in {"running", "stopped"} /\ cont[d].vol \in DOMAIN disk /\ cont[d].mem \in Data
    BY <2>1 DEF Base, Typed, Container
  <2>6. ASSUME NEW s \in Stores
        PROVE  /\ store[s].there \/ store[s] = NoDir
               /\ Range(store[s].arch) \subseteq Data
               /\ store[s].meta \cup DOMAIN store[s].arch \subseteq Volume
    <3>1. store[s].arch \in Contents(Volume) /\ store[s].meta \subseteq Volume
      BY <2>1 DEF Base, Typed, Dir
    <3> QED
      BY <2>1, <2>2, <3>1 DEF Base, Typed
  <2>7. \A c \in Cmd : cmd[c].pc # "idle" => cmd[c].stops \subseteq Deps /\ cmd[c].vols \subseteq Volume
    BY <2>1 DEF Base, Typed, CmdRec
  <2> QED
    BY <2>3, <2>4, <2>5, <2>6, <2>7 DEF TypeOK
<1> QED
  BY <1>1, AInit, AStep, PTL DEF Spec

\* A restore that succeeds leaves in every volume what the archive holds, and
\* no engine that would write something else over it (snapshot.go Restore,
\* quiesce.go): the containers that run on its volumes are those it lists, it
\* stops them all, and what it has filled stays until it is done, unless
\* somebody starts an engine or changes a volume meanwhile.
THEOREM RestoreHolds == Spec => []RestoreIsTheSnapshot
<1>1. AInv => RestoreIsTheSnapshot
  BY DEF AInv, Calm, Quiet, FillTrue, Still, RestoreIsTheSnapshot, Succeeding
<1> QED
  BY <1>1, AInit, AStep, PTL DEF Spec

-----------------------------------------------------------------------------
(* Containers that a command stopped.                                      *)

Stopping == {"export", "meta", "wipe", "untar", "remove", "resume"}
Lost == {"killed", "stop", "start"}

Awaits(d) == \E c \in Cmd : cmd[c].pc \in Stopping /\ d \in cmd[c].stops

LEMMA BackIs == EnginesBack <=>
                  \A d \in Deps : cont[d].st = "stopped" => Awaits(d) \/ why \cap Lost # {}
BY DEF EnginesBack, Awaits, Stopping, Lost

\* Nobody stops a container, and a command of C that has stopped some goes on.
LEMMA BackStays ==
  ASSUME NEW V, Base(V), EnginesBack, NEW C, NEW S, Beside(C, S), why \cap Lost \subseteq why',
         \A d \in Deps : cont'[d].st = "stopped" => cont[d].st = "stopped",
         \A c \in Cmd \cap C : cmd[c].pc \in Stopping =>
           cmd'[c].pc \in Stopping /\ cmd'[c].stops = cmd[c].stops
  PROVE  EnginesBack'
<1> SUFFICES ASSUME NEW d \in Deps, cont'[d].st = "stopped", why' \cap Lost = {}
             PROVE  Awaits(d)'
  BY DEF EnginesBack, Awaits, Stopping, Lost
<1>1. Awaits(d)
  BY BackIs
<1>2. PICK k \in Cmd : cmd[k].pc \in Stopping /\ d \in cmd[k].stops
  BY <1>1 DEF Awaits
<1>3. cmd'[k].pc \in Stopping /\ d \in cmd'[k].stops
  <2>1. CASE k \in C
    BY <1>2, <2>1
  <2>2. CASE k \notin C
    <3>1. cmd'[k] \in {cmd[k], [cmd[k] EXCEPT !.calm = FALSE]}
      BY <2>2 DEF Beside
    <3>2. cmd[k] \in CmdRec(V)
      BY DEF Base, Typed
    <3> QED
      BY <1>2, <3>1, <3>2 DEF CmdRec
  <2> QED
    BY <2>1, <2>2
<1> QED
  BY <1>3 DEF Awaits

LEMMA QuiesceStopBack ==
  ASSUME NEW V, Base(V), EnginesBack, NEW c \in Cmd, QuiesceStop(c)
  PROVE  EnginesBack'
<1> DEFINE here == {d \in cmd[c].stops : cont[d].st # "none"}
           next == IF cmd[c].op = "create" THEN "export" ELSE "wipe"
           moment == Restrict(disk', cmd[c].vols \cap DOMAIN disk')
<1>1. cmd \in [Cmd -> CmdRec(V)] /\ cmd[c].pc = "stop" /\ here \subseteq Deps
  BY DEF Base, Typed, QuiesceStop, CmdRec
<1>2. CASE /\ here = cmd[c].stops
           /\ cont' = StopContainers(here)
           /\ cmd' = [cmd EXCEPT ![c].pc = next, ![c].moment = moment]
           /\ UNCHANGED why
  <2> SUFFICES ASSUME NEW d \in Deps, cont'[d].st = "stopped", why' \cap Lost = {}
               PROVE  Awaits(d)'
    BY DEF EnginesBack, Awaits, Stopping, Lost
  <2>1. /\ cmd'[c].pc = next /\ cmd'[c].stops = cmd[c].stops
        /\ \A k \in Cmd \ {c} : cmd'[k] = cmd[k]
    <3> HIDE DEF moment
    <3> QED
      BY <1>1, <1>2 DEF CmdRec
  <2>2. next \in Stopping
    BY DEF Stopping
  <2>3. CASE cont[d].st = "stopped"
    <3>1. PICK k \in Cmd : cmd[k].pc \in Stopping /\ d \in cmd[k].stops
      BY <1>2, <2>3, BackIs DEF Awaits
    <3>2. k # c
      BY <1>1, <3>1 DEF Stopping
    <3> QED
      BY <2>1, <3>1, <3>2 DEF Awaits
  <2>4. CASE cont[d].st # "stopped"
    <3>1. d \in here
      BY <1>2, <2>4 DEF StopContainers
    <3> QED
      BY <2>1, <2>2, <3>1 DEF Awaits
  <2> QED
    BY <2>3, <2>4
<1>3. CASE "stop" \in why'
  BY <1>3 DEF EnginesBack
<1> QED
  BY <1>2, <1>3 DEF QuiesceStop, Fault

LEMMA ResumeBack ==
  ASSUME NEW V, Base(V), EnginesBack, NEW c \in Cmd, Resume(c)
  PROVE  EnginesBack'
<1> DEFINE here == {d \in cmd[c].stops : cont[d].st = "stopped"}
<1>1. PICK S \in SUBSET here :
        /\ IF S = here THEN UNCHANGED <<used, why>> ELSE Fault("start")
        /\ cont' = [d \in Deps |->
             IF d \in S THEN [cont[d] EXCEPT !.st = "running", !.mem = disk[cont[d].vol]]
             ELSE cont[d]]
        /\ cmd' = [Disturbed({c}, {cont[d].vol : d \in S}) EXCEPT ![c] = Idle]
  BY DEF Resume
<1>2. cmd \in [Cmd -> CmdRec(V)] /\ cont \in [Deps -> Container(V)]
  BY DEF Base, Typed
<1>3. CASE S # here
  BY <1>1, <1>3 DEF Fault, EnginesBack
<1>4. CASE S = here
  <2> SUFFICES ASSUME NEW d \in Deps, cont'[d].st = "stopped", why' \cap Lost = {}
               PROVE  Awaits(d)'
    BY DEF EnginesBack, Awaits, Stopping, Lost
  <2>1. cont[d].st = "stopped" /\ d \notin here
    <3>1. ASSUME d \in here PROVE FALSE
      <4>1. cont'[d] = [cont[d] EXCEPT !.st = "running", !.mem = disk[cont[d].vol]]
        BY <1>1, <1>4, <3>1
      <4> QED
        BY <1>2, <4>1 DEF Container
    <3> QED
      BY <1>1, <1>4, <3>1
  <2>2. PICK k \in Cmd : cmd[k].pc \in Stopping /\ d \in cmd[k].stops
    BY <1>1, <1>4, <2>1, BackIs DEF Awaits
  <2>3. k # c
    BY <2>1, <2>2
  <2>4. cmd'[k] \in {cmd[k], [cmd[k] EXCEPT !.calm = FALSE]}
    <3>1. Beside({c}, {cont[e].vol : e \in S})
      BY <1>1, <1>2, IdleType, OwnCmd
    <3> QED
      BY <2>3, <3>1 DEF Beside
  <2>5. cmd'[k].pc \in Stopping /\ d \in cmd'[k].stops
    BY <1>2, <2>2, <2>4 DEF CmdRec
  <2> QED
    BY <2>5 DEF Awaits
<1> QED
  BY <1>3, <1>4

LEMMA StepBack ==
  ASSUME NEW V, V = Volume, Base(V), EnginesBack, NEW c \in Cmd, Step(c)
  PROVE  EnginesBack'
<1> DEFINE Goal == EnginesBack'
<1>1. cmd[c] \in CmdRec(V)
  BY DEF Base, Typed
\* c has not stopped a container yet, or never does.
<1>2. ASSUME NEW S, Beside({c}, S), UNCHANGED cont, why \cap Lost \subseteq why',
             cmd[c].pc \notin Stopping
      PROVE  Goal
  BY <1>2, BackStays
<1>3. ASSUME NEW S, Beside({c}, S), UNCHANGED cont, why \cap Lost \subseteq why',
             cmd'[c].pc \in Stopping, cmd'[c].stops = cmd[c].stops
      PROVE  Goal
  BY <1>3, BackStays
<1>4. ASSUME Create(c) \/ Restore(c) \/ Delete(c) \/ RemoveVolumes(c) PROVE Goal
  <2>1. Beside({c}, {})
    BY <1>4, CreateBase, RestoreBase, DeleteBase, RemoveVolumesBase
  <2>2. UNCHANGED cont /\ cmd[c].pc \notin Stopping
    BY <1>4 DEF Create, Restore, Delete, RemoveVolumes, Begin, Stopping
  <2>3. why \cap Lost \subseteq why'
    BY <1>4 DEF Create, Restore, Delete, RemoveVolumes, NewAccount, Noticing, Lost
  <2> QED
    BY <1>2, <2>1, <2>2, <2>3
<1>5. ASSUME QuiesceList(c) PROVE Goal
  <2>1. Beside({c}, {})
    BY <1>5, QuiesceListBase
  <2>2. UNCHANGED cont /\ why \subseteq why' /\ cmd[c].pc \notin Stopping
    BY <1>5 DEF QuiesceList, Stopping
  <2> QED
    BY <1>2, <2>1, <2>2
<1>6. ASSUME CleanVolumes(c) PROVE Goal
  <2>1. \E gone : Beside({c}, gone)
    BY <1>6, CleanVolumesBase
  <2>2. UNCHANGED cont /\ why \subseteq why' /\ cmd[c].pc \notin Stopping
    BY <1>6 DEF CleanVolumes, Begin, Stopping
  <2> QED
    BY <1>2, <2>1, <2>2
<1>7. ASSUME NEW v, RemoveVolume(c, v) PROVE Goal
  <2>1. Beside({c}, RemoveVolumeWithContext(v))
    BY <1>7, RemoveVolumeBase
  <2>2. UNCHANGED cont /\ why \subseteq why' /\ cmd[c].pc \notin Stopping
    BY <1>7 DEF RemoveVolume, Stopping
  <2> QED
    BY <1>2, <2>1, <2>2
<1>8. ASSUME NEW v, Export(c, v) PROVE Goal
  <2>1. /\ Beside({c}, {})
        /\ cmd'[c] = [cmd[c] EXCEPT !.left = @ \ {v},
                        !.pc = IF cmd[c].left = {v} THEN "meta" ELSE "export"]
    BY <1>8, ExportBase
  <2>2. cmd'[c].pc \in Stopping /\ cmd'[c].stops = cmd[c].stops
    BY <1>1, <2>1 DEF CmdRec, Stopping
  <2>3. UNCHANGED <<cont, why>>
    BY <1>8 DEF Export
  <2> QED
    BY <1>3, <2>1, <2>2, <2>3
<1>9. ASSUME ExportFails(c) PROVE Goal
  <2>1. Beside({c}, {}) /\ cmd'[c] = [cmd[c] EXCEPT !.pc = "remove", !.ok = FALSE]
    BY <1>9, ExportFailsBase
  <2>2. cmd'[c].pc \in Stopping /\ cmd'[c].stops = cmd[c].stops
    BY <1>1, <2>1 DEF CmdRec, Stopping
  <2>3. UNCHANGED cont /\ why \subseteq why'
    BY <1>9 DEF ExportFails, Fault
  <2> QED
    BY <1>3, <2>1, <2>2, <2>3
<1>10. ASSUME CreateMeta(c) PROVE Goal
  <2>1. /\ Beside({c}, {})
        /\ cmd'[c] \in {[cmd[c] EXCEPT !.pc = "resume"],
                        [cmd[c] EXCEPT !.pc = "resume", !.ok = FALSE]}
    BY <1>10, CreateMetaBase
  <2>2. cmd'[c].pc \in Stopping /\ cmd'[c].stops = cmd[c].stops
    BY <1>1, <2>1 DEF CmdRec, Stopping
  <2>3. UNCHANGED <<cont, why>>
    BY <1>10 DEF CreateMeta
  <2> QED
    BY <1>3, <2>1, <2>2, <2>3
<1>11. ASSUME RemoveAll(c) PROVE Goal
  <2>1. Beside({c}, {}) /\ cmd'[c] = [cmd[c] EXCEPT !.pc = "resume"]
    BY <1>11, RemoveAllBase
  <2>2. cmd'[c].pc \in Stopping /\ cmd'[c].stops = cmd[c].stops
    BY <1>1, <2>1 DEF CmdRec, Stopping
  <2>3. UNCHANGED <<cont, why>>
    BY <1>11 DEF RemoveAll
  <2> QED
    BY <1>3, <2>1, <2>2, <2>3
<1>12. ASSUME NEW v, Wipe(c, v) PROVE Goal
  <2>1. /\ Beside({c}, {v})
        /\ cmd'[c] = [cmd[c] EXCEPT !.pc = "untar", !.left = @ \ {v}, !.now = {v}]
    BY <1>12, WipeBase
  <2>2. cmd'[c].pc \in Stopping /\ cmd'[c].stops = cmd[c].stops
    BY <1>1, <2>1 DEF CmdRec, Stopping
  <2>3. UNCHANGED <<cont, why>>
    BY <1>12 DEF Wipe
  <2> QED
    BY <1>3, <2>1, <2>2, <2>3
<1>13. ASSUME Untar(c) PROVE Goal
  <2>1. (\E S : Beside({c}, S)) /\ cmd'[c].pc \in Stopping /\ cmd'[c].stops = cmd[c].stops
    <3>1. ASSUME NEW v, NEW x,
                 cmd'[c] = [cmd[c] EXCEPT !.moment = x, !.now = {},
                              !.pc = IF cmd[c].left = {} THEN "resume" ELSE "wipe"]
          PROVE  cmd'[c].pc \in Stopping /\ cmd'[c].stops = cmd[c].stops
      BY <1>1, <3>1 DEF CmdRec, Stopping
    <3>2. ASSUME cmd'[c] = [cmd[c] EXCEPT !.pc = "resume", !.ok = FALSE]
          PROVE  cmd'[c].pc \in Stopping /\ cmd'[c].stops = cmd[c].stops
      BY <1>1, <3>2 DEF CmdRec, Stopping
    <3> QED
      BY <1>13, <3>1, <3>2, UntarBase
  <2>2. UNCHANGED cont /\ why \subseteq why'
    BY <1>13 DEF Untar, Fault
  <2> QED
    BY <1>3, <2>1, <2>2
<1>14. ASSUME Kill(c) PROVE Goal
  <2>1. "killed" \in why'
    BY <1>14 DEF Kill
  <2> QED
    BY <2>1 DEF EnginesBack
<1>15. ASSUME CreateMetaFails(c) PROVE Goal
  <2>1. Beside({c}, {}) /\ cmd'[c] = [cmd[c] EXCEPT !.pc = "resume", !.ok = FALSE]
    BY <1>15, CreateMetaFailsBase
  <2>2. cmd'[c].pc \in Stopping /\ cmd'[c].stops = cmd[c].stops
    BY <1>1, <2>1 DEF CmdRec, Stopping
  <2>3. UNCHANGED cont /\ why \subseteq why'
    BY <1>15 DEF CreateMetaFails, Fault
  <2> QED
    BY <1>3, <2>1, <2>2, <2>3
<1> QED
  BY <1>4, <1>5, <1>6, <1>7, <1>8, <1>9, <1>10, <1>11, <1>12, <1>13, <1>14, <1>15,
     QuiesceStopBack, ResumeBack DEF Step

\* A container that a snapshot command stopped runs again when the command is
\* over, whatever it came to (quiesce.go): as long as it stands still, the
\* command that has it in its list is on its way to start it again, unless that
\* command was killed, or `docker stop` or `docker start` failed half way.
THEOREM EnginesHold == Spec => []EnginesBack
<1>1. Init => EnginesBack
  BY DEF Init, NoContainer, EnginesBack
<1>2. AInv /\ EnginesBack /\ [Next]_vars => EnginesBack'
  <2> SUFFICES ASSUME AInv, EnginesBack, [Next]_vars PROVE EnginesBack'
    OBVIOUS
  <2>1. PICK V : V = Volume
    OBVIOUS
  <2>2. Base(V)
    BY <2>1 DEF AInv
  <2>3. ASSUME NEW c \in Cmd, Step(c) PROVE EnginesBack'
    BY <2>1, <2>2, <2>3, StepBack
  <2>4. ASSUME NEW d \in Deps, NEW p \in Projects, StartDep(p, d) PROVE EnginesBack'
    <3>1. /\ Beside({}, {composeVolume(p, d)}) /\ cont'[d].st = "running"
          /\ \A e \in Deps \ {d} : cont'[e] = cont[e]
      BY <2>1, <2>2, <2>4, StartDepBase
    <3>2. why' = why
      BY <2>4 DEF StartDep
    <3> QED
      BY <2>2, <3>1, <3>2, BackStays
  <2>5. ASSUME NEW d \in Deps, RemoveDep(d) PROVE EnginesBack'
    <3>1. /\ Beside({}, {}) /\ cont'[d].st = "none"
          /\ \A e \in Deps \ {d} : cont'[e] = cont[e]
      BY <2>2, <2>5, RemoveDepBase
    <3>2. why' = why
      BY <2>5 DEF RemoveDep
    <3> QED
      BY <2>2, <3>1, <3>2, BackStays
  <2>6. ASSUME NEW d \in Deps, Write(d) PROVE EnginesBack'
    <3>1. Beside({}, {}) /\ \A e \in Deps : cont'[e].st = cont[e].st
      BY <2>2, <2>6, WriteBase
    <3>2. why' = why
      BY <2>6 DEF Write
    <3> QED
      BY <2>2, <3>1, <3>2, BackStays
  <2>7. ASSUME UNCHANGED vars PROVE EnginesBack'
    BY <2>7 DEF vars, EnginesBack
  <2> QED
    BY <2>3, <2>4, <2>5, <2>6, <2>7 DEF Next
<1> QED
  BY <1>1, <1>2, AInit, AStep, PTL DEF Spec

-----------------------------------------------------------------------------
(* Which volume a dependency used last.                                    *)

LastTrue ==
  /\ \A d \in Deps : cont[d].st # "none" => d \in DOMAIN last /\ last[d] = cont[d].vol
  /\ ~ws => \A d \in DOMAIN last : d \in NamedDeps /\ last[d] = composeVolume(Me, d)

\* No container is created.
LEMMA LastStays ==
  ASSUME LastTrue, UNCHANGED <<ws, entry, last>>,
         \A d \in Deps : cont'[d].st # "none" => cont[d].st # "none" /\ cont'[d].vol = cont[d].vol
  PROVE  LastTrue'
BY DEF LastTrue, NamedDeps, composeVolume, NormalizeVolumeName

LEMMA LastStep ==
  ASSUME AInv, LastTrue, [Next]_vars
  PROVE  LastTrue'
<1>1. PICK V : V = Volume
  OBVIOUS
<1>2. Base(V) /\ cont \in [Deps -> Container(V)] /\ cmd \in [Cmd -> CmdRec(V)]
  BY <1>1 DEF AInv, Base, Typed
<1>3. ASSUME UNCHANGED <<ws, entry, cont, last>> PROVE LastTrue'
  BY <1>3, LastStays
<1>4. ASSUME NEW c \in Cmd, Step(c) PROVE LastTrue'
  <2>1. UNCHANGED <<ws, entry, last>>
    BY <1>4 DEF Step, Create, QuiesceList, QuiesceStop, Export, Wipe, RemoveVolume, ExportFails,
       CreateMeta, CreateMetaFails, RemoveAll, Resume, Restore, Untar, Delete, RemoveVolumes,
       CleanVolumes, Kill
  <2>2. CASE QuiesceStop(c)
    <3>1. PICK S : cont' = StopContainers(S)
      BY <2>2 DEF QuiesceStop
    <3>2. ASSUME NEW d \in Deps
          PROVE  cont'[d].vol = cont[d].vol /\ (cont'[d].st # "none" => cont[d].st # "none")
      <4>1. cont'[d] \in {cont[d], [cont[d] EXCEPT !.st = "stopped"]}
              /\ (cont[d].st = "none" => cont'[d] = cont[d])
        BY <3>1 DEF StopContainers
      <4> QED
        BY <1>2, <4>1 DEF Container
    <3> QED
      BY <2>1, <3>2, LastStays
  <2>3. CASE Resume(c)
    <3>1. PICK S \in SUBSET {d \in cmd[c].stops : cont[d].st = "stopped"} :
            cont' = [d \in Deps |->
              IF d \in S THEN [cont[d] EXCEPT !.st = "running", !.mem = disk[cont[d].vol]]
              ELSE cont[d]]
      BY <2>3 DEF Resume
    <3>2. ASSUME NEW d \in Deps
          PROVE  cont'[d].vol = cont[d].vol /\ (cont'[d].st # "none" => cont[d].st # "none")
      <4>1. CASE d \in S
        BY <1>2, <3>1, <4>1 DEF Container
      <4>2. CASE d \notin S
        BY <3>1, <4>2
      <4> QED
        BY <4>1, <4>2
    <3> QED
      BY <2>1, <3>2, LastStays
  <2>4. CASE ~QuiesceStop(c) /\ ~Resume(c)
    <3>1. UNCHANGED cont
      BY <1>4, <2>4 DEF Step, Create, QuiesceList, Export, Wipe, RemoveVolume, ExportFails,
         CreateMeta, CreateMetaFails, RemoveAll, Restore, Untar, Delete, RemoveVolumes,
         CleanVolumes, Kill
    <3> QED
      BY <1>3, <2>1, <3>1
  <2> QED
    BY <2>2, <2>3, <2>4
<1>5. ASSUME NEW d \in Deps, NEW p \in Projects, StartDep(p, d) PROVE LastTrue'
  <2>1. /\ cont'[d].vol = composeVolume(p, d)
        /\ \A e \in Deps \ {d} : cont'[e] = cont[e]
    BY <1>1, <1>2, <1>5, StartDepBase
  <2>2. /\ d \in NamedDeps /\ (ws \/ p = Me) /\ last' = Put(last, {d}, composeVolume(p, d))
        /\ UNCHANGED <<ws, entry>>
    BY <1>5 DEF StartDep
  <2>3. DOMAIN last' = DOMAIN last \cup {d}
    BY <2>2, PutDomain
  <2>4. last'[d] = composeVolume(p, d)
    <3>1. \A w \in {d} : last'[w] = composeVolume(p, d)
      BY <2>2, PutNew
    <3> QED
      BY <3>1
  <2>5. \A w \in DOMAIN last \ {d} : last'[w] = last[w]
    BY <2>2, PutOld
  <2>6. NamedDeps' = NamedDeps /\ \A e : composeVolume(Me, e)' = composeVolume(Me, e)
    BY <2>2 DEF NamedDeps, composeVolume, NormalizeVolumeName
  <2>7. \A e \in Deps : cont'[e].st # "none" => e \in DOMAIN last' /\ last'[e] = cont'[e].vol
    BY <2>1, <2>3, <2>4, <2>5 DEF LastTrue
  <2>8. ~ws => \A e \in DOMAIN last' : e \in NamedDeps /\ last'[e] = composeVolume(Me, e)
    BY <2>2, <2>3, <2>4, <2>5 DEF LastTrue
  <2> QED
    BY <2>2, <2>6, <2>7, <2>8 DEF LastTrue
<1>6. ASSUME NEW d \in Deps, RemoveDep(d) PROVE LastTrue'
  <2>1. cont'[d].st = "none" /\ \A e \in Deps \ {d} : cont'[e] = cont[e]
    BY <1>2, <1>6, RemoveDepBase
  <2>2. UNCHANGED <<ws, entry, last>>
    BY <1>6 DEF RemoveDep
  <2> QED
    BY <2>1, <2>2, LastStays
<1>7. ASSUME NEW d \in Deps, Write(d) PROVE LastTrue'
  <2>1. \A e \in Deps : cont'[e].st = cont[e].st /\ cont'[e].vol = cont[e].vol
    BY <1>2, <1>7, WriteBase
  <2>2. UNCHANGED <<ws, entry, last>>
    BY <1>7 DEF Write
  <2> QED
    BY <2>1, <2>2, LastStays
<1>8. ASSUME UNCHANGED vars PROVE LastTrue'
  BY <1>3, <1>8 DEF vars
<1> QED
  BY <1>4, <1>5, <1>6, <1>7, <1>8 DEF Next

\* What the step that begins a create is about.
Whole(c) ==
  cmd[c].pc = "idle" /\ cmd'[c].op = "create" =>
    \A d \in NamedDeps \cap DOMAIN last :
      \/ last[d] \in cmd'[c].vols
      \/ last[d] \notin DOMAIN disk
      \/ ws
      \/ cont[d].st = "none" /\ entry[d].norm # entry[d].src
      \/ \E e \in Deps \ {d} : entry[e] = entry[d]

LEMMA WholeIs == SnapshotIsWhole <=> [][\A c \in Cmd : Whole(c)]_vars
BY DEF SnapshotIsWhole, Whole

LEMMA CreateWhole ==
  ASSUME AInv, LastTrue, NEW c \in Cmd, Create(c)
  PROVE  Whole(c)
<1>1. PICK S \in collectInfraVolumes :
        cmd' = [cmd EXCEPT ![c] =
          Started("create", "list", {f.name : f \in ResolvedVolumes(S)}, "current")]
  BY DEF Create
<1> DEFINE vols == {f.name : f \in ResolvedVolumes(S)}
<1>2. cmd'[c].vols = vols
  <2>1. cmd'[c] = Started("create", "list", vols, "current")
    BY <1>1 DEF AInv, Base, Typed
  <2> HIDE DEF vols
  <2> QED
    BY <2>1 DEF Started
<1>3. SUFFICES ASSUME NEW d \in NamedDeps \cap DOMAIN last, last[d] \in DOMAIN disk, ~ws,
                      cont[d].st # "none" \/ entry[d].norm = entry[d].src,
                      \A e \in Deps \ {d} : entry[e] # entry[d]
               PROVE  last[d] \in vols
  <2> HIDE DEF vols
  <2> QED
    BY <1>2 DEF Whole
<1>4. d \in Deps /\ d \in S
  <2>1. d \in Deps
    BY NamesIn
  <2>2. S \subseteq Deps /\ \E e \in S : entry[e] = entry[d]
    BY <2>1 DEF collectInfraVolumes
  <2> QED
    BY <1>3, <2>1, <2>2
<1>5. DepVolume(d).name \in vols
  BY <1>3, <1>4 DEF ResolvedVolumes
<1>6. DepVolume(d).name = last[d]
  <2>1. CASE cont[d].st # "none"
    <3>1. DepVolume(d) = [exists |-> TRUE, name |-> cont[d].vol]
      BY <1>3, <2>1 DEF DepVolume, mountedVolume
    <3> QED
      BY <1>4, <2>1, <3>1 DEF LastTrue
  <2>2. CASE cont[d].st = "none"
    <3>1. DepVolume(d) = FirstThere(d)
      BY <2>2 DEF DepVolume
    <3>2. last[d] = composeVolume(Me, d) /\ entry[d].norm = entry[d].src
      BY <1>3, <2>2 DEF LastTrue
    <3>3. last[d] = candidates(d)[1]
      BY <1>3, <3>2 DEF composeVolume, candidates, NormalizeVolumeName
    <3> QED
      BY <1>3, <3>1, <3>3, FirstIs
  <2> QED
    BY <2>1, <2>2
<1> QED
  BY <1>5, <1>6

\* A create begins with its own step only.
LEMMA OthersWhole ==
  ASSUME NEW V, Base(V), NEW C, NEW S, Beside(C, S)
  PROVE  \A k \in Cmd \ C : Whole(k)
<1> SUFFICES ASSUME NEW k \in Cmd \ C, cmd[k].pc = "idle" PROVE cmd'[k].op # "create"
  BY DEF Whole
<1>1. cmd[k] \in CmdRec(V) /\ cmd[k].op = "none"
  BY DEF Base, Typed, Shaped
<1>2. cmd'[k] \in {cmd[k], [cmd[k] EXCEPT !.calm = FALSE]}
  BY DEF Beside
<1> QED
  BY <1>1, <1>2 DEF CmdRec

LEMMA StepWhole ==
  ASSUME AInv, LastTrue, NEW c \in Cmd, Step(c)
  PROVE  \A k \in Cmd : Whole(k)
<1>1. PICK V : V = Volume
  OBVIOUS
<1>2. Base(V)
  BY <1>1 DEF AInv
<1>3. ASSUME NEW S, Beside({c}, S), Whole(c) PROVE \A k \in Cmd : Whole(k)
  BY <1>2, <1>3, OthersWhole
<1>4. cmd[c].pc # "idle" => Whole(c)
  BY DEF Whole
<1>5. \E S : Beside({c}, S)
  <2>1. CASE \/ Create(c) \/ QuiesceList(c) \/ QuiesceStop(c) \/ ExportFails(c) \/ CreateMeta(c)
             \/ RemoveAll(c) \/ Restore(c) \/ Delete(c) \/ RemoveVolumes(c) \/ Kill(c)
             \/ CreateMetaFails(c)
    BY <1>1, <1>2, <2>1, CreateBase, QuiesceListBase, QuiesceStopBase, ExportFailsBase,
       CreateMetaBase, CreateMetaFailsBase, RemoveAllBase, RestoreBase, DeleteBase, RemoveVolumesBase, KillBase
  <2>2. ASSUME NEW v, Export(c, v) PROVE \E S : Beside({c}, S)
    BY <1>2, <2>2, ExportBase
  <2>3. ASSUME NEW v, Wipe(c, v) PROVE \E S : Beside({c}, S)
    BY <1>2, <2>3, WipeBase
  <2>4. ASSUME NEW v, RemoveVolume(c, v) PROVE \E S : Beside({c}, S)
    BY <1>2, <2>4, RemoveVolumeBase
  <2>5. ASSUME Resume(c) PROVE \E S : Beside({c}, S)
    BY <1>2, <2>5, ResumeIs
  <2>6. ASSUME Untar(c) PROVE \E S : Beside({c}, S)
    BY <1>2, <2>6, UntarBase
  <2>7. ASSUME CleanVolumes(c) PROVE \E S : Beside({c}, S)
    BY <1>2, <2>7, CleanVolumesBase
  <2> QED
    BY <2>1, <2>2, <2>3, <2>4, <2>5, <2>6, <2>7 DEF Step
<1>6. Whole(c)
  <2>1. CASE Create(c)
    BY <2>1, CreateWhole
  <2>2. ASSUME Restore(c) \/ Delete(c) \/ RemoveVolumes(c) PROVE Whole(c)
    <3>1. cmd'[c].op \in {"restore", "delete", "volumes"}
      <4>1. CASE Restore(c)
        <5>1. cmd'[c] = Started("restore", "list", store[snapshotDir].meta, snapshotDir)
          BY <1>2, <4>1, RestoreBase
        <5> QED
          BY <5>1 DEF Started
      <4>2. CASE Delete(c)
        <5>1. cmd'[c] = Started("delete", "remove", {}, snapshotDir)
          BY <1>2, <4>2, DeleteBase
        <5> QED
          BY <5>1 DEF Started
      <4>3. CASE RemoveVolumes(c)
        BY <1>1, <1>2, <4>3, RemoveVolumesBase
      <4> QED
        BY <2>2, <4>1, <4>2, <4>3
    <3> QED
      BY <3>1 DEF Whole
  <2>3. CASE CleanVolumes(c)
    <3>1. cmd'[c] = cmd[c] /\ cmd[c].pc = "idle"
      BY <1>2, <2>3, CleanVolumesBase
    <3>2. cmd[c].op = "none"
      BY <1>2, <3>1 DEF Base, Shaped
    <3> QED
      BY <3>1, <3>2 DEF Whole
  <2>4. CASE ~Create(c) /\ ~Restore(c) /\ ~Delete(c) /\ ~RemoveVolumes(c) /\ ~CleanVolumes(c)
    <3>1. cmd[c].pc # "idle"
      BY <2>4 DEF Step, QuiesceList, QuiesceStop, Export, Wipe, RemoveVolume, ExportFails,
         CreateMeta, CreateMetaFails, RemoveAll, Resume, Untar, Kill
    <3> QED
      BY <1>4, <3>1
  <2> QED
    BY <2>1, <2>2, <2>3, <2>4
<1> QED
  BY <1>3, <1>5, <1>6

\* A snapshot is of the data the dependencies work on (app/snapshot.go,
\* docker.DepVolume): the volume each of them used last is among those a create
\* copies.  A container that is there knows its volume; without one the newest
\* name is that of the last `up`, if the entry is given to compose as it is.
THEOREM WholeHolds == Spec => SnapshotIsWhole
<1>1. Init => LastTrue
  BY DEF Init, NoContainer, LastTrue
<1>2. AInv /\ LastTrue /\ [Next]_vars => LastTrue'
  BY LastStep
<1>3. AInv /\ LastTrue /\ [Next]_vars => [\A c \in Cmd : Whole(c)]_vars
  <2> SUFFICES ASSUME AInv, LastTrue, Next PROVE \A c \in Cmd : Whole(c)
    BY DEF vars
  <2>1. PICK V : V = Volume
    OBVIOUS
  <2>2. Base(V)
    BY <2>1 DEF AInv
  <2>3. ASSUME NEW c \in Cmd, Step(c) PROVE \A k \in Cmd : Whole(k)
    BY <2>3, StepWhole
  <2>4. ASSUME NEW S, Beside({}, S) PROVE \A k \in Cmd : Whole(k)
    BY <2>2, <2>4, OthersWhole
  <2>5. ASSUME NEW d \in Deps, NEW p \in Projects, StartDep(p, d) PROVE \E S : Beside({}, S)
    BY <2>1, <2>2, <2>5, StartDepBase
  <2>6. ASSUME NEW d \in Deps, RemoveDep(d) PROVE \E S : Beside({}, S)
    BY <2>2, <2>6, RemoveDepBase
  <2>7. ASSUME NEW d \in Deps, Write(d) PROVE \E S : Beside({}, S)
    BY <2>2, <2>7, WriteBase
  <2> QED
    BY <2>3, <2>4, <2>5, <2>6, <2>7 DEF Next
<1>4. Spec => [][\A c \in Cmd : Whole(c)]_vars
  BY <1>1, <1>2, <1>3, AInit, AStep, PTL DEF Spec
<1> QED
  BY <1>4, WholeIs

-----------------------------------------------------------------------------
(* The snapshot in the stores.                                             *)

Sharing == {"create", "restore", "delete"}

\* No two commands work on the snapshot but to read it.
Exclusive ==
  \A c, k \in Cmd : c # k /\ cmd[c].op \in Sharing /\ cmd[k].op \in Sharing =>
    cmd[c].op = "restore" /\ cmd[k].op = "restore"

\* What a create has archived is what it copied, and there is no snapshot yet.
ArchTrue(k) == k.op = "create" =>
  /\ k.pc \in {"list", "stop", "export", "meta", "remove"} => ~store["current"].done
  /\ k.pc \in {"export", "meta"} => k.vols \ k.left \subseteq DOMAIN store["current"].arch
  /\ k.pc \in {"export", "meta"} /\ k.calm =>
       \A v \in k.vols \ k.left : store["current"].arch[v] = k.moment[v]
  /\ k.pc = "resume" /\ k.ok /\ k.calm =>
       \A v \in k.vols : store["current"].arch[v] = k.moment[v]

\* Nothing is lost with the directory of store s.
Elsewhere(s) == \A v \in emptied : \E t \in Stores \ {s} : Archived(t, v)

\* A delete takes nothing that is to be kept.
ForgetTrue(k) == k.op = "delete" => saved = <<>> /\ Elsewhere(k.dir)

\* A restore reads a snapshot that has an archive of each of its volumes, but
\* for what a delete that was killed has left.
ReadTrue(k) == k.op = "restore" => \A v \in k.vols : Archived(k.dir, v)

Kept(k) == ArchTrue(k) /\ ForgetTrue(k) /\ ReadTrue(k)

\* So does every snapshot, of the volumes it lists.
MetaTrue(s) == store[s].done => \A v \in store[s].meta : Archived(s, v)

\* The commands know each other and the current snapshot while no two are at
\* work on it; of the legacy one, which no create touches, nothing is forgotten.
Alike == "overlap" \notin why => Exclusive /\ MetaTrue("current") /\ \A c \in Cmd : Kept(cmd[c])

BInv == Alike /\ MetaTrue("legacy") /\ SavedStays /\ WipedIsSaved

\* What an archive on disk is worth is not lost while the stores stay.
LEMMA ArchivedStays ==
  ASSUME NEW s, store'[s] = store[s], NEW v, Archived(s, v), s \in why => s \in why'
  PROVE  Archived(s, v)'
BY DEF Archived

LEMMA AllArchived ==
  ASSUME UNCHANGED store, why \subseteq why'
  PROVE  /\ \A s, v : Archived(s, v) => Archived(s, v)'
         /\ \A s : MetaTrue(s) => MetaTrue(s)'
         /\ emptied' \subseteq emptied => \A s : Elsewhere(s) => Elsewhere(s)'
<1>1. \A s, v : Archived(s, v) => Archived(s, v)'
  BY ArchivedStays
<1>2. \A s : MetaTrue(s) => MetaTrue(s)'
  BY <1>1 DEF MetaTrue
<1>3. ASSUME emptied' \subseteq emptied, NEW s, Elsewhere(s) PROVE Elsewhere(s)'
  BY <1>1, <1>3 DEF Elsewhere
<1> QED
  BY <1>1, <1>2, <1>3

\* What a command knows stays with the stores, as long as its work is the same.
LEMMA SameWork ==
  ASSUME NEW k \in Cmd, UNCHANGED <<store, saved>>, emptied' \subseteq emptied, why \subseteq why',
         cmd'[k].op = cmd[k].op, cmd'[k].vols = cmd[k].vols, cmd'[k].dir = cmd[k].dir
  PROVE  /\ ForgetTrue(cmd[k]) => ForgetTrue(cmd[k])'
         /\ ReadTrue(cmd[k]) => ReadTrue(cmd[k])'
<1>1. ForgetTrue(cmd[k]) => ForgetTrue(cmd[k])'
  <2>1. \A s : Elsewhere(s) => Elsewhere(s)'
    BY AllArchived
  <2> QED
    BY <2>1 DEF ForgetTrue
<1>2. ReadTrue(cmd[k]) => ReadTrue(cmd[k])'
  <2>1. \A s, v : Archived(s, v) => Archived(s, v)'
    BY AllArchived
  <2> QED
    BY <2>1 DEF ReadTrue
<1> QED
  BY <1>1, <1>2

\* While the stores stay, so does what the commands beside know of them.
LEMMA OthersKept ==
  ASSUME NEW V, Base(V), NEW C, NEW S, Beside(C, S), UNCHANGED <<store, saved>>,
         emptied' \subseteq emptied, why \subseteq why', NEW k \in Cmd \ C
  PROVE  cmd'[k].op = cmd[k].op /\ (Kept(cmd[k]) => Kept(cmd[k])')
<1>1. cmd[k] \in CmdRec(V)
  BY DEF Base, Typed
<1>2. CASE cmd'[k] = cmd[k]
  <2>1. ArchTrue(cmd[k]) => ArchTrue(cmd[k])'
    BY <1>2 DEF ArchTrue
  <2> QED
    BY <1>2, <2>1, SameWork DEF Kept
<1>3. CASE cmd'[k] = [cmd[k] EXCEPT !.calm = FALSE]
  <2>1. /\ cmd'[k].op = cmd[k].op /\ cmd'[k].pc = cmd[k].pc /\ cmd'[k].vols = cmd[k].vols
        /\ cmd'[k].left = cmd[k].left /\ cmd'[k].dir = cmd[k].dir /\ ~cmd'[k].calm
    BY <1>1, <1>3 DEF CmdRec
  <2>2. ArchTrue(cmd[k]) => ArchTrue(cmd[k])'
    BY <2>1 DEF ArchTrue
  <2> QED
    BY <2>1, <2>2, SameWork DEF Kept
<1> QED
  BY <1>2, <1>3 DEF Beside

LEMMA OthersOp ==
  ASSUME NEW V, Base(V), NEW C, NEW S, Beside(C, S), NEW k \in Cmd \ C
  PROVE  cmd'[k].op = cmd[k].op
<1>1. cmd[k] \in CmdRec(V) /\ cmd'[k] \in {cmd[k], [cmd[k] EXCEPT !.calm = FALSE]}
  BY DEF Base, Typed, Beside
<1> QED
  BY <1>1 DEF CmdRec

\* A step that leaves the stores alone, of commands that know them as before.
LEMMA StoreStays ==
  ASSUME NEW V, Base(V), BInv, NEW C, NEW S, Beside(C, S), UNCHANGED <<store, saved>>,
         emptied' \subseteq emptied, why \subseteq why',
         \A c \in Cmd \cap C : /\ cmd'[c].op \in {cmd[c].op, "none", "volumes"}
                               /\ Kept(cmd[c]) => Kept(cmd[c])'
  PROVE  BInv'
<1>1. \A k \in Cmd : Kept(cmd[k]) => Kept(cmd[k])'
  <2>1. ASSUME NEW k \in Cmd \ C PROVE Kept(cmd[k]) => Kept(cmd[k])'
    BY OthersKept
  <2> QED
    BY <2>1
<1>2. \A k \in Cmd : cmd'[k].op \in {cmd[k].op, "none", "volumes"}
  <2>1. ASSUME NEW k \in Cmd \ C PROVE cmd'[k].op = cmd[k].op
    BY OthersOp
  <2> QED
    BY <2>1
<1>3. \A s, v : Archived(s, v) => Archived(s, v)'
  BY AllArchived
<1>4. \A s : MetaTrue(s) => MetaTrue(s)'
  BY AllArchived
<1>5. Alike'
  <2>1. SUFFICES ASSUME "overlap" \notin why'
                 PROVE  (Exclusive /\ MetaTrue("current") /\ \A k \in Cmd : Kept(cmd[k]))'
    BY DEF Alike
  <2>2. Exclusive /\ MetaTrue("current") /\ \A k \in Cmd : Kept(cmd[k])
    BY <2>1 DEF BInv, Alike
  <2>3. Exclusive'
    BY <1>2, <2>2 DEF Exclusive, Sharing
  <2> QED
    BY <1>1, <1>4, <2>2, <2>3
<1>6. SavedStays'
  BY DEF BInv, SavedStays
<1>7. WipedIsSaved'
  BY <1>3 DEF BInv, WipedIsSaved
<1> QED
  BY <1>4, <1>5, <1>6, <1>7 DEF BInv

\* With one command at work on the snapshot, the others know nothing of it.
LEMMA OnlyOne ==
  ASSUME NEW V, Base(V), NEW c \in Cmd, NEW S, Beside({c}, S),
         \A k \in Cmd \ {c} : cmd[k].op \notin Sharing
  PROVE  Exclusive' /\ \A k \in Cmd \ {c} : Kept(cmd[k])'
<1>1. \A k \in Cmd \ {c} : cmd'[k].op \notin Sharing
  BY OthersOp
<1> QED
  BY <1>1 DEF Exclusive, Sharing, Kept, ArchTrue, ForgetTrue, ReadTrue

\* A create or a delete under way is the only one.
LEMMA Writing ==
  ASSUME BInv, "overlap" \notin why, NEW c \in Cmd, cmd[c].op \in {"create", "delete"}
  PROVE  \A k \in Cmd \ {c} : cmd[k].op \notin Sharing
BY DEF BInv, Alike, Exclusive, Sharing

\* The two stores, and what a step does to one of them.
LEMMA StoreIs ==
  ASSUME NEW V, Base(V), NEW s \in Stores, NEW new, store' = [store EXCEPT ![s] = new]
  PROVE  store'[s] = new /\ \A t \in Stores \ {s} : store'[t] = store[t]
BY DEF Base, Typed

\* The steps of one command that leave the stores alone.
LEMMA LightKept ==
  ASSUME NEW V, V = Volume, Base(V), BInv, NEW c \in Cmd,
         \/ QuiesceList(c) \/ QuiesceStop(c) \/ ExportFails(c) \/ Resume(c) \/ Untar(c)
         \/ RemoveVolumes(c) \/ CleanVolumes(c) \/ \E v \in Volume : RemoveVolume(c, v)
  PROVE  BInv'
<1>1. cmd \in [Cmd -> CmdRec(V)] /\ cmd[c] \in CmdRec(V) /\ Shaped(cmd[c])
  BY DEF Base, Typed
<1>2. UNCHANGED <<store, saved>> /\ why \subseteq why'
  BY DEF QuiesceList, QuiesceStop, ExportFails, Resume, Untar, RemoveVolumes, CleanVolumes,
     RemoveVolume, Fault
<1>3. ASSUME NEW S, Beside({c}, S), emptied' \subseteq emptied,
             cmd'[c].op \in {cmd[c].op, "none", "volumes"}, Kept(cmd[c]) => Kept(cmd[c])'
      PROVE  BInv'
  BY <1>2, <1>3, StoreStays
<1>4. ASSUME NEW S, Beside({c}, S), emptied' \subseteq emptied, cmd'[c].op \in {"none", "volumes"}
      PROVE  BInv'
  <2>1. Kept(cmd[c])'
    BY <1>4 DEF Kept, ArchTrue, ForgetTrue, ReadTrue
  <2> QED
    BY <1>3, <1>4, <2>1
<1>5. ASSUME NEW S, Beside({c}, S), emptied' \subseteq emptied, cmd'[c].op = cmd[c].op,
             cmd'[c].vols = cmd[c].vols, cmd'[c].dir = cmd[c].dir,
             ArchTrue(cmd[c]) => ArchTrue(cmd[c])'
      PROVE  BInv'
  BY <1>2, <1>3, <1>5, SameWork DEF Kept
<1>6. ASSUME QuiesceList(c) PROVE BInv'
  <2>1. /\ Beside({c}, {})
        /\ cmd'[c] = [cmd[c] EXCEPT !.stops = UNION {Running(v) : v \in cmd[c].vols}, !.pc = "stop"]
    BY <1>6, QuiesceListBase
  <2>2. cmd[c].pc = "list" /\ emptied' = emptied
    BY <1>6 DEF QuiesceList
  <2>3. /\ cmd'[c].op = cmd[c].op /\ cmd'[c].pc = "stop" /\ cmd'[c].vols = cmd[c].vols
        /\ cmd'[c].dir = cmd[c].dir
    <3>1. PICK x : x = UNION {Running(v) : v \in cmd[c].vols}
      OBVIOUS
    <3> QED
      BY <1>1, <2>1, <3>1 DEF CmdRec
  <2>4. ArchTrue(cmd[c]) => ArchTrue(cmd[c])'
    BY <1>2, <2>2, <2>3 DEF ArchTrue
  <2> QED
    BY <1>5, <2>1, <2>2, <2>3, <2>4
<1>7. ASSUME QuiesceStop(c) PROVE BInv'
  <2>1. Beside({c}, {})
    BY <1>7, QuiesceStopBase
  <2>2. cmd[c].pc = "stop" /\ emptied' = emptied
    BY <1>7 DEF QuiesceStop
  <2>3. ASSUME NEW moment,
               cmd' = [cmd EXCEPT ![c].pc = IF cmd[c].op = "create" THEN "export" ELSE "wipe",
                                  ![c].moment = moment]
        PROVE  BInv'
    <3>1. /\ cmd'[c].op = cmd[c].op /\ cmd'[c].vols = cmd[c].vols /\ cmd'[c].dir = cmd[c].dir
          /\ cmd'[c].left = cmd[c].vols
          /\ cmd'[c].pc = IF cmd[c].op = "create" THEN "export" ELSE "wipe"
      BY <1>1, <2>2, <2>3 DEF CmdRec, Shaped
    <3>2. ArchTrue(cmd[c]) => ArchTrue(cmd[c])'
      BY <1>2, <2>2, <3>1 DEF ArchTrue
    <3> QED
      BY <1>5, <2>1, <2>2, <3>1, <3>2
  <2>4. ASSUME cmd' = [cmd EXCEPT ![c] =
                 IF @.op = "create" THEN [@ EXCEPT !.pc = "remove", !.ok = FALSE, !.stops = {}]
                 ELSE Idle]
        PROVE  BInv'
    <3>1. cmd'[c] = IF cmd[c].op = "create"
                      THEN [cmd[c] EXCEPT !.pc = "remove", !.ok = FALSE, !.stops = {}] ELSE Idle
      BY <1>1, <2>4
    <3>2. CASE cmd[c].op = "create"
      <4>1. /\ cmd'[c].op = cmd[c].op /\ cmd'[c].vols = cmd[c].vols /\ cmd'[c].dir = cmd[c].dir
            /\ cmd'[c].pc = "remove"
        BY <1>1, <3>1, <3>2 DEF CmdRec
      <4>2. ArchTrue(cmd[c]) => ArchTrue(cmd[c])'
        BY <1>2, <2>2, <4>1 DEF ArchTrue
      <4> QED
        BY <1>5, <2>1, <2>2, <4>1, <4>2
    <3>3. CASE cmd[c].op # "create"
      <4>1. cmd'[c].op = "none"
        BY <3>1, <3>3 DEF Idle, Started
      <4> QED
        BY <1>4, <2>1, <2>2, <4>1
    <3> QED
      BY <3>2, <3>3
  <2> QED
    BY <1>7, <2>3, <2>4 DEF QuiesceStop
<1>8. ASSUME ExportFails(c) PROVE BInv'
  <2>1. Beside({c}, {}) /\ cmd'[c] = [cmd[c] EXCEPT !.pc = "remove", !.ok = FALSE]
    BY <1>8, ExportFailsBase
  <2>2. cmd[c].pc = "export" /\ emptied' = emptied
    BY <1>8 DEF ExportFails
  <2>3. /\ cmd'[c].op = cmd[c].op /\ cmd'[c].pc = "remove" /\ cmd'[c].vols = cmd[c].vols
        /\ cmd'[c].dir = cmd[c].dir
    BY <1>1, <2>1 DEF CmdRec
  <2>4. ArchTrue(cmd[c]) => ArchTrue(cmd[c])'
    BY <1>2, <2>2, <2>3 DEF ArchTrue
  <2> QED
    BY <1>5, <2>1, <2>2, <2>3, <2>4
<1>9. ASSUME Resume(c) PROVE BInv'
  <2>1. (\E S : Beside({c}, S)) /\ cmd'[c] = Idle
    BY <1>9, ResumeIs
  <2>2. emptied' = emptied
    BY <1>9 DEF Resume
  <2>3. cmd'[c].op = "none"
    BY <2>1 DEF Idle, Started
  <2> QED
    BY <1>4, <2>1, <2>2, <2>3
<1>10. ASSUME Untar(c) PROVE BInv'
  <2>1. \E S : Beside({c}, S)
    BY <1>10, UntarBase
  <2>2. cmd[c].op = "restore" /\ emptied' \subseteq emptied
    BY <1>1, <1>10 DEF Untar, Shaped
  <2>3. /\ cmd'[c].op = "restore" /\ cmd'[c].vols = cmd[c].vols /\ cmd'[c].dir = cmd[c].dir
    <3>1. ASSUME NEW x, cmd'[c] = [cmd[c] EXCEPT !.moment = x, !.now = {},
                                     !.pc = IF cmd[c].left = {} THEN "resume" ELSE "wipe"]
          PROVE  cmd'[c].op = cmd[c].op /\ cmd'[c].vols = cmd[c].vols /\ cmd'[c].dir = cmd[c].dir
      BY <1>1, <3>1 DEF CmdRec
    <3>2. ASSUME cmd'[c] = [cmd[c] EXCEPT !.pc = "resume", !.ok = FALSE]
          PROVE  cmd'[c].op = cmd[c].op /\ cmd'[c].vols = cmd[c].vols /\ cmd'[c].dir = cmd[c].dir
      BY <1>1, <3>2 DEF CmdRec
    <3> QED
      BY <1>10, <2>2, <3>1, <3>2, UntarBase
  <2>4. ArchTrue(cmd[c])'
    BY <2>3 DEF ArchTrue
  <2> QED
    BY <1>5, <2>1, <2>2, <2>3, <2>4
<1>11. ASSUME RemoveVolumes(c) PROVE BInv'
  <2>1. Beside({c}, {}) /\ cmd'[c].op = "volumes"
    BY <1>11, RemoveVolumesBase
  <2>2. emptied' = emptied
    BY <1>11 DEF RemoveVolumes
  <2> QED
    BY <1>4, <2>1, <2>2
<1>12. ASSUME CleanVolumes(c) PROVE BInv'
  <2>1. cmd'[c] = cmd[c] /\ cmd[c].pc = "idle" /\ \E gone : Beside({c}, gone) /\ emptied' = emptied \ gone
    BY <1>12, CleanVolumesBase
  <2>2. cmd'[c].op = "none"
    BY <1>1, <2>1 DEF Shaped
  <2> QED
    BY <1>4, <2>1, <2>2
<1>13. ASSUME NEW v \in Volume, RemoveVolume(c, v) PROVE BInv'
  <2>1. /\ Beside({c}, RemoveVolumeWithContext(v))
        /\ cmd'[c] \in {Idle, [cmd[c] EXCEPT !.left = cmd[c].left \ {v}]}
    BY <1>13, RemoveVolumeBase
  <2>2. cmd[c].op = "volumes" /\ emptied' \subseteq emptied
    BY <1>1, <1>13 DEF RemoveVolume, Shaped
  <2>3. cmd'[c].op \in {"none", "volumes"}
    BY <1>1, <2>1, <2>2 DEF CmdRec, Idle, Started
  <2> QED
    BY <1>4, <2>1, <2>2, <2>3
<1> QED
  BY <1>6, <1>7, <1>8, <1>9, <1>10, <1>11, <1>12, <1>13

\* What a restore reads is untouched while others begin or go on.
LEMMA OthersRead ==
  ASSUME NEW V, Base(V), NEW C, NEW S, Beside(C, S), UNCHANGED store, why \subseteq why',
         NEW k \in Cmd \ C, ReadTrue(cmd[k])
  PROVE  ReadTrue(cmd[k])'
<1>1. cmd[k] \in CmdRec(V) /\ cmd'[k] \in {cmd[k], [cmd[k] EXCEPT !.calm = FALSE]}
  BY DEF Base, Typed, Beside
<1>2. cmd'[k].op = cmd[k].op /\ cmd'[k].vols = cmd[k].vols /\ cmd'[k].dir = cmd[k].dir
  BY <1>1 DEF CmdRec
<1>3. \A s, v : Archived(s, v) => Archived(s, v)'
  BY AllArchived
<1> QED
  BY <1>2, <1>3 DEF ReadTrue

\* A step of the only command at work on the snapshot.
LEMMA WriterKeeps ==
  ASSUME NEW V, Base(V), NEW c \in Cmd, NEW S, Beside({c}, S),
         "overlap" \notin why' => /\ \A k \in Cmd \ {c} : cmd[k].op \notin Sharing
                                  /\ Kept(cmd[c])' /\ MetaTrue("current")',
         MetaTrue("legacy")', SavedStays', WipedIsSaved'
  PROVE  BInv'
<1>1. ASSUME "overlap" \notin why'
      PROVE  (Exclusive /\ MetaTrue("current") /\ \A k \in Cmd : Kept(cmd[k]))'
  <2>1. Exclusive' /\ \A k \in Cmd \ {c} : Kept(cmd[k])'
    BY <1>1, OnlyOne
  <2> QED
    BY <1>1, <2>1
<1>2. Alike'
  BY <1>1 DEF Alike
<1> QED
  BY <1>2 DEF BInv

LEMMA NoticingIs ==
  ASSUME NEW c \in Cmd, Noticing(c)
  PROVE  /\ why \subseteq why'
         /\ "overlap" \notin why' =>
              /\ why' = why
              /\ \A k \in Cmd \ {c} : cmd[k].op \in Sharing =>
                   cmd[k].op = "restore" /\ cmd'[c].op = "restore"
<1>1. "overlap" \notin why' =>
        ~\E k \in Cmd \ {c} : cmd[k].op \in Sharing /\ {cmd[k].op, cmd'[c].op} # {"restore"}
  BY DEF Noticing, Meets, Sharing
<1>2. "overlap" \notin why' =>
        \A k \in Cmd \ {c} : cmd[k].op \in Sharing =>
          cmd[k].op = "restore" /\ cmd'[c].op = "restore"
  BY <1>1
<1>3. why \subseteq why' /\ ("overlap" \notin why' => why' = why)
  BY DEF Noticing
<1> QED
  BY <1>2, <1>3

\* A create that meets nobody takes over what nobody else is at work on.
LEMMA NewAccountIs ==
  ASSUME NEW c \in Cmd, NewAccount(c), cmd'[c].op = "create"
  PROVE  /\ "legacy" \in why => "legacy" \in why'
         /\ "overlap" \notin why' =>
              /\ \A k \in Cmd \ {c} : cmd[k].op \notin Sharing
              /\ "overlap" \notin why => UNCHANGED <<saved, emptied>>
              /\ "overlap" \in why =>
                   saved' = <<>> /\ emptied' = {v \in emptied : Archived("legacy", v)}
<1>1. "legacy" \in why => "legacy" \in why'
  BY DEF NewAccount
<1>2. ASSUME "overlap" \notin why' PROVE ~Meets(c)
  BY <1>2 DEF NewAccount
<1>3. ~Meets(c) => \A k \in Cmd \ {c} : cmd[k].op \notin Sharing
  <2>1. ASSUME NEW k \in Cmd \ {c}, cmd[k].op \in Sharing PROVE Meets(c)
    <3>1. {cmd[k].op, cmd'[c].op} # {"restore"}
      OBVIOUS
    <3> QED
      BY <2>1, <3>1 DEF Meets, Sharing
  <2> QED
    BY <2>1
<1>4. ASSUME ~Meets(c), "overlap" \notin why PROVE UNCHANGED <<saved, emptied>>
  BY <1>4 DEF NewAccount
<1>5. ASSUME ~Meets(c), "overlap" \in why
      PROVE  saved' = <<>> /\ emptied' = {v \in emptied : Archived("legacy", v)}
  BY <1>5 DEF NewAccount
<1> QED
  BY <1>1, <1>2, <1>3, <1>4, <1>5

LEMMA CreateKept ==
  ASSUME NEW V, V = Volume, Base(V), BInv, NEW c \in Cmd, Create(c)
  PROVE  BInv'
<1>1. Beside({c}, {})
  BY CreateBase
<1>2. cmd'[c].op = "create" /\ cmd'[c].pc = "list" /\ ~store["current"].done
  <2>1. PICK vols : /\ ~store["current"].done
                    /\ cmd' = [cmd EXCEPT ![c] = Started("create", "list", vols, "current")]
    BY DEF Create, CreateAccepts
  <2>2. cmd'[c] = Started("create", "list", vols, "current")
    BY <2>1 DEF Base, Typed
  <2> QED
    BY <2>1, <2>2 DEF Started
<1>3. store'["current"].done = store["current"].done /\ store'["legacy"] = store["legacy"]
  <2>1. store \in [Stores -> Dir(V)] /\ store["current"] \in Dir(V)
    BY DEF Base, Typed, Stores
  <2>2. store' = [store EXCEPT !["current"] = [store["current"] EXCEPT !.there = TRUE]]
    BY DEF Create
  <2> QED
    BY <2>1, <2>2 DEF Dir, Stores
<1>4. /\ "legacy" \in why => "legacy" \in why'
      /\ "overlap" \notin why' =>
           /\ \A k \in Cmd \ {c} : cmd[k].op \notin Sharing
           /\ "overlap" \notin why => UNCHANGED <<saved, emptied>>
           /\ "overlap" \in why =>
                saved' = <<>> /\ emptied' = {v \in emptied : Archived("legacy", v)}
  BY <1>2, NewAccountIs DEF Create
<1>5. \A v : Archived("legacy", v) => Archived("legacy", v)'
  BY <1>3, <1>4, ArchivedStays
<1>6. Kept(cmd[c])'
  BY <1>2, <1>3 DEF Kept, ArchTrue, ForgetTrue, ReadTrue
<1>7. MetaTrue("current")'
  BY <1>2, <1>3 DEF MetaTrue
<1>8. MetaTrue("legacy")'
  BY <1>3, <1>5 DEF BInv, MetaTrue
<1>9. SavedStays'
  <2>1. SUFFICES ASSUME "overlap" \notin why' PROVE saved' = <<>>
    BY DEF SavedStays
  <2>2. CASE "overlap" \in why
    BY <1>4, <2>1, <2>2
  <2>3. CASE "overlap" \notin why
    <3>1. saved = <<>>
      BY <1>2, <2>3 DEF BInv, SavedStays
    <3> QED
      BY <1>4, <2>1, <2>3, <3>1
  <2> QED
    BY <2>2, <2>3
<1>10. WipedIsSaved'
  <2>1. SUFFICES ASSUME "overlap" \notin why', NEW v \in emptied' PROVE Archived("legacy", v)
    BY <1>5 DEF WipedIsSaved, Stores
  <2>2. CASE "overlap" \in why
    BY <1>4, <2>1, <2>2
  <2>3. CASE "overlap" \notin why
    <3>1. v \in emptied
      BY <1>4, <2>1, <2>3
    <3>2. \E s \in Stores : Archived(s, v)
      BY <2>3, <3>1 DEF BInv, WipedIsSaved
    <3>3. ~Archived("current", v)
      BY <1>2 DEF Archived
    <3> QED
      BY <3>2, <3>3 DEF Stores
  <2> QED
    BY <2>2, <2>3
<1> QED
  BY <1>1, <1>4, <1>6, <1>7, <1>8, <1>9, <1>10, WriterKeeps

LEMMA ExportKept ==
  ASSUME NEW V, Base(V), BInv, NEW c \in Cmd, NEW v, Calm(cmd[c]), Export(c, v)
  PROVE  BInv'
<1> DEFINE arch == store["current"].arch
           new == Put(arch, {v}, exportVolume(v))
           pc == IF cmd[c].left = {v} THEN "meta" ELSE "export"
<1>1. /\ cmd[c] \in CmdRec(V) /\ Shaped(cmd[c]) /\ cmd[c].pc = "export" /\ v \in cmd[c].left
      /\ UNCHANGED <<saved, emptied, why>>
  BY DEF Base, Typed, Export
<1>2. cmd[c].op = "create" /\ cmd[c].left \subseteq cmd[c].vols
  BY <1>1 DEF Shaped
<1>3. /\ Beside({c}, {})
      /\ cmd'[c] = [cmd[c] EXCEPT !.left = @ \ {v}, !.pc = pc]
      /\ store' = [store EXCEPT !["current"] = [store["current"] EXCEPT
                     !.arch = new, !.there = TRUE]]
  BY ExportBase
<1> HIDE DEF new, pc
<1>4. /\ cmd'[c].op = "create" /\ cmd'[c].pc = pc /\ cmd'[c].vols = cmd[c].vols
      /\ cmd'[c].calm = cmd[c].calm /\ cmd'[c].moment = cmd[c].moment
      /\ cmd'[c].left = cmd[c].left \ {v}
  BY <1>1, <1>2, <1>3 DEF CmdRec
<1>5. /\ store'["current"].done = store["current"].done /\ store'["current"].arch = new
      /\ \A s \in Stores \ {"current"} : store'[s] = store[s]
  <2>1. "current" \in Stores
    BY DEF Stores
  <2>2. store["current"] \in Dir(V)
    BY <2>1 DEF Base, Typed
  <2> DEFINE dir == [store["current"] EXCEPT !.arch = new, !.there = TRUE]
  <2>3. dir.done = store["current"].done /\ dir.arch = new
    BY <2>2 DEF Dir
  <2>4. store' = [store EXCEPT !["current"] = dir]
    BY <1>3
  <2> HIDE DEF dir
  <2>5. store'["current"] = dir /\ \A s \in Stores \ {"current"} : store'[s] = store[s]
    BY <2>1, <2>4, StoreIs
  <2> QED
    BY <2>3, <2>5
<1>6. DOMAIN new = DOMAIN arch \cup {v}
  BY PutDomain DEF new
<1>7. new[v] = exportVolume(v)
  <2>1. \A w \in {v} : new[w] = exportVolume(v)
    BY PutNew DEF new
  <2> QED
    BY <2>1
<1>8. \A w \in DOMAIN arch \ {v} : new[w] = arch[w]
  BY PutOld DEF new
<1>9. pc \in {"meta", "export"}
  BY DEF pc
<1>10. ASSUME "overlap" \notin why PROVE Kept(cmd[c]) /\ ~store["current"].done
  BY <1>1, <1>2, <1>10 DEF BInv, Alike, Kept, ArchTrue
<1>11. ASSUME "overlap" \notin why' PROVE Kept(cmd[c])' /\ ~store'["current"].done
  <2> DEFINE W == cmd[c].vols \ cmd[c].left
  <2>1. W \subseteq DOMAIN arch /\ (cmd[c].calm => \A w \in W : arch[w] = cmd[c].moment[w])
    BY <1>1, <1>2, <1>10, <1>11 DEF Kept, ArchTrue
  <2>2. cmd[c].calm => exportVolume(v) = cmd[c].moment[v]
    <3>1. SUFFICES ASSUME cmd[c].calm PROVE exportVolume(v) = cmd[c].moment[v]
      OBVIOUS
    <3>2. v \in cmd[c].vols
      BY <1>1, <1>2
    <3>3. v \in DOMAIN disk /\ cmd[c].moment[v] = disk[v]
      BY <1>1, <1>2, <3>1, <3>2 DEF Calm, CopyTrue
    <3>4. Running(v) = {}
      BY <1>1, <1>2, <3>1, <3>2 DEF Calm, Quiet, Still
    <3> QED
      BY <3>3, <3>4 DEF exportVolume
  <2>3. cmd'[c].vols \ cmd'[c].left = W \cup {v}
    BY <1>1, <1>2, <1>4
  <2> HIDE DEF W, arch
  <2>4. W \cup {v} \subseteq DOMAIN new
    BY <1>6, <2>1
  <2>5. cmd[c].calm => \A w \in W \cup {v} : new[w] = cmd[c].moment[w]
    BY <1>7, <1>8, <2>1, <2>2
  <2>6. ~store'["current"].done
    BY <1>5, <1>10, <1>11, <1>1
  <2> QED
    BY <1>4, <1>5, <1>9, <2>3, <2>4, <2>5, <2>6 DEF Kept, ArchTrue, ForgetTrue, ReadTrue
<1>12. "overlap" \notin why' => MetaTrue("current")'
  BY <1>11 DEF MetaTrue
<1>13. SavedStays'
  BY <1>1, <1>10 DEF BInv, SavedStays
<1>14. \A s \in Stores : \A w : Archived(s, w) => Archived(s, w)'
  <2>1. \A s \in Stores : /\ store'[s].done = store[s].done
                          /\ DOMAIN store[s].arch \subseteq DOMAIN store'[s].arch
    BY <1>5, <1>6
  <2> QED
    BY <1>1, <2>1 DEF Archived
<1>15. WipedIsSaved'
  BY <1>1, <1>14 DEF BInv, WipedIsSaved
<1>16. MetaTrue("legacy")'
  <2>1. store'["legacy"] = store["legacy"]
    BY <1>5 DEF Stores
  <2> QED
    BY <1>14, <2>1 DEF BInv, MetaTrue, Stores
<1> QED
  BY <1>1, <1>2, <1>3, <1>11, <1>12, <1>13, <1>15, <1>16, Writing, WriterKeeps

LEMMA CreateMetaKept ==
  ASSUME NEW V, Base(V), BInv, NEW c \in Cmd, CreateMeta(c)
  PROVE  BInv'
<1> DEFINE arch == store["current"].arch
           vols == cmd[c].vols
<1>1. /\ cmd[c] \in CmdRec(V) /\ Shaped(cmd[c]) /\ cmd[c].pc = "meta"
      /\ UNCHANGED <<emptied, why>>
  BY DEF Base, Typed, CreateMeta
<1>2. cmd[c].op = "create" /\ cmd[c].left = {}
  BY <1>1 DEF Shaped
<1>3. /\ Beside({c}, {})
      /\ cmd'[c] \in {[cmd[c] EXCEPT !.pc = "resume"], [cmd[c] EXCEPT !.pc = "resume", !.ok = FALSE]}
  BY CreateMetaBase
<1>4. /\ cmd'[c].op = "create" /\ cmd'[c].pc = "resume" /\ cmd'[c].vols = vols
      /\ cmd'[c].calm = cmd[c].calm /\ cmd'[c].moment = cmd[c].moment
  BY <1>1, <1>2, <1>3 DEF CmdRec
<1>5. ASSUME "overlap" \notin why
      PROVE  vols \subseteq DOMAIN arch /\ (cmd[c].calm => \A v \in vols : arch[v] = cmd[c].moment[v])
  BY <1>1, <1>2, <1>5 DEF BInv, Alike, Kept, ArchTrue
<1>6. CASE store.current.there
  <2>1. store \in [Stores -> Dir(V)] /\ store["current"] \in Dir(V) /\ "current" \in Stores
    BY DEF Base, Typed, Stores
  <2> DEFINE new == [store["current"] EXCEPT !.done = TRUE, !.torn = FALSE, !.meta = vols]
  <2>2. store' = [store EXCEPT !["current"] = new]
    <3>1. store' = [store EXCEPT !.current.done = TRUE, !.current.torn = FALSE,
                                 !.current.meta = cmd[c].vols]
      BY <1>6 DEF CreateMeta
    <3> QED
      BY <2>1, <3>1 DEF Dir
  <2>3. new.done /\ new.meta = vols /\ new.arch = arch
    BY <2>1 DEF Dir
  <2> HIDE DEF new
  <2>4. store'["current"] = new /\ \A s \in Stores \ {"current"} : store'[s] = store[s]
    BY <2>1, <2>2, StoreIs
  <2>5. saved' = Restrict(arch, vols \cap DOMAIN arch)
    BY <1>6 DEF CreateMeta
  <2>6. "overlap" \notin why' => Kept(cmd[c])'
    BY <1>1, <1>4, <1>5, <2>3, <2>4 DEF Kept, ArchTrue, ForgetTrue, ReadTrue
  <2>7. "overlap" \notin why' => MetaTrue("current")'
    BY <1>1, <1>5, <2>3, <2>4 DEF MetaTrue, Archived
  <2>8. SavedStays'
    <3>1. DOMAIN saved' = vols \cap DOMAIN arch
      BY <2>5, RestrictOver
    <3>2. Restrict(arch, DOMAIN saved') = saved'
      BY <2>5, <3>1
    <3> HIDE DEF arch
    <3> QED
      BY <2>3, <2>4, <3>1, <3>2 DEF SavedStays
  <2>9. WipedIsSaved'
    <3>1. \A s \in Stores : (store[s].done => store'[s].done) /\ store'[s].arch = store[s].arch
      BY <2>3, <2>4
    <3>2. \A s \in Stores : \A v : Archived(s, v) => Archived(s, v)'
      BY <1>1, <3>1 DEF Archived
    <3> QED
      BY <1>1, <3>2 DEF BInv, WipedIsSaved
  <2>10. MetaTrue("legacy")'
    <3>1. store'["legacy"] = store["legacy"]
      BY <2>4 DEF Stores
    <3> QED
      BY <1>1, <3>1 DEF BInv, MetaTrue, Archived
  <2> QED
    BY <1>1, <1>2, <1>3, <2>6, <2>7, <2>8, <2>9, <2>10, Writing, WriterKeeps
<1>7. CASE ~store.current.there
  <2>1. UNCHANGED <<store, saved>> /\ Fail(c, "resume")
    BY <1>7 DEF CreateMeta
  <2>2. ~cmd'[c].ok
    <3> DEFINE rec == [cmd[c] EXCEPT !.pc = "resume", !.ok = FALSE]
    <3>1. cmd' = [cmd EXCEPT ![c] = rec]
      BY <2>1, FailIs
    <3>2. ~rec.ok
      BY <1>1 DEF CmdRec
    <3> HIDE DEF rec
    <3> QED
      BY <3>1, <3>2 DEF Base, Typed
  <2>3. Kept(cmd[c])'
    BY <1>4, <2>2 DEF Kept, ArchTrue, ForgetTrue, ReadTrue
  <2> QED
    BY <1>1, <1>2, <1>3, <1>4, <2>1, <2>3, StoreStays
<1> QED
  BY <1>6, <1>7

\* A store's directory goes with what is in it, or a command fails or is killed
\* while it writes there: only a create that saved nothing, or a delete, does so.
LEMMA NothingToKeep ==
  ASSUME NEW V, Base(V), BInv, NEW c \in Cmd, cmd[c].pc \in {"export", "meta", "remove"},
         "overlap" \notin why
  PROVE  /\ saved = <<>> /\ Elsewhere(cmd[c].dir)
         /\ \A k \in Cmd \ {c} : cmd[k].op \notin Sharing
         /\ \/ cmd[c].op = "create" /\ cmd[c].dir = "current" /\ ~store["current"].done
            \/ cmd[c].op = "delete"
<1>1. Shaped(cmd[c])
  BY DEF Base
<1>2. cmd[c].op \in {"create", "delete"}
  BY <1>1 DEF Shaped
<1>3. Kept(cmd[c])
  BY DEF BInv, Alike
<1>4. \A k \in Cmd \ {c} : cmd[k].op \notin Sharing
  BY <1>2, Writing
<1>5. CASE cmd[c].op = "create"
  <2>1. ~store["current"].done /\ cmd[c].dir = "current"
    BY <1>1, <1>3, <1>5 DEF Shaped, Kept, ArchTrue
  <2>2. saved = <<>>
    BY <2>1 DEF BInv, SavedStays
  <2>3. \A v : ~Archived("current", v)
    BY <2>1 DEF Archived
  <2>4. Elsewhere("current")
    BY <2>3 DEF BInv, WipedIsSaved, Elsewhere
  <2> QED
    BY <1>4, <1>5, <2>1, <2>2, <2>4
<1>6. CASE cmd[c].op = "delete"
  BY <1>3, <1>4, <1>6 DEF Kept, ForgetTrue
<1> QED
  BY <1>2, <1>5, <1>6

\* So such a step takes nothing that is to be kept.
LEMMA LosesNothing ==
  ASSUME NEW V, Base(V), BInv, NEW c \in Cmd, Beside({c}, {}), NEW d, d = cmd[c].dir,
         cmd[c].pc \in {"export", "meta", "remove"}, UNCHANGED <<saved, emptied>>,
         why \subseteq why', \A s \in Stores \ {d} : store'[s] = store[s],
         store'[d].done => store[d].done /\ (cmd[c].op = "delete" => d \in why'),
         ArchTrue(cmd[c])', ReadTrue(cmd[c])',
         cmd'[c].op = "delete" => cmd[c].op = "delete" /\ cmd'[c].dir = d
  PROVE  BInv'
<1>1. Shaped(cmd[c]) /\ d \in Stores
  BY DEF Base, Typed, CmdRec
<1>2. cmd[c].op = "delete" \/ (cmd[c].op = "create" /\ d = "current")
  BY <1>1 DEF Shaped
<1>3. \A s \in Stores \ {d} : \A v : Archived(s, v) => Archived(s, v)'
  BY ArchivedStays
<1>4. ASSUME NEW s \in Stores, MetaTrue(s), s = d => ~store'[s].done \/ s \in why'
      PROVE  MetaTrue(s)'
  <2>1. CASE s = d
    BY <1>4, <2>1 DEF MetaTrue, Archived
  <2>2. CASE s # d
    <3>1. store'[s] = store[s]
      BY <2>2
    <3> QED
      BY <1>3, <1>4, <2>2, <3>1 DEF MetaTrue
  <2> QED
    BY <2>1, <2>2
<1>5. MetaTrue("legacy")'
  <2>1. MetaTrue("legacy") /\ "legacy" \in Stores
    BY DEF BInv, Stores
  <2>2. "legacy" = d => ~store'["legacy"].done \/ "legacy" \in why'
    BY <1>2
  <2> QED
    BY <1>4, <2>1, <2>2
<1>6. ASSUME "overlap" \notin why'
      PROVE  /\ saved = <<>> /\ Elsewhere(d) /\ \A k \in Cmd \ {c} : cmd[k].op \notin Sharing
             /\ (cmd[c].op = "create" /\ ~store["current"].done) \/ cmd[c].op = "delete"
  BY <1>6, NothingToKeep
<1>7. ASSUME "overlap" \notin why' PROVE MetaTrue("current")'
  <2>1. MetaTrue("current") /\ "current" \in Stores
    BY <1>7 DEF BInv, Alike, Stores
  <2>2. "current" = d => ~store'["current"].done \/ "current" \in why'
    BY <1>6, <1>7
  <2> QED
    BY <1>4, <2>1, <2>2
<1>8. ASSUME "overlap" \notin why'
      PROVE  \A v \in emptied' : \E t \in Stores \ {d} : Archived(t, v)'
  BY <1>3, <1>6, <1>8 DEF Elsewhere
<1>9. ASSUME "overlap" \notin why' PROVE Kept(cmd[c])'
  <2>1. ForgetTrue(cmd[c])'
    BY <1>6, <1>8, <1>9 DEF ForgetTrue, Elsewhere
  <2> QED
    BY <2>1 DEF Kept
<1>10. SavedStays'
  BY <1>6 DEF SavedStays
<1>11. WipedIsSaved'
  BY <1>8 DEF WipedIsSaved
<1> QED
  BY <1>5, <1>6, <1>7, <1>9, <1>10, <1>11, WriterKeeps

LEMMA RemoveAllKept ==
  ASSUME NEW V, Base(V), BInv, NEW c \in Cmd, RemoveAll(c)
  PROVE  BInv'
<1>1. /\ cmd[c] \in CmdRec(V) /\ Shaped(cmd[c]) /\ cmd[c].pc = "remove"
      /\ cmd[c].dir \in Stores /\ UNCHANGED <<saved, emptied, why>>
  BY DEF Base, Typed, RemoveAll, CmdRec
<1>2. /\ Beside({c}, {}) /\ cmd'[c] = [cmd[c] EXCEPT !.pc = "resume"]
      /\ store' = [store EXCEPT ![cmd[c].dir] = NoDir]
  BY RemoveAllBase
<1>3. /\ cmd'[c].op = cmd[c].op /\ cmd'[c].pc = "resume" /\ cmd'[c].ok = cmd[c].ok
      /\ cmd'[c].dir = cmd[c].dir
      /\ cmd[c].op # "restore" /\ (cmd[c].op = "create" => ~cmd[c].ok)
  BY <1>1, <1>2 DEF CmdRec, Shaped
<1>4. /\ store'[cmd[c].dir] = NoDir
      /\ \A s \in Stores \ {cmd[c].dir} : store'[s] = store[s]
  BY <1>1, <1>2, StoreIs
<1>5. ~NoDir.done
  BY DEF NoDir
<1>6. ArchTrue(cmd[c])' /\ ReadTrue(cmd[c])'
  BY <1>3 DEF ArchTrue, ReadTrue
<1>7. PICK d : d = cmd[c].dir
  OBVIOUS
<1>8. ~store'[d].done /\ \A s \in Stores \ {d} : store'[s] = store[s]
  BY <1>4, <1>5, <1>7
<1>9. cmd'[c].op = "delete" => cmd[c].op = "delete" /\ cmd'[c].dir = d
  BY <1>3, <1>7
<1>10. Beside({c}, {}) /\ why \subseteq why' /\ cmd[c].pc \in {"export", "meta", "remove"}
  BY <1>1, <1>2
<1> QED
  BY <1>1, <1>6, <1>7, <1>8, <1>9, <1>10, LosesNothing

LEMMA CreateMetaFailsKept ==
  ASSUME NEW V, Base(V), BInv, NEW c \in Cmd, CreateMetaFails(c)
  PROVE  BInv'
<1>1. /\ cmd[c] \in CmdRec(V) /\ Shaped(cmd[c]) /\ cmd[c].pc = "meta" /\ store.current.there
      /\ UNCHANGED <<saved, emptied>> /\ why \subseteq why'
  BY DEF Base, Typed, CreateMetaFails, Fault
<1>2. cmd[c].op = "create" /\ cmd[c].dir = "current"
  BY <1>1 DEF Shaped
<1>3. /\ Beside({c}, {})
      /\ cmd'[c] = [cmd[c] EXCEPT !.pc = "resume", !.ok = FALSE]
  BY CreateMetaFailsBase
<1>4. cmd'[c].op = "create" /\ cmd'[c].pc = "resume" /\ ~cmd'[c].ok
  BY <1>1, <1>2, <1>3 DEF CmdRec
<1>5. ArchTrue(cmd[c])' /\ ReadTrue(cmd[c])' /\ ForgetTrue(cmd[c])'
  BY <1>4 DEF ArchTrue, ReadTrue, ForgetTrue
<1>6. CASE store' = store
  BY <1>1, <1>2, <1>3, <1>4, <1>5, <1>6, StoreStays DEF Kept
<1>7. CASE store' = TornMeta
  <2>1. store'["legacy"] = store["legacy"] /\ ~store'["current"].done
    BY <1>1, <1>7, TornIs
  <2>2. \A s \in Stores \ {"current"} : store'[s] = store[s]
    BY <2>1 DEF Stores
  <2> QED
    BY <1>1, <1>2, <1>3, <1>4, <1>5, <2>1, <2>2, LosesNothing
<1> QED
  BY <1>6, <1>7 DEF CreateMetaFails

LEMMA RestoreKept ==
  ASSUME NEW V, Base(V), BInv, NEW c \in Cmd, Restore(c)
  PROVE  BInv'
<1>1. Beside({c}, {}) /\ UNCHANGED <<store, saved, emptied>>
  BY RestoreBase DEF Restore
<1>2. /\ cmd'[c].op = "restore" /\ cmd'[c].vols = store[snapshotDir].meta
      /\ cmd'[c].dir = snapshotDir
  <2>1. cmd'[c] = Started("restore", "list", store[snapshotDir].meta, snapshotDir)
    BY RestoreBase
  <2> QED
    BY <2>1 DEF Started
<1>3. /\ why \subseteq why'
      /\ "overlap" \notin why' =>
           /\ why' = why /\ \A k \in Cmd \ {c} : cmd[k].op \in Sharing => cmd[k].op = "restore"
  BY NoticingIs DEF Restore
<1>4. \A s, v : Archived(s, v) => Archived(s, v)'
  BY <1>1, <1>3, AllArchived
<1>5. \A s : MetaTrue(s) => MetaTrue(s)'
  BY <1>1, <1>3, AllArchived
<1>6. ASSUME MetaTrue("current"), MetaTrue("legacy") PROVE Kept(cmd[c])'
  <2>1. snapshotDir \in {"current", "legacy"} /\ store[snapshotDir].done
    BY DEF Restore, snapshotDir
  <2>2. \A v \in store[snapshotDir].meta : Archived(snapshotDir, v)
    BY <1>6, <2>1 DEF MetaTrue
  <2>3. \A v \in cmd'[c].vols : Archived(cmd[c].dir, v)'
    <3>1. PICK s : s = snapshotDir
      OBVIOUS
    <3>2. \A v \in cmd'[c].vols : Archived(s, v)'
      BY <1>2, <1>4, <2>2, <3>1
    <3> QED
      BY <1>2, <3>1, <3>2
  <2> QED
    BY <1>2, <2>3 DEF Kept, ArchTrue, ForgetTrue, ReadTrue
<1>7. Alike'
  <2>1. SUFFICES ASSUME "overlap" \notin why'
                 PROVE  (Exclusive /\ MetaTrue("current") /\ \A k \in Cmd : Kept(cmd[k]))'
    BY DEF Alike
  <2>2. MetaTrue("current") /\ MetaTrue("legacy") /\ \A k \in Cmd : Kept(cmd[k])
    BY <1>3, <2>1 DEF BInv, Alike
  <2>3. \A k \in Cmd \ {c} : Kept(cmd[k])' /\ cmd'[k].op = cmd[k].op
    BY <1>1, <1>3, <2>2, OthersKept
  <2>4. Exclusive'
    BY <1>2, <1>3, <2>1, <2>3 DEF Exclusive, Sharing
  <2> QED
    BY <1>5, <1>6, <2>2, <2>3, <2>4
<1>8. SavedStays'
  BY <1>1, <1>3 DEF BInv, SavedStays
<1>9. WipedIsSaved'
  BY <1>1, <1>3, <1>4 DEF BInv, WipedIsSaved
<1> QED
  BY <1>5, <1>7, <1>8, <1>9 DEF BInv

LEMMA WipeKept ==
  ASSUME NEW V, Base(V), BInv, NEW c \in Cmd, NEW v, Wipe(c, v)
  PROVE  BInv'
<1>1. /\ cmd[c] \in CmdRec(V) /\ Shaped(cmd[c]) /\ cmd[c].pc = "wipe" /\ v \in cmd[c].left
      /\ UNCHANGED <<store, saved, why>> /\ emptied' = emptied \cup {v}
  BY DEF Base, Typed, Wipe
<1>2. cmd[c].op = "restore" /\ v \in cmd[c].vols /\ cmd[c].dir \in Stores
  BY <1>1 DEF Shaped, CmdRec
<1>3. /\ Beside({c}, {v})
      /\ cmd'[c] = [cmd[c] EXCEPT !.pc = "untar", !.left = @ \ {v}, !.now = {v}]
  BY WipeBase
<1>4. cmd'[c].op = "restore" /\ cmd'[c].vols = cmd[c].vols /\ cmd'[c].dir = cmd[c].dir
  BY <1>1, <1>2, <1>3 DEF CmdRec
<1>5. \A s, w : Archived(s, w) => Archived(s, w)'
  BY <1>1, AllArchived
<1>6. \A s : MetaTrue(s) => MetaTrue(s)'
  BY <1>1, AllArchived
<1>7. Alike'
  <2>1. SUFFICES ASSUME "overlap" \notin why
                 PROVE  (Exclusive /\ MetaTrue("current") /\ \A k \in Cmd : Kept(cmd[k]))'
    BY <1>1 DEF Alike
  <2>2. \A k \in Cmd : cmd[k].op \in Sharing => cmd[k].op = "restore"
    BY <1>2, <2>1 DEF BInv, Alike, Exclusive, Sharing
  <2>3. \A k \in Cmd \ {c} : cmd'[k].op = cmd[k].op
    BY <1>3, OthersOp
  <2>4. \A k \in Cmd : cmd'[k].op \in Sharing => cmd'[k].op = "restore"
    BY <1>4, <2>2, <2>3
  <2>5. \A k \in Cmd : ReadTrue(cmd[k])
    BY <2>1 DEF BInv, Alike, Kept
  <2>6. \A k \in Cmd \ {c} : ReadTrue(cmd[k])'
    BY <1>1, <1>3, <2>5, OthersRead
  <2>7. ReadTrue(cmd[c])'
    BY <1>2, <1>4, <1>5, <2>5 DEF ReadTrue
  <2>8. \A k \in Cmd : ReadTrue(cmd[k])'
    BY <2>6, <2>7
  <2>9. MetaTrue("current")'
    BY <1>6, <2>1 DEF BInv, Alike
  <2> QED
    BY <2>4, <2>8, <2>9 DEF Exclusive, Kept, ArchTrue, ForgetTrue, Sharing
<1>8. SavedStays'
  BY <1>1 DEF BInv, SavedStays
<1>9. WipedIsSaved'
  <2>1. SUFFICES ASSUME "overlap" \notin why, NEW w \in emptied'
                 PROVE  \E s \in Stores : Archived(s, w)'
    BY <1>1 DEF WipedIsSaved
  <2>2. CASE w = v
    <3>1. Archived(cmd[c].dir, v)
      BY <1>2, <2>1 DEF BInv, Alike, Kept, ReadTrue
    <3>2. PICK s : s = cmd[c].dir
      OBVIOUS
    <3> QED
      BY <1>2, <1>5, <2>2, <3>1, <3>2
  <2>3. CASE w # v
    BY <1>1, <1>5, <2>1, <2>3 DEF BInv, WipedIsSaved
  <2> QED
    BY <2>2, <2>3
<1> QED
  BY <1>6, <1>7, <1>8, <1>9 DEF BInv

LEMMA DeleteKept ==
  ASSUME NEW V, Base(V), BInv, NEW c \in Cmd, Delete(c)
  PROVE  BInv'
<1>1. /\ Beside({c}, {}) /\ store' = store /\ saved' = <<>>
      /\ emptied' = {v \in emptied : \E s \in Stores \ {snapshotDir} : Archived(s, v)}
  BY DeleteBase DEF Delete
<1>2. cmd'[c].op = "delete" /\ cmd'[c].dir = snapshotDir
  <2>1. cmd'[c] = Started("delete", "remove", {}, snapshotDir)
    BY DeleteBase
  <2> QED
    BY <2>1 DEF Started
<1>3. /\ why \subseteq why'
      /\ "overlap" \notin why' =>
           /\ why' = why /\ \A k \in Cmd \ {c} : cmd[k].op \notin Sharing
  BY <1>2, NoticingIs DEF Delete
<1>4. \A s, v : Archived(s, v) => Archived(s, v)'
  BY <1>1, <1>3, AllArchived
<1>5. \A s : MetaTrue(s) => MetaTrue(s)'
  BY <1>1, <1>3, AllArchived
<1>6. Kept(cmd[c])'
  <2>1. PICK d : d = snapshotDir
    OBVIOUS
  <2>2. \A v \in emptied' : \E s \in Stores \ {d} : Archived(s, v)'
    BY <1>1, <1>4, <2>1
  <2>3. ForgetTrue(cmd[c])'
    BY <1>1, <1>2, <2>1, <2>2 DEF ForgetTrue, Elsewhere
  <2> QED
    BY <1>2, <2>3 DEF Kept, ArchTrue, ReadTrue
<1>7. "overlap" \notin why' => MetaTrue("current")'
  BY <1>3, <1>5 DEF BInv, Alike
<1>8. MetaTrue("legacy")'
  BY <1>5 DEF BInv
<1>9. SavedStays'
  BY <1>1 DEF SavedStays
<1>10. WipedIsSaved'
  BY <1>1, <1>4 DEF WipedIsSaved
<1> QED
  BY <1>1, <1>3, <1>6, <1>7, <1>8, <1>9, <1>10, WriterKeeps

LEMMA KillKept ==
  ASSUME NEW V, Base(V), BInv, NEW c \in Cmd, Kill(c)
  PROVE  BInv'
<1> DEFINE d == cmd[c].dir
<1>1. Beside({c}, {}) /\ cmd'[c] = Idle
  BY KillBase
<1>2. /\ why \subseteq why' /\ UNCHANGED <<saved, emptied>>
      /\ cmd[c].op = "delete" /\ cmd[c].pc = "remove" => d \in why'
  BY DEF Kill
<1>3. cmd'[c].op = "none"
  BY <1>1 DEF Idle, Started
<1>4. Kept(cmd[c])' /\ ArchTrue(cmd[c])' /\ ReadTrue(cmd[c])'
  BY <1>3 DEF Kept, ArchTrue, ForgetTrue, ReadTrue
<1>5. /\ cmd[c] \in CmdRec(V) /\ Shaped(cmd[c]) /\ d \in Stores /\ store[d] \in Dir(V)
      /\ store \in [Stores -> Dir(V)]
  BY DEF Base, Typed, CmdRec
<1> HIDE DEF d
<1>6. CASE store' = store
  BY <1>1, <1>2, <1>3, <1>4, <1>6, StoreStays
<1>7. ASSUME cmd[c].pc \in {"export", "meta", "remove"},
             \A s \in Stores \ {d} : store'[s] = store[s],
             store'[d].done => store[d].done /\ (cmd[c].op = "delete" => d \in why')
      PROVE  BInv'
  BY <1>1, <1>2, <1>3, <1>4, <1>7, LosesNothing DEF d
<1>8. ASSUME cmd[c].pc = "meta", store[d].there, store' = TornMeta PROVE BInv'
  <2>1. d = "current"
    BY <1>5, <1>8 DEF Shaped, d
  <2>2. store'["legacy"] = store["legacy"] /\ ~store'["current"].done
    BY <1>8, <2>1, TornIs
  <2> QED
    BY <1>7, <1>8, <2>1, <2>2 DEF Stores
<1>9. ASSUME cmd[c].pc = "export", NEW v \in cmd[c].left,
             store' = [store EXCEPT !.current.arch = Put(@, {v}, Torn)]
      PROVE  BInv'
  <2>1. d = "current" /\ cmd[c].op = "create"
    BY <1>5, <1>9 DEF Shaped, d
  <2>2. PICK x : x = Put(store.current.arch, {v}, Torn)
    OBVIOUS
  <2>3. store' = [store EXCEPT !["current"] = [store["current"] EXCEPT !.arch = x]]
    BY <1>9, <2>2
  <2>4. [store["current"] EXCEPT !.arch = x].done = store["current"].done
    BY <1>5, <2>1 DEF Dir
  <2>5. /\ store'["current"] = [store["current"] EXCEPT !.arch = x]
        /\ \A s \in Stores \ {"current"} : store'[s] = store[s]
    BY <1>5, <2>1, <2>3
  <2> QED
    BY <1>7, <1>9, <2>1, <2>4, <2>5
<1>10. ASSUME cmd[c].pc = "remove", NEW S, NEW keep \in BOOLEAN,
              store' = [store EXCEPT ![d].arch = Without(@, S),
                          ![d].done = keep /\ @,
                          ![d].torn = keep /\ @,
                          ![d].meta = IF keep THEN @ ELSE {}]
       PROVE  BInv'
  <2>1. PICK rest : rest = Without(store[d].arch, S)
    OBVIOUS
  <2> DEFINE fin == keep /\ store[d].done
             cut == keep /\ store[d].torn
             meta == IF keep THEN store[d].meta ELSE {}
             new == [store[d] EXCEPT !.arch = rest, !.done = fin, !.torn = cut, !.meta = meta]
  <2>2. store' = [store EXCEPT ![d] = new]
    BY <1>5, <1>10, <2>1 DEF Dir
  <2>3. fin => store[d].done
    OBVIOUS
  <2> HIDE DEF fin, cut, meta
  <2>4. new.done = fin
    BY <1>5 DEF Dir
  <2> HIDE DEF new
  <2>5. store'[d] = new /\ \A s \in Stores \ {d} : store'[s] = store[s]
    BY <1>5, <2>2, StoreIs
  <2> QED
    BY <1>2, <1>7, <1>10, <2>3, <2>4, <2>5
<1> QED
  BY <1>6, <1>8, <1>9, <1>10 DEF Kill, d

LEMMA StepKept ==
  ASSUME NEW V, V = Volume, Base(V), BInv, \A k \in Cmd : Calm(cmd[k]), NEW c \in Cmd, Step(c)
  PROVE  BInv'
<1>1. ASSUME NEW v, Export(c, v) PROVE BInv'
  BY <1>1, ExportKept
<1>2. ASSUME NEW v, Wipe(c, v) PROVE BInv'
  BY <1>2, WipeKept
<1>3. CASE \/ QuiesceList(c) \/ QuiesceStop(c) \/ ExportFails(c) \/ Resume(c) \/ Untar(c)
           \/ RemoveVolumes(c) \/ CleanVolumes(c) \/ \E v \in Volume : RemoveVolume(c, v)
  BY <1>3, LightKept
<1>4. CASE \/ Create(c) \/ CreateMeta(c) \/ CreateMetaFails(c) \/ RemoveAll(c) \/ Restore(c)
           \/ Delete(c) \/ Kill(c)
  BY <1>4, CreateKept, CreateMetaKept, CreateMetaFailsKept, RemoveAllKept, RestoreKept,
     DeleteKept, KillKept
<1> QED
  BY <1>1, <1>2, <1>3, <1>4 DEF Step

LEMMA BInit == Init => BInv
<1> SUFFICES ASSUME Init PROVE BInv
  OBVIOUS
<1>1. PICK s \in Starts :
        store = [current |-> NoDir,
                 legacy |-> IF s.legacy = {} THEN NoDir
                            ELSE [there |-> TRUE, done |-> TRUE, torn |-> FALSE,
                                  meta |-> s.legacy \cap Volume,
                                  arch |-> [v \in s.legacy \cap Volume |-> 0]]]
  BY DEF Init
<1>2. cmd = [c \in Cmd |-> Idle] /\ saved = <<>> /\ emptied = {}
  BY DEF Init
<1>3. \A c \in Cmd : cmd[c].op = "none"
  BY <1>2 DEF Idle, Started
<1>4. MetaTrue("current")
  BY <1>1 DEF NoDir, MetaTrue
<1>5. MetaTrue("legacy")
  <2>1. store["legacy"].done => store["legacy"].meta \subseteq DOMAIN store["legacy"].arch
    BY <1>1 DEF NoDir
  <2> QED
    BY <2>1 DEF MetaTrue, Archived
<1> QED
  BY <1>2, <1>3, <1>4, <1>5 DEF BInv, Alike, Exclusive, Sharing, Kept, ArchTrue, ForgetTrue,
     ReadTrue, SavedStays, WipedIsSaved

LEMMA BStep == AInv /\ BInv /\ [Next]_vars => BInv'
<1> SUFFICES ASSUME AInv, BInv, [Next]_vars PROVE BInv'
  OBVIOUS
<1>1. PICK V : V = Volume
  OBVIOUS
<1>2. Base(V) /\ \A k \in Cmd : Calm(cmd[k])
  BY <1>1 DEF AInv
<1>3. ASSUME NEW c \in Cmd, Step(c) PROVE BInv'
  BY <1>1, <1>2, <1>3, StepKept
<1>4. ASSUME NEW S, Beside({}, S), UNCHANGED <<store, saved, why>>, emptied' \subseteq emptied
      PROVE  BInv'
  BY <1>2, <1>4, StoreStays
<1>5. ASSUME NEW d \in Deps, NEW p \in Projects, StartDep(p, d) PROVE BInv'
  <2>1. UNCHANGED <<store, saved, emptied, why>>
    BY <1>5 DEF StartDep
  <2> QED
    BY <1>1, <1>2, <1>4, <1>5, <2>1, StartDepBase
<1>6. ASSUME NEW d \in Deps, RemoveDep(d) PROVE BInv'
  <2>1. UNCHANGED <<store, saved, emptied, why>>
    BY <1>6 DEF RemoveDep
  <2> QED
    BY <1>2, <1>4, <1>6, <2>1, RemoveDepBase
<1>7. ASSUME NEW d \in Deps, Write(d) PROVE BInv'
  <2>1. UNCHANGED <<store, saved, why>> /\ emptied' \subseteq emptied
    BY <1>7 DEF Write
  <2> QED
    BY <1>2, <1>4, <1>7, <2>1, WriteBase
<1>8. ASSUME UNCHANGED vars PROVE BInv'
  <2>1. UNCHANGED <<cmd, store, saved, emptied, why>>
    BY <1>8 DEF vars
  <2>2. Beside({}, {})
    BY <2>1 DEF Beside
  <2> QED
    BY <1>4, <2>1, <2>2
<1> QED
  BY <1>3, <1>5, <1>6, <1>7, <1>8 DEF Next

\* What a create reported saved stays, file by file, until it is deleted
\* (snapshot.go Create, Delete): a create refuses a snapshot that is there, so
\* that whatever it does when it fails or dies meets only what it wrote itself.
\* No command takes a lock, and of two at once on the name, other than restores,
\* one may destroy what the other saves: from there nothing is promised, until a
\* create that meets nobody begins a new snapshot.
THEOREM SavedHolds == Spec => []SavedStays
<1>1. BInv => SavedStays
  BY DEF BInv
<1> QED
  BY <1>1, AInit, AStep, BInit, BStep, PTL DEF Spec

\* What a restore wiped and did not fill again, because it failed or was killed
\* between the wipe and the untar (snapshot.go importVolume), is not lost: the
\* snapshot it read has an archive of every volume it lists, and no failure or
\* kill of a create or restore takes it.  A delete of that snapshot does, also
\* one killed half way, and so may commands that work on the name at once.
THEOREM WipedHolds == Spec => []WipedIsSaved
<1>1. BInv => WipedIsSaved
  BY DEF BInv
<1> QED
  BY <1>1, AInit, AStep, BInit, BStep, PTL DEF Spec

\* A snapshot is one moment of all its volumes (snapshot.go Create, quiesce.go):
\* each archive is what its volume held when the last of the containers had
\* stopped, whatever else the machine did between the copies.
THEOREM MomentHolds == Spec => []SnapshotIsOneMoment
<1>1. BInv => SnapshotIsOneMoment
  BY DEF BInv, Alike, Kept, ArchTrue, SnapshotIsOneMoment, Succeeding
<1> QED
  BY <1>1, AInit, AStep, BInit, BStep, PTL DEF Spec

=============================================================================
