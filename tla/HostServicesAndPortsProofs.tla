---------------------- MODULE HostServicesAndPortsProofs ----------------------
(***************************************************************************)
(* Proofs about HostServices, for any services, dependencies, process ids, *)
(* locks and number of commands, and then about PortAlloc, for any         *)
(* projects, configurations, names of shared dependencies and ports.       *)
(***************************************************************************)
EXTENDS HostServices, PortAlloc, SequenceTheorems, WellFoundedInduction, TLAPS

-----------------------------------------------------------------------------
(* Types.                                                                  *)

LEMMA NoStateType == NoPids \in [Name -> Pid \cup {NoPid}] /\ NoState \in LocalState
BY DEF NoPids, NoState, LocalState

LEMMA IdleType == Idle \in CmdState
BY NoStateType DEF Idle, CmdState, PC

LEMMA LoadedType ==
  ASSUME TypeOK
  PROVE  Loaded \in LocalState
BY NoStateType DEF TypeOK, Loaded

LEMMA StateFields ==
  ASSUME NEW x \in LocalState
  PROVE  x.pids \in [Name -> Pid \cup {NoPid}] /\ x.devs \subseteq Dep /\ x.named \in BOOLEAN
BY DEF LocalState

LEMMA StateMade ==
  ASSUME NEW x \in LocalState, NEW pids \in [Name -> Pid \cup {NoPid}],
         NEW devs \in SUBSET Dep, NEW named \in BOOLEAN
  PROVE  /\ [x EXCEPT !.pids = pids] \in LocalState
         /\ [x EXCEPT !.devs = devs] \in LocalState
         /\ [x EXCEPT !.pids = pids, !.named = named] \in LocalState
BY DEF LocalState

LEMMA PidsMade ==
  ASSUME NEW x, x \in LocalState, NEW pids, pids \in [Name -> Pid \cup {NoPid}],
         NEW y, y = [x EXCEPT !.pids = pids]
  PROVE  y \in LocalState /\ y.pids = pids /\ y.devs = x.devs /\ y.named = x.named
BY DEF LocalState

LEMMA Fields ==
  ASSUME TypeOK, NEW c \in Command
  PROVE  /\ cmd[c] \in CmdState
         /\ cmd[c].kind \in Kind \cup {"none"} /\ cmd[c].pc \in PC
         /\ cmd[c].name \in Name \cup {None} /\ cmd[c].todo \subseteq Name
         /\ cmd[c].mine \in [Name -> Pid \cup {NoPid}]
         /\ cmd[c].running \in [Name -> Pid \cup {NoPid}]
         /\ cmd[c].devs \subseteq Dep /\ cmd[c].ok \in BOOLEAN
         /\ cmd[c].buf \in LocalState
         /\ cmd[c].buf.pids \in [Name -> Pid \cup {NoPid}] /\ cmd[c].buf.devs \subseteq Dep
         /\ cmd[c].base \in LocalState \cup {NoFile}
<1>1. cmd[c] \in CmdState
  BY DEF TypeOK
<1>2. cmd[c].buf \in LocalState
  BY <1>1 DEF CmdState
<1> QED
  BY <1>1, <1>2, StateFields DEF CmdState

LEMMA Becomes ==
  ASSUME TypeOK, NEW c \in Command, NEW k \in CmdState, cmd' = [cmd EXCEPT ![c] = k]
  PROVE  /\ cmd' \in [Command -> CmdState] /\ cmd'[c] = k
         /\ \A q \in Command \ {c} : cmd'[q] = cmd[q]
BY DEF TypeOK

LEMMA LocksType ==
  ASSUME TypeOK, NEW c \in Command
  PROVE  /\ Unlocked(c) \in [{UpLock, MutLock} -> Command \cup {None}]
         /\ \A f \in {UpLock, MutLock} :
              [lock EXCEPT ![f] = c] \in [{UpLock, MutLock} -> Command \cup {None}]
BY DEF TypeOK, Unlocked

-----------------------------------------------------------------------------
(* What is known of the processes.                                         *)

\* No id is taken over that a command has in memory.
Moves == \A p \in Pid : proc'[p] \in {proc[p], None} \/ Fresh(p)

\* What a step of c leaves unrecorded and not lost is in c's hands, or was not.
Follows(c) == \A p \in Pid, n \in Name : Unrecorded(p, n)' =>
    \/ p \in lost' \/ Held(c, n, p)'
    \/ Unrecorded(p, n) /\ p \notin lost /\ ~Held(c, n, p)

LEMMA NameIsNotNone == None \notin Name /\ NoPid \notin Pid /\ Service \cap Dep = {}
BY HostServicesAssumption

LEMMA OthersKeep ==
  ASSUME TypeOK, Moves, NEW q \in Command, cmd'[q] = cmd[q], Tracked(q), Cleared(q)
  PROVE  Tracked(q)' /\ Cleared(q)'
<1>1. ASSUME cmd[q].base # NoFile, NEW n \in Name, proc'[cmd[q].base.pids[n]] = n,
             cmd[q].base.pids[n] \in Pid
      PROVE  Stands(cmd[q].base.pids[n], n)
  BY <1>1, NameIsNotNone DEF Moves, Fresh, Stands
<1>2. Tracked(q)'
  BY <1>1 DEF Tracked, Stands
<1>3. Cleared(q)'
  BY <1>1 DEF Cleared, Stands
<1> QED
  BY <1>2, <1>3

LEMMA Change ==
  ASSUME IInv, NEW c \in Command, NEW k \in CmdState, cmd' = [cmd EXCEPT ![c] = k],
         proc' \in [Pid -> Name \cup {None}], image' \subseteq Dep,
         file' \in LocalState \cup {NoFile},
         lock' \in [{UpLock, MutLock} -> Command \cup {None}], lost' \subseteq Pid,
         Moves, Follows(c), Tracked(c)', Cleared(c)', InHand(k)
  PROVE  IInv'
<1>1. /\ cmd' \in [Command -> CmdState] /\ cmd'[c] = k
      /\ \A q \in Command \ {c} : cmd'[q] = cmd[q]
  BY Becomes DEF IInv
<1>2. TypeOK'
  BY <1>1 DEF TypeOK
<1>3. Known'
  <2> SUFFICES ASSUME NEW p \in Pid, NEW n \in Name, Unrecorded(p, n)', p \notin lost',
                      ~Held(c, n, p)'
               PROVE  \E q \in Command : Held(q, n, p)'
    BY DEF Known
  <2>1. Unrecorded(p, n) /\ p \notin lost /\ ~Held(c, n, p)
    BY DEF Follows
  <2>2. PICK q \in Command : Held(q, n, p)
    BY <2>1 DEF IInv, Known
  <2>3. cmd'[q] = cmd[q]
    BY <1>1, <2>1, <2>2
  <2> QED
    BY <2>2, <2>3 DEF Held, Watching
<1>4. ASSUME NEW q \in Command PROVE Tracked(q)' /\ Cleared(q)' /\ InHand(cmd'[q])
  <2>1. CASE q = c
    BY <1>1, <2>1
  <2>2. CASE q # c
    BY <1>1, <2>2, OthersKeep DEF IInv
  <2> QED
    BY <2>1, <2>2
<1> QED
  BY <1>2, <1>3, <1>4 DEF IInv

LEMMA QuietFollows ==
  ASSUME NEW c \in Command, UNCHANGED <<proc, file, lost>>,
         \A n \in Name, p \in Pid : Held(c, n, p) /\ Unrecorded(p, n) => Held(c, n, p)'
  PROVE  Moves /\ Follows(c)
BY DEF Moves, Follows, Unrecorded, Stands, Loaded

LEMMA DiesFollows ==
  ASSUME TypeOK, NEW P, Dies(P), file' = file
  PROVE  /\ Moves /\ proc' \in [Pid -> Name \cup {None}] /\ lost' \subseteq Pid
         /\ \A p \in Pid \cap P : proc'[p] = None
         /\ \A p \in Pid : proc'[p] \in {proc[p], None}
         /\ \A c \in Command :
              (\A n \in Name, p \in Pid \ P : Held(c, n, p) /\ Unrecorded(p, n) => Held(c, n, p)')
              => Follows(c)
<1>1. \A p \in Pid : proc'[p] = IF p \in P THEN None ELSE proc[p]
  BY DEF Dies, Without
<1>2. ASSUME NEW p \in Pid, NEW n \in Name, Unrecorded(p, n)'
      PROVE  Unrecorded(p, n) /\ p \notin P /\ (p \in lost => p \in lost')
  BY <1>1, <1>2, NameIsNotNone DEF Unrecorded, Stands, Loaded, Dies
<1>3. proc' \in [Pid -> Name \cup {None}] /\ lost' \subseteq Pid
  BY DEF Dies, Without, TypeOK
<1>4. Moves
  BY <1>1 DEF Moves
<1> QED
  BY <1>1, <1>2, <1>3, <1>4 DEF Follows

LEMMA StartsFollows ==
  ASSUME TypeOK, NEW n \in Name, NEW p \in Pid, Starts(n, p), UNCHANGED <<file, lost>>
  PROVE  /\ Moves /\ proc' \in [Pid -> Name \cup {None}]
         /\ \A c \in Command :
              Held(c, n, p)'
              /\ (\A m \in Name, x \in Pid : Held(c, m, x) /\ Unrecorded(x, m) => Held(c, m, x)')
              => Follows(c)
<1>1. proc' = [proc EXCEPT ![p] = n] /\ Fresh(p) /\ proc \in [Pid -> Name \cup {None}]
  BY DEF Starts, TypeOK
<1>2. ASSUME NEW x \in Pid, NEW m \in Name, Unrecorded(x, m)'
      PROVE  Unrecorded(x, m) \/ (x = p /\ m = n)
  BY <1>1, <1>2 DEF Unrecorded, Stands, Loaded
<1> QED
  BY <1>1, <1>2 DEF Moves, Follows

Pids(content) == IF content = NoFile THEN NoPids ELSE content.pids

LEMMA SaveFollows ==
  ASSUME TypeOK, NEW c \in Command, NEW content, NEW P, Save(c, content, P), proc' = proc,
         P \subseteq Pid,
         \A n \in Name, p \in Pid :
            Held(c, n, p) /\ Stands(p, n) => Held(c, n, p)' \/ Pids(content)[n] = p,
         \A n \in Name, p \in Pid :
            cmd[c].base # NoFile /\ cmd[c].base.pids[n] = p /\ Stands(p, n)
            => p \in P \/ Pids(content)[n] = p
  PROVE  Moves /\ Follows(c) /\ lost' \subseteq Pid
<1>1. Moves
  BY DEF Moves
<1>2. Loaded'.pids = Pids(content)
  BY DEF Save, Loaded, Pids, NoState
<1>3. lost \subseteq lost' /\ lost' \subseteq Pid
  BY DEF Save, Missed, TypeOK
<1>4. Follows(c)
  <2> SUFFICES ASSUME NEW p \in Pid, NEW n \in Name, Unrecorded(p, n)', p \notin lost',
                      ~Held(c, n, p)'
               PROVE  Unrecorded(p, n) /\ p \notin lost /\ ~Held(c, n, p)
    BY DEF Follows
  <2>1. Stands(p, n) /\ Pids(content)[n] # p /\ proc[p] # None
    BY <1>2, NameIsNotNone DEF Unrecorded, Stands
  <2>2. p \notin Missed(c) \cup P
    BY <2>1 DEF Save
  <2>3. Loaded.pids[n] # p
    BY <2>1, <2>2 DEF Missed
  <2> QED
    BY <1>3, <2>1, <2>3 DEF Unrecorded
<1> QED
  BY <1>1, <1>3, <1>4

-----------------------------------------------------------------------------
(* What a command needs to know of itself when it saves or has just loaded. *)

LEMMA JustLoaded ==
  ASSUME TypeOK, NEW c \in Command, cmd'[c].base = file, cmd'[c].buf = Loaded,
         cmd'[c].pc \notin {"clear", "teardown", "clearAgain", "tidy"}
  PROVE  Tracked(c)' /\ Cleared(c)'
BY DEF Tracked, Cleared, Loaded

LEMMA Forgotten ==
  ASSUME NEW c \in Command, cmd'[c].base = NoFile
  PROVE  Tracked(c)' /\ Cleared(c)'
BY DEF Tracked, Cleared

\* Nothing of what the command has loaded has changed.
LEMMA StillLoaded ==
  ASSUME TypeOK, Moves, NEW c \in Command, Tracked(c), cmd'[c].base = cmd[c].base,
         cmd'[c].buf = cmd[c].buf, cmd'[c].kind = cmd[c].kind, cmd'[c].name = cmd[c].name
  PROVE  Tracked(c)'
<1>1. ASSUME cmd[c].base # NoFile, NEW n \in Name, cmd[c].base.pids[n] \in Pid,
             proc'[cmd[c].base.pids[n]] = n
      PROVE  Stands(cmd[c].base.pids[n], n)
  BY <1>1, NameIsNotNone DEF Moves, Fresh, Stands
<1> QED
  BY <1>1 DEF Tracked, Stands

\* ... and a `raioz dev --reset` is about no other name.
LEMMA StartTracks ==
  ASSUME TypeOK, Moves, NEW c \in Command, Tracked(c), cmd'[c].base = cmd[c].base,
         cmd'[c].buf = cmd[c].buf, cmd'[c].kind = cmd[c].kind, cmd[c].kind # "reset",
         cmd'[c].pc \notin {"clear", "teardown", "clearAgain", "tidy"}
  PROVE  Tracked(c)' /\ Cleared(c)'
<1>1. ASSUME cmd[c].base # NoFile, NEW n \in Name, cmd[c].base.pids[n] \in Pid,
             proc'[cmd[c].base.pids[n]] = n
      PROVE  Stands(cmd[c].base.pids[n], n)
  BY <1>1, NameIsNotNone DEF Moves, Fresh, Stands
<1> QED
  BY <1>1 DEF Tracked, Stands, Cleared

\* It forgets a process that no longer runs, and only for a reset a promotion.
LEMMA StillTracks ==
  ASSUME TypeOK, Moves, NEW c \in Command, Tracked(c), cmd'[c].base = cmd[c].base,
         cmd'[c].kind = cmd[c].kind, cmd'[c].name = cmd[c].name,
         cmd'[c].buf.named = cmd[c].buf.named,
         cmd[c].buf.devs \subseteq
           cmd'[c].buf.devs \cup (IF cmd[c].kind = "reset" THEN {cmd[c].name} ELSE {}),
         \A n \in Name, p \in Pid : proc'[p] = n /\ cmd[c].buf.pids[n] = p
                                    => cmd'[c].buf.pids[n] = p
  PROVE  Tracked(c)'
<1>1. ASSUME cmd[c].base # NoFile, NEW n \in Name, cmd[c].base.pids[n] \in Pid,
             proc'[cmd[c].base.pids[n]] = n
      PROVE  cmd'[c].buf.pids[n] = cmd[c].base.pids[n]
  <2>1. Stands(cmd[c].base.pids[n], n)
    BY <1>1, NameIsNotNone DEF Moves, Fresh, Stands
  <2> QED
    BY <1>1, <2>1 DEF Tracked
<1> QED
  BY <1>1 DEF Tracked, Stands

-----------------------------------------------------------------------------
(* The steps, each with the record that it leaves of its command.          *)

LEMMA BeginKeeps ==
  ASSUME IInv, NEW c \in Command, NEW kind \in Kind, NEW n \in Name \cup {None},
         NEW names \in SUBSET Name, NEW where \in {"probed", "stop"},
         Begin(c, kind, n, names, where),
         where = "probed" => kind = "up",
         where = "stop" => n \in Name /\ (kind \in {"promote", "reset"} => n \in Dep)
  PROVE  IInv'
<1> DEFINE k == [Idle EXCEPT !.kind = kind, !.name = n, !.todo = names,
                             !.pc = where, !.buf = Loaded, !.base = file]
<1>0. TypeOK
  BY DEF IInv
<1>1. k \in CmdState
  BY <1>0, IdleType, LoadedType DEF CmdState, PC, TypeOK, Idle
<1>2. cmd' = [cmd EXCEPT ![c] = k]
  BY DEF Begin
<1>3. /\ k.kind = kind /\ k.name = n /\ k.todo = names /\ k.pc = where
      /\ k.buf = Loaded /\ k.base = file /\ k.mine = NoPids
  BY DEF Idle
<1> HIDE DEF k
<1>4. cmd'[c] = k
  BY <1>0, <1>1, <1>2, Becomes
<1>5. Tracked(c)' /\ Cleared(c)'
  BY <1>0, <1>3, <1>4, JustLoaded
<1>6. Moves /\ Follows(c)
  <2>1. \A m \in Name, p \in Pid : ~Held(c, m, p)
    <3>1. cmd[c].pc = "free" /\ InHand(cmd[c])
      BY DEF Begin, IInv
    <3>2. cmd[c].mine = NoPids
      BY <3>1 DEF InHand, UpPC
    <3> QED
      BY <3>2, NameIsNotNone DEF Held, NoPids
  <2> QED
    BY <2>1, QuietFollows DEF Begin
<1>7. InHand(k)
  BY <1>3 DEF InHand, UpPC
<1>8. lock' \in [{UpLock, MutLock} -> Command \cup {None}]
  BY <1>0, LocksType DEF Begin, LockFile
<1> QED
  BY <1>0, <1>1, <1>2, <1>5, <1>6, <1>7, <1>8, Change DEF Begin, TypeOK

LEMMA NobodysHands ==
  ASSUME NEW c \in Command, cmd[c].mine = NoPids
  PROVE  \A n \in Name, p \in Pid : ~Held(c, n, p)
BY NameIsNotNone DEF Held, NoPids

LEMMA EndOwn ==
  ASSUME TypeOK, NEW c \in Command, End(c)
  PROVE  /\ cmd' = [cmd EXCEPT ![c] = Idle] /\ Idle \in CmdState /\ cmd'[c] = Idle
         /\ lock' \in [{UpLock, MutLock} -> Command \cup {None}]
         /\ Tracked(c)' /\ Cleared(c)' /\ InHand(Idle)
<1>1. cmd' = [cmd EXCEPT ![c] = Idle] /\ cmd'[c] = Idle
  BY IdleType, Becomes DEF End
<1>2. InHand(Idle)
  BY DEF InHand, Idle, UpPC
<1>3. Tracked(c)' /\ Cleared(c)'
  BY <1>1, Forgotten DEF Idle
<1> QED
  BY <1>1, <1>2, <1>3, IdleType, LocksType DEF End

LEMMA EndKeeps ==
  ASSUME IInv, NEW c \in Command, End(c), UNCHANGED <<proc, file, lost>>, image' \subseteq Dep,
         cmd[c].mine = NoPids
  PROVE  IInv'
<1>1. TypeOK
  BY DEF IInv
<1>2. Moves /\ Follows(c)
  BY NobodysHands, QuietFollows
<1> QED
  BY <1>1, <1>2, EndOwn, Change DEF TypeOK

LEMMA QuitKeeps ==
  ASSUME IInv, NEW c \in Command, Quit(c)
  PROVE  IInv'
<1>1. TypeOK /\ End(c) /\ UNCHANGED <<proc, image, file>>
  BY DEF IInv, Quit
<1>2. Moves /\ Follows(c)
  BY <1>1 DEF Quit, Moves, Follows, Held, Unrecorded, Stands, Loaded
<1>3. lost' \subseteq Pid
  BY DEF Quit, IInv, TypeOK
<1> QED
  BY <1>1, <1>2, <1>3, EndOwn, Change DEF TypeOK

LEMMA LoadKeeps ==
  ASSUME IInv, NEW c \in Command, NEW from, NEW where, LoadTo(c, from, where),
         <<from, where>> \in {<<"depLoad", "depSave">>, <<"tickLoad", "tick">>, <<"load", "kill">>}
  PROVE  IInv'
<1> DEFINE k == [cmd[c] EXCEPT !.pc = where, !.buf = Loaded, !.base = file]
<1>0. TypeOK /\ InHand(cmd[c]) /\ cmd[c].pc = from
  BY DEF IInv, LoadTo
<1>1. k \in CmdState
  <2>1. cmd[c] \in CmdState /\ Loaded \in LocalState /\ file \in LocalState \cup {NoFile}
    BY <1>0, Fields, LoadedType DEF TypeOK
  <2>2. where \in PC
    BY DEF PC
  <2> QED
    BY <2>1, <2>2 DEF CmdState
<1>2. cmd' = [cmd EXCEPT ![c] = k]
  BY DEF LoadTo
<1>3. /\ k.kind = cmd[c].kind /\ k.name = cmd[c].name /\ k.todo = cmd[c].todo /\ k.pc = where
      /\ k.buf = Loaded /\ k.base = file /\ k.mine = cmd[c].mine
  BY <1>0, Fields DEF CmdState
<1> HIDE DEF k
<1>4. cmd'[c] = k
  BY <1>0, <1>1, <1>2, Becomes
<1>5. Tracked(c)' /\ Cleared(c)'
  BY <1>0, <1>3, <1>4, JustLoaded
<1>6. Moves /\ Follows(c)
  <2>1. \A m \in Name, p \in Pid : Held(c, m, p) => Held(c, m, p)'
    BY <1>0, <1>3, <1>4 DEF Held, Watching
  <2> QED
    BY <2>1, QuietFollows DEF LoadTo
<1>7. InHand(k)
  BY <1>0, <1>3 DEF InHand, UpPC
<1> QED
  BY <1>0, <1>1, <1>2, <1>5, <1>6, <1>7, Change DEF LoadTo, TypeOK

\* A step that only moves its command on, with nothing in hand for the first
\* time or the last, and with nothing loaded or what it had loaded.
LEMMA QuietKeeps ==
  ASSUME IInv, NEW c \in Command, NEW k \in CmdState, cmd' = [cmd EXCEPT ![c] = k],
         UNCHANGED <<proc, file, lock, lost>>, image' \subseteq Dep,
         \/ k.base = NoFile
         \/ /\ k.base = cmd[c].base /\ k.buf = cmd[c].buf
            /\ k.kind = cmd[c].kind /\ k.name = cmd[c].name
            /\ k.pc \notin {"clear", "teardown", "clearAgain", "tidy"},
         \A n \in Name, p \in Pid : Held(c, n, p) => Held(c, n, p)',
         InHand(k)
  PROVE  IInv'
<1>0. TypeOK /\ Tracked(c)
  BY DEF IInv
<1>1. cmd'[c] = k
  BY <1>0, Becomes
<1>2. Moves /\ Follows(c)
  BY QuietFollows
<1>3. Tracked(c)' /\ Cleared(c)'
  <2>1. CASE k.base = NoFile
    BY <1>1, <2>1, Forgotten
  <2>2. CASE k.base # NoFile
    <3>1. Tracked(c)'
      BY <1>0, <1>1, <1>2, <2>2, StillLoaded
    <3>2. Cleared(c)'
      BY <1>1, <2>2 DEF Cleared
    <3> QED
      BY <3>1, <3>2
  <2> QED
    BY <2>1, <2>2
<1> QED
  BY <1>0, <1>2, <1>3, Change DEF TypeOK

-----------------------------------------------------------------------------
(* raioz up.                                                               *)

LEMMA UpProbeKeeps ==
  ASSUME IInv, NEW c \in Command, UpProbe(c)
  PROVE  IInv'
<1> DEFINE S == cmd[c].todo \cap Service
           pids == [n \in Name |-> IF n \in S /\ ~Stands(cmd[c].buf.pids[n], n)
                                   THEN NoPid ELSE cmd[c].buf.pids[n]]
           running == [n \in Name |-> IF n \in S THEN pids[n] ELSE NoPid]
           content == [cmd[c].buf EXCEPT !.pids = pids]
           k == [cmd[c] EXCEPT !.buf = NoState, !.base = NoFile, !.pc = "depsLoad",
                               !.running = running]
<1>0. TypeOK /\ InHand(cmd[c]) /\ Tracked(c) /\ cmd[c].pc = "probed"
  BY DEF IInv, UpProbe
<1>1. cmd[c].mine = NoPids /\ cmd[c].kind = "up"
  BY <1>0 DEF InHand, UpPC
<1>2. pids \in [Name -> Pid \cup {NoPid}] /\ running \in [Name -> Pid \cup {NoPid}]
  BY <1>0, Fields
<1>3. content \in LocalState /\ content.pids = pids
  BY <1>0, <1>2, Fields DEF LocalState
<1>4. \A n \in Name, p \in Pid : cmd[c].buf.pids[n] = p /\ Stands(p, n) => pids[n] = p
  OBVIOUS
<1>5. IF pids = cmd[c].buf.pids THEN UNCHANGED <<file, lost>> ELSE Save(c, content, {})
  BY DEF UpProbe
<1>6. cmd' = [cmd EXCEPT ![c] = k]
  BY DEF UpProbe, Forget
<1> HIDE DEF S, pids
<1>7. k \in CmdState
  <2>1. cmd[c] \in CmdState /\ NoState \in LocalState
    BY <1>0, Fields, NoStateType
  <2> HIDE DEF running
  <2> QED
    BY <1>2, <2>1 DEF CmdState, PC
<1>8. k.kind = "up" /\ k.pc = "depsLoad" /\ k.base = NoFile /\ k.mine = NoPids
  BY <1>0, <1>1, Fields DEF CmdState
<1> HIDE DEF k, content, running
<1>9. cmd'[c] = k
  BY <1>0, <1>6, <1>7, Becomes
<1>10. Moves /\ Follows(c) /\ lost' \subseteq Pid /\ file' \in LocalState \cup {NoFile}
  <2>1. CASE UNCHANGED <<file, lost>>
    BY <1>0, <1>1, <2>1, NobodysHands, QuietFollows DEF UpProbe, TypeOK
  <2>2. CASE Save(c, content, {})
    <3>1. \A n \in Name, p \in Pid : ~Held(c, n, p)
      BY <1>1, NobodysHands
    <3>2. ASSUME NEW n \in Name, NEW p \in Pid, cmd[c].base # NoFile, cmd[c].base.pids[n] = p,
                 Stands(p, n)
          PROVE  Pids(content)[n] = p
      <4>1. cmd[c].buf.pids[n] = p
        BY <1>0, <3>2 DEF Tracked
      <4> QED
        BY <1>3, <1>4, <3>2, <4>1, HostServicesAssumption DEF Pids
    <3>3. proc' = proc /\ file' = content
      BY <2>2 DEF UpProbe, Save
    <3> QED
      BY <1>0, <1>3, <2>2, <3>1, <3>2, <3>3, SaveFollows
  <2> QED
    BY <1>5, <2>1, <2>2
<1>11. Tracked(c)' /\ Cleared(c)'
  BY <1>8, <1>9, Forgotten
<1>12. InHand(k)
  BY <1>8 DEF InHand, UpPC
<1> QED
  BY <1>0, <1>6, <1>7, <1>10, <1>11, <1>12, Change DEF UpProbe, TypeOK

LEMMA UpOverridesKeeps ==
  ASSUME IInv, NEW c \in Command, UpOverrides(c)
  PROVE  IInv'
<1> DEFINE k == [cmd[c] EXCEPT !.pc = "deps", !.devs = Loaded.devs]
<1>0. TypeOK /\ InHand(cmd[c]) /\ cmd[c].pc = "depsLoad"
  BY DEF IInv, UpOverrides
<1>1. cmd[c].mine = NoPids /\ cmd[c].kind = "up"
  BY <1>0 DEF InHand, UpPC
<1>2. cmd[c] \in CmdState /\ Loaded.devs \subseteq Dep /\ cmd[c].todo \subseteq Name
  BY <1>0, Fields, LoadedType, StateFields
<1>3. k \in CmdState
  BY <1>2 DEF CmdState, PC
<1>4. cmd' = [cmd EXCEPT ![c] = k]
  BY DEF UpOverrides
<1>5. /\ k.kind = "up" /\ k.name = cmd[c].name /\ k.todo = cmd[c].todo /\ k.pc = "deps"
      /\ k.buf = cmd[c].buf /\ k.base = cmd[c].base /\ k.mine = NoPids
  BY <1>1, <1>2 DEF CmdState
<1> HIDE DEF k
<1>6. InHand(k)
  BY <1>2, <1>5 DEF InHand, UpPC, NoPids, Name
<1>7. \A n \in Name, p \in Pid : ~Held(c, n, p)
  BY <1>1, NobodysHands
<1> QED
  BY <1>0, <1>1, <1>3, <1>4, <1>5, <1>6, <1>7, QuietKeeps DEF UpOverrides, TypeOK

LEMMA UpDepKeeps ==
  ASSUME IInv, NEW c \in Command, NEW d \in Dep, UpDep(c, d)
  PROVE  IInv'
<1> DEFINE k == [cmd[c] EXCEPT !.todo = @ \ {d}]
<1>0. TypeOK /\ InHand(cmd[c]) /\ cmd[c].pc = "deps"
  BY DEF IInv, UpDep
<1>1. cmd[c] \in CmdState
  BY <1>0, Fields
<1>2. k \in CmdState
  BY <1>1 DEF CmdState
<1>3. cmd' = [cmd EXCEPT ![c] = k]
  BY DEF UpDep
<1>4. /\ k.kind = cmd[c].kind /\ k.name = cmd[c].name /\ k.todo = cmd[c].todo \ {d} /\ k.pc = "deps"
      /\ k.buf = cmd[c].buf /\ k.base = cmd[c].base /\ k.mine = cmd[c].mine
  BY <1>0, <1>1 DEF CmdState
<1> HIDE DEF k
<1>5. InHand(k)
  BY <1>0, <1>4 DEF InHand, UpPC
<1>6. cmd'[c] = k
  BY <1>0, <1>2, <1>3, Becomes
<1>7. \A n \in Name, p \in Pid : Held(c, n, p) => Held(c, n, p)'
  BY <1>0, <1>4, <1>6 DEF Held, Watching
<1>8. image' \subseteq Dep
  BY <1>0 DEF UpDep, TypeOK
<1> QED
  BY <1>0, <1>2, <1>3, <1>4, <1>5, <1>7, <1>8, QuietKeeps DEF UpDep

LEMMA UpPromotedDepKeeps ==
  ASSUME IInv, NEW c \in Command, NEW d \in Dep, NEW p \in Pid, UpPromotedDep(c, d, p)
  PROVE  IInv'
<1> DEFINE k == [cmd[c] EXCEPT !.todo = @ \ {d}, !.pc = "depLoad", !.name = d, !.mine[d] = p]
<1>0. TypeOK /\ InHand(cmd[c]) /\ Tracked(c) /\ cmd[c].pc = "deps" /\ d \in Name
  BY DEF IInv, UpPromotedDep, Name
<1>1. cmd[c] \in CmdState /\ cmd[c].mine \in [Name -> Pid \cup {NoPid}]
  BY <1>0, Fields
<1>2. k \in CmdState
  BY <1>0, <1>1 DEF CmdState, PC
<1>3. cmd' = [cmd EXCEPT ![c] = k]
  BY ZenonT(60) DEF UpPromotedDep
<1>4. /\ k.kind = cmd[c].kind /\ k.name = d /\ k.todo = cmd[c].todo \ {d} /\ k.pc = "depLoad"
      /\ k.buf = cmd[c].buf /\ k.base = cmd[c].base /\ k.mine = [cmd[c].mine EXCEPT ![d] = p]
  BY <1>0, <1>1 DEF CmdState
<1> HIDE DEF k
<1>5. cmd[c].kind = "up" /\ \A n \in Dep \cup cmd[c].todo : cmd[c].mine[n] = NoPid
  BY <1>0 DEF InHand, UpPC
<1>6. k.mine[d] = p /\ \A n \in Name \ {d} : k.mine[n] = cmd[c].mine[n]
  BY <1>0, <1>1, <1>4
<1>7. InHand(k)
  <2>1. \A n \in (Dep \cup k.todo) \ {d} : k.mine[n] = NoPid
    <3>1. k.todo \subseteq cmd[c].todo /\ Dep \cup cmd[c].todo \subseteq Name
      BY <1>0, <1>4, Fields DEF Name
    <3> QED
      BY <1>5, <1>6, <3>1
  <2> QED
    BY <1>0, <1>4, <1>5, <1>6, <2>1, NameIsNotNone DEF InHand, UpPC
<1>8. cmd'[c] = k
  BY <1>0, <1>2, <1>3, Becomes
<1>9. Moves /\ Follows(c) /\ proc' \in [Pid -> Name \cup {None}]
  <2>1. Held(c, d, p)'
    BY <1>4, <1>6, <1>8 DEF Held, Watching
  <2>2. ASSUME NEW m \in Name, NEW x \in Pid, Held(c, m, x) PROVE Held(c, m, x)'
    <3>1. cmd[c].mine[m] = x /\ m # d
      BY <1>5, <2>2, NameIsNotNone DEF Held
    <3>2. cmd'[c].mine[m] = x /\ cmd'[c].pc = "depLoad"
      BY <1>4, <1>6, <1>8, <3>1
    <3> QED
      BY <3>2 DEF Held, Watching
  <2> QED
    BY <1>0, <2>1, <2>2, StartsFollows DEF UpPromotedDep
<1>10. Tracked(c)' /\ Cleared(c)'
  BY <1>0, <1>4, <1>5, <1>8, <1>9, StartTracks
<1> QED
  BY <1>0, <1>2, <1>3, <1>7, <1>9, <1>10, Change DEF UpPromotedDep, TypeOK

LEMMA UpAdoptsKeeps ==
  ASSUME IInv, NEW c \in Command, NEW s \in Service, UpAdopts(c, s)
  PROVE  IInv'
<1> DEFINE k == [cmd[c] EXCEPT !.todo = @ \ {s}, !.mine[s] = cmd[c].running[s]]
<1>0. TypeOK /\ InHand(cmd[c]) /\ cmd[c].pc = "deps" /\ s \in Name /\ s \notin Dep
  BY NameIsNotNone DEF IInv, UpAdopts, AtServices, Name
<1>1. /\ cmd[c] \in CmdState /\ cmd[c].mine \in [Name -> Pid \cup {NoPid}]
      /\ cmd[c].running \in [Name -> Pid \cup {NoPid}] /\ cmd[c].todo \subseteq Name
  BY <1>0, Fields
<1>2. k \in CmdState
  BY <1>0, <1>1 DEF CmdState, PC
<1>3. cmd' = [cmd EXCEPT ![c] = k]
  BY DEF UpAdopts
<1>4. /\ k.kind = cmd[c].kind /\ k.name = cmd[c].name /\ k.todo = cmd[c].todo \ {s} /\ k.pc = "deps"
      /\ k.buf = cmd[c].buf /\ k.base = cmd[c].base
      /\ k.mine = [cmd[c].mine EXCEPT ![s] = cmd[c].running[s]]
  BY <1>0, <1>1 DEF CmdState
<1> HIDE DEF k
<1>5. \A n \in Name \ {s} : k.mine[n] = cmd[c].mine[n]
  BY <1>0, <1>1, <1>4
<1>6. cmd[c].kind = "up" /\ \A n \in Dep \cup cmd[c].todo : cmd[c].mine[n] = NoPid
  BY <1>0 DEF InHand, UpPC
<1>7. InHand(k)
  <2>1. \A n \in Dep \cup k.todo : k.mine[n] = NoPid
    BY <1>0, <1>1, <1>4, <1>5, <1>6 DEF Name
  <2> QED
    BY <1>0, <1>4, <1>6, <2>1 DEF InHand, UpPC
<1>8. cmd'[c] = k
  BY <1>0, <1>2, <1>3, Becomes
<1>9. \A n \in Name, p \in Pid : Held(c, n, p) => Held(c, n, p)'
  <2>1. cmd[c].mine[s] = NoPid
    BY <1>6 DEF UpAdopts
  <2> QED
    BY <1>4, <1>5, <1>8, <2>1, NameIsNotNone DEF Held, Watching
<1> QED
  BY <1>0, <1>2, <1>3, <1>4, <1>7, <1>9, QuietKeeps DEF UpAdopts, TypeOK

LEMMA UpStartsKeeps ==
  ASSUME IInv, NEW c \in Command, NEW s \in Service, NEW p \in Pid, UpStarts(c, s, p)
  PROVE  IInv'
<1> DEFINE k == [cmd[c] EXCEPT !.todo = @ \ {s}, !.mine[s] = p]
<1>0. TypeOK /\ InHand(cmd[c]) /\ Tracked(c) /\ cmd[c].pc = "deps" /\ s \in Name /\ s \notin Dep
  BY NameIsNotNone DEF IInv, UpStarts, AtServices, Name
<1>1. /\ cmd[c] \in CmdState /\ cmd[c].mine \in [Name -> Pid \cup {NoPid}]
      /\ cmd[c].todo \subseteq Name
  BY <1>0, Fields
<1>2. k \in CmdState
  BY <1>0, <1>1 DEF CmdState, PC
<1>3. cmd' = [cmd EXCEPT ![c] = k]
  BY DEF UpStarts
<1>4. /\ k.kind = cmd[c].kind /\ k.name = cmd[c].name /\ k.todo = cmd[c].todo \ {s} /\ k.pc = "deps"
      /\ k.buf = cmd[c].buf /\ k.base = cmd[c].base
      /\ k.mine = [cmd[c].mine EXCEPT ![s] = p]
  BY <1>0, <1>1 DEF CmdState
<1> HIDE DEF k
<1>5. k.mine[s] = p /\ \A n \in Name \ {s} : k.mine[n] = cmd[c].mine[n]
  BY <1>0, <1>1, <1>4
<1>6. cmd[c].kind = "up" /\ \A n \in Dep \cup cmd[c].todo : cmd[c].mine[n] = NoPid
  BY <1>0 DEF InHand, UpPC
<1>7. InHand(k)
  <2>1. \A n \in Dep \cup k.todo : k.mine[n] = NoPid
    BY <1>0, <1>1, <1>4, <1>5, <1>6 DEF Name
  <2> QED
    BY <1>0, <1>4, <1>6, <2>1 DEF InHand, UpPC
<1>8. cmd'[c] = k
  BY <1>0, <1>2, <1>3, Becomes
<1>9. Moves /\ Follows(c) /\ proc' \in [Pid -> Name \cup {None}]
  <2>1. Held(c, s, p)'
    BY <1>4, <1>5, <1>8 DEF Held, Watching
  <2>2. cmd[c].mine[s] = NoPid
    BY <1>6 DEF UpStarts
  <2>3. \A m \in Name, x \in Pid : Held(c, m, x) => Held(c, m, x)'
    BY <1>4, <1>5, <1>8, <2>2, NameIsNotNone DEF Held, Watching
  <2> QED
    BY <1>0, <2>1, <2>3, StartsFollows DEF UpStarts
<1>10. Tracked(c)' /\ Cleared(c)'
  BY <1>0, <1>4, <1>6, <1>8, <1>9, StartTracks
<1> QED
  BY <1>0, <1>2, <1>3, <1>7, <1>9, <1>10, Change DEF UpStarts, TypeOK

LEMMA UpPersistsKeeps ==
  ASSUME IInv, NEW c \in Command, UpPersists(c)
  PROVE  IInv'
<1> DEFINE k == [cmd[c] EXCEPT !.pc = "persist", !.buf = Loaded, !.base = file,
                               !.running = NoPids, !.devs = {},
                               !.ok = (cmd[c].todo = {}), !.todo = {}]
<1>0. TypeOK /\ InHand(cmd[c]) /\ cmd[c].pc = "deps"
  BY DEF IInv, UpPersists, AtServices
<1>1. /\ cmd[c] \in CmdState /\ Loaded \in LocalState /\ file \in LocalState \cup {NoFile}
      /\ NoPids \in [Name -> Pid \cup {NoPid}]
  BY <1>0, Fields, LoadedType, NoStateType DEF TypeOK
<1>2. k \in CmdState
  BY <1>1, ZenonT(60) DEF CmdState, PC
<1>3. cmd' = [cmd EXCEPT ![c] = k]
  BY DEF UpPersists
<1>4. /\ k.kind = cmd[c].kind /\ k.todo = {} /\ k.pc = "persist"
      /\ k.buf = Loaded /\ k.base = file /\ k.mine = cmd[c].mine
  BY <1>0, <1>1 DEF CmdState
<1> HIDE DEF k
<1>5. InHand(k)
  BY <1>0, <1>4 DEF InHand, UpPC
<1>6. cmd'[c] = k
  BY <1>0, <1>2, <1>3, Becomes
<1>7. Moves /\ Follows(c)
  <2>1. \A n \in Name, p \in Pid : Held(c, n, p) => Held(c, n, p)'
    BY <1>0, <1>4, <1>6 DEF Held, Watching
  <2> QED
    BY <2>1, QuietFollows DEF UpPersists
<1>8. Tracked(c)' /\ Cleared(c)'
  BY <1>0, <1>4, <1>6, JustLoaded
<1> QED
  BY <1>0, <1>2, <1>3, <1>5, <1>7, <1>8, Change DEF UpPersists, TypeOK

\* A save of what was loaded, with processes in the command's hands put in.
LEMMA MergeFollows ==
  ASSUME TypeOK, NEW c \in Command, Tracked(c), NEW content \in LocalState,
         Save(c, content, Replaced(c, content.pids)), proc' = proc,
         \A n \in Name : \/ content.pids[n] = cmd[c].buf.pids[n]
                         \/ content.pids[n] = cmd[c].mine[n] /\ cmd[c].mine[n] # NoPid,
         \A n \in Name, p \in Pid : Held(c, n, p) => Held(c, n, p)' \/ content.pids[n] = p
  PROVE  Moves /\ Follows(c) /\ lost' \subseteq Pid /\ file' \in LocalState \cup {NoFile}
<1>1. Pids(content) = content.pids
  BY HostServicesAssumption DEF Pids
<1>2. ASSUME NEW n \in Name, NEW p \in Pid, cmd[c].base # NoFile, cmd[c].base.pids[n] = p,
             Stands(p, n), content.pids[n] # p
      PROVE  p \in Replaced(c, content.pids)
  <2>1. cmd[c].buf.pids[n] = p
    BY <1>2 DEF Tracked
  <2>2. content.pids[n] # NoPid
    BY <1>2, <2>1
  <2> QED
    BY <1>2, <2>1, <2>2 DEF Replaced
<1>3. Replaced(c, content.pids) \subseteq Pid
  BY DEF Replaced
<1>4. file' = content
  BY DEF Save
<1> QED
  BY <1>1, <1>2, <1>3, <1>4, SaveFollows

LEMMA UpdateHostPIDKeeps ==
  ASSUME IInv, NEW c \in Command, UpdateHostPID(c)
  PROVE  IInv'
<1> DEFINE n == cmd[c].name
           pids == [cmd[c].buf.pids EXCEPT ![n] = cmd[c].mine[n]]
           content == [cmd[c].buf EXCEPT !.pids = pids]
           mine == [cmd[c].mine EXCEPT ![n] = IF n \in Dep THEN NoPid ELSE @]
           k == [cmd[c] EXCEPT !.buf = NoState, !.base = NoFile,
                               !.pc = IF @ = "tick" THEN "watch" ELSE "deps",
                               !.name = None, !.mine = mine]
<1>0. TypeOK /\ InHand(cmd[c]) /\ Tracked(c) /\ cmd[c].pc \in {"depSave", "tick"}
  BY DEF IInv, UpdateHostPID
<1>1. /\ cmd[c] \in CmdState /\ cmd[c].mine \in [Name -> Pid \cup {NoPid}]
      /\ cmd[c].todo \subseteq Name /\ cmd[c].buf \in LocalState
      /\ cmd[c].buf.pids \in [Name -> Pid \cup {NoPid}]
  BY <1>0, Fields
<1>2. n \in Name /\ cmd[c].mine[n] # NoPid /\ cmd[c].kind = "up"
  BY <1>0 DEF InHand, UpPC
<1>3. pids \in [Name -> Pid \cup {NoPid}] /\ mine \in [Name -> Pid \cup {NoPid}]
  BY <1>1, <1>2
<1>4. content \in LocalState /\ content.pids = pids
  BY <1>1, <1>3, StateMade DEF LocalState
<1>5. /\ pids[n] = cmd[c].mine[n] /\ \A m \in Name \ {n} : pids[m] = cmd[c].buf.pids[m]
      /\ mine[n] = IF n \in Dep THEN NoPid ELSE cmd[c].mine[n]
      /\ \A m \in Name \ {n} : mine[m] = cmd[c].mine[m]
  BY <1>1, <1>2
<1>6. Save(c, content, Replaced(c, pids)) /\ UNCHANGED <<proc, image, lock>>
  BY DEF UpdateHostPID
<1>7. cmd' = [cmd EXCEPT ![c] = k]
  <2> DEFINE k1 == [cmd[c] EXCEPT !.buf = NoState, !.base = NoFile]
  <2>1. Forget(c) = [cmd EXCEPT ![c] = k1]
    BY DEF Forget
  <2>2. Forget(c)[c] = k1
    BY <1>0, <2>1 DEF TypeOK
  <2>3. k1.pc = cmd[c].pc /\ k1.mine = cmd[c].mine
    BY <1>1 DEF CmdState
  <2>4. k = [k1 EXCEPT !.pc = IF cmd[c].pc = "tick" THEN "watch" ELSE "deps",
                       !.name = None, !.mine = mine]
    OBVIOUS
  <2> HIDE DEF k1, k
  <2>5. cmd' = [Forget(c) EXCEPT ![c] =
                  [k1 EXCEPT !.pc = IF k1.pc = "tick" THEN "watch" ELSE "deps",
                             !.name = None,
                             !.mine = [k1.mine EXCEPT ![n] = IF n \in Dep THEN NoPid
                                                             ELSE k1.mine[n]]]]
    BY <2>2, ZenonT(60) DEF UpdateHostPID
  <2>6. cmd' = [Forget(c) EXCEPT ![c] = k]
    BY <2>3, <2>4, <2>5
  <2> QED
    BY <2>1, <2>6
<1> HIDE DEF n, pids, mine
<1>8. k \in CmdState
  BY <1>1, <1>3, NoStateType, ZenonT(60) DEF CmdState, PC
<1>9. /\ k.kind = "up" /\ k.pc = (IF cmd[c].pc = "tick" THEN "watch" ELSE "deps")
      /\ k.base = NoFile /\ k.mine = mine /\ k.todo = cmd[c].todo
  BY <1>1, <1>2 DEF CmdState
<1> HIDE DEF k, content
<1>10. cmd'[c] = k
  BY <1>0, <1>7, <1>8, Becomes
<1>11. Moves /\ Follows(c) /\ lost' \subseteq Pid /\ file' \in LocalState \cup {NoFile}
  <2>1. \A m \in Name : \/ content.pids[m] = cmd[c].buf.pids[m]
                        \/ content.pids[m] = cmd[c].mine[m] /\ cmd[c].mine[m] # NoPid
    BY <1>2, <1>4, <1>5
  <2>2. ASSUME NEW m \in Name, NEW p \in Pid, Held(c, m, p)
        PROVE  Held(c, m, p)' \/ content.pids[m] = p
    <3>1. CASE m = n
      BY <1>4, <1>5, <2>2, <3>1 DEF Held
    <3>2. CASE m # n
      <4>1. cmd[c].pc = "depSave" /\ cmd[c].mine[m] = p
        BY <1>0, <2>2, <3>2 DEF Held, Watching, n
      <4> QED
        BY <1>5, <1>9, <1>10, <3>2, <4>1 DEF Held, Watching
    <3> QED
      BY <3>1, <3>2
  <2> QED
    BY <1>0, <1>4, <1>6, <2>1, <2>2, MergeFollows
<1>12. Tracked(c)' /\ Cleared(c)'
  BY <1>9, <1>10, Forgotten
<1>13. InHand(k)
  <2>1. CASE cmd[c].pc = "tick"
    BY <1>9, <2>1 DEF InHand, UpPC
  <2>2. CASE cmd[c].pc = "depSave"
    <3>1. n \in Dep /\ \A m \in (Dep \cup cmd[c].todo) \ {n} : cmd[c].mine[m] = NoPid
      BY <1>0, <2>2 DEF InHand, n
    <3>2. \A m \in Dep \cup k.todo : k.mine[m] = NoPid
      BY <1>1, <1>5, <1>9, <3>1 DEF Name
    <3> QED
      BY <1>9, <2>2, <3>2 DEF InHand, UpPC
  <2> QED
    BY <1>0, <2>1, <2>2
<1> QED
  BY <1>0, <1>6, <1>7, <1>8, <1>11, <1>12, <1>13, Change DEF TypeOK

LEMMA UpPersistKeeps ==
  ASSUME IInv, NEW c \in Command, UpPersist(c)
  PROVE  IInv'
<1> DEFINE pids == Persisted(c)
           content == [cmd[c].buf EXCEPT !.pids = pids, !.named = TRUE]
           k == [cmd[c] EXCEPT !.buf = NoState, !.base = NoFile, !.pc = "watch",
                               !.todo = {s \in Service : cmd[c].mine[s] # NoPid}]
<1>0. TypeOK /\ InHand(cmd[c]) /\ Tracked(c) /\ cmd[c].pc = "persist"
  BY DEF IInv, UpPersist
<1>1. /\ cmd[c] \in CmdState /\ cmd[c].mine \in [Name -> Pid \cup {NoPid}]
      /\ cmd[c].buf \in LocalState /\ cmd[c].buf.pids \in [Name -> Pid \cup {NoPid}]
  BY <1>0, Fields
<1>2. /\ pids \in [Name -> Pid \cup {NoPid}]
      /\ \A n \in Name : pids[n] = IF n \in Service /\ cmd[c].mine[n] # NoPid
                                   THEN cmd[c].mine[n] ELSE cmd[c].buf.pids[n]
  BY <1>1 DEF Persisted
<1> HIDE DEF pids
<1>3. content \in LocalState /\ content.pids = pids
  BY <1>1, <1>2, StateMade DEF LocalState
<1>4. Save(c, content, Replaced(c, pids)) /\ UNCHANGED <<proc, image>>
  BY DEF UpPersist, pids
<1> HIDE DEF content
<1>5. cmd[c].kind = "up" /\ \A d \in Dep : cmd[c].mine[d] = NoPid
  BY <1>0 DEF InHand, UpPC
<1>6. \A n \in Name : \/ content.pids[n] = cmd[c].buf.pids[n]
                      \/ content.pids[n] = cmd[c].mine[n] /\ cmd[c].mine[n] # NoPid
  BY <1>2, <1>3
<1>7. \A n \in Name, p \in Pid : Held(c, n, p) => content.pids[n] = p
  BY <1>2, <1>3, <1>5, NameIsNotNone DEF Held, Name
<1>8. Moves /\ Follows(c) /\ lost' \subseteq Pid /\ file' \in LocalState \cup {NoFile}
  BY <1>0, <1>3, <1>4, <1>6, <1>7, MergeFollows
<1>9. CASE End(c)
  BY <1>0, <1>4, <1>8, <1>9, EndOwn, Change DEF TypeOK
<1>10. CASE /\ cmd' = [Forget(c) EXCEPT ![c].pc = "watch",
                                        ![c].todo = {s \in Service : cmd[c].mine[s] # NoPid}]
            /\ lock' = Unlocked(c)
  <2>1. cmd' = [cmd EXCEPT ![c] = k]
    BY <1>10 DEF Forget
  <2>2. {s \in Service : cmd[c].mine[s] # NoPid} \subseteq Name
    BY DEF Name
  <2>3. k \in CmdState
    BY <1>1, <2>2, NoStateType DEF CmdState, PC
  <2>4. k.kind = "up" /\ k.pc = "watch" /\ k.base = NoFile
    BY <1>1, <1>5 DEF CmdState
  <2> HIDE DEF k
  <2>5. cmd'[c] = k
    BY <1>0, <2>1, <2>3, Becomes
  <2>6. Tracked(c)' /\ Cleared(c)'
    BY <2>4, <2>5, Forgotten
  <2>7. InHand(k)
    BY <2>4 DEF InHand, UpPC
  <2> QED
    BY <1>0, <1>4, <1>8, <1>10, <2>1, <2>3, <2>6, <2>7, LocksType, Change DEF TypeOK
<1> QED
  BY <1>9, <1>10 DEF UpPersist

-----------------------------------------------------------------------------
(* The watch phase.                                                        *)

LEMMA WatchStopsKeeps ==
  ASSUME IInv, NEW c \in Command, NEW s \in Service, WatchStops(c, s)
  PROVE  IInv'
<1> DEFINE P == IF s \in CustomStop THEN ProcessesOf(s) ELSE {cmd[c].mine[s]}
           k == [cmd[c] EXCEPT !.name = s, !.pc = "start", !.mine[s] = NoPid]
<1>0. TypeOK /\ InHand(cmd[c]) /\ Tracked(c) /\ cmd[c].pc = "watch" /\ s \in Name
  BY DEF IInv, WatchStops, Name
<1>1. cmd[c] \in CmdState /\ cmd[c].mine \in [Name -> Pid \cup {NoPid}] /\ cmd[c].kind = "up"
  BY <1>0, Fields DEF InHand, UpPC
<1>2. k \in CmdState
  BY <1>0, <1>1 DEF CmdState, PC
<1>3. cmd' = [cmd EXCEPT ![c] = k]
  BY DEF WatchStops
<1>4. /\ k.kind = "up" /\ k.name = s /\ k.pc = "start"
      /\ k.buf = cmd[c].buf /\ k.base = cmd[c].base
  BY <1>0, <1>1 DEF CmdState
<1> HIDE DEF k
<1>5. cmd'[c] = k
  BY <1>0, <1>2, <1>3, Becomes
<1>6. Dies(P) /\ UNCHANGED <<image, file, lock>>
  BY DEF WatchStops
<1>7. \A n \in Name, p \in Pid : ~Held(c, n, p)
  BY <1>0 DEF Held, Watching
<1>8. Moves /\ Follows(c) /\ proc' \in [Pid -> Name \cup {None}] /\ lost' \subseteq Pid
  BY <1>0, <1>6, <1>7, DiesFollows
<1>9. Tracked(c)' /\ Cleared(c)'
  BY <1>0, <1>1, <1>4, <1>5, <1>8, StartTracks
<1>10. InHand(k)
  BY <1>0, <1>4 DEF InHand, UpPC
<1> QED
  BY <1>0, <1>2, <1>3, <1>6, <1>8, <1>9, <1>10, Change DEF TypeOK

LEMMA WatchStopFailsKeeps ==
  ASSUME IInv, NEW c \in Command, NEW s \in Service, WatchStopFails(c, s)
  PROVE  IInv'
<1> DEFINE k == [cmd[c] EXCEPT !.name = s, !.pc = "start"]
<1>0. TypeOK /\ InHand(cmd[c]) /\ Tracked(c) /\ cmd[c].pc = "watch" /\ s \in Name
  BY DEF IInv, WatchStopFails, Name
<1>1. cmd[c] \in CmdState /\ cmd[c].kind = "up"
  BY <1>0, Fields DEF InHand, UpPC
<1>2. k \in CmdState
  BY <1>0, <1>1 DEF CmdState, PC
<1>3. cmd' = [cmd EXCEPT ![c] = k]
  BY DEF WatchStopFails
<1>4. /\ k.kind = "up" /\ k.name = s /\ k.pc = "start"
      /\ k.buf = cmd[c].buf /\ k.base = cmd[c].base
  BY <1>0, <1>1 DEF CmdState
<1> HIDE DEF k
<1>5. cmd'[c] = k
  BY <1>0, <1>2, <1>3, Becomes
<1>6. \A n \in Name, p \in Pid : ~Held(c, n, p)
  BY <1>0 DEF Held, Watching
<1>7. Moves /\ Follows(c)
  BY <1>6, QuietFollows DEF WatchStopFails
<1>8. Tracked(c)' /\ Cleared(c)'
  BY <1>0, <1>1, <1>4, <1>5, <1>7, StartTracks
<1>9. InHand(k)
  BY <1>0, <1>4 DEF InHand, UpPC
<1> QED
  BY <1>0, <1>2, <1>3, <1>7, <1>8, <1>9, Change DEF WatchStopFails, TypeOK

LEMMA ServiceStartsKeeps ==
  ASSUME IInv, NEW c \in Command, NEW p \in Pid, ServiceStarts(c, p)
  PROVE  IInv'
<1>0. /\ TypeOK /\ InHand(cmd[c]) /\ Tracked(c) /\ cmd[c].pc = "start"
      /\ cmd[c].kind \in {"up", "restart"}
  BY DEF IInv, ServiceStarts
<1>n. PICK n \in Name : n = cmd[c].name
  BY <1>0 DEF InHand
<1> DEFINE k == [cmd[c] EXCEPT !.pc = IF cmd[c].kind = "up" THEN "tickLoad" ELSE "save",
                               !.mine[n] = p]
<1>1. cmd[c] \in CmdState /\ cmd[c].mine \in [Name -> Pid \cup {NoPid}]
  BY <1>0, Fields
<1>2. k \in CmdState
  BY <1>0, <1>1 DEF CmdState, PC
<1>3. cmd' = [cmd EXCEPT ![c] = k]
  BY <1>n DEF ServiceStarts
<1>4. /\ k.kind = cmd[c].kind /\ k.name = n
      /\ k.pc = (IF cmd[c].kind = "up" THEN "tickLoad" ELSE "save")
      /\ k.buf = cmd[c].buf /\ k.base = cmd[c].base /\ k.mine = [cmd[c].mine EXCEPT ![n] = p]
  BY <1>n, <1>0, <1>1 DEF CmdState
<1>5. Starts(n, p) /\ UNCHANGED <<image, file, lock, lost>>
  BY <1>n DEF ServiceStarts
<1> HIDE DEF k
<1>6. cmd'[c] = k /\ k.mine[n] = p
  BY <1>0, <1>1, <1>2, <1>3, <1>4, Becomes
<1>7. Held(c, n, p)'
  BY <1>0, <1>4, <1>6 DEF Held, Watching
<1>8. \A m \in Name, x \in Pid : ~Held(c, m, x)
  <2>1. CASE cmd[c].kind = "up"
    BY <1>0, <2>1 DEF Held, Watching
  <2>2. CASE cmd[c].kind = "restart"
    <3>1. cmd[c].mine = NoPids
      BY <1>0, <2>2 DEF InHand, UpPC
    <3> QED
      BY <3>1, NobodysHands
  <2> QED
    BY <1>0, <2>1, <2>2
<1>9. Moves /\ Follows(c) /\ proc' \in [Pid -> Name \cup {None}]
  BY <1>0, <1>5, <1>7, <1>8, StartsFollows
<1>10. Tracked(c)' /\ Cleared(c)'
  BY <1>0, <1>4, <1>6, <1>9, StartTracks
<1>11. InHand(k)
  BY <1>0, <1>1, <1>4, <1>6, NameIsNotNone DEF InHand, UpPC
<1> QED
  BY <1>0, <1>2, <1>3, <1>5, <1>9, <1>10, <1>11, Change DEF TypeOK

LEMMA ServiceFailsKeeps ==
  ASSUME IInv, NEW c \in Command, ServiceFails(c)
  PROVE  IInv'
<1>0. TypeOK /\ InHand(cmd[c]) /\ cmd[c].pc = "start" /\ UNCHANGED <<proc, image, file, lost>>
  BY DEF IInv, ServiceFails
<1>1. CASE cmd[c].kind = "restart" /\ End(c)
  <2>1. cmd[c].mine = NoPids
    BY <1>0, <1>1 DEF InHand, UpPC
  <2> QED
    BY <1>0, <1>1, <2>1, EndKeeps DEF TypeOK
<1>2. CASE cmd[c].kind = "up" /\ Goto(c, "watch") /\ UNCHANGED lock
  <2> DEFINE k == [cmd[c] EXCEPT !.pc = "watch"]
  <2>1. cmd[c] \in CmdState
    BY <1>0, Fields
  <2>2. k \in CmdState
    BY <2>1 DEF CmdState, PC
  <2>3. cmd' = [cmd EXCEPT ![c] = k]
    BY <1>2 DEF Goto
  <2>4. /\ k.kind = "up" /\ k.name = cmd[c].name /\ k.pc = "watch"
        /\ k.buf = cmd[c].buf /\ k.base = cmd[c].base
    BY <1>2, <2>1 DEF CmdState
  <2> HIDE DEF k
  <2>5. \A m \in Name, x \in Pid : ~Held(c, m, x)
    BY <1>0, <1>2 DEF Held, Watching
  <2>6. InHand(k)
    BY <2>4 DEF InHand, UpPC
  <2> QED
    BY <1>0, <1>2, <2>2, <2>3, <2>4, <2>5, <2>6, QuietKeeps DEF TypeOK
<1> QED
  BY <1>1, <1>2 DEF ServiceFails

LEMMA InterruptKeeps ==
  ASSUME IInv, NEW c \in Command, NEW S, Interrupt(c, S)
  PROVE  IInv'
<1> DEFINE P == {cmd[c].mine[s] : s \in cmd[c].todo \ CustomStop} \cup UNION {ProcessesOf(s) : s \in S}
           k == [Idle EXCEPT !.kind = "down", !.pc = "stop"]
<1>0. TypeOK /\ cmd[c].pc = "watch"
  BY DEF IInv, Interrupt
<1>1. k \in CmdState
  BY IdleType DEF CmdState, PC, Kind
<1>2. cmd' = [cmd EXCEPT ![c] = k]
  BY DEF Interrupt
<1>3. k.kind = "down" /\ k.pc = "stop" /\ k.base = NoFile /\ k.mine = NoPids
  BY DEF Idle
<1> HIDE DEF k
<1>4. cmd'[c] = k
  BY <1>0, <1>1, <1>2, Becomes
<1>5. Dies(P) /\ UNCHANGED <<image, file, lock>>
  BY DEF Interrupt
<1> HIDE DEF P
<1>6. \A n \in Name, p \in Pid : ~Held(c, n, p)
  BY <1>0 DEF Held, Watching
<1>7. Moves /\ Follows(c) /\ proc' \in [Pid -> Name \cup {None}] /\ lost' \subseteq Pid
  BY <1>0, <1>5, <1>6, DiesFollows
<1>8. Tracked(c)' /\ Cleared(c)'
  BY <1>3, <1>4, Forgotten
<1>9. InHand(k)
  BY <1>3 DEF InHand, UpPC
<1> QED
  BY <1>0, <1>1, <1>2, <1>5, <1>7, <1>8, <1>9, Change DEF TypeOK

-----------------------------------------------------------------------------
(* The state mutators.                                                     *)

LEMMA UpBeginsKeeps ==
  ASSUME IInv, NEW c \in Command, NEW S \in Asked, UpBegins(c, S)
  PROVE  IInv'
<1>1. S \cup Dep \in SUBSET Name /\ None \in Name \cup {None} /\ "up" \in Kind
  BY HostServicesAssumption DEF Name, Kind
<1> QED
  BY <1>1, BeginKeeps DEF UpBegins

LEMMA MutatorBeginsKeeps ==
  ASSUME IInv, NEW c \in Command, NEW n \in Name, MutatorBegins(c, n)
  PROVE  IInv'
<1>1. CASE n \in Service /\ \E kind \in {"restart", "stop"} : Begin(c, kind, n, {}, "stop")
  <2>1. PICK kind \in {"restart", "stop"} : Begin(c, kind, n, {}, "stop")
    BY <1>1
  <2>2. kind \in Kind /\ kind \notin {"promote", "reset"}
    BY DEF Kind
  <2> QED
    BY <2>1, <2>2, BeginKeeps
<1>2. CASE n \in Dep /\ \E kind \in {"promote", "reset"} : Begin(c, kind, n, {}, "stop")
  <2>1. PICK kind \in {"promote", "reset"} : Begin(c, kind, n, {}, "stop")
    BY <1>2
  <2>2. kind \in Kind
    BY DEF Kind
  <2> QED
    BY <1>2, <2>1, <2>2, BeginKeeps
<1> QED
  BY <1>1, <1>2 DEF MutatorBegins

\* A command that stops the process of n, which it has in memory.
LEMMA StopKeeps ==
  ASSUME IInv, NEW c \in Command, NEW n \in Name, n = cmd[c].name, NEW P, Dies(P),
         cmd[c].pc = "stop", NEW where \in {"start", "save"},
         cmd[c].kind \in {"restart", "stop", "reset"},
         cmd' = [cmd EXCEPT ![c].buf.pids[n] = NoPid, ![c].pc = where],
         \A p \in Pid : cmd[c].buf.pids[n] = p /\ proc[p] = n => p \in P,
         UNCHANGED <<image, file, lock>>
  PROVE  IInv'
<1> DEFINE pids == [cmd[c].buf.pids EXCEPT ![n] = NoPid]
           buf == [cmd[c].buf EXCEPT !.pids = pids]
           k == [cmd[c] EXCEPT !.buf = buf, !.pc = where]
<1>0. TypeOK /\ InHand(cmd[c]) /\ Tracked(c)
  BY DEF IInv
<1>1. /\ cmd[c] \in CmdState /\ cmd[c].buf \in LocalState
      /\ cmd[c].buf.pids \in [Name -> Pid \cup {NoPid}]
  BY <1>0, Fields
<1>2. /\ pids \in [Name -> Pid \cup {NoPid}] /\ pids[n] = NoPid
      /\ \A m \in Name \ {n} : pids[m] = cmd[c].buf.pids[m]
  BY <1>1
<1>3. cmd' = [cmd EXCEPT ![c] = k]
  OBVIOUS
<1> HIDE DEF pids
<1>4. /\ buf \in LocalState /\ buf.pids = pids
      /\ buf.devs = cmd[c].buf.devs /\ buf.named = cmd[c].buf.named
  <2>1. buf = [cmd[c].buf EXCEPT !.pids = pids] /\ cmd[c].buf \in LocalState
    BY <1>1
  <2> HIDE DEF buf
  <2> QED BY <1>2, <2>1, PidsMade
<1> HIDE DEF buf
<1>5. where \in PC
  BY DEF PC
<1>6. k \in CmdState
  BY <1>1, <1>4, <1>5 DEF CmdState
<1>7. /\ k.kind = cmd[c].kind /\ k.name = cmd[c].name /\ k.pc = where /\ k.buf = buf
      /\ k.base = cmd[c].base /\ k.mine = cmd[c].mine
  BY <1>1 DEF CmdState
<1> HIDE DEF k
<1>8. cmd'[c] = k
  BY <1>0, <1>3, <1>6, Becomes
<1>9. cmd[c].mine = NoPids
  BY <1>0 DEF InHand, UpPC
<1>10. /\ Moves /\ Follows(c) /\ proc' \in [Pid -> Name \cup {None}] /\ lost' \subseteq Pid
       /\ \A p \in Pid \cap P : proc'[p] = None
       /\ \A p \in Pid : proc'[p] \in {proc[p], None}
  BY <1>0, <1>9, NobodysHands, DiesFollows
<1>11. ASSUME NEW m \in Name, NEW p \in Pid, proc'[p] = m, cmd[c].buf.pids[m] = p
       PROVE  pids[m] = p
  <2>1. proc[p] = m /\ p \notin P
    BY <1>10, <1>11, NameIsNotNone
  <2> QED
    BY <1>2, <1>11, <2>1
<1>12. Tracked(c)'
  <2>1. /\ cmd'[c].base = cmd[c].base /\ cmd'[c].kind = cmd[c].kind
        /\ cmd'[c].name = cmd[c].name /\ cmd'[c].buf.named = cmd[c].buf.named
        /\ cmd'[c].buf.devs = cmd[c].buf.devs /\ cmd'[c].buf.pids = pids
    BY <1>4, <1>7, <1>8
  <2>2. \A m \in Name, p \in Pid : proc'[p] = m /\ cmd[c].buf.pids[m] = p
                                 => cmd'[c].buf.pids[m] = p
    BY <1>11, <2>1
  <2> QED
    BY <1>0, <1>10, <2>1, <2>2, StillTracks
<1>13. Cleared(c)'
  BY <1>7, <1>8 DEF Cleared
<1>14. InHand(k)
  BY <1>0, <1>7, <1>9 DEF InHand, UpPC
<1> QED
  BY <1>0, <1>3, <1>6, <1>10, <1>12, <1>13, <1>14, Change DEF TypeOK

LEMMA StopServiceKeeps ==
  ASSUME IInv, NEW c \in Command, StopService(c)
  PROVE  IInv'
<1>1. /\ cmd[c].pc = "stop" /\ cmd[c].kind \in {"restart", "stop"} /\ InHand(cmd[c])
      /\ UNCHANGED <<image, file, lock>>
  BY DEF StopService, IInv
<1>2. PICK n \in Name : n = cmd[c].name
  BY <1>1 DEF InHand
<1>3. PICK P : /\ Dies(P)
               /\ \/ P = Killed(n, cmd[c].buf.pids[n])
                  \/ P = {cmd[c].buf.pids[n]}
                  \/ P = ProcessesOf(n)
  BY <1>2 DEF StopService
<1>4. \A p \in Pid : cmd[c].buf.pids[n] = p /\ proc[p] = n => p \in P
  BY <1>3 DEF Killed, ProcessesOf
<1>5. PICK where \in {"start", "save"} :
        cmd' = [cmd EXCEPT ![c].buf.pids[n] = NoPid, ![c].pc = where]
  BY <1>2 DEF StopService
<1> QED
  BY <1>1, <1>2, <1>3, <1>4, <1>5, StopKeeps

LEMMA ResetStopsKeeps ==
  ASSUME IInv, NEW c \in Command, ResetStops(c)
  PROVE  IInv'
<1>1. /\ cmd[c].pc = "stop" /\ cmd[c].kind = "reset" /\ InHand(cmd[c])
      /\ UNCHANGED <<image, file, lock>>
  BY DEF ResetStops, IInv
<1>2. PICK n \in Name : n = cmd[c].name
  BY <1>1 DEF InHand, Name
<1>3. /\ Dies({cmd[c].buf.pids[n]})
      /\ cmd' = [cmd EXCEPT ![c].buf.pids[n] = NoPid, ![c].pc = "start"]
  BY <1>2 DEF ResetStops
<1> QED
  BY <1>1, <1>2, <1>3, StopKeeps

LEMMA PromoteStopsKeeps ==
  ASSUME IInv, NEW c \in Command, PromoteStops(c)
  PROVE  IInv'
<1> DEFINE k == [cmd[c] EXCEPT !.pc = "start"]
<1>0. TypeOK /\ InHand(cmd[c]) /\ cmd[c].pc = "stop" /\ cmd[c].kind = "promote"
  BY DEF IInv, PromoteStops
<1>1. cmd[c] \in CmdState
  BY <1>0, Fields
<1>2. k \in CmdState
  BY <1>1 DEF CmdState, PC
<1>3. cmd' = [cmd EXCEPT ![c] = k]
  BY DEF PromoteStops, Goto
<1>4. /\ k.kind = cmd[c].kind /\ k.name = cmd[c].name /\ k.pc = "start"
      /\ k.buf = cmd[c].buf /\ k.base = cmd[c].base /\ k.mine = cmd[c].mine
  BY <1>1 DEF CmdState
<1> HIDE DEF k
<1>5. cmd[c].mine = NoPids
  BY <1>0 DEF InHand, UpPC
<1>6. InHand(k)
  BY <1>0, <1>4, <1>5 DEF InHand, UpPC, Name
<1> QED
  BY <1>0, <1>2, <1>3, <1>4, <1>5, <1>6, NobodysHands, QuietKeeps DEF PromoteStops, TypeOK

LEMMA PromoteFailsKeeps ==
  ASSUME IInv, NEW c \in Command, PromoteFails(c)
  PROVE  IInv'
<1>1. /\ TypeOK /\ InHand(cmd[c]) /\ cmd[c].pc = "start" /\ cmd[c].kind = "promote"
      /\ End(c) /\ UNCHANGED <<proc, file, lost>>
      /\ image' \in {image, image \cup {cmd[c].name}}
  BY DEF IInv, PromoteFails
<1>2. cmd[c].mine = NoPids /\ cmd[c].name \in Dep
  BY <1>1 DEF InHand, UpPC
<1> QED
  BY <1>1, <1>2, EndKeeps DEF TypeOK

LEMMA DevRefusesKeeps ==
  ASSUME IInv, NEW c \in Command, DevRefuses(c)
  PROVE  IInv'
<1>1. TypeOK /\ InHand(cmd[c]) /\ End(c) /\ UNCHANGED <<proc, image, file, lost>>
  BY DEF IInv, DevRefuses
<1>2. cmd[c].pc = "stop" \/ (cmd[c].pc = "start" /\ cmd[c].kind = "reset")
  BY DEF DevRefuses
<1>3. cmd[c].mine = NoPids
  BY <1>1, <1>2 DEF InHand, UpPC
<1> QED
  BY <1>1, <1>3, EndKeeps DEF TypeOK

LEMMA PromoteStartsKeeps ==
  ASSUME IInv, NEW c \in Command, NEW p \in Pid, PromoteStarts(c, p)
  PROVE  IInv'
<1>0. /\ TypeOK /\ InHand(cmd[c]) /\ Tracked(c)
      /\ cmd[c].pc = "start" /\ cmd[c].kind = "promote"
  BY DEF IInv, PromoteStarts
<1>n. PICK n \in Dep : n = cmd[c].name
  BY <1>0 DEF InHand
<1>m. n \in Name
  BY DEF Name
<1> DEFINE buf == [cmd[c].buf EXCEPT !.devs = cmd[c].buf.devs \cup {n}]
           mine == [cmd[c].mine EXCEPT ![n] = p]
           k == [cmd[c] EXCEPT !.pc = "save", !.mine = mine, !.buf = buf]
<1>1. /\ cmd[c] \in CmdState /\ cmd[c].mine \in [Name -> Pid \cup {NoPid}]
      /\ cmd[c].buf \in LocalState /\ cmd[c].buf.devs \subseteq Dep
  BY <1>0, Fields
<1>2. cmd' = [cmd EXCEPT ![c] = k]
  BY <1>n DEF PromoteStarts
<1>3. mine \in [Name -> Pid \cup {NoPid}] /\ mine[n] = p
  BY <1>m, <1>1
<1>4. /\ buf \in LocalState /\ buf.pids = cmd[c].buf.pids
      /\ buf.devs = cmd[c].buf.devs \cup {n} /\ buf.named = cmd[c].buf.named
  <2>1. cmd[c].buf.devs \cup {n} \in SUBSET Dep
    BY <1>1
  <2> QED
    BY <1>1, <2>1 DEF LocalState
<1> HIDE DEF buf, mine
<1>5. k \in CmdState
  BY <1>1, <1>3, <1>4 DEF CmdState, PC
<1>6. /\ k.kind = "promote" /\ k.name = n /\ k.pc = "save" /\ k.buf = buf
      /\ k.base = cmd[c].base /\ k.mine = mine
  BY <1>n, <1>0, <1>1 DEF CmdState
<1>7. Starts(n, p) /\ UNCHANGED <<image, file, lock, lost>>
  BY <1>n DEF PromoteStarts
<1> HIDE DEF k
<1>8. cmd'[c] = k
  BY <1>0, <1>2, <1>5, Becomes
<1>9. Held(c, n, p)'
  BY <1>3, <1>6, <1>8 DEF Held, Watching
<1>10. cmd[c].mine = NoPids
  BY <1>0 DEF InHand, UpPC
<1>11. Moves /\ Follows(c) /\ proc' \in [Pid -> Name \cup {None}]
  BY <1>m, <1>0, <1>7, <1>9, <1>10, NobodysHands, StartsFollows
<1>12. Tracked(c)'
  BY <1>n, <1>0, <1>4, <1>6, <1>8, <1>11, StillTracks
<1>13. Cleared(c)'
  BY <1>6, <1>8 DEF Cleared
<1>14. InHand(k)
  BY <1>m, <1>6 DEF InHand, UpPC
<1> QED
  BY <1>0, <1>2, <1>5, <1>7, <1>11, <1>12, <1>13, <1>14, Change DEF TypeOK

LEMMA ResetStartsKeeps ==
  ASSUME IInv, NEW c \in Command, ResetStarts(c)
  PROVE  IInv'
<1>0. /\ TypeOK /\ InHand(cmd[c]) /\ Tracked(c)
      /\ cmd[c].pc = "start" /\ cmd[c].kind = "reset"
  BY DEF IInv, ResetStarts
<1>n. PICK n \in Dep : n = cmd[c].name
  BY <1>0 DEF InHand
<1> DEFINE buf == [cmd[c].buf EXCEPT !.devs = cmd[c].buf.devs \ {n}]
           k == [cmd[c] EXCEPT !.pc = "save", !.buf = buf]
<1>1. /\ cmd[c] \in CmdState /\ cmd[c].buf \in LocalState /\ cmd[c].buf.devs \subseteq Dep
  BY <1>0, Fields
<1>2. cmd' = [cmd EXCEPT ![c] = k]
  BY <1>n DEF ResetStarts
<1>4. /\ buf \in LocalState /\ buf.pids = cmd[c].buf.pids
      /\ buf.devs = cmd[c].buf.devs \ {n} /\ buf.named = cmd[c].buf.named
  <2>1. cmd[c].buf.devs \ {n} \in SUBSET Dep
    BY <1>1
  <2> QED
    BY <1>1, <2>1 DEF LocalState
<1> HIDE DEF buf
<1>5. k \in CmdState
  BY <1>1, <1>4 DEF CmdState, PC
<1>6. /\ k.kind = "reset" /\ k.name = n /\ k.pc = "save" /\ k.buf = buf
      /\ k.base = cmd[c].base /\ k.mine = cmd[c].mine
  BY <1>n, <1>0, <1>1 DEF CmdState
<1> HIDE DEF k
<1>8. cmd'[c] = k
  BY <1>0, <1>2, <1>5, Becomes
<1>10. cmd[c].mine = NoPids
  BY <1>0 DEF InHand, UpPC
<1>11. Moves /\ Follows(c) /\ UNCHANGED <<proc, file, lock, lost>> /\ image' \subseteq Dep
  BY <1>n, <1>0, <1>10, NobodysHands, QuietFollows DEF ResetStarts, TypeOK
<1>12. Tracked(c)'
  BY <1>n, <1>0, <1>4, <1>6, <1>8, <1>11, StillTracks
<1>13. Cleared(c)'
  BY <1>6, <1>8 DEF Cleared
<1>14. InHand(k)
  BY <1>6, <1>10 DEF InHand, UpPC, Name
<1> QED
  BY <1>0, <1>2, <1>5, <1>11, <1>12, <1>13, <1>14, Change DEF TypeOK

LEMMA MutatorSaveKeeps ==
  ASSUME IInv, NEW c \in Command, MutatorSave(c)
  PROVE  IInv'
<1> DEFINE pids == Mutated(c)
           content == [cmd[c].buf EXCEPT !.pids = pids]
<1>0. TypeOK /\ Tracked(c) /\ End(c) /\ UNCHANGED <<proc, image>>
  BY DEF IInv, MutatorSave
<1>1. /\ cmd[c].mine \in [Name -> Pid \cup {NoPid}]
      /\ cmd[c].buf \in LocalState /\ cmd[c].buf.pids \in [Name -> Pid \cup {NoPid}]
  BY <1>0, Fields
<1>2. /\ pids \in [Name -> Pid \cup {NoPid}]
      /\ \A n \in Name : pids[n] = IF cmd[c].mine[n] # NoPid
                                   THEN cmd[c].mine[n] ELSE cmd[c].buf.pids[n]
  BY <1>1 DEF Mutated
<1> HIDE DEF pids
<1>3. content \in LocalState /\ content.pids = pids
  BY <1>1, <1>2, StateMade DEF LocalState
<1>4. Save(c, content, Replaced(c, pids))
  BY DEF MutatorSave, pids
<1> HIDE DEF content
<1>5. \A n \in Name : \/ content.pids[n] = cmd[c].buf.pids[n]
                      \/ content.pids[n] = cmd[c].mine[n] /\ cmd[c].mine[n] # NoPid
  BY <1>2, <1>3
<1>6. \A n \in Name, p \in Pid : Held(c, n, p) => content.pids[n] = p
  BY <1>2, <1>3, NameIsNotNone DEF Held
<1>7. Moves /\ Follows(c) /\ lost' \subseteq Pid /\ file' \in LocalState \cup {NoFile}
  BY <1>0, <1>3, <1>4, <1>5, <1>6, MergeFollows
<1> QED
  BY <1>0, <1>7, EndOwn, Change DEF TypeOK

-----------------------------------------------------------------------------
(* A whole down.                                                           *)

LEMMA DownStopsKeeps ==
  ASSUME IInv, NEW c \in Command, NEW S, DownStops(c, S)
  PROVE  IInv'
<1> DEFINE k == [Idle EXCEPT !.kind = "down", !.pc = "load", !.ok = (S = CustomStop)]
<1>0. TypeOK /\ InHand(cmd[c]) /\ cmd[c].pc \in {"free", "stop"}
  BY DEF IInv, DownStops
<1>1. k \in CmdState
  BY IdleType DEF CmdState, PC, Kind
<1>2. cmd' = [cmd EXCEPT ![c] = k]
  BY DEF DownStops
<1>3. k.kind = "down" /\ k.pc = "load" /\ k.base = NoFile /\ k.mine = NoPids
  BY DEF Idle
<1> HIDE DEF k
<1>4. cmd'[c] = k
  BY <1>0, <1>1, <1>2, Becomes
<1>5. Dies(UNION {ProcessesOf(s) : s \in S}) /\ UNCHANGED <<image, file, lock>>
  BY DEF DownStops
<1>6. \A n \in Name, p \in Pid : ~Held(c, n, p)
  <2>1. cmd[c].mine = NoPids
    BY <1>0 DEF InHand, UpPC
  <2> QED
    BY <2>1, NobodysHands
<1>7. Moves /\ Follows(c) /\ proc' \in [Pid -> Name \cup {None}] /\ lost' \subseteq Pid
  BY <1>0, <1>5, <1>6, DiesFollows
<1>8. Tracked(c)' /\ Cleared(c)'
  BY <1>3, <1>4, Forgotten
<1>9. InHand(k)
  BY <1>3 DEF InHand, UpPC
<1> QED
  BY <1>0, <1>1, <1>2, <1>5, <1>7, <1>8, <1>9, Change DEF TypeOK

LEMMA DownLoadKeeps ==
  ASSUME IInv, NEW c \in Command, DownLoad(c)
  PROVE  IInv'
BY LoadKeeps DEF DownLoad

LEMMA DownKillsKeeps ==
  ASSUME IInv, NEW c \in Command, DownKills(c)
  PROVE  IInv'
<1> DEFINE P == UNION {Killed(n, cmd[c].buf.pids[n]) : n \in Name \ CustomStop}
           k == [cmd[c] EXCEPT !.pc = "clear"]
<1>0. /\ TypeOK /\ InHand(cmd[c]) /\ Tracked(c) /\ cmd[c].pc = "kill"
      /\ Dies(P) /\ UNCHANGED <<image, file, lock>>
  BY DEF IInv, DownKills
<1>1. cmd[c] \in CmdState
  BY <1>0, Fields
<1>2. k \in CmdState
  BY <1>1 DEF CmdState, PC
<1>3. cmd' = [cmd EXCEPT ![c] = k]
  BY DEF DownKills, Goto
<1>4. /\ k.kind = cmd[c].kind /\ k.name = cmd[c].name /\ k.pc = "clear"
      /\ k.buf = cmd[c].buf /\ k.base = cmd[c].base /\ k.mine = cmd[c].mine
  BY <1>1 DEF CmdState
<1>5. \A n \in Name \ CustomStop : cmd[c].buf.pids[n] \in P
  BY DEF Killed
<1> HIDE DEF k, P
<1>6. cmd'[c] = k
  BY <1>0, <1>2, <1>3, Becomes
<1>7. cmd[c].mine = NoPids
  BY <1>0 DEF InHand, UpPC
<1>8. /\ Moves /\ Follows(c) /\ proc' \in [Pid -> Name \cup {None}] /\ lost' \subseteq Pid
      /\ \A p \in Pid \cap P : proc'[p] = None
      /\ \A p \in Pid : proc'[p] \in {proc[p], None}
  BY <1>0, <1>7, NobodysHands, DiesFollows
<1>9. Tracked(c)'
  BY <1>0, <1>4, <1>6, <1>8, StillLoaded
<1>10. Cleared(c)'
  <2> SUFFICES ASSUME cmd[c].base # NoFile, NEW n \in Name \ CustomStop, NEW p \in Pid,
                      cmd[c].base.pids[n] = p, proc'[p] = n
               PROVE  FALSE
    BY <1>4, <1>6 DEF Cleared, Stands
  <2>1. Stands(p, n)
    BY <1>8, NameIsNotNone DEF Stands
  <2>2. cmd[c].buf.pids[n] = p
    BY <1>0, <2>1 DEF Tracked
  <2> QED
    BY <1>5, <1>8, <2>2, NameIsNotNone
<1>11. InHand(k)
  BY <1>4, <1>7 DEF InHand, UpPC
<1> QED
  BY <1>0, <1>2, <1>3, <1>8, <1>9, <1>10, <1>11, Change DEF TypeOK

LEMMA DownClearsKeeps ==
  ASSUME IInv, NEW c \in Command, DownClears(c)
  PROVE  IInv'
<1> DEFINE content == IF cmd[c].buf.named THEN [cmd[c].buf EXCEPT !.pids = NoPids] ELSE NoFile
           P == {cmd[c].buf.pids[s] : s \in CustomStop} \ {NoPid}
           buf == [cmd[c].buf EXCEPT !.pids = NoPids]
           where == IF cmd[c].pc = "clear" THEN "teardown" ELSE "tidy"
           k == [cmd[c] EXCEPT !.pc = where, !.buf = buf, !.base = content]
<1>0. /\ TypeOK /\ InHand(cmd[c]) /\ Tracked(c) /\ Cleared(c)
      /\ cmd[c].pc \in {"clear", "clearAgain"}
  BY DEF IInv, DownClears
<1>1. /\ cmd[c] \in CmdState /\ cmd[c].buf \in LocalState
      /\ cmd[c].buf.pids \in [Name -> Pid \cup {NoPid}]
      /\ cmd[c].base \in LocalState \cup {NoFile}
  BY <1>0, Fields
<1>2. cmd' = [cmd EXCEPT ![c] = k]
  BY DEF DownClears
<1>3. Save(c, content, P) /\ UNCHANGED <<proc, image, lock>>
  BY DEF DownClears
<1>4. /\ buf \in LocalState /\ buf.pids = NoPids
      /\ buf.devs = cmd[c].buf.devs /\ buf.named = cmd[c].buf.named
  BY <1>1, NoStateType, StateMade DEF LocalState
<1>5. content = NoFile \/ (content = buf /\ content \in LocalState)
  BY <1>4
<1>6. P \subseteq Pid /\ \A s \in CustomStop, p \in Pid : cmd[c].buf.pids[s] = p => p \in P
  <2>1. CustomStop \subseteq Name /\ NoPid \notin Pid
    BY HostServicesAssumption DEF Name
  <2> QED
    BY <1>1, <2>1
<1>7. where \in {"teardown", "tidy"} /\ where \in PC
  BY DEF PC
<1> HIDE DEF buf, content, P, where
<1>8. k \in CmdState
  BY <1>1, <1>4, <1>5, <1>7 DEF CmdState
<1>9. /\ k.kind = cmd[c].kind /\ k.name = cmd[c].name /\ k.pc = where
      /\ k.buf = buf /\ k.base = content /\ k.mine = cmd[c].mine
  BY <1>1 DEF CmdState
<1> HIDE DEF k
<1>10. cmd'[c] = k
  BY <1>0, <1>2, <1>8, Becomes
<1>11. cmd[c].mine = NoPids
  BY <1>0 DEF InHand, UpPC
<1>12. ASSUME NEW n \in Name, NEW p \in Pid, cmd[c].base # NoFile,
              cmd[c].base.pids[n] = p, Stands(p, n)
       PROVE  p \in P
  <2>1. cmd[c].pc = "clear"
    BY <1>0, <1>12, NameIsNotNone DEF Cleared, NoPids
  <2>2. n \in CustomStop
    BY <1>0, <1>12, <2>1 DEF Cleared
  <2>3. cmd[c].buf.pids[n] = p
    BY <1>0, <1>12 DEF Tracked
  <2> QED
    BY <1>6, <2>2, <2>3
<1>13. Moves /\ Follows(c) /\ lost' \subseteq Pid
  BY <1>0, <1>3, <1>6, <1>11, <1>12, NobodysHands, SaveFollows
<1>14. file' \in LocalState \cup {NoFile}
  BY <1>3, <1>5 DEF Save
<1>15. Tracked(c)'
  <2> SUFFICES ASSUME content # NoFile
               PROVE  Tracked(c)'
    BY <1>9, <1>10 DEF Tracked
  <2>1. \A n \in Name : content.pids[n] \notin Pid
    BY <1>4, <1>5, NameIsNotNone DEF NoPids
  <2>2. content = buf
    BY <1>5
  <2> QED
    BY <1>9, <1>10, <2>1, <2>2 DEF Tracked, Stands
<1>16. Cleared(c)'
  BY <1>4, <1>5, <1>7, <1>9, <1>10 DEF Cleared
<1>17. InHand(k)
  BY <1>7, <1>9, <1>11 DEF InHand, UpPC
<1> QED
  BY <1>0, <1>2, <1>3, <1>8, <1>13, <1>14, <1>15, <1>16, <1>17, Change DEF TypeOK

LEMMA DownTearsDownKeeps ==
  ASSUME IInv, NEW c \in Command, DownTearsDown(c)
  PROVE  IInv'
<1> DEFINE k == [cmd[c] EXCEPT !.pc = "clearAgain"]
<1>0. /\ TypeOK /\ InHand(cmd[c]) /\ Tracked(c) /\ Cleared(c) /\ cmd[c].pc = "teardown"
      /\ UNCHANGED <<proc, file, lock, lost>> /\ image' = {}
  BY DEF IInv, DownTearsDown
<1>1. cmd[c] \in CmdState
  BY <1>0, Fields
<1>2. k \in CmdState
  BY <1>1 DEF CmdState, PC
<1>3. cmd' = [cmd EXCEPT ![c] = k]
  BY DEF DownTearsDown, Goto
<1>4. /\ k.kind = cmd[c].kind /\ k.name = cmd[c].name /\ k.pc = "clearAgain"
      /\ k.buf = cmd[c].buf /\ k.base = cmd[c].base /\ k.mine = cmd[c].mine
  BY <1>1 DEF CmdState
<1> HIDE DEF k
<1>5. cmd'[c] = k
  BY <1>0, <1>2, <1>3, Becomes
<1>6. cmd[c].mine = NoPids
  BY <1>0 DEF InHand, UpPC
<1>7. Moves /\ Follows(c)
  BY <1>0, <1>6, NobodysHands, QuietFollows
<1>8. Tracked(c)'
  BY <1>0, <1>4, <1>5, <1>7, StillLoaded
<1>9. Cleared(c)'
  BY <1>0, <1>4, <1>5 DEF Cleared
<1>10. InHand(k)
  BY <1>4, <1>6 DEF InHand, UpPC
<1> QED
  BY <1>0, <1>2, <1>3, <1>7, <1>8, <1>9, <1>10, Change DEF TypeOK

LEMMA DownTidiesKeeps ==
  ASSUME IInv, NEW c \in Command, DownTidies(c)
  PROVE  IInv'
<1>0. /\ TypeOK /\ InHand(cmd[c]) /\ Cleared(c) /\ cmd[c].pc = "tidy"
      /\ End(c) /\ UNCHANGED <<proc, image>>
  BY DEF IInv, DownTidies
<1>1. cmd[c].mine = NoPids
  BY <1>0 DEF InHand, UpPC
<1>2. CASE UNCHANGED <<file, lost>>
  BY <1>0, <1>1, <1>2, EndKeeps DEF TypeOK
<1>3. CASE Save(c, NoFile, {})
  <2>1. ASSUME NEW n \in Name, NEW p \in Pid, cmd[c].base # NoFile,
               cmd[c].base.pids[n] = p, Stands(p, n)
        PROVE  FALSE
    BY <1>0, <2>1, NameIsNotNone DEF Cleared, NoPids
  <2>2. Moves /\ Follows(c) /\ lost' \subseteq Pid
    BY <1>0, <1>1, <1>3, <2>1, NobodysHands, SaveFollows
  <2>3. file' = NoFile
    BY <1>3 DEF Save
  <2> QED
    BY <1>0, <2>2, <2>3, EndOwn, Change DEF TypeOK
<1> QED
  BY <1>2, <1>3 DEF DownTidies

-----------------------------------------------------------------------------
(* The steps of no command, and all of them together.                      *)

LEMMA NobodyKeeps ==
  ASSUME IInv, UNCHANGED <<image, file, lock, cmd>>,
         proc' \in [Pid -> Name \cup {None}], lost' \subseteq Pid, Moves,
         \A p \in Pid, n \in Name : Unrecorded(p, n)' =>
            Unrecorded(p, n) /\ (p \in lost => p \in lost')
  PROVE  IInv'
<1>1. TypeOK'
  BY DEF IInv, TypeOK
<1>2. \A c \in Command : Tracked(c)' /\ Cleared(c)' /\ InHand(cmd'[c])
  BY OthersKeep DEF IInv
<1>3. \A c \in Command, n \in Name, p \in Pid : Held(c, n, p) => Held(c, n, p)'
  BY DEF Held, Watching
<1>4. Known'
  BY <1>3 DEF Known, IInv
<1> QED
  BY <1>1, <1>2, <1>4 DEF IInv

LEMMA ExitKeeps ==
  ASSUME IInv, NEW x \in Pid, Exit(x)
  PROVE  IInv'
<1>0. TypeOK /\ Dies({x}) /\ UNCHANGED <<image, file, lock, cmd>>
  BY DEF IInv, Exit
<1>1. Moves /\ proc' \in [Pid -> Name \cup {None}] /\ lost' \subseteq Pid
  BY <1>0, DiesFollows
<1>2. \A p \in Pid : proc'[p] = IF p = x THEN None ELSE proc[p]
  BY <1>0 DEF Dies, Without
<1>3. ASSUME NEW p \in Pid, NEW n \in Name, Unrecorded(p, n)'
      PROVE  Unrecorded(p, n) /\ (p \in lost => p \in lost')
  BY <1>0, <1>2, <1>3, NameIsNotNone DEF Unrecorded, Stands, Loaded, Dies
<1> QED
  BY <1>0, <1>1, <1>3, NobodyKeeps

LEMMA InitIInv == Init => IInv
<1> SUFFICES ASSUME Init PROVE IInv
  OBVIOUS
<1>1. TypeOK
  BY IdleType DEF Init, TypeOK
<1>2. Known
  BY NameIsNotNone DEF Init, Known, Unrecorded, Stands
<1>3. ASSUME NEW c \in Command
      PROVE  Tracked(c) /\ Cleared(c) /\ InHand(cmd[c])
  <2>1. cmd[c] = Idle /\ Idle.base = NoFile /\ Idle.pc = "free" /\ Idle.mine = NoPids
    BY DEF Init, Idle
  <2> QED
    BY <2>1 DEF Tracked, Cleared, InHand, UpPC
<1> QED
  BY <1>1, <1>2, <1>3 DEF IInv

LEMMA StepIInv == IInv /\ [Next]_vars => IInv'
<1> SUFFICES ASSUME IInv, [Next]_vars PROVE IInv'
  OBVIOUS
<1>1. CASE \E p \in Pid : Exit(p)
  BY <1>1, ExitKeeps
<1>2. CASE UNCHANGED vars
  <2>1. UNCHANGED <<image, file, lock, cmd, proc, lost>>
    BY <1>2 DEF vars
  <2>2. Moves /\ \A p \in Pid, n \in Name : Unrecorded(p, n)' => Unrecorded(p, n)
    BY <2>1 DEF Moves, Unrecorded, Stands, Loaded
  <2>3. proc' \in [Pid -> Name \cup {None}] /\ lost' \subseteq Pid
    BY <2>1 DEF IInv, TypeOK
  <2> QED
    BY <2>1, <2>2, <2>3, NobodyKeeps
<1>3. ASSUME NEW c \in Command,
             \/ \E S \in Asked : UpBegins(c, S)
             \/ \E n \in Name : MutatorBegins(c, n)
             \/ Quit(c) \/ UpLoad(c) \/ UpProbe(c) \/ UpOverrides(c)
             \/ UpdateHostPID(c) \/ UpPersists(c) \/ UpPersist(c)
      PROVE  IInv'
  <2>1. CASE \E S \in Asked : UpBegins(c, S)
    BY <2>1, UpBeginsKeeps
  <2>2. CASE \E n \in Name : MutatorBegins(c, n)
    BY <2>2, MutatorBeginsKeeps
  <2>3. CASE Quit(c)
    BY <2>3, QuitKeeps
  <2>4. CASE UpLoad(c)
    BY <2>4, LoadKeeps DEF UpLoad
  <2>5. CASE UpProbe(c)
    BY <2>5, UpProbeKeeps
  <2>6. CASE UpOverrides(c)
    BY <2>6, UpOverridesKeeps
  <2>7. CASE UpdateHostPID(c)
    BY <2>7, UpdateHostPIDKeeps
  <2>8. CASE UpPersists(c)
    BY <2>8, UpPersistsKeeps
  <2>9. CASE UpPersist(c)
    BY <2>9, UpPersistKeeps
  <2> QED
    BY <1>3, <2>1, <2>2, <2>3, <2>4, <2>5, <2>6, <2>7, <2>8, <2>9
<1>4. ASSUME NEW c \in Command,
             \/ \E d \in Dep : UpDep(c, d) \/ \E p \in Pid : UpPromotedDep(c, d, p)
             \/ \E s \in Service : UpAdopts(c, s) \/ WatchStops(c, s) \/ \E p \in Pid : UpStarts(c, s, p)
             \/ \E p \in Pid : ServiceStarts(c, p) \/ PromoteStarts(c, p)
             \/ ServiceFails(c) \/ \E s \in Service : WatchStopFails(c, s)
      PROVE  IInv'
  BY <1>4, UpDepKeeps, UpPromotedDepKeeps, UpAdoptsKeeps, WatchStopsKeeps, UpStartsKeeps,
     ServiceStartsKeeps, PromoteStartsKeeps, ServiceFailsKeeps, WatchStopFailsKeeps
<1>5. ASSUME NEW c \in Command,
             \/ StopService(c) \/ PromoteStops(c) \/ PromoteFails(c)
             \/ ResetStops(c) \/ ResetStarts(c) \/ DevRefuses(c) \/ MutatorSave(c)
      PROVE  IInv'
  BY <1>5, StopServiceKeeps, PromoteStopsKeeps, PromoteFailsKeeps, ResetStopsKeeps,
     ResetStartsKeeps, DevRefusesKeeps, MutatorSaveKeeps
<1>6. ASSUME NEW c \in Command,
             \/ \E S \in SUBSET CustomStop : Interrupt(c, S) \/ DownStops(c, S)
             \/ DownLoad(c) \/ DownKills(c) \/ DownClears(c) \/ DownTearsDown(c) \/ DownTidies(c)
      PROVE  IInv'
  BY <1>6, InterruptKeeps, DownStopsKeeps, DownLoadKeeps, DownKillsKeeps, DownClearsKeeps,
     DownTearsDownKeeps, DownTidiesKeeps
<1> QED
  BY <1>1, <1>2, <1>3, <1>4, <1>5, <1>6 DEF Next

LEMMA Inductive == Spec => []IInv
BY InitIInv, StepIInv, PTL DEF Spec

(***************************************************************************)
(* The local state file, the processes and what each command keeps of them *)
(* in memory stay well formed (LocalState, HostRunner).                    *)
(***************************************************************************)
THEOREM TypeCorrect == Spec => []TypeOK
<1>1. IInv => TypeOK
  BY DEF IInv
<1> QED
  BY <1>1, Inductive, PTL

(***************************************************************************)
(* However up, restart, dev, down and the watcher interleave on            *)
(* .raioz.state.json, every live host process is on record or in the hands *)
(* of a command, but for those that one of the named hazards has lost.     *)
(***************************************************************************)
THEOREM OrphansHaveCause == Spec => []OrphanHasCause
<1>1. IInv => OrphanHasCause
  BY DEF IInv, Known, Held, OrphanHasCause
<1> QED
  BY <1>1, Inductive, PTL

-----------------------------------------------------------------------------
(* Promotions.                                                             *)

\* What a save from a load that is still the file does with a promotion.
LEMMA SaveDrops ==
  ASSUME IInv, NEW c \in Command, NEW content, NEW P, Save(c, content, P),
         cmd'[c].pc # cmd[c].pc,
         \/ content \in LocalState /\ content.devs = cmd[c].buf.devs
         \/ content = NoFile /\ (~cmd[c].buf.named \/ cmd[c].buf.devs = {}),
         NEW d \in Loaded.devs \ Loaded'.devs
  PROVE  \E q \in Command : cmd'[q] # cmd[q] /\ Drops(q, d)
<1> SUFFICES ASSUME ~Drops(c, d) PROVE FALSE
  OBVIOUS
<1>1. /\ ~(cmd[c].kind = "reset" /\ cmd[c].name = d) /\ cmd[c].base = file /\ Loaded.named
      /\ Tracked(c) /\ file' = content
  BY DEF Drops, IInv, Save
<1>2. file # NoFile /\ Loaded = file
  BY DEF Loaded, NoState
<1>3. d \in cmd[c].buf.devs /\ cmd[c].buf.named
  BY <1>1, <1>2 DEF Tracked
<1>4. content \in LocalState /\ content.devs = cmd[c].buf.devs
  BY <1>3
<1>5. Loaded' = content
  BY <1>1, <1>4, HostServicesAssumption DEF Loaded
<1> QED
  BY <1>3, <1>4, <1>5

LEMMA StepDrops ==
  ASSUME IInv, [Next]_vars, NEW d \in Loaded.devs \ Loaded'.devs
  PROVE  \E q \in Command : cmd'[q] # cmd[q] /\ Drops(q, d)
<1>1. file' # file
  BY DEF Loaded
<1>2. PICK c \in Command : \/ UpProbe(c) \/ UpdateHostPID(c) \/ UpPersist(c)
                           \/ MutatorSave(c) \/ DownClears(c) \/ DownTidies(c)
  <2>1. ASSUME NEW c \in Command PROVE
        /\ \A S : ~UpBegins(c, S)
        /\ \A n : ~MutatorBegins(c, n)
        /\ ~Quit(c) /\ ~UpLoad(c) /\ ~UpOverrides(c) /\ ~UpPersists(c)
    BY <1>1 DEF UpBegins, MutatorBegins, Begin, Quit, UpLoad, LoadTo, UpOverrides, UpPersists
  <2>2. ASSUME NEW c \in Command PROVE
        \A n : /\ ~UpDep(c, n) /\ ~UpAdopts(c, n) /\ ~WatchStops(c, n) /\ ~WatchStopFails(c, n)
               /\ ~Interrupt(c, n) /\ ~DownStops(c, n)
               /\ \A p : ~UpPromotedDep(c, n, p) /\ ~UpStarts(c, n, p)
    BY <1>1 DEF UpDep, UpAdopts, WatchStops, WatchStopFails, Interrupt, DownStops,
       UpPromotedDep, UpStarts
  <2>3. ASSUME NEW c \in Command PROVE
        /\ \A p : ~ServiceStarts(c, p) /\ ~PromoteStarts(c, p)
        /\ ~ServiceFails(c) /\ ~StopService(c) /\ ~PromoteStops(c) /\ ~PromoteFails(c)
        /\ ~ResetStops(c) /\ ~ResetStarts(c) /\ ~DevRefuses(c)
        /\ ~DownLoad(c) /\ ~DownKills(c) /\ ~DownTearsDown(c)
    BY <1>1 DEF ServiceStarts, PromoteStarts, ServiceFails, StopService, PromoteStops,
       PromoteFails, ResetStops, ResetStarts, DevRefuses, DownLoad, LoadTo, DownKills,
       DownTearsDown
  <2>4. \A p : ~Exit(p)
    BY <1>1 DEF Exit
  <2>5. file' # file => ~UNCHANGED vars
    BY DEF vars
  <2> QED
    BY <1>1, <2>1, <2>2, <2>3, <2>4, <2>5 DEF Next
<1>3. /\ TypeOK /\ cmd[c] \in CmdState /\ cmd[c].buf \in LocalState
      /\ cmd[c].mine \in [Name -> Pid \cup {NoPid}]
      /\ cmd[c].buf.pids \in [Name -> Pid \cup {NoPid}]
  BY Fields DEF IInv
<1>4. \A pids \in [Name -> Pid \cup {NoPid}] :
        LET x == [cmd[c].buf EXCEPT !.pids = pids]
            y == [cmd[c].buf EXCEPT !.pids = pids, !.named = TRUE]
        IN  /\ x \in LocalState /\ x.devs = cmd[c].buf.devs
            /\ y \in LocalState /\ y.devs = cmd[c].buf.devs
  BY <1>3 DEF LocalState
<1>5. End(c) => cmd'[c].pc = "free"
  BY <1>3, EndOwn DEF Idle
<1>6. CASE UpProbe(c)
  <2> DEFINE S == cmd[c].todo \cap Service
             pids == [n \in Name |-> IF n \in S /\ ~Stands(cmd[c].buf.pids[n], n)
                                     THEN NoPid ELSE cmd[c].buf.pids[n]]
  <2>1. pids \in [Name -> Pid \cup {NoPid}]
    BY <1>3
  <2>2. Save(c, [cmd[c].buf EXCEPT !.pids = pids], {})
    BY <1>1, <1>6 DEF UpProbe
  <2>3. cmd'[c].pc = "depsLoad" /\ cmd[c].pc = "probed"
    BY <1>3, <1>6 DEF UpProbe, Forget, CmdState, TypeOK
  <2> HIDE DEF pids
  <2> QED
    BY <1>4, <2>1, <2>2, <2>3, SaveDrops
<1>7. CASE UpdateHostPID(c)
  <2> DEFINE n == cmd[c].name
             pids == [cmd[c].buf.pids EXCEPT ![n] = cmd[c].mine[n]]
  <2>1. n \in Name
    BY <1>7 DEF UpdateHostPID, IInv, InHand
  <2>2. pids \in [Name -> Pid \cup {NoPid}]
    BY <1>3, <2>1
  <2>3. Save(c, [cmd[c].buf EXCEPT !.pids = pids], Replaced(c, pids))
    BY <1>7 DEF UpdateHostPID
  <2>4. cmd'[c].pc \in {"watch", "deps"} /\ cmd[c].pc \in {"depSave", "tick"}
    BY <1>3, <1>7 DEF UpdateHostPID, Forget, CmdState, TypeOK
  <2> HIDE DEF pids
  <2> QED
    BY <1>4, <2>2, <2>3, <2>4, SaveDrops
<1>8. CASE UpPersist(c)
  <2>1. Persisted(c) \in [Name -> Pid \cup {NoPid}]
    BY <1>3 DEF Persisted
  <2>2. Save(c, [cmd[c].buf EXCEPT !.pids = Persisted(c), !.named = TRUE],
             Replaced(c, Persisted(c)))
    BY <1>8 DEF UpPersist
  <2>3. cmd[c].pc = "persist"
    BY <1>8 DEF UpPersist
  <2>4. cmd'[c].pc \in {"free", "watch"}
    <3>1. ASSUME cmd' = [Forget(c) EXCEPT ![c].pc = "watch",
                                    ![c].todo = {s \in Service : cmd[c].mine[s] # NoPid}]
          PROVE  cmd'[c].pc = "watch"
      BY <1>3, <3>1 DEF Forget, CmdState, TypeOK
    <3> QED
      BY <1>5, <1>8, <3>1 DEF UpPersist
  <2> QED
    BY <1>4, <2>1, <2>2, <2>3, <2>4, SaveDrops
<1>9. CASE MutatorSave(c)
  <2>1. Mutated(c) \in [Name -> Pid \cup {NoPid}]
    BY <1>3 DEF Mutated
  <2>2. /\ Save(c, [cmd[c].buf EXCEPT !.pids = Mutated(c)], Replaced(c, Mutated(c)))
        /\ cmd[c].pc = "save" /\ End(c)
    BY <1>9 DEF MutatorSave
  <2> QED
    BY <1>4, <1>5, <2>1, <2>2, SaveDrops
<1>10. CASE DownClears(c)
  <2> DEFINE content == IF cmd[c].buf.named THEN [cmd[c].buf EXCEPT !.pids = NoPids] ELSE NoFile
  <2>1. Save(c, content, {cmd[c].buf.pids[s] : s \in CustomStop} \ {NoPid})
    BY <1>10 DEF DownClears
  <2>2. cmd'[c].pc \in {"teardown", "tidy"} /\ cmd[c].pc \in {"clear", "clearAgain"}
    BY <1>3, <1>10 DEF DownClears, CmdState, TypeOK
  <2>3. \/ content \in LocalState /\ content.devs = cmd[c].buf.devs
        \/ content = NoFile /\ ~cmd[c].buf.named
    BY <1>4, NoStateType
  <2> HIDE DEF content
  <2> QED
    BY <2>1, <2>2, <2>3, SaveDrops
<1>11. CASE DownTidies(c)
  BY <1>1, <1>5, <1>11, SaveDrops DEF DownTidies
<1> QED
  BY <1>2, <1>6, <1>7, <1>8, <1>9, <1>10, <1>11

(***************************************************************************)
(* No up, down, restart or dev of another name takes a promotion away that *)
(* `raioz dev` has recorded: only its own reset, a save from a load that   *)
(* is no longer the file, or a file that no up has completed.              *)
(***************************************************************************)
THEOREM OverridesAreKept == Spec => OverrideKept
<1>1. IInv /\ [Next]_vars => [\A d \in Loaded.devs \ Loaded'.devs :
                       \E c \in Command : cmd'[c] # cmd[c] /\ Drops(c, d)]_vars
  BY StepDrops
<1> QED
  BY <1>1, Inductive, PTL DEF Spec, OverrideKept

-----------------------------------------------------------------------------
(* PortAlloc. The least of a set of numbers, and the allocator's recursive *)
(* functions: each has a solution, and it is the one of its equation.      *)

Less == {ss \in Nat \X Nat : ss[1] < ss[2]}

\* A non-empty set of numbers has a least one.
LEMMA Least ==
  ASSUME NEW T \in SUBSET Nat, T # {}
  PROVE  \E x \in T : \A y \in T : x <= y
<1>1. IsWellFoundedOn(Less, Nat)
  BY NatLessThanWellFounded DEF OpToRel, Less
<1>2. \E x \in T : \A y \in T : ~ (<<y, x>> \in Less)
  BY <1>1, WFMin
<1>3. PICK x \in T : \A y \in T : ~ (<<y, x>> \in Less)
  BY <1>2
<1>4. ASSUME NEW y \in T PROVE x <= y
  <2>1. x \in Nat /\ y \in Nat /\ ~ (<<y, x>> \in Less)
    BY <1>3
  <2> QED BY <2>1 DEF Less
<1> QED BY <1>4

\* Induction up to n, over the set of those it holds of.
LEMMA Climb ==
  ASSUME NEW n \in Nat, NEW G, 0 \in G, \A m \in 1..n : m - 1 \in G => m \in G
  PROVE  \A m \in 0..n : m \in G
<1> DEFINE Bad == {m \in 0..n : m \notin G}
<1>1. Bad \in SUBSET Nat
  OBVIOUS
<1>2. ASSUME Bad # {} PROVE FALSE
  <2> HIDE DEF Bad
  <2>1. PICK m \in Bad : \A y \in Bad : m <= y
    BY <1>1, <1>2, Least
  <2> USE DEF Bad
  <2>2. m \in 0..n /\ m \notin G /\ m # 0
    BY <2>1
  <2>3. m - 1 \in 0..n /\ m \in 1..n
    BY <2>2
  <2>4. m - 1 \in Bad
    BY <2>2, <2>3
  <2>5. m <= m - 1
    BY <2>1, <2>4
  <2> QED BY <2>5, <2>2
<1> QED BY <1>2

LEMMA LowestIs ==
  ASSUME NEW S \in SUBSET Nat, S # {}
  PROVE  Lowest(S) \in S /\ \A y \in S : Lowest(S) <= y
<1>1. \E x \in S : \A y \in S : x <= y
  BY Least
<1> QED BY <1>1 DEF Lowest

LEMMA LowestOfOne ==
  ASSUME NEW x \in Nat
  PROVE  Lowest({x}) = x
<1>1. Lowest({x}) \in {x}
  BY LowestIs
<1> QED BY <1>1

-----------------------------------------------------------------------------
(* The allocator. *)

\* One port after another: the recursion has a solution.
LEMMA ServedIs ==
  ASSUME NEW i, NEW taken, NEW owned, NEW busy, Pass(i) # 0,
         NEW n \in Nat, DOMAIN Requests(i) = 1..n
  PROVE  LET got == Served(i, taken, owned, busy)
         IN /\ DOMAIN got = 1..n
            /\ \A h \in 1..n : \E T : /\ got[h] = Grant(i, Requests(i)[h], T, owned, busy)
                                    /\ taken \subseteq T /\ (h = 1 => T = taken)
<1> DEFINE G(f, h) == Grant(i, Requests(i)[h], taken \cup {f[g] : g \in 1..(h - 1)}, owned, busy)
           Solves(f, m) == f = [h \in 1..m |-> G(f, h)]
           Good == {m \in 0..n : \E f : Solves(f, m)}
<1>1. 0 \in Good
  <2> DEFINE e == [h \in 1..0 |-> 0]
  <2>1. Solves(e, 0)
    OBVIOUS
  <2> HIDE DEF Solves, e
  <2> QED BY <2>1
<1>2. ASSUME NEW m \in 1..n, m - 1 \in Good PROVE m \in Good
  <2>1. PICK f : Solves(f, m - 1)
    <3> HIDE DEF Solves
    <3> QED BY <1>2
  <2> DEFINE e == [h \in 1..m |-> IF h < m THEN f[h] ELSE G(f, m)]
  <2>2. ASSUME NEW h \in 1..m PROVE e[h] = G(e, h)
    <3>1. {e[g] : g \in 1..(h - 1)} = {f[g] : g \in 1..(h - 1)}
      <4>1. ASSUME NEW g \in 1..(h - 1) PROVE e[g] = f[g]
        OBVIOUS
      <4> QED BY <4>1
    <3>2. G(e, h) = G(f, h)
      BY <3>1
    <3>3. CASE h < m
      <4>1. h \in 1..(m - 1)
        BY <3>3
      <4>2. f[h] = G(f, h)
        BY <4>1, <2>1
      <4> QED BY <4>2, <3>2, <3>3
    <3>4. CASE h = m
      <4>1. e[m] = G(f, m)
        <5> HIDE DEF G
        <5> QED OBVIOUS
      <4> HIDE DEF G, e
      <4> QED BY <4>1, <3>2, <3>4
    <3> QED BY <3>3, <3>4
  <2>3. Solves(e, m)
    <3> HIDE DEF G
    <3> QED BY <2>2
  <2> HIDE DEF Solves, e
  <2> QED BY <2>3
<1>3. n \in Good
  <2> HIDE DEF Good
  <2> QED BY <1>1, <1>2, Climb
<1>4. Served(i, taken, owned, busy) = CHOOSE f : Solves(f, n)
  BY DEF Served
<1>5. \E f : Solves(f, n)
  <2> HIDE DEF Solves
  <2> QED BY <1>3
<1> DEFINE got == Served(i, taken, owned, busy)
<1>6. Solves(got, n)
  <2> HIDE DEF Solves
  <2> QED BY <1>4, <1>5
<1> HIDE DEF got
<1>7. DOMAIN got = 1..n
  BY <1>6
<1>8. ASSUME NEW h \in 1..n
      PROVE  \E T : /\ got[h] = Grant(i, Requests(i)[h], T, owned, busy)
                    /\ taken \subseteq T /\ (h = 1 => T = taken)
  <2> DEFINE T == taken \cup {got[g] : g \in 1..(h - 1)}
  <2>1. got[h] = Grant(i, Requests(i)[h], T, owned, busy)
    BY <1>6
  <2>2. taken \subseteq T /\ (h = 1 => T = taken)
    OBVIOUS
  <2> HIDE DEF T
  <2> QED BY <2>1, <2>2
<1> QED BY <1>7, <1>8 DEF got

\* What an item gets when the others have f, and the items that come first.
Value(c, owned, busy, f, k) ==
    Served(c[k], UNION {Range(f[j]) : j \in Earlier(c, k)}, owned[c[k].name], busy)
Solves(c, owned, busy, f, S) == f = [k \in S |-> Value(c, owned, busy, f, k)]
Segment(c, n, m) == {k \in DOMAIN c : Pass(c[k]) < n \/ (Pass(c[k]) = n /\ k <= m)}

LEMMA PassType ==
  ASSUME NEW i
  PROVE  Pass(i) \in 0..5
BY DEF Pass

LEMMA ValueOf ==
  ASSUME NEW c, NEW owned, NEW busy, NEW k, NEW S, Earlier(c, k) \subseteq S,
         NEW f, NEW e, \A j \in S : e[j] = f[j]
  PROVE  Value(c, owned, busy, e, k) = Value(c, owned, busy, f, k)
<1>1. {Range(e[j]) : j \in Earlier(c, k)} = {Range(f[j]) : j \in Earlier(c, k)}
  <2> HIDE DEF Earlier
  <2>1. ASSUME NEW j \in Earlier(c, k) PROVE Range(e[j]) = Range(f[j])
    <3>1. e[j] = f[j]
      OBVIOUS
    <3> QED BY <3>1
  <2> QED BY <2>1
<1> QED BY <1>1 DEF Value

\* One more item, with all that come before it.
LEMMA Extend ==
  ASSUME NEW c, NEW owned, NEW busy, NEW S, NEW q, q \notin S,
         \A k \in S \cup {q} : Earlier(c, k) \subseteq S,
         NEW f, Solves(c, owned, busy, f, S)
  PROVE  \E e : Solves(c, owned, busy, e, S \cup {q})
<1> DEFINE e == [k \in S \cup {q} |-> IF k = q THEN Value(c, owned, busy, f, q) ELSE f[k]]
<1>1. \A j \in S : e[j] = f[j]
  OBVIOUS
<1>2. ASSUME NEW k \in S \cup {q} PROVE e[k] = Value(c, owned, busy, e, k)
  <2>1. Value(c, owned, busy, e, k) = Value(c, owned, busy, f, k)
    <3>1. Earlier(c, k) \subseteq S
      OBVIOUS
    <3> HIDE DEF e
    <3> QED BY <3>1, <1>1, ValueOf
  <2>2. CASE k = q
    <3>1. e[q] = Value(c, owned, busy, f, q)
      OBVIOUS
    <3> HIDE DEF e
    <3> QED BY <3>1, <2>1, <2>2
  <2>3. CASE k \in S
    <3>1. f[k] = Value(c, owned, busy, f, k)
      BY <2>3 DEF Solves
    <3>2. e[k] = f[k]
      BY <1>1, <2>3
    <3> HIDE DEF e
    <3> QED BY <3>1, <3>2, <2>1
  <2> QED BY <2>2, <2>3
<1>3. e = [k \in S \cup {q} |-> Value(c, owned, busy, e, k)]
  BY <1>2
<1>4. Solves(c, owned, busy, e, S \cup {q})
  <2> HIDE DEF e
  <2> QED BY <1>3 DEF Solves
<1> HIDE DEF e
<1> QED BY <1>4

LEMMA Climbs ==
  ASSUME NEW c, NEW owned, NEW busy, NEW L \in Nat, DOMAIN c = 1..L, NEW n \in 0..5,
         \E f : Solves(c, owned, busy, f, Segment(c, n, 0))
  PROVE  \E f : Solves(c, owned, busy, f, Segment(c, n, L))
<1> DEFINE Good == {m \in 0..L : \E f : Solves(c, owned, busy, f, Segment(c, n, m))}
<1>1. 0 \in Good
  OBVIOUS
<1>2. ASSUME NEW m \in 1..L, m - 1 \in Good PROVE m \in Good
  <2>1. PICK f : Solves(c, owned, busy, f, Segment(c, n, m - 1))
    BY <1>2
  <2>2. CASE Pass(c[m]) # n
    <3>1. Segment(c, n, m) = Segment(c, n, m - 1)
      BY <2>2 DEF Segment
    <3> QED BY <3>1, <2>1
  <2>3. CASE Pass(c[m]) = n
    <3> DEFINE S == Segment(c, n, m - 1)
    <3>1. Segment(c, n, m) = S \cup {m} /\ m \notin S
      BY <2>3 DEF Segment
    <3>2. \A k \in S \cup {m} : Earlier(c, k) \subseteq S
      <4>1. \A k \in DOMAIN c : Pass(c[k]) \in 0..5
        BY PassType
      <4> QED BY <2>3, <4>1 DEF Earlier, Segment
    <3> HIDE DEF S
    <3>3. Solves(c, owned, busy, f, S)
      BY <2>1 DEF S
    <3>4. \E e : Solves(c, owned, busy, e, S \cup {m})
      BY <3>1, <3>2, <3>3, Extend
    <3>5. \E e : Solves(c, owned, busy, e, Segment(c, n, m))
      BY <3>4, <3>1
    <3> QED BY <3>5
  <2> QED BY <2>2, <2>3
<1> HIDE DEF Good
<1>3. L \in Good
  BY <1>1, <1>2, Climb
<1> QED BY <1>3 DEF Good

LEMMA GivenIs ==
  ASSUME NEW c, NEW owned, NEW busy, NEW L \in Nat, DOMAIN c = 1..L
  PROVE  LET given == Given(c, owned, busy)
         IN given = [k \in DOMAIN c |-> Value(c, owned, busy, given, k)]
<1> DEFINE Good == {n \in 0..5 : \E f : Solves(c, owned, busy, f, Segment(c, n, L))}
<1>0. \A k \in DOMAIN c : Pass(c[k]) \in 0..5
  BY PassType
<1>1. 0 \in Good
  <2>1. Segment(c, 0, 0) = {}
    BY <1>0 DEF Segment
  <2> DEFINE e == [k \in {} |-> 0]
  <2>2. Solves(c, owned, busy, e, {})
    BY DEF Solves
  <2> HIDE DEF e
  <2>3. \E f : Solves(c, owned, busy, f, Segment(c, 0, 0))
    BY <2>1, <2>2
  <2> QED BY <2>3, Climbs
<1>2. ASSUME NEW n \in 1..5, n - 1 \in Good PROVE n \in Good
  <2>1. Segment(c, n, 0) = Segment(c, n - 1, L)
    BY <1>0 DEF Segment
  <2>2. \E f : Solves(c, owned, busy, f, Segment(c, n, L))
    BY <1>2, <2>1, Climbs, SMTT(60)
  <2> QED BY <2>2
<1>3. 5 \in Good
  <2> HIDE DEF Good
  <2> QED BY <1>1, <1>2, Climb
<1>4. Segment(c, 5, L) = DOMAIN c
  BY <1>0 DEF Segment
<1>5. \E f : Solves(c, owned, busy, f, DOMAIN c)
  BY <1>3, <1>4
<1>6. Given(c, owned, busy) = CHOOSE f : Solves(c, owned, busy, f, DOMAIN c)
  BY DEF Given, Solves, Value
<1> DEFINE given == Given(c, owned, busy)
<1>7. Solves(c, owned, busy, given, DOMAIN c)
  BY <1>5, <1>6
<1> HIDE DEF given
<1>8. given = [k \in DOMAIN c |-> Value(c, owned, busy, given, k)]
  BY <1>7 DEF Solves
<1> QED BY <1>8 DEF given

-----------------------------------------------------------------------------
(* What the items of a configuration request.                              *)

Request == [host : DeclaredPort, cont : DeclaredPort]

LEMMA FnSeq ==
  ASSUME NEW S, NEW n \in Nat, NEW f \in [1..n -> S]
  PROVE  f \in Seq(S) /\ Len(f) = n /\ (n # 0 => f # <<>>) /\ (n = 0 => f = <<>>)
<1>1. f \in Seq(S)
  BY SeqDef
<1>2. DOMAIN f = 1..n
  OBVIOUS
<1>3. Len(f) = n
  BY <1>1, <1>2
<1> QED BY <1>1, <1>3

LEMMA PortNat ==
  /\ LastPort \in Nat /\ DeclaredPort \subseteq Nat /\ Port \subseteq Nat
  /\ DeclaredPort = Port \cup {0} /\ 0 \notin Port
BY PortAllocAssumption DEF DeclaredPort, Port

LEMMA InferType ==
  ASSUME NEW i, i.infer \in Seq(DeclaredPort)
  PROVE  inferServicePort(i) \in DeclaredPort
<1> DEFINE said == {k \in DOMAIN i.infer : i.infer[k] > 0}
<1>1. CASE said = {}
  BY <1>1, PortNat DEF inferServicePort
<1>2. CASE said # {}
  <2>1. said \in SUBSET Nat
    OBVIOUS
  <2>2. Lowest(said) \in said
    <3> HIDE DEF said
    <3> QED BY <2>1, <1>2, LowestIs
  <2>3. i.infer[Lowest(said)] \in DeclaredPort
    <3> HIDE DEF Lowest
    <3>1. Lowest(said) \in DOMAIN i.infer
      BY <2>2
    <3> HIDE DEF said
    <3> QED BY <3>1, ElementOfSeq
  <2> HIDE DEF Lowest
  <2> QED BY <2>3, <1>2 DEF inferServicePort
<1> QED BY <1>1, <1>2

LEMMA Kinds ==
  ASSUME NEW i, Item(i)
  PROVE  i.kind \in {"host", "docker", "pinned", "auto", "legacy", "sibling"}
BY DEF Item

LEMMA HostRequests ==
  ASSUME NEW i, Item(i), i.kind = "host"
  PROVE  /\ Requests(i) \in Seq(Request) /\ DOMAIN Requests(i) = 1..1
         /\ Requests(i)[1].host = i.port
         /\ i.port > 0 => Requests(i)[1].cont = i.port
         /\ i.port = 0 => Requests(i)[1].cont = inferServicePort(i)
         /\ i.port \in DeclaredPort /\ inferServicePort(i) \in DeclaredPort
         /\ Pass(i) = IF i.port > 0 THEN 1 ELSE IF inferServicePort(i) > 0 THEN 3 ELSE 0
<1>1. i.port \in DeclaredPort /\ i.infer \in Seq(DeclaredPort)
  BY DEF Item
<1>2. inferServicePort(i) \in DeclaredPort
  BY <1>1, InferType
<1>3. Requests(i) = <<[host |-> i.port, cont |-> IF i.port > 0 THEN i.port ELSE inferServicePort(i)]>>
  BY DEF Requests
<1>4. Pass(i) = IF i.port > 0 THEN 1 ELSE IF inferServicePort(i) > 0 THEN 3 ELSE 0
  BY <1>1, <1>2, PortNat DEF Pass
<1>5. [host |-> i.port, cont |-> IF i.port > 0 THEN i.port ELSE inferServicePort(i)] \in Request
  BY <1>1, <1>2 DEF Request
<1>6. i.port > 0 \/ i.port = 0
  <2>1. i.port \in Nat
    BY <1>1, PortNat
  <2> QED BY <2>1
<1> DEFINE q == [host |-> i.port, cont |-> IF i.port > 0 THEN i.port ELSE inferServicePort(i)]
<1>7. q.host = i.port /\ (i.port > 0 => q.cont = i.port) /\ (i.port = 0 => q.cont = inferServicePort(i))
  BY <1>1, PortNat
<1> HIDE DEF q
<1>8. Requests(i) \in Seq(Request) /\ DOMAIN Requests(i) = 1..1 /\ Requests(i)[1] = q
  BY <1>3, <1>5 DEF q
<1> QED BY <1>1, <1>2, <1>4, <1>7, <1>8

LEMMA PinnedRequests ==
  ASSUME NEW i, Item(i), i.kind = "pinned"
  PROVE  /\ Requests(i) = assignExplicitDepPorts(i)
         /\ Requests(i) \in Seq([host : Port, cont : Port])
         /\ Requests(i) # <<>> /\ Pass(i) = 2
<1>1. i.hosts \in Seq(Port) /\ i.hosts # <<>> /\ i.expose \in Seq(Port)
  BY DEF Item
<1>2. Requests(i) = assignExplicitDepPorts(i) /\ Pass(i) = 2
  BY DEF Requests, Pass
<1> DEFINE n == Len(i.hosts)
<1>3. n \in Nat /\ DOMAIN i.hosts = 1..n /\ n # 0
  BY <1>1
<1>4. ASSUME NEW k \in 1..n
      PROVE  [host |-> i.hosts[k], cont |-> IF k \in DOMAIN i.expose THEN i.expose[k] ELSE i.hosts[k]]
                \in [host : Port, cont : Port]
  BY <1>1
<1>5. assignExplicitDepPorts(i) \in [1..n -> [host : Port, cont : Port]]
  BY <1>3, <1>4 DEF assignExplicitDepPorts
<1>6. assignExplicitDepPorts(i) \in Seq([host : Port, cont : Port])
  <2> HIDE DEF n
  <2> QED BY <1>5, <1>3, FnSeq
<1>7. assignExplicitDepPorts(i) # <<>>
  <2> HIDE DEF n
  <2> QED BY <1>5, <1>3, FnSeq
<1> QED BY <1>2, <1>6, <1>7

LEMMA AutoRequests ==
  ASSUME NEW i, Item(i), i.kind = "auto"
  PROVE  /\ Requests(i) \in Seq([host : {0}, cont : Port]) /\ Pass(i) = 4
         /\ DOMAIN Requests(i) = DOMAIN i.expose /\ i.expose \in Seq(Port)
         /\ \A k \in DOMAIN i.expose : Requests(i)[k].cont = i.expose[k]
<1>1. i.expose \in Seq(Port)
  BY DEF Item
<1>2. Requests(i) = [k \in DOMAIN i.expose |-> [host |-> 0, cont |-> i.expose[k]]] /\ Pass(i) = 4
  BY DEF Requests, Pass, assignAutoDepPorts
<1> DEFINE n == Len(i.expose)
<1>3. n \in Nat /\ DOMAIN i.expose = 1..n
  BY <1>1
<1>4. ASSUME NEW k \in 1..n
      PROVE  [host |-> 0, cont |-> i.expose[k]] \in [host : {0}, cont : Port]
  BY <1>1
<1>5. Requests(i) \in [1..n -> [host : {0}, cont : Port]]
  BY <1>2, <1>3, <1>4
<1>6. Requests(i) \in Seq([host : {0}, cont : Port])
  <2> HIDE DEF n
  <2> QED BY <1>5, <1>3, FnSeq
<1> QED BY <1>1, <1>2, <1>6

LEMMA LegacyRequests ==
  ASSUME NEW i, Item(i), i.kind = "legacy"
  PROVE  /\ Requests(i) = assignLegacyDepPorts(i)
         /\ Requests(i) \in Seq([host : DeclaredPort, cont : Port])
         /\ Requests(i) # <<>> /\ Pass(i) \in {0, 5} /\ i.specs # <<>>
         /\ DOMAIN Requests(i) = DOMAIN i.specs
         /\ \A k \in DOMAIN i.specs : Requests(i)[k] = [host |-> i.specs[k].host, cont |-> i.specs[k].cont]
<1>1. i.specs \in Seq([host : DeclaredPort, cont : Port, plain : BOOLEAN]) /\ i.specs # <<>>
  BY DEF Item
<1>2. Requests(i) = assignLegacyDepPorts(i) /\ Pass(i) \in {0, 5}
  BY DEF Requests, Pass
<1> DEFINE n == Len(i.specs)
<1>3. n \in Nat /\ DOMAIN i.specs = 1..n /\ n # 0
  BY <1>1
<1>4. ASSUME NEW k \in 1..n
      PROVE  [host |-> i.specs[k].host, cont |-> i.specs[k].cont] \in [host : DeclaredPort, cont : Port]
  <2>1. k \in DOMAIN i.specs
    BY <1>3
  <2>2. i.specs[k] \in [host : DeclaredPort, cont : Port, plain : BOOLEAN]
    BY <1>1, <2>1, ElementOfSeq
  <2> QED BY <2>2
<1>5. assignLegacyDepPorts(i) \in [1..n -> [host : DeclaredPort, cont : Port]]
  BY <1>3, <1>4 DEF assignLegacyDepPorts
<1>6. assignLegacyDepPorts(i) \in Seq([host : DeclaredPort, cont : Port])
  <2> HIDE DEF n
  <2> QED BY <1>5, <1>3, FnSeq
<1>7. assignLegacyDepPorts(i) # <<>>
  <2> HIDE DEF n
  <2> QED BY <1>5, <1>3, FnSeq
<1>8. /\ DOMAIN assignLegacyDepPorts(i) = DOMAIN i.specs
      /\ \A k \in DOMAIN i.specs : assignLegacyDepPorts(i)[k] = [host |-> i.specs[k].host, cont |-> i.specs[k].cont]
  BY DEF assignLegacyDepPorts
<1> QED BY <1>1, <1>2, <1>6, <1>7, <1>8

LEMMA OtherRequests ==
  ASSUME NEW i, Item(i), i.kind \in {"docker", "sibling"}
  PROVE  Requests(i) = <<>> /\ Pass(i) = 0
BY DEF Requests, Pass

LEMMA RequestsType ==
  ASSUME NEW i, Item(i)
  PROVE  Requests(i) \in Seq(Request)
<1>1. ASSUME NEW S \in SUBSET DeclaredPort, NEW T \in SUBSET DeclaredPort, Requests(i) \in Seq([host : S, cont : T])
      PROVE  Requests(i) \in Seq(Request)
  <2>1. [host : S, cont : T] \subseteq Request
    BY DEF Request
  <2> QED BY <1>1, <2>1, SeqMonotonic
<1>2. Port \subseteq DeclaredPort /\ {0} \subseteq DeclaredPort
  BY PortNat
<1>3. CASE i.kind = "host"
  BY <1>3, HostRequests
<1>4. CASE i.kind = "pinned"
  BY <1>1, <1>2, <1>4, PinnedRequests
<1>5. CASE i.kind = "auto"
  BY <1>1, <1>2, <1>5, AutoRequests
<1>6. CASE i.kind = "legacy"
  BY <1>1, <1>2, <1>6, LegacyRequests
<1>7. CASE i.kind \in {"docker", "sibling"}
  <2>1. Requests(i) = <<>>
    BY <1>7, OtherRequests
  <2> QED BY <2>1
<1> QED BY <1>3, <1>4, <1>5, <1>6, <1>7, Kinds

-----------------------------------------------------------------------------
(* What the allocator grants: to a request, to an item, to a               *)
(* configuration.                                                          *)

LEMMA LowestType ==
  ASSUME NEW S \in SUBSET Port
  PROVE  /\ Lowest(S) \in DeclaredPort
         /\ Lowest(S) # 0 => Lowest(S) \in S
         /\ S # {} => Lowest(S) \in S /\ Lowest(S) # 0
<1>1. S \in SUBSET Nat /\ 0 \notin S
  BY PortNat
<1>2. CASE S = {}
  <2>1. Lowest(S) = 0
    BY <1>2 DEF Lowest
  <2> QED BY <2>1, <1>2, PortNat
<1>3. CASE S # {}
  <2>1. Lowest(S) \in S
    BY <1>1, <1>3, LowestIs
  <2> QED BY <2>1, <1>1, PortNat
<1> QED BY <1>2, <1>3

\* What a request is granted: a port that is not taken, the one it names; one
\* that may be negotiated gets one its service holds, or one that nobody has.
LEMMA GrantIs ==
  ASSUME NEW i, NEW q, q.host \in DeclaredPort, q.cont \in DeclaredPort, NEW taken,
         NEW owned \in SUBSET Port, NEW busy
  PROVE  LET g == Grant(i, q, taken, owned, busy)
             held == {x \in owned : x >= q.cont /\ x \notin taken}
         IN /\ g \in DeclaredPort
            /\ g # 0 => g \notin taken
            /\ g # 0 /\ q.host > 0 => g = q.host
            /\ g # 0 /\ q.host = 0 => (Pass(i) = 3 /\ g \in owned) \/ g \notin busy
            /\ q.host = 0 /\ Pass(i) = 3 /\ held # {} => g \in held
<1> DEFINE g == Grant(i, q, taken, owned, busy)
           has == {x \in owned : x >= q.cont /\ x \notin taken}
           free == {x \in Port : x >= q.cont /\ x >= Ceiling /\ x \notin taken /\ x \notin busy}
           held == IF Pass(i) = 3 THEN Lowest(has) ELSE 0
<1>1. held = IF Pass(i) = 3 THEN heldPort(owned, q.cont, taken) ELSE 0
  BY DEF heldPort
<1>2. findFreePort(q.cont, taken, busy) = Lowest(free)
  BY DEF findFreePort
<1>3. q.host \in Nat /\ q.host \in DeclaredPort /\ 0 \in DeclaredPort
  BY PortNat
<1>4. /\ Lowest(has) \in DeclaredPort /\ (Lowest(has) # 0 => Lowest(has) \in has)
      /\ has # {} => Lowest(has) \in has /\ Lowest(has) # 0
  <2>1. has \in SUBSET Port
    OBVIOUS
  <2> HIDE DEF has
  <2> QED BY <2>1, LowestType
<1>5. Lowest(free) \in DeclaredPort /\ (Lowest(free) # 0 => Lowest(free) \in free)
  <2>1. free \in SUBSET Port
    OBVIOUS
  <2> HIDE DEF free
  <2> QED BY <2>1, LowestType
<1>6. held \in DeclaredPort /\ held \in Nat
  BY <1>4, PortNat
<1>7. g = IF q.host > 0 THEN IF q.host \in taken THEN 0 ELSE q.host
          ELSE IF held > 0 THEN held ELSE Lowest(free)
  BY <1>1, <1>2 DEF Grant
<1> HIDE DEF g
<1>13. /\ g \in DeclaredPort
       /\ g # 0 => g \notin taken
       /\ g # 0 /\ q.host > 0 => g = q.host
       /\ g # 0 /\ q.host = 0 => (Pass(i) = 3 /\ g \in owned) \/ g \notin busy
       /\ q.host = 0 /\ Pass(i) = 3 /\ has # {} => g \in has
  <2>8. CASE q.host > 0 /\ q.host \notin taken
    BY <1>7, <2>8, <1>3
  <2>9. CASE q.host > 0 /\ q.host \in taken
    <3>1. g = 0
      BY <1>7, <2>9, <1>3
    <3> QED BY <3>1, <2>9, <1>3
  <2>10. CASE q.host = 0 /\ held > 0
    <3>1. g = held /\ held # 0
      BY <1>7, <2>10, <1>6
    <3>2. Pass(i) = 3 /\ held = Lowest(has)
      BY <2>10
    <3>3. g \in has
      BY <3>1, <3>2, <1>4
    <3> QED BY <3>1, <3>2, <3>3, <2>10, <1>6
  <2>11. CASE q.host = 0 /\ held = 0
    <3>1. g = Lowest(free)
      BY <1>7, <2>11
    <3>2. g \in DeclaredPort /\ (g # 0 => g \in free)
      BY <3>1, <1>5
    <3>3. Pass(i) = 3 => has = {}
      BY <2>11, <1>4
    <3> QED BY <3>2, <3>3, <2>11
  <2>12. (q.host > 0 \/ q.host = 0) /\ (held > 0 \/ held = 0)
    BY <1>3, <1>6
  <2> HIDE DEF held, has
  <2> QED BY <2>8, <2>9, <2>10, <2>11, <2>12
<1> HIDE DEF has
<1> QED BY <1>13 DEF g, has

\* The ports of an item, when it gets all of them.
LEMMA ServedFits ==
  ASSUME NEW i, Item(i), Pass(i) # 0, NEW taken, NEW owned \in SUBSET Port, NEW busy
  PROVE  LET got == Served(i, taken, owned, busy)
         IN /\ DOMAIN got = DOMAIN Requests(i)
            /\ \A h \in DOMAIN got : got[h] \in DeclaredPort
            /\ 0 \notin Range(got) => \A h \in DOMAIN got :
                /\ got[h] \in Port /\ got[h] \notin taken
                /\ Requests(i)[h].host > 0 => got[h] = Requests(i)[h].host
                /\ Requests(i)[h].host = 0 => (Pass(i) = 3 /\ got[h] \in owned) \/ got[h] \notin busy
<1> DEFINE got == Served(i, taken, owned, busy)
           n == Len(Requests(i))
<1>1. n \in Nat /\ DOMAIN Requests(i) = 1..n /\ Requests(i) \in Seq(Request)
  BY RequestsType
<1>2. LET g == Served(i, taken, owned, busy)
      IN /\ DOMAIN g = 1..n
         /\ \A h \in 1..n : \E T : /\ g[h] = Grant(i, Requests(i)[h], T, owned, busy)
                                 /\ taken \subseteq T /\ (h = 1 => T = taken)
  <2> HIDE DEF n
  <2> QED BY <1>1, ServedIs
<1>3. DOMAIN got = 1..n
  BY <1>2
<1>4. ASSUME NEW h \in 1..n
      PROVE  /\ got[h] \in DeclaredPort
             /\ got[h] # 0 => /\ got[h] \notin taken
                              /\ Requests(i)[h].host > 0 => got[h] = Requests(i)[h].host
                              /\ Requests(i)[h].host = 0 => (Pass(i) = 3 /\ got[h] \in owned) \/ got[h] \notin busy
  <2>1. Requests(i)[h] \in Request
    <3>1. h \in DOMAIN Requests(i)
      BY <1>1
    <3> QED BY <1>1, <3>1, ElementOfSeq
  <2>2. Requests(i)[h].host \in DeclaredPort /\ Requests(i)[h].cont \in DeclaredPort
    BY <2>1 DEF Request
  <2> HIDE DEF got, n
  <2>3. PICK T : got[h] = Grant(i, Requests(i)[h], T, owned, busy) /\ taken \subseteq T
    BY <1>2 DEF got
  <2>5. /\ got[h] \in DeclaredPort
        /\ got[h] # 0 => got[h] \notin T
        /\ got[h] # 0 /\ Requests(i)[h].host > 0 => got[h] = Requests(i)[h].host
        /\ got[h] # 0 /\ Requests(i)[h].host = 0 => (Pass(i) = 3 /\ got[h] \in owned) \/ got[h] \notin busy
    BY <2>2, <2>3, GrantIs
  <2> QED BY <2>3, <2>5
<1> HIDE DEF got, n
<1>5. 0 \notin Range(got) => \A h \in 1..n : got[h] # 0
  BY <1>3 DEF Range
<1>6. \A x \in DeclaredPort : x # 0 => x \in Port
  BY PortNat
<1>7. 0 \notin Range(got) => \A h \in DOMAIN got :
                /\ got[h] \in Port /\ got[h] \notin taken
                /\ Requests(i)[h].host > 0 => got[h] = Requests(i)[h].host
                /\ Requests(i)[h].host = 0 => (Pass(i) = 3 /\ got[h] \in owned) \/ got[h] \notin busy
  BY <1>3, <1>4, <1>5, <1>6
<1>8. DOMAIN got = DOMAIN Requests(i) /\ \A h \in DOMAIN got : got[h] \in DeclaredPort
  BY <1>1, <1>3, <1>4
<1> QED BY <1>7, <1>8 DEF got

\* A host service with no port of its own gets the only port it listens on,
\* if that is not taken and not below the one it would like.
LEMMA ServedKeeps ==
  ASSUME NEW i, Item(i), i.kind = "host", i.port = 0, Pass(i) = 3,
         NEW taken, NEW x \in Port, NEW owned, owned = {x}, NEW busy,
         x \notin taken, x >= inferServicePort(i)
  PROVE  LET got == Served(i, taken, owned, busy) IN DOMAIN got = 1..1 /\ got[1] = x
<1> DEFINE got == Served(i, taken, owned, busy)
           q == Requests(i)[1]
<1>1. /\ DOMAIN Requests(i) = 1..1 /\ q.host = 0 /\ q.cont = inferServicePort(i)
      /\ inferServicePort(i) \in DeclaredPort /\ 0 \in DeclaredPort
  BY HostRequests, PortNat
<1>2. LET g == Served(i, taken, owned, busy)
      IN /\ DOMAIN g = 1..1
         /\ \A h \in 1..1 : \E T : /\ g[h] = Grant(i, Requests(i)[h], T, owned, busy)
                                 /\ taken \subseteq T /\ (h = 1 => T = taken)
  <2> DEFINE n == 1
  <2>1. n \in Nat /\ Pass(i) # 0 /\ DOMAIN Requests(i) = 1..n
    BY <1>1
  <2> HIDE DEF n
  <2>2. LET g == Served(i, taken, owned, busy)
        IN /\ DOMAIN g = 1..n
           /\ \A h \in 1..n : \E T : /\ g[h] = Grant(i, Requests(i)[h], T, owned, busy)
                                   /\ taken \subseteq T /\ (h = 1 => T = taken)
    BY <2>1, ServedIs
  <2> QED BY <2>2 DEF n
<1>3. got[1] = Grant(i, q, taken, owned, busy)
  BY <1>2
<1>4. DOMAIN got = 1..1
  BY <1>2
<1> HIDE DEF got
<1> HIDE DEF q
<1> DEFINE held == {y \in owned : y >= q.cont /\ y \notin taken}
<1>5. held = {x}
  BY <1>1
<1>6. held # {} => got[1] \in held
  BY <1>1, <1>3, GrantIs
<1>7. got[1] = x
  BY <1>5, <1>6
<1> QED BY <1>4, <1>7 DEF got

\* The items of a configuration are found by their names.
LEMMA ItemIs ==
  ASSUME NEW c, Config(c)
  PROVE  /\ DOMAIN c = 1..Len(c) /\ Len(c) \in Nat
         /\ \A k \in DOMAIN c : c[k].name \in Names(c) /\ ItemOf(c, c[k].name) = c[k] /\ Item(c[k])
         /\ \A n \in Names(c) : \E k \in DOMAIN c : c[k].name = n
         /\ \A n \in Names(c) : ItemOf(c, n).name = n /\ Item(ItemOf(c, n)) /\ ItemOf(c, n) \in Range(c)
<1>1. DOMAIN c = 1..Len(c) /\ Len(c) \in Nat
  BY DEF Config
<1>2. ASSUME NEW k \in DOMAIN c
      PROVE  c[k].name \in Names(c) /\ ItemOf(c, c[k].name) = c[k] /\ Item(c[k]) /\ c[k] \in Range(c)
  <2>1. c[k] \in Range(c)
    BY DEF Range
  <2>2. ASSUME NEW i \in Range(c), i.name = c[k].name PROVE i = c[k]
    <3>1. PICK j \in DOMAIN c : i = c[j]
      BY <2>2 DEF Range
    <3> QED BY <3>1, <2>2 DEF Config
  <2>3. ItemOf(c, c[k].name) = c[k]
    BY <2>1, <2>2 DEF ItemOf
  <2> QED BY <2>1, <2>3 DEF Config, Names
<1>3. \A n \in Names(c) : \E k \in DOMAIN c : c[k].name = n
  BY DEF Names
<1> QED BY <1>1, <1>2, <1>3

LEMMA AllocIs ==
  ASSUME NEW c, Config(c), NEW owned, NEW busy
  PROVE  LET a == AllocateHostPortsOwned(c, owned, busy)
             given == Given(c, owned, busy)
         IN /\ a.ok = (\A k \in DOMAIN c : 0 \notin Range(given[k]))
            /\ DOMAIN a.ports = Names(c)
            /\ \A k \in DOMAIN c : a.ports[c[k].name] =
                  [h \in DOMAIN given[k] |-> [host |-> given[k][h], cont |-> Requests(c[k])[h].cont]]
<1> DEFINE a == AllocateHostPortsOwned(c, owned, busy)
           given == Given(c, owned, busy)
           Ports(k) == [h \in DOMAIN given[k] |-> [host |-> given[k][h], cont |-> Requests(c[k])[h].cont]]
           fine == \A k \in DOMAIN c : 0 \notin Range(given[k])
           ports == [n \in Names(c) |-> Ports(CHOOSE k \in DOMAIN c : c[k].name = n)]
<1>1. a = [ok |-> fine, ports |-> ports]
  BY DEF AllocateHostPortsOwned
<1>2. DOMAIN ports = Names(c)
  <2> HIDE DEF Ports
  <2> QED OBVIOUS
<1>3. ASSUME NEW k \in DOMAIN c PROVE ports[c[k].name] = Ports(k)
  <2>1. (CHOOSE j \in DOMAIN c : c[j].name = c[k].name) = k
    BY DEF Config
  <2>2. c[k].name \in Names(c)
    BY ItemIs
  <2> HIDE DEF Ports
  <2> QED BY <2>1, <2>2
<1>4. a.ok = fine /\ a.ports = ports
  <2> HIDE DEF a, fine, ports
  <2> QED BY <1>1
<1>5. /\ a.ok = fine
      /\ DOMAIN a.ports = Names(c)
      /\ \A k \in DOMAIN c : a.ports[c[k].name] = Ports(k)
  <2> HIDE DEF a, fine, ports, Ports
  <2> QED BY <1>2, <1>3, <1>4
<1> QED BY <1>5

\* The allocator has an answer for each name.
LEMMA AllocNames ==
  ASSUME NEW c, NEW owned, NEW busy
  PROVE  DOMAIN AllocateHostPortsOwned(c, owned, busy).ports = Names(c)
<1> DEFINE Ports(k) == [h \in DOMAIN Given(c, owned, busy)[k] |->
                          [host |-> Given(c, owned, busy)[k][h], cont |-> Requests(c[k])[h].cont]]
           ports == [n \in Names(c) |-> Ports(CHOOSE k \in DOMAIN c : c[k].name = n)]
<1>1. AllocateHostPortsOwned(c, owned, busy).ports = ports
  BY DEF AllocateHostPortsOwned
<1>2. DOMAIN ports = Names(c)
  <2> HIDE DEF Ports
  <2> QED OBVIOUS
<1> QED BY <1>1, <1>2

LEMMA GivenOf ==
  ASSUME NEW c, Config(c), NEW owned, NEW busy, NEW k \in DOMAIN c
  PROVE  LET given == Given(c, owned, busy)
         IN \E T : /\ given[k] = Served(c[k], T, owned[c[k].name], busy)
                   /\ \A j \in Earlier(c, k) : Range(given[j]) \subseteq T
                   /\ \A x \in T : \E j \in Earlier(c, k) : x \in Range(given[j])
<1> DEFINE given == Given(c, owned, busy)
           n == Len(c)
<1>1. DOMAIN c = 1..n /\ n \in Nat
  BY ItemIs
<1>2. given = [j \in DOMAIN c |-> Value(c, owned, busy, given, j)]
  <2> HIDE DEF n
  <2> QED BY <1>1, GivenIs
<1> HIDE DEF given
<1>3. given[k] = Value(c, owned, busy, given, k)
  BY <1>2
<1> DEFINE T == UNION {Range(given[j]) : j \in Earlier(c, k)}
<1>4. given[k] = Served(c[k], T, owned[c[k].name], busy)
  BY <1>3 DEF Value
<1>5. /\ \A j \in Earlier(c, k) : Range(given[j]) \subseteq T
      /\ \A x \in T : \E j \in Earlier(c, k) : x \in Range(given[j])
  OBVIOUS
<1> HIDE DEF T
<1>6. \E TT : /\ given[k] = Served(c[k], TT, owned[c[k].name], busy)
              /\ \A j \in Earlier(c, k) : Range(given[j]) \subseteq TT
              /\ \A x \in TT : \E j \in Earlier(c, k) : x \in Range(given[j])
  BY <1>4, <1>5
<1> QED BY <1>6 DEF given

\* What the allocator gives to an item.
LEMMA GivenFits ==
  ASSUME NEW c, Config(c), NEW busy,
         NEW owned, \A n \in Names(c) : owned[n] \in SUBSET Port,
         NEW k \in DOMAIN c
  PROVE  LET given == Given(c, owned, busy)
             i == c[k]
         IN /\ Pass(i) = 0 => given[k] = <<>>
            /\ Pass(i) # 0 => DOMAIN given[k] = DOMAIN Requests(i)
            /\ Pass(i) # 0 /\ 0 \notin Range(given[k]) => \A h \in DOMAIN given[k] :
                  /\ given[k][h] \in Port
                  /\ \A j \in Earlier(c, k) : given[k][h] \notin Range(given[j])
                  /\ Requests(i)[h].host > 0 => given[k][h] = Requests(i)[h].host
                  /\ Requests(i)[h].host = 0 => \/ Pass(i) = 3 /\ given[k][h] \in owned[i.name]
                                                \/ given[k][h] \notin busy
<1> DEFINE given == Given(c, owned, busy)
           i == c[k]
<1>1. PICK taken : /\ given[k] = Served(i, taken, owned[i.name], busy)
                   /\ \A j \in Earlier(c, k) : Range(given[j]) \subseteq taken
  BY GivenOf
<1>2. Item(i) /\ owned[i.name] \in SUBSET Port
  BY ItemIs
<1>3. Pass(i) = 0 => Served(i, taken, owned[i.name], busy) = <<>>
  <2> HIDE DEF i
  <2> QED BY DEF Served
<1> DEFINE got == Served(i, taken, owned[i.name], busy)
<1>5. Pass(i) # 0 =>
         /\ DOMAIN got = DOMAIN Requests(i)
         /\ \A h \in DOMAIN got : got[h] \in DeclaredPort
         /\ 0 \notin Range(got) => \A h \in DOMAIN got :
                /\ got[h] \in Port /\ got[h] \notin taken
                /\ Requests(i)[h].host > 0 => got[h] = Requests(i)[h].host
                /\ Requests(i)[h].host = 0 => (Pass(i) = 3 /\ got[h] \in owned[i.name]) \/ got[h] \notin busy
  <2> HIDE DEF i
  <2> QED BY <1>2, ServedFits
<1>6. given[k] = got
  BY <1>1
<1> HIDE DEF given, got, i
<1>7. /\ Pass(i) = 0 => given[k] = <<>>
      /\ Pass(i) # 0 => DOMAIN given[k] = DOMAIN Requests(i)
      /\ Pass(i) # 0 /\ 0 \notin Range(given[k]) => \A h \in DOMAIN given[k] :
            /\ given[k][h] \in Port
            /\ \A j \in Earlier(c, k) : given[k][h] \notin Range(given[j])
            /\ Requests(i)[h].host > 0 => given[k][h] = Requests(i)[h].host
            /\ Requests(i)[h].host = 0 => \/ Pass(i) = 3 /\ given[k][h] \in owned[i.name]
                                          \/ given[k][h] \notin busy
  BY <1>1, <1>3, <1>5, <1>6 DEF got
<1> QED BY <1>7 DEF given, i

LEMMA ElementIs ==
  ASSUME NEW S, NEW s, s \in Seq(S), NEW h \in DOMAIN s
  PROVE  s[h] \in S
OBVIOUS

LEMMA PortIs ==
  ASSUME NEW x \in Port
  PROVE  x \in Nat /\ x > 0 /\ x # 0 /\ x \in DeclaredPort
BY DEF Port, DeclaredPort

LEMMA SameSeq ==
  ASSUME NEW S, NEW n \in Nat, NEW s, s \in Seq(S), DOMAIN s = 1..n,
         NEW f, f \in [1..n -> S], \A h \in 1..n : f[h] = s[h]
  PROVE  f = s
<1>1. s \in [1..n -> S]
  OBVIOUS
<1> QED BY <1>1

LEMMA PassedRequests ==
  ASSUME NEW i, Item(i), Pass(i) # 0
  PROVE  /\ Requests(i) \in Seq(Request)
         /\ \A h \in DOMAIN Requests(i) : Requests(i)[h] \in [host : DeclaredPort, cont : Port]
<1>0. Requests(i) \in Seq(Request)
  BY RequestsType
<1>1. CASE i.kind = "host"
  <2>1. DOMAIN Requests(i) = 1..1 /\ Requests(i)[1].cont \in Port
    <3>1. i.port \in DeclaredPort /\ inferServicePort(i) \in DeclaredPort
      BY <1>1, HostRequests
    <3>2. i.port \in Nat /\ inferServicePort(i) \in Nat
      BY <3>1, PortNat
    <3>3. CASE i.port > 0
      <4>1. Requests(i)[1].cont = i.port /\ DOMAIN Requests(i) = 1..1
        BY <1>1, <3>3, HostRequests
      <4>2. i.port \in Port
        BY <3>1, <3>3, PortNat
      <4> QED BY <4>1, <4>2
    <3>4. CASE ~ (i.port > 0)
      <4>0. i.port = 0
        BY <3>2, <3>4
      <4>1. Requests(i)[1].cont = inferServicePort(i) /\ DOMAIN Requests(i) = 1..1
        BY <1>1, <4>0, HostRequests
      <4>2. inferServicePort(i) > 0
        BY <1>1, <4>0, HostRequests
      <4>3. inferServicePort(i) \in Port
        BY <3>1, <4>2, PortNat
      <4> QED BY <4>1, <4>3
    <3> QED BY <3>3, <3>4
  <2>2. Requests(i)[1] \in Request
    BY <1>0, <2>1, ElementIs
  <2>3. Requests(i)[1] \in [host : DeclaredPort, cont : Port]
    BY <2>1, <2>2 DEF Request
  <2> QED BY <1>0, <2>1, <2>3
<1>2. ASSUME NEW S \in SUBSET DeclaredPort, Requests(i) \in Seq([host : S, cont : Port])
      PROVE  \A h \in DOMAIN Requests(i) : Requests(i)[h] \in [host : DeclaredPort, cont : Port]
  <2>1. ASSUME NEW h \in DOMAIN Requests(i) PROVE Requests(i)[h] \in [host : S, cont : Port]
    BY <1>2, ElementIs
  <2>2. [host : S, cont : Port] \subseteq [host : DeclaredPort, cont : Port]
    OBVIOUS
  <2> QED BY <2>1, <2>2
<1>3. Port \subseteq DeclaredPort /\ {0} \subseteq DeclaredPort
  BY PortNat
<1>4. CASE i.kind = "pinned"
  BY <1>0, <1>2, <1>3, <1>4, PinnedRequests
<1>5. CASE i.kind = "auto"
  BY <1>0, <1>2, <1>3, <1>5, AutoRequests
<1>6. CASE i.kind = "legacy"
  BY <1>0, <1>2, <1>6, LegacyRequests
<1>7. CASE i.kind \in {"docker", "sibling"}
  BY <1>7, OtherRequests
<1> QED BY <1>1, <1>4, <1>5, <1>6, <1>7, Kinds

\* A choice that is made: what each item gets, given each its ports.
LEMMA ChosenIs ==
  ASSUME NEW c, Config(c), NEW busy,
         NEW owned, \A n \in Names(c) : owned[n] \in SUBSET Port,
         AllocateHostPortsOwned(c, owned, busy).ok
  PROVE  LET ports == AllocateHostPortsOwned(c, owned, busy).ports
             given == Given(c, owned, busy)
         IN /\ DOMAIN ports = Names(c)
            /\ \A k \in DOMAIN c :
                  /\ DOMAIN ports[c[k].name] = DOMAIN given[k]
                  /\ \A h \in DOMAIN given[k] : ports[c[k].name][h] =
                        [host |-> given[k][h], cont |-> Requests(c[k])[h].cont]
                  /\ 0 \notin Range(given[k])
<1> DEFINE a == AllocateHostPortsOwned(c, owned, busy)
           given == Given(c, owned, busy)
<1>1. /\ a.ok = (\A k \in DOMAIN c : 0 \notin Range(given[k]))
      /\ DOMAIN a.ports = Names(c)
      /\ \A k \in DOMAIN c : a.ports[c[k].name] =
                  [h \in DOMAIN given[k] |-> [host |-> given[k][h], cont |-> Requests(c[k])[h].cont]]
  BY AllocIs
<1>2. a.ok
  OBVIOUS
<1> HIDE DEF a, given
<1>3. ASSUME NEW k \in DOMAIN c
      PROVE  /\ DOMAIN a.ports[c[k].name] = DOMAIN given[k]
             /\ \A h \in DOMAIN given[k] : a.ports[c[k].name][h] =
                        [host |-> given[k][h], cont |-> Requests(c[k])[h].cont]
             /\ 0 \notin Range(given[k])
  <2>1. a.ports[c[k].name] = [h \in DOMAIN given[k] |-> [host |-> given[k][h], cont |-> Requests(c[k])[h].cont]]
    BY <1>1
  <2>2. 0 \notin Range(given[k])
    BY <1>1, <1>2
  <2> DEFINE s == a.ports[c[k].name]
  <2>3. s = [h \in DOMAIN given[k] |-> [host |-> given[k][h], cont |-> Requests(c[k])[h].cont]]
    BY <2>1
  <2> HIDE DEF s
  <2>4. /\ DOMAIN s = DOMAIN given[k]
        /\ \A h \in DOMAIN given[k] : s[h] = [host |-> given[k][h], cont |-> Requests(c[k])[h].cont]
    BY <2>3
  <2> QED BY <2>2, <2>4 DEF s
<1> QED BY <1>1, <1>3 DEF a, given

LEMMA ChosenFits ==
  ASSUME NEW c, Config(c), NEW busy,
         NEW owned, \A n \in Names(c) : owned[n] \in SUBSET Port,
         AllocateHostPortsOwned(c, owned, busy).ok,
         NEW n \in Names(c)
  PROVE  LET i == ItemOf(c, n)
             ports == AllocateHostPortsOwned(c, owned, busy).ports[n]
         IN /\ IF Pass(i) = 0 THEN ports = <<>> ELSE Fits(i, ports)
            /\ i.kind = "pinned" => ports = assignExplicitDepPorts(i)
            /\ Hosts(ports) \subseteq Port
<1> DEFINE i == ItemOf(c, n)
           all == AllocateHostPortsOwned(c, owned, busy).ports
           given == Given(c, owned, busy)
<1>1. PICK k \in DOMAIN c : c[k].name = n /\ i = c[k] /\ Item(i)
  BY ItemIs
<1>2. /\ DOMAIN all[n] = DOMAIN given[k]
      /\ \A h \in DOMAIN given[k] : all[n][h] = [host |-> given[k][h], cont |-> Requests(i)[h].cont]
      /\ 0 \notin Range(given[k])
  BY <1>1, ChosenIs
<1>3. /\ Pass(i) = 0 => given[k] = <<>>
      /\ Pass(i) # 0 => DOMAIN given[k] = DOMAIN Requests(i)
      /\ Pass(i) # 0 => \A h \in DOMAIN given[k] :
            /\ given[k][h] \in Port
            /\ Requests(i)[h].host > 0 => given[k][h] = Requests(i)[h].host
  BY <1>1, <1>2, GivenFits
<1> DEFINE ports == all[n]
<1> HIDE DEF i, all, given
<1>4. CASE Pass(i) = 0
  <2>1. given[k] = <<>>
    BY <1>3, <1>4
  <2>2. DOMAIN all[n] = {}
    BY <1>2, <2>1
  <2>3. all[n] = <<>>
    <3>1. all[n] = [h \in DOMAIN given[k] |-> [host |-> given[k][h], cont |-> Requests(i)[h].cont]]
      <4>1. all = AllocateHostPortsOwned(c, owned, busy).ports
        BY DEF all
      <4>2. all[c[k].name] = [h \in DOMAIN given[k] |-> [host |-> given[k][h], cont |-> Requests(c[k])[h].cont]]
        BY <1>1, AllocIs DEF all, given
      <4> QED BY <4>2, <1>1
    <3>2. DOMAIN given[k] = 1..0
      BY <2>1
    <3>3. all[n] = [h \in 1..0 |-> [host |-> given[k][h], cont |-> Requests(i)[h].cont]]
      BY <3>1, <3>2
    <3>4. all[n] \in [1..0 -> Port]
      BY <3>3
    <3> QED BY <3>4, FnSeq
  <2>4. i.kind # "pinned"
    BY <1>1, <1>4, PinnedRequests
  <2> QED BY <2>2, <2>3, <2>4, <1>4 DEF i, all, Hosts
<1>5. CASE Pass(i) # 0
  <2>1. Requests(i) \in Seq(Request) /\ \A h \in DOMAIN Requests(i) : Requests(i)[h] \in [host : DeclaredPort, cont : Port]
    BY <1>1, <1>5, PassedRequests
  <2> DEFINE m == Len(Requests(i))
  <2>2. m \in Nat /\ DOMAIN Requests(i) = 1..m
    BY <2>1
  <2> HIDE DEF m
  <2>3. ASSUME NEW h \in 1..m
        PROVE  /\ ports[h] \in [host : Port, cont : Port]
               /\ ports[h].host = given[k][h] /\ ports[h].cont = Requests(i)[h].cont
               /\ given[k][h] \in Port
               /\ Requests(i)[h].host > 0 => given[k][h] = Requests(i)[h].host
    <3>1. Requests(i)[h] \in [host : DeclaredPort, cont : Port]
      BY <2>1, <2>2
    <3>2. ports[h] = [host |-> given[k][h], cont |-> Requests(i)[h].cont]
      BY <1>2, <1>3, <1>5, <2>2
    <3>3. given[k][h] \in Port /\ (Requests(i)[h].host > 0 => given[k][h] = Requests(i)[h].host)
      BY <1>3, <1>5, <2>2
    <3> HIDE DEF ports
    <3> QED BY <3>1, <3>2, <3>3
  <2>4. DOMAIN ports = 1..m
    BY <1>2, <1>3, <1>5, <2>2
  <2>5. ports \in [1..m -> [host : Port, cont : Port]]
    <3>1. ports = [h \in DOMAIN given[k] |-> [host |-> given[k][h], cont |-> Requests(c[k])[h].cont]]
      <4>1. all[c[k].name] = [h \in DOMAIN given[k] |-> [host |-> given[k][h], cont |-> Requests(c[k])[h].cont]]
        BY <1>1, AllocIs DEF all, given
      <4> QED BY <4>1, <1>1
    <3> HIDE DEF ports
    <3> QED BY <3>1, <2>3, <2>4
  <2> HIDE DEF ports
  <2>6. ports \in Seq([host : Port, cont : Port]) /\ Len(ports) = m
    BY <2>5, <2>2, FnSeq
  <2>7. Hosts(ports) \subseteq Port
    BY <2>3, <2>4 DEF Hosts
  <2>8. ASSUME Explicit(i), Len(ports) = 1 PROVE ports[1].host = Requests(i)[1].host
    <3>1. m = 1
      BY <2>6, <2>8
    <3>2. Requests(i)[1].host > 0
      <4>1. CASE i.kind = "pinned"
        <5>1. Requests(i) \in Seq([host : Port, cont : Port])
          BY <1>1, <4>1, PinnedRequests
        <5>2. 1 \in DOMAIN Requests(i)
          BY <2>2, <3>1
        <5>3. Requests(i)[1] \in [host : Port, cont : Port]
          BY <5>1, <5>2, ElementIs
        <5>4. Requests(i)[1].host \in Port
          BY <5>3
        <5> QED BY <5>4, PortIs
      <4>2. CASE i.kind = "host" /\ i.port > 0
        BY <4>2, <1>1, HostRequests
      <4>3. i.kind # "docker"
        BY <1>1, <1>5, OtherRequests
      <4> QED BY <2>8, <4>1, <4>2, <4>3 DEF Explicit, IsService
    <3> QED BY <3>1, <3>2, <2>3
  <2>9. Fits(i, ports)
    BY <2>2, <2>3, <2>4, <2>6, <2>8 DEF Fits
  <2>10. ASSUME i.kind = "pinned" PROVE ports = assignExplicitDepPorts(i)
    <3>1. Requests(i) \in Seq([host : Port, cont : Port]) /\ Requests(i) = assignExplicitDepPorts(i)
      BY <1>1, <2>10, PinnedRequests
    <3>2. ASSUME NEW h \in 1..m PROVE ports[h] = Requests(i)[h]
      <4>1. Requests(i)[h] \in [host : Port, cont : Port]
        BY <2>2, <3>1, ElementIs
      <4>2. Requests(i)[h].host > 0
        <5>1. Requests(i)[h].host \in Port
          BY <4>1
        <5> QED BY <5>1, PortIs
      <4>3. ports[h].host = Requests(i)[h].host /\ ports[h].cont = Requests(i)[h].cont
        BY <2>3, <4>2
      <4>4. ports[h] \in [host : Port, cont : Port]
        BY <2>3
      <4> QED BY <4>1, <4>3, <4>4
    <3>3. ports = Requests(i)
      <4>1. Requests(i) \in Seq([host : Port, cont : Port]) /\ DOMAIN Requests(i) = 1..m
        BY <3>1, <2>2
      <4> QED BY <4>1, <2>2, <2>5, <3>2, SameSeq
    <3> QED BY <3>1, <3>3
  <2> QED BY <2>7, <2>9, <2>10, <1>5 DEF ports, i, all
<1> QED BY <1>4, <1>5

-----------------------------------------------------------------------------
(* The ports that are chosen are apart, and a service keeps the one it     *)
(* has.                                                                    *)

LEMMA ChosenHosts ==
  ASSUME NEW c, Config(c), NEW busy,
         NEW owned, \A n \in Names(c) : owned[n] \in SUBSET Port,
         AllocateHostPortsOwned(c, owned, busy).ok,
         NEW k \in DOMAIN c
  PROVE  Hosts(AllocateHostPortsOwned(c, owned, busy).ports[c[k].name]) = Range(Given(c, owned, busy)[k])
<1> DEFINE ports == AllocateHostPortsOwned(c, owned, busy).ports[c[k].name]
           got == Given(c, owned, busy)[k]
<1>1. /\ DOMAIN ports = DOMAIN got
      /\ \A h \in DOMAIN got : ports[h] = [host |-> got[h], cont |-> Requests(c[k])[h].cont]
  BY ChosenIs
<1> HIDE DEF ports, got
<1>2. \A h \in DOMAIN got : ports[h].host = got[h]
  BY <1>1
<1>3. Hosts(ports) = Range(got)
  BY <1>1, <1>2 DEF Hosts, Range
<1> QED BY <1>3 DEF ports, got

\* No two items are given the same port.
LEMMA ChosenApart ==
  ASSUME NEW c, Config(c), NEW busy,
         NEW owned, \A n \in Names(c) : owned[n] \in SUBSET Port,
         AllocateHostPortsOwned(c, owned, busy).ok,
         NEW m \in Names(c), NEW n \in Names(c), m # n
  PROVE  LET ports == AllocateHostPortsOwned(c, owned, busy).ports
         IN Hosts(ports[m]) \cap Hosts(ports[n]) = {}
<1> DEFINE given == Given(c, owned, busy)
<1>1. PICK k \in DOMAIN c : c[k].name = m
  BY ItemIs
<1>2. PICK l \in DOMAIN c : c[l].name = n
  BY ItemIs
<1>3. DOMAIN c = 1..Len(c) /\ Len(c) \in Nat
  BY ItemIs
<1>4. k \in Nat /\ l \in Nat /\ k # l
  BY <1>1, <1>2, <1>3
<1>5. Pass(c[k]) \in 0..5 /\ Pass(c[l]) \in 0..5
  BY PassType
<1>6. \A j \in {k, l} : 0 \notin Range(given[j])
  BY ChosenIs
<1>7. ASSUME NEW i \in {k, l}, NEW j \in {k, l}, j \in Earlier(c, i)
      PROVE  Range(given[i]) \cap Range(given[j]) = {}
  <2>1. Pass(c[i]) # 0
    BY <1>5, <1>7 DEF Earlier
  <2>2. \A h \in DOMAIN given[i] : given[i][h] \notin Range(given[j])
    BY <1>6, <1>7, <2>1, GivenFits
  <2> HIDE DEF given
  <2> QED BY <2>2 DEF Range
<1>8. CASE Pass(c[k]) = 0
  <2>1. given[k] = <<>>
    BY <1>8, GivenFits
  <2>2. Range(given[k]) = {}
    BY <2>1 DEF Range
  <2>3. Hosts(AllocateHostPortsOwned(c, owned, busy).ports[m]) = {}
    BY <1>1, <2>2, ChosenHosts
  <2> QED BY <2>3
<1>9. CASE Pass(c[l]) = 0
  <2>1. given[l] = <<>>
    BY <1>9, GivenFits
  <2>2. Range(given[l]) = {}
    BY <2>1 DEF Range
  <2>3. Hosts(AllocateHostPortsOwned(c, owned, busy).ports[n]) = {}
    BY <1>2, <2>2, ChosenHosts
  <2> QED BY <2>3
<1>10. CASE Pass(c[k]) # 0 /\ Pass(c[l]) # 0
  <2>1. k \in Earlier(c, l) \/ l \in Earlier(c, k)
    BY <1>4, <1>5, <1>10 DEF Earlier
  <2>2. Range(given[k]) \cap Range(given[l]) = {}
    BY <1>7, <2>1
  <2>3. /\ Hosts(AllocateHostPortsOwned(c, owned, busy).ports[m]) = Range(given[k])
        /\ Hosts(AllocateHostPortsOwned(c, owned, busy).ports[n]) = Range(given[l])
    BY <1>1, <1>2, ChosenHosts
  <2> QED BY <2>2, <2>3
<1> QED BY <1>8, <1>9, <1>10

\* The ports that go before those of an item.
TakenBefore(c, owned, busy, k, T) ==
    /\ Given(c, owned, busy)[k] = Served(c[k], T, owned[c[k].name], busy)
    /\ \A y \in T : \E j \in Earlier(c, k) : y \in Range(Given(c, owned, busy)[j])

LEMMA GivenAfter ==
  ASSUME NEW c, Config(c), NEW owned, NEW busy, NEW k \in DOMAIN c
  PROVE  \E T : TakenBefore(c, owned, busy, k, T)
<1>1. PICK T : /\ Given(c, owned, busy)[k] = Served(c[k], T, owned[c[k].name], busy)
               /\ \A j \in Earlier(c, k) : Range(Given(c, owned, busy)[j]) \subseteq T
               /\ \A y \in T : \E j \in Earlier(c, k) : y \in Range(Given(c, owned, busy)[j])
  BY GivenOf
<1>2. TakenBefore(c, owned, busy, k, T)
  BY <1>1 DEF TakenBefore
<1> QED BY <1>2

LEMMA PassThree ==
  ASSUME NEW i, Item(i)
  PROVE  /\ Pass(i) = 3 => i.kind = "host" /\ i.port = 0 /\ inferServicePort(i) > 0
         /\ Pass(i) = 1 => i.kind = "host" /\ i.port > 0
         /\ Pass(i) = 2 => i.kind = "pinned"
<1>1. CASE i.kind = "host"
  <2>1. Pass(i) = IF i.port > 0 THEN 1 ELSE IF inferServicePort(i) > 0 THEN 3 ELSE 0
    BY <1>1, HostRequests
  <2>2. i.port \in Nat
    BY <1>1, HostRequests, PortNat
  <2> QED BY <1>1, <2>1, <2>2
<1>2. CASE i.kind = "pinned"
  BY <1>2, PinnedRequests
<1>3. CASE i.kind = "auto"
  BY <1>3, AutoRequests
<1>4. CASE i.kind = "legacy"
  BY <1>4, LegacyRequests
<1>5. CASE i.kind \in {"docker", "sibling"}
  BY <1>5, OtherRequests
<1> QED BY <1>1, <1>2, <1>3, <1>4, <1>5, Kinds

\* A host service whose port nobody named keeps the only port it listens on,
\* unless that is below the one it would like or named by another item.
LEMMA ChosenKeeps ==
  ASSUME NEW c, Config(c), NEW busy,
         NEW owned, \A m \in Names(c) : owned[m] \in SUBSET Port /\ owned[m] \subseteq busy,
         \A l, m \in Names(c) : l # m => owned[l] \cap owned[m] = {},
         AllocateHostPortsOwned(c, owned, busy).ok,
         NEW n \in Names(c), ItemOf(c, n).kind = "host", ItemOf(c, n).port = 0,
         NEW x \in Port, owned[n] = {x}, x >= inferServicePort(ItemOf(c, n)),
         inferServicePort(ItemOf(c, n)) > 0,
         \A j \in Range(c) : /\ j.kind = "host" => j.port # x
                             /\ j.kind = "pinned" => x \notin Range(j.hosts)
  PROVE  Hosts(AllocateHostPortsOwned(c, owned, busy).ports[n]) = {x}
<1> DEFINE i == ItemOf(c, n)
           given == Given(c, owned, busy)
<1>1. PICK k \in DOMAIN c : c[k].name = n /\ i = c[k] /\ Item(i)
  BY ItemIs
<1>2. Pass(i) = 3
  <2>1. ~ (i.port > 0)
    OBVIOUS
  <2> QED BY <1>1, <2>1, HostRequests
<1>3. PICK T : /\ given[k] = Served(i, T, owned[n], busy)
               /\ \A y \in T : \E j \in Earlier(c, k) : y \in Range(given[j])
  <2>1. PICK T : TakenBefore(c, owned, busy, k, T)
    BY GivenAfter
  <2> HIDE DEF i
  <2>2. /\ given[k] = Served(c[k], T, owned[c[k].name], busy)
        /\ \A y \in T : \E j \in Earlier(c, k) : y \in Range(given[j])
    BY <2>1 DEF TakenBefore
  <2> HIDE DEF given
  <2>3. given[k] = Served(i, T, owned[n], busy)
    BY <2>2, <1>1
  <2> QED BY <2>2, <2>3
<1>4. \A m \in Names(c) : owned[m] \in SUBSET Port
  OBVIOUS
<1>5. ASSUME x \in T PROVE FALSE
  <2>1. PICK j \in Earlier(c, k) : x \in Range(given[j])
    BY <1>3, <1>5
  <2>2. j \in DOMAIN c /\ Pass(c[j]) # 0 /\ Pass(c[j]) \in {1, 2, 3} /\ j # k
    <3>1. Pass(c[j]) \in 0..5 /\ DOMAIN c = 1..Len(c) /\ Len(c) \in Nat
      BY PassType, ItemIs
    <3>2. Pass(c[k]) = 3
      BY <1>1, <1>2
    <3> QED BY <3>1, <3>2, <2>1 DEF Earlier
  <2>3. PICK h \in DOMAIN given[j] : given[j][h] = x
    BY <2>1 DEF Range
  <2>4. 0 \notin Range(given[j]) /\ Item(c[j]) /\ c[j] \in Range(c) /\ c[j].name \in Names(c)
    <3>1. 0 \notin Range(given[j])
      BY <2>2, <1>4, ChosenIs
    <3>2. Item(c[j]) /\ c[j].name \in Names(c)
      BY <2>2, ItemIs
    <3> QED BY <3>1, <3>2, <2>2 DEF Range
  <2>5. /\ DOMAIN given[j] = DOMAIN Requests(c[j])
        /\ Requests(c[j])[h].host > 0 => x = Requests(c[j])[h].host
        /\ Requests(c[j])[h].host = 0 => \/ Pass(c[j]) = 3 /\ x \in owned[c[j].name]
                                         \/ x \notin busy
    BY <2>2, <2>3, <2>4, <1>4, GivenFits
  <2>6. c[j].name # n
    BY <1>1, <2>2 DEF Config
  <2>7. x \in busy /\ x \notin owned[c[j].name]
    BY <2>4, <2>6
  <2>8. CASE Pass(c[j]) = 1
    <3>1. c[j].kind = "host" /\ c[j].port > 0 /\ DOMAIN Requests(c[j]) = 1..1 /\ Requests(c[j])[1].host = c[j].port
      BY <2>4, <2>8, PassThree, HostRequests
    <3>2. h = 1
      BY <2>3, <2>5, <3>1
    <3>3. x = c[j].port
      BY <2>5, <3>1, <3>2
    <3> QED BY <3>1, <3>3, <2>4
  <2>9. CASE Pass(c[j]) = 2
    <3>1. c[j].kind = "pinned" /\ Requests(c[j]) = assignExplicitDepPorts(c[j])
      BY <2>4, <2>9, PassThree, PinnedRequests
    <3>2. h \in DOMAIN assignExplicitDepPorts(c[j])
      BY <2>3, <2>5, <3>1
    <3>3. h \in DOMAIN c[j].hosts /\ Requests(c[j])[h].host = c[j].hosts[h]
      BY <3>1, <3>2 DEF assignExplicitDepPorts
    <3>4. c[j].hosts[h] \in Port
      <4>1. c[j].hosts \in Seq(Port)
        BY <2>4, <3>1 DEF Item
      <4> QED BY <4>1, <3>3, ElementIs
    <3>5. x = c[j].hosts[h]
      BY <3>3, <3>4, <2>5, PortIs
    <3> QED BY <3>1, <3>3, <3>5, <2>4 DEF Range
  <2>10. CASE Pass(c[j]) = 3
    <3>1. c[j].kind = "host" /\ c[j].port = 0 /\ DOMAIN Requests(c[j]) = 1..1 /\ Requests(c[j])[1].host = c[j].port
      BY <2>4, <2>10, PassThree, HostRequests
    <3>2. Requests(c[j])[h].host = 0
      BY <2>3, <2>5, <3>1
    <3> QED BY <3>2, <2>5, <2>7
  <2> QED BY <2>2, <2>8, <2>9, <2>10
<1> DEFINE got == Served(i, T, owned[n], busy)
<1>6. DOMAIN got = 1..1 /\ got[1] = x
  BY <1>1, <1>2, <1>5, ServedKeeps
<1>7. Range(given[k]) = {x}
  <2> HIDE DEF got, given
  <2>1. given[k] = got
    BY <1>3 DEF got
  <2> QED BY <2>1, <1>6 DEF Range
<1> QED BY <1>1, <1>4, <1>7, ChosenHosts

-----------------------------------------------------------------------------
(* What stays true of an `up` when others start and stop things.           *)

LEMMA KeyIs ==
  ASSUME NEW p \in Project, NEW q \in Project, NEW m, NEW n
  PROVE  /\ Key(p, n).name = n /\ Key(p, n).owner = (IF n \in Shared THEN Workspace ELSE p)
         /\ Key(p, m) = Key(q, n) => m = n /\ (p = q \/ n \in Shared)
         /\ n \in Shared => Key(p, n) = Key(q, n)
         /\ Key(p, n).owner = p <=> n \notin Shared
<1>1. Workspace \notin Project
  BY PortAllocAssumption
<1> QED BY <1>1 DEF Key

LEMMA NotKeys ==
  /\ Nobody \notin Keys /\ Intruder \notin Keys /\ Nobody \notin Project
  /\ Workspace \notin Project
BY PortAllocAssumption, PlansAssumption

LEMMA FitsHosts ==
  ASSUME NEW i, NEW ports, Fits(i, ports)
  PROVE  /\ Hosts(ports) \subseteq Port /\ Insides(ports) \subseteq Port
         /\ ports \in Seq([host : Port, cont : Port])
<1>1. ports \in Seq([host : Port, cont : Port])
  BY DEF Fits
<1>2. ASSUME NEW k \in DOMAIN ports PROVE ports[k].host \in Port /\ ports[k].cont \in Port
  <2>1. ports[k] \in [host : Port, cont : Port]
    BY <1>1, ElementIs
  <2> QED BY <2>1
<1> QED BY <1>1, <1>2 DEF Hosts, Insides

LEMMA NoPortsHosts ==
  Hosts(<<>>) = {} /\ Insides(<<>>) = {}
BY DEF Hosts, Insides

\* A service of a project is not shared.
LEMMA ServiceIsOwn ==
  ASSUME NEW i, Item(i), IsService(i)
  PROVE  i.name \notin Shared
BY DEF Item, IsService

\* The ports that are allocated for an item exist.
LEMMA ItemPortsType ==
  ASSUME NEW p \in Project, HasPorts(p), AllocFits(p), NEW n \in Names(cfg[p])
  PROVE  ItemPorts(p, n) \subseteq Port
<1> DEFINE i == ItemOf(cfg[p], n)
<1>1. IF Pass(i) = 0 THEN alloc[p][n] = <<>> ELSE Fits(i, alloc[p][n])
  BY DEF AllocFits
<1> HIDE DEF i
<1>2. CASE Pass(i) = 0
  BY <1>1, <1>2, NoPortsHosts DEF ItemPorts
<1>3. CASE Pass(i) # 0
  BY <1>1, <1>3, FitsHosts DEF ItemPorts
<1> QED BY <1>2, <1>3

\* What an `up` has chosen stays right when others start and stop things.
LEMMA Others ==
  ASSUME NEW p \in Project, RunInv(p), Config(cfg[p]),
         cfg'[p] = cfg[p], pc'[p] = pc[p], alloc'[p] = alloc[p], left'[p] = left[p],
         adopted'[p] = adopted[p], why'[p] = why[p],
         \A n \in Names(cfg[p]) :
            \/ life'[Key(p, n)] = life[Key(p, n)]
            \/ ~life'[Key(p, n)].on /\ (n \in Shared => ~HasReused(p))
            \/ n \in Shared /\ ~life[Key(p, n)].on /\ life'[Key(p, n)].on,
         \A n \in Names(cfg[p]) : \A x \in Port :
            n \notin Shared /\ occ[x] = Key(p, n) /\ life'[Key(p, n)].on => occ'[x] = Key(p, n)
  PROVE  RunInv(p)'
<1>0. AllocFits(p) /\ Adopts(p) /\ Apart(p) /\ HostsKept(p) /\ DepsKept(p) /\ AbsentNoted(p)
  BY DEF RunInv
<1>1. AllocFits(p)'
  BY <1>0 DEF AllocFits, HasPorts
<1>2. \A n \in Names(cfg[p]) : ItemOf(cfg[p], n).kind = "host" => n \notin Shared
  BY ItemIs, ServiceIsOwn DEF IsService
<1>3. Adopts(p)'
  <2> SUFFICES ASSUME pc[p] \notin {"idle", "up"}, NEW n \in Names(cfg[p]),
                      ItemOf(cfg[p], n).kind = "host", life'[Key(p, n)].on, pc[p] = "starting" => n \in left[p]
               PROVE  n \in adopted[p]
    BY DEF Adopts
  <2>1. life'[Key(p, n)] = life[Key(p, n)]
    BY <1>2
  <2> QED BY <2>1, <1>0 DEF Adopts
<1>4. Apart(p)'
  BY <1>0 DEF Apart, HasPorts, ItemPorts, Is
<1>5. HostsKept(p)'
  <2> SUFFICES ASSUME HasPorts(p), NEW n \in Names(cfg[p]),
                      ItemOf(cfg[p], n).kind = "host", life'[Key(p, n)].on,
                      ~Changed(p, n)', ~Unallocated(p, n)', ~Is(p, n, "unseen")'
               PROVE  /\ ItemPorts(p, n)' = Hosts(life'[Key(p, n)].ports)
                      /\ pc[p] # "starting" /\ ItemOf(cfg[p], n).port = 0 =>
                            \A x \in ItemPorts(p, n)' : occ'[x] = Key(p, n)
    BY DEF HostsKept, HasPorts
  <2>1. life'[Key(p, n)] = life[Key(p, n)] /\ n \notin Shared
    BY <1>2
  <2>2. ~Changed(p, n) /\ ~Unallocated(p, n) /\ ~Is(p, n, "unseen") /\ ItemPorts(p, n)' = ItemPorts(p, n)
    BY <2>1 DEF Changed, Unallocated, Is, ItemPorts
  <2>3. /\ ItemPorts(p, n) = Hosts(life[Key(p, n)].ports)
        /\ pc[p] # "starting" /\ ItemOf(cfg[p], n).port = 0 => \A x \in ItemPorts(p, n) : occ[x] = Key(p, n)
    BY <2>1, <2>2, <1>0 DEF HostsKept
  <2>4. ItemPorts(p, n) \subseteq Port
    BY <1>0, ItemPortsType
  <2> QED BY <2>1, <2>2, <2>3, <2>4
<1>6. DepsKept(p)'
  <2> SUFFICES ASSUME HasReused(p), NEW n \in Names(cfg[p]),
                      ItemOf(cfg[p], n).kind # "host", life'[Key(p, n)].on,
                      ~Changed(p, n)', ~Misread(p, n)', ~Is(p, n, "absent")'
               PROVE  /\ ItemPorts(p, n)' \subseteq Hosts(life'[Key(p, n)].ports)
                      /\ Insides(alloc'[p][n]) \subseteq Insides(life'[Key(p, n)].ports)
    BY DEF DepsKept, HasReused
  <2>1. ~Is(p, n, "absent") /\ ItemPorts(p, n)' = ItemPorts(p, n)
    BY DEF Is, ItemPorts
  <2>2. n \in Shared => life[Key(p, n)].on
    BY <1>0, <2>1 DEF AbsentNoted
  <2>3. life'[Key(p, n)] = life[Key(p, n)]
    BY <2>2
  <2>4. ~Changed(p, n) /\ ~Misread(p, n)
    BY <2>3 DEF Changed, Misread
  <2> QED BY <2>1, <2>3, <2>4, <1>0 DEF DepsKept
<1>7. AbsentNoted(p)'
  <2> SUFFICES ASSUME HasReused(p), NEW n \in Names(cfg[p]) \cap Shared, ~life'[Key(p, n)].on
               PROVE  Is(p, n, "absent")
    BY DEF AbsentNoted, HasReused, Is
  <2>1. life'[Key(p, n)] = life[Key(p, n)]
    OBVIOUS
  <2> QED BY <2>1, <1>0 DEF AbsentNoted
<1> QED BY <1>1, <1>3, <1>4, <1>5, <1>6, <1>7 DEF RunInv

\* Nothing is asked of a project that has no `up` on its way.
LEMMA AtRest ==
  ASSUME NEW p \in Project, pc'[p] \in {"idle", "up"}
  PROVE  RunInv(p)'
BY DEF RunInv, AllocFits, Adopts, Apart, HostsKept, DepsKept, AbsentNoted, HasPorts, HasReused

-----------------------------------------------------------------------------
(* The steps of `up`, up to the start of what it is for.                   *)

\* Nothing of p's run is written.
SameRun(p) ==
    /\ pc'[p] = pc[p] /\ alloc'[p] = alloc[p] /\ todo'[p] = todo[p]
    /\ left'[p] = left[p] /\ adopted'[p] = adopted[p] /\ why'[p] = why[p]

Wholes ==
    /\ DOMAIN alloc = Project /\ DOMAIN todo = Project
    /\ DOMAIN left = Project /\ DOMAIN adopted = Project /\ DOMAIN why = Project

LEMMA SameRunTypeOK ==
  ASSUME NEW p \in Project, RunTypeOK(p), cfg'[p] = cfg[p], SameRun(p)
  PROVE  RunTypeOK(p)'
BY DEF RunTypeOK, SameRun, HasPorts

\* A step of p's `up` that starts nothing and stops nothing.
LEMMA RunStep ==
  ASSUME PortsInv, NEW p \in Project, occ' = occ, known' \subseteq Project, life' = life,
         DOMAIN cfg' = Project, \A q \in Project \ {p} : cfg'[q] = cfg[q],
         \A q \in Project \ {p} : SameRun(q),
         pc' \in [Project -> PortsPC], Wholes', portsLock' \in Project \cup {Nobody},
         RunTypeOK(p)', RunInv(p)'
  PROVE  PortsInv'
<1>0. PortsTypeOK /\ LifeFits /\ Bound /\ \A q \in Project : RunInv(q)
  BY DEF PortsInv
<1>1. occ' = occ /\ known' \subseteq Project /\ life' = life /\ DOMAIN cfg' = Project
  OBVIOUS
<1>2. LifeFits'
  BY <1>0, <1>1 DEF LifeFits
<1>3. Bound'
  BY <1>0, <1>1 DEF Bound
<1>4. ASSUME NEW q \in Project PROVE RunTypeOK(q)' /\ RunInv(q)'
  <2>1. CASE q = p
    BY <2>1
  <2>2. CASE q # p
    <3>1. RunTypeOK(q) /\ RunInv(q) /\ SameRun(q)
      BY <1>0, <2>2 DEF PortsTypeOK
    <3>0. cfg'[q] = cfg[q]
      BY <2>2
    <3>2. RunTypeOK(q)'
      BY <3>0, <3>1, SameRunTypeOK
    <3>3. Config(cfg[q])
      BY <3>1 DEF RunTypeOK
    <3>4. RunInv(q)'
      BY <3>0, <3>1, <3>3, <1>1, Others DEF SameRun
    <3> QED BY <3>2, <3>4
  <2> QED BY <2>1, <2>2
<1>5. ASSUME NEW k \in Keys PROVE LifeTypeOK(k)'
  <2>1. LifeTypeOK(k)
    BY <1>0 DEF PortsTypeOK
  <2> QED BY <2>1, <1>1 DEF LifeTypeOK
<1>6. PortsTypeOK'
  BY <1>0, <1>1, <1>4, <1>5 DEF PortsTypeOK, Wholes
<1> QED BY <1>2, <1>3, <1>4, <1>6 DEF PortsInv

LEMMA UpStep ==
  ASSUME PortsInv, NEW p \in Project, UNCHANGED upRest,
         \A q \in Project \ {p} : SameRun(q),
         pc' \in [Project -> PortsPC], Wholes', portsLock' \in Project \cup {Nobody},
         RunTypeOK(p)', RunInv(p)'
  PROVE  PortsInv'
<1>1. DOMAIN cfg = Project /\ known \subseteq Project
  BY DEF PortsInv, PortsTypeOK
<1> QED BY <1>1, RunStep DEF upRest

LEMMA Types ==
  ASSUME PortsInv, NEW p \in Project
  PROVE  /\ RunTypeOK(p) /\ RunInv(p) /\ Wholes /\ pc \in [Project -> PortsPC] /\ portsLock \in Project \cup {Nobody}
         /\ Config(cfg[p]) /\ DOMAIN cfg = Project
         /\ AllocFits(p) /\ Adopts(p) /\ Apart(p) /\ HostsKept(p) /\ DepsKept(p) /\ AbsentNoted(p)
BY DEF PortsInv, PortsTypeOK, Wholes, RunTypeOK, RunInv

LEMMA Begins ==
  ASSUME PortsInv, NEW p \in Project, runningHostServices(p)
  PROVE  PortsInv'
<1>0. RunTypeOK(p) /\ Wholes /\ pc \in [Project -> PortsPC] /\ portsLock \in Project \cup {Nobody} /\ DOMAIN cfg = Project
  BY Types
<1> DEFINE seen == {n \in Names(cfg[p]) : ItemOf(cfg[p], n).kind = "host" /\ life[Key(p, n)].on}
<1>1. /\ pc' = [pc EXCEPT ![p] = "waiting"] /\ adopted' = [adopted EXCEPT ![p] = seen]
      /\ why' = [why EXCEPT ![p] = {}] /\ alloc' = [alloc EXCEPT ![p] = NoPorts]
      /\ UNCHANGED <<upRest, portsLock, todo, left>>
  BY DEF runningHostServices
<1>2. pc'[p] = "waiting" /\ adopted'[p] = seen /\ why'[p] = {}
  <2> HIDE DEF seen
  <2> QED BY <1>0, <1>1 DEF Wholes
<1>3. cfg' = cfg /\ life' = life /\ todo' = todo /\ left' = left
  BY <1>1 DEF upRest
<1>4. RunTypeOK(p)'
  BY <1>0, <1>2, <1>3 DEF RunTypeOK, HasPorts
<1>5. Adopts(p)'
  BY <1>2, <1>3 DEF Adopts
<1>6. RunInv(p)'
  BY <1>5, <1>2 DEF RunInv, AllocFits, Apart, HostsKept, DepsKept, AbsentNoted, HasPorts, HasReused
<1>7. Wholes' /\ pc' \in [Project -> PortsPC] /\ \A q \in Project \ {p} : SameRun(q)
  <2> HIDE DEF seen
  <2> QED BY <1>0, <1>1 DEF Wholes, PortsPC, SameRun
<1> QED BY <1>0, <1>1, <1>4, <1>6, <1>7, UpStep

LEMMA Acquires ==
  ASSUME PortsInv, NEW p \in Project, acquirePortsLock(p)
  PROVE  PortsInv'
<1>0. RunTypeOK(p) /\ Adopts(p) /\ Wholes /\ pc \in [Project -> PortsPC] /\ portsLock \in Project \cup {Nobody} /\ DOMAIN cfg = Project
  BY Types
<1>1. /\ pc[p] = "waiting" /\ pc' = [pc EXCEPT ![p] = "choosing"]
      /\ portsLock' \in {portsLock, p}
      /\ UNCHANGED <<upRest, alloc, todo, left, adopted, why>>
  BY DEF acquirePortsLock
<1>2. pc'[p] = "choosing"
  BY <1>0, <1>1
<1>3. cfg' = cfg /\ life' = life
  BY <1>1 DEF upRest
<1>4. RunTypeOK(p)'
  BY <1>0, <1>1, <1>2, <1>3 DEF RunTypeOK, HasPorts
<1>5. Adopts(p)'
  BY <1>0, <1>1, <1>2, <1>3 DEF Adopts
<1>6. RunInv(p)'
  BY <1>5, <1>2 DEF RunInv, AllocFits, Apart, HostsKept, DepsKept, AbsentNoted, HasPorts, HasReused
<1>7. Wholes' /\ pc' \in [Project -> PortsPC] /\ \A q \in Project \ {p} : SameRun(q)
  BY <1>0, <1>1 DEF Wholes, PortsPC, SameRun
<1>8. portsLock' \in Project \cup {Nobody}
  BY <1>0, <1>1
<1> QED BY <1>1, <1>4, <1>6, <1>7, <1>8, UpStep

\* An `up` that gives up.
LEMMA Stops ==
  ASSUME PortsInv, NEW p \in Project, Ends(p), UNCHANGED upRest,
         pc' = [pc EXCEPT ![p] = "idle"], portsLock' \in {portsLock, Nobody}
  PROVE  PortsInv'
<1>0. RunTypeOK(p) /\ Wholes /\ pc \in [Project -> PortsPC] /\ portsLock \in Project \cup {Nobody} /\ DOMAIN cfg = Project
  BY Types
<1>1. pc'[p] = "idle" /\ todo'[p] = {} /\ left'[p] = {} /\ adopted'[p] = {} /\ why'[p] = {} /\ cfg' = cfg
  BY <1>0 DEF Ends, Wholes, upRest
<1>2. RunTypeOK(p)'
  BY <1>0, <1>1 DEF RunTypeOK, HasPorts
<1>3. RunInv(p)'
  BY <1>1, AtRest
<1>4. Wholes' /\ pc' \in [Project -> PortsPC] /\ \A q \in Project \ {p} : SameRun(q)
  BY <1>0 DEF Ends, Wholes, PortsPC, SameRun
<1>5. portsLock' \in Project \cup {Nobody}
  BY <1>0
<1> QED BY <1>2, <1>3, <1>4, <1>5, UpStep

LEMMA GivesUp ==
  ASSUME PortsInv, NEW p \in Project, GiveUp(p)
  PROVE  PortsInv'
BY Stops DEF GiveUp, Release

LEMMA FailsToStart ==
  ASSUME PortsInv, NEW p \in Project, StartFails(p)
  PROVE  PortsInv'
BY Stops DEF StartFails

LEMMA Checks ==
  ASSUME PortsInv, NEW p \in Project, checkPortBindConflicts(p)
  PROVE  PortsInv'
<1>0. /\ RunTypeOK(p) /\ Wholes /\ pc \in [Project -> PortsPC] /\ portsLock \in Project \cup {Nobody} /\ DOMAIN cfg = Project
      /\ AllocFits(p) /\ Adopts(p) /\ Apart(p) /\ HostsKept(p) /\ DepsKept(p) /\ AbsentNoted(p)
  BY Types
<1> DEFINE met == {[name |-> n, port |-> x] : n \in DOMAIN alloc[p], x \in Busy}
            \cap UNION {{[name |-> n, port |-> x] : x \in Hosts(alloc[p][n])}
                            : n \in DOMAIN alloc[p]}
<1>1. /\ pc[p] = "checking" /\ pc' = [pc EXCEPT ![p] = "resolving"]
      /\ todo' = [todo EXCEPT ![p] = met]
      /\ UNCHANGED <<upRest, portsLock, alloc, left, adopted, why>>
  BY DEF checkPortBindConflicts
<1>2. pc'[p] = "resolving" /\ todo'[p] = met
  <2> HIDE DEF met
  <2> QED BY <1>0, <1>1 DEF Wholes
<1>3. cfg' = cfg /\ life' = life /\ occ' = occ
  BY <1>1 DEF upRest
<1>4. met \subseteq [name : Names(cfg[p]), port : Port]
  <2>1. DOMAIN alloc[p] = Names(cfg[p])
    BY <1>0, <1>1 DEF RunTypeOK, HasPorts
  <2>2. Busy \subseteq Port
    BY DEF Busy
  <2> QED BY <2>1, <2>2
<1>5. RunTypeOK(p)'
  <2> HIDE DEF met
  <2> QED BY <1>0, <1>1, <1>2, <1>3, <1>4 DEF RunTypeOK, HasPorts
<1> HIDE DEF met
<1>6. AllocFits(p)'
  BY <1>0, <1>1, <1>2, <1>3 DEF AllocFits, HasPorts
<1>7. Adopts(p)' /\ AbsentNoted(p)'
  BY <1>0, <1>1, <1>2, <1>3 DEF Adopts, AbsentNoted, HasReused, Is
<1>8. Apart(p)'
  BY <1>0, <1>1, <1>2, <1>3 DEF Apart, HasPorts, ItemPorts, Is
<1>9. HostsKept(p)'
  BY <1>0, <1>1, <1>2, <1>3 DEF HostsKept, HasPorts, ItemPorts, Is, Changed, Unallocated
<1>10. DepsKept(p)'
  BY <1>0, <1>1, <1>2, <1>3 DEF DepsKept, HasReused, ItemPorts, Is, Changed, Misread
<1>11. RunInv(p)'
  BY <1>6, <1>7, <1>8, <1>9, <1>10 DEF RunInv
<1>12. Wholes' /\ pc' \in [Project -> PortsPC] /\ \A q \in Project \ {p} : SameRun(q)
  BY <1>0, <1>1 DEF Wholes, PortsPC, SameRun
<1> QED BY <1>0, <1>1, <1>5, <1>11, <1>12, UpStep

LEMMA ResolvesAll ==
  ASSUME PortsInv, NEW p \in Project, Resolved(p)
  PROVE  PortsInv'
<1>0. /\ RunTypeOK(p) /\ Wholes /\ pc \in [Project -> PortsPC] /\ portsLock \in Project \cup {Nobody} /\ DOMAIN cfg = Project
      /\ AllocFits(p) /\ Adopts(p) /\ Apart(p) /\ HostsKept(p) /\ DepsKept(p) /\ AbsentNoted(p)
  BY Types
<1> DEFINE all == {n \in Names(cfg[p]) : ItemOf(cfg[p], n).kind # "sibling"}
<1>1. /\ pc[p] = "resolving" /\ pc' = [pc EXCEPT ![p] = "starting"]
      /\ left' = [left EXCEPT ![p] = all] /\ portsLock' \in {portsLock, Nobody}
      /\ UNCHANGED <<upRest, alloc, todo, adopted, why>>
  BY DEF Resolved, Release
<1>2. pc'[p] = "starting" /\ left'[p] = all
  <2> HIDE DEF all
  <2> QED BY <1>0, <1>1 DEF Wholes
<1>3. cfg' = cfg /\ life' = life /\ occ' = occ
  BY <1>1 DEF upRest
<1>4. all \subseteq Names(cfg[p])
  OBVIOUS
<1> HIDE DEF all
<1>5. RunTypeOK(p)'
  BY <1>0, <1>1, <1>2, <1>3, <1>4 DEF RunTypeOK, HasPorts
<1>6. AllocFits(p)'
  BY <1>0, <1>1, <1>2, <1>3 DEF AllocFits, HasPorts
<1>7. Adopts(p)' /\ AbsentNoted(p)'
  BY <1>0, <1>1, <1>2, <1>3 DEF Adopts, AbsentNoted, HasReused, Is
<1>8. Apart(p)'
  BY <1>0, <1>1, <1>2, <1>3 DEF Apart, HasPorts, ItemPorts, Is
<1>9. HostsKept(p)'
  BY <1>0, <1>1, <1>2, <1>3 DEF HostsKept, HasPorts, ItemPorts, Is, Changed, Unallocated
<1>10. DepsKept(p)'
  BY <1>0, <1>1, <1>2, <1>3 DEF DepsKept, HasReused, ItemPorts, Is, Changed, Misread
<1>11. RunInv(p)'
  BY <1>6, <1>7, <1>8, <1>9, <1>10 DEF RunInv
<1>12. Wholes' /\ pc' \in [Project -> PortsPC] /\ \A q \in Project \ {p} : SameRun(q)
  BY <1>0, <1>1 DEF Wholes, PortsPC, SameRun
<1>13. portsLock' \in Project \cup {Nobody}
  BY <1>0, <1>1
<1> QED BY <1>1, <1>5, <1>11, <1>12, <1>13, UpStep

LEMMA Reuses ==
  ASSUME PortsInv, NEW p \in Project, Reuse(p)
  PROVE  PortsInv'
<1>0. /\ RunTypeOK(p) /\ Wholes /\ pc \in [Project -> PortsPC] /\ portsLock \in Project \cup {Nobody} /\ DOMAIN cfg = Project
      /\ AllocFits(p) /\ Adopts(p) /\ Apart(p) /\ HostsKept(p) /\ DepsKept(p) /\ AbsentNoted(p)
  BY Types
<1>1. PICK c \in todo[p] :
        /\ pc[p] = "resolving"
        /\ todo' = [todo EXCEPT ![p] = @ \ {c}]
        /\ adopted' = [adopted EXCEPT ![p] = IF isOwnContainer(p, c.port) THEN @ ELSE @ \cup {c.name}]
        /\ UNCHANGED <<upRest, portsLock, pc, alloc, left, why>>
  BY DEF Reuse
<1>2. todo'[p] = todo[p] \ {c} /\ adopted[p] \subseteq adopted'[p] /\ adopted'[p] \subseteq adopted[p] \cup {c.name}
  BY <1>0, <1>1 DEF Wholes
<1>3. cfg' = cfg /\ life' = life /\ occ' = occ
  BY <1>1 DEF upRest
<1>4. c.name \in Names(cfg[p])
  BY <1>0 DEF RunTypeOK
<1>5. RunTypeOK(p)'
  BY <1>0, <1>1, <1>2, <1>3, <1>4 DEF RunTypeOK, HasPorts
<1>6. AllocFits(p)'
  BY <1>0, <1>1, <1>3 DEF AllocFits, HasPorts
<1>7. Adopts(p)' /\ AbsentNoted(p)'
  BY <1>0, <1>1, <1>2, <1>3 DEF Adopts, AbsentNoted, HasReused, Is
<1>8. Apart(p)'
  BY <1>0, <1>1, <1>3 DEF Apart, HasPorts, ItemPorts, Is
<1>9. HostsKept(p)'
  BY <1>0, <1>1, <1>3 DEF HostsKept, HasPorts, ItemPorts, Is, Changed, Unallocated
<1>10. DepsKept(p)'
  BY <1>0, <1>1, <1>3 DEF DepsKept, HasReused, ItemPorts, Is, Changed, Misread
<1>11. RunInv(p)'
  BY <1>6, <1>7, <1>8, <1>9, <1>10 DEF RunInv
<1>12. Wholes' /\ pc' \in [Project -> PortsPC] /\ \A q \in Project \ {p} : SameRun(q)
  BY <1>0, <1>1 DEF Wholes, SameRun
<1> QED BY <1>0, <1>1, <1>5, <1>11, <1>12, UpStep

\* What an item that runs was told, and where a host service listens.
LEMMA StartsPorts ==
  ASSUME NEW i, Item(i), NEW ports, StartsWith(i, ports)
  PROVE  /\ ports \in Seq(Request)
         /\ i.kind = "host" => Hosts(ports) = {} \/ (DOMAIN ports = 1..1 /\ Hosts(ports) = {ports[1].host})
<1>1. ASSUME NEW S \in SUBSET DeclaredPort, ports \in Seq([host : S, cont : Port]) PROVE ports \in Seq(Request)
  <2>1. [host : S, cont : Port] \subseteq Request
    BY PortNat DEF Request
  <2> QED BY <1>1, <2>1, SeqMonotonic
<1>2. CASE Fits(i, ports)
  <2>1. ports \in Seq(Request)
    BY <1>1, <1>2, PortNat DEF Fits
  <2>2. i.kind = "host" => DOMAIN ports = 1..1
    BY <1>2, HostRequests DEF Fits
  <2> QED BY <2>1, <2>2 DEF Hosts
<1>3. CASE ports = <<>>
  BY <1>3, NoPortsHosts
<1>4. CASE i.kind = "host" /\ ports = OwnPort(i)
  <2> DEFINE m == [host |-> inferServicePort(i), cont |-> 0]
  <2>1. m \in Request
    BY <1>4, HostRequests, PortNat DEF Request
  <2> HIDE DEF m
  <2>2. ports = <<m>>
    BY <1>4 DEF OwnPort, m
  <2>3. ports \in Seq(Request) /\ DOMAIN ports = 1..1
    BY <2>1, <2>2
  <2> QED BY <2>3 DEF Hosts
<1>5. CASE ports = declaredPorts(i)
  <2>1. CASE i.kind = "legacy"
    <3>1. ports = assignLegacyDepPorts(i)
      BY <1>5, <2>1 DEF declaredPorts
    <3>2. ports \in Seq([host : DeclaredPort, cont : Port])
      BY <3>1, <2>1, LegacyRequests
    <3> QED BY <3>2, <1>1, <2>1
  <2>2. CASE i.kind = "docker" /\ i.port > 0
    <3>1. ports = <<[host |-> i.port, cont |-> i.port]>> /\ i.port \in DeclaredPort
      BY <1>5, <2>2 DEF declaredPorts, Item
    <3>2. [host |-> i.port, cont |-> i.port] \in Request
      BY <3>1 DEF Request
    <3> QED BY <3>1, <3>2, <2>2
  <2>3. CASE i.kind # "legacy" /\ ~(i.kind = "docker" /\ i.port > 0)
    BY <1>3, <1>5, <2>3 DEF declaredPorts
  <2> QED BY <2>1, <2>2, <2>3
<1> QED BY <1>2, <1>4, <1>5 DEF StartsWith

\* A host service that runs, was seen and is not to change gets the port it has.
LEMMA KeepsItsPort ==
  ASSUME PortsInv, NEW p \in Project, Allocation(p).ok, NEW n \in Names(cfg[p]),
         ItemOf(cfg[p], n).kind = "host", life[Key(p, n)].on,
         ~Changed(p, n), ~Unallocated(p, n), ~Unseen(p, n)
  PROVE  /\ Hosts(Allocation(p).ports[n]) = Hosts(life[Key(p, n)].ports)
         /\ ItemOf(cfg[p], n).port = 0 => \A x \in Hosts(life[Key(p, n)].ports) : occ[x] = Key(p, n)
<1> DEFINE i == ItemOf(cfg[p], n)
           k == Key(p, n)
           ports == life[k].ports
           owned == runningHostPorts(p)
<1>1. Config(cfg[p]) /\ k \in Keys
  BY Types DEF RunTypeOK
<1>2. Item(i)
  BY <1>1, ItemIs
<1>3. life[k].from = i
  BY DEF Changed
<1>4. StartsWith(i, ports)
  BY <1>1, <1>3 DEF PortsInv, LifeFits
<1>5. /\ \A m \in Names(cfg[p]) : owned[m] \in SUBSET Port /\ owned[m] \subseteq Busy
      /\ \A l, m \in Names(cfg[p]) : l # m => owned[l] \cap owned[m] = {}
      /\ owned[n] = Listens(k)
  <2>1. \A m \in Names(cfg[p]) : Key(p, m) \in Keys
    BY Types DEF RunTypeOK
  <2>2. ASSUME NEW m \in Names(cfg[p]) PROVE owned[m] \subseteq Listens(Key(p, m))
    BY DEF runningHostPorts
  <2>3. ASSUME NEW m \in Names(cfg[p]) PROVE Listens(Key(p, m)) \subseteq Busy /\ Listens(Key(p, m)) \subseteq Port
    BY <2>1, NotKeys DEF Listens, Busy
  <2>4. ASSUME NEW l \in Names(cfg[p]), NEW m \in Names(cfg[p]), l # m
        PROVE  Listens(Key(p, l)) \cap Listens(Key(p, m)) = {}
    <3>1. Key(p, l).name = l /\ Key(p, m).name = m
      BY DEF Key
    <3>2. Key(p, l) # Key(p, m)
      BY <3>1, <2>4
    <3> QED BY <3>2 DEF Listens
  <2>5. owned[n] = Listens(k)
    BY DEF runningHostPorts
  <2> HIDE DEF owned
  <2> QED BY <2>2, <2>3, <2>4, <2>5
<1>6. AllocateHostPortsOwned(cfg[p], owned, Busy) = Allocation(p)
  BY DEF Allocation
<1> DEFINE got == Allocation(p).ports[n]
<1>7. IF Pass(i) = 0 THEN got = <<>> ELSE Fits(i, got)
  <2> HIDE DEF owned, i, got
  <2> QED BY <1>1, <1>5, <1>6, ChosenFits DEF i, got
<1>8. i.kind = "host" /\ ports # OwnPort(i)
  <2> DEFINE m == [host |-> inferServicePort(i), cont |-> 0]
  <2> HIDE DEF m
  <2>1. ASSUME ports = <<m>> PROVE m.cont # 0
    <3>1. 1 \in DOMAIN ports /\ ports[1] = m
      BY <2>1
    <3>2. \A h \in DOMAIN ports : ports[h].cont # 0
      BY DEF Unallocated
    <3>3. ports[1].cont # 0
      <4> HIDE DEF ports
      <4> QED BY <3>1, <3>2
    <3> QED BY <3>1, <3>3
  <2>2. m.cont = 0
    BY DEF m
  <2>3. OwnPort(i) = <<m>>
    BY DEF OwnPort, m
  <2> QED BY <2>1, <2>2, <2>3
<1>9. IF Pass(i) = 0 THEN ports = <<>> ELSE Fits(i, ports)
  BY <1>4, <1>8 DEF StartsWith, declaredPorts
<1>10. /\ DOMAIN Requests(i) = 1..1 /\ Requests(i)[1].host = i.port /\ i.port \in DeclaredPort
       /\ inferServicePort(i) \in DeclaredPort
       /\ Pass(i) = IF i.port > 0 THEN 1 ELSE IF inferServicePort(i) > 0 THEN 3 ELSE 0
  BY <1>2, <1>8, HostRequests
<1>11. i.port \in Nat /\ inferServicePort(i) \in Nat
  BY <1>10, PortNat
<1> HIDE DEF i, k, ports, owned, got
<1>12. CASE Pass(i) = 0
  BY <1>7, <1>9, <1>12, NoPortsHosts DEF got, ports, k
<1>13. CASE i.port > 0
  <2>1. Fits(i, ports) /\ Fits(i, got)
    BY <1>7, <1>9, <1>10, <1>13
  <2>2. ASSUME NEW s, Fits(i, s) PROVE Hosts(s) = {i.port}
    <3>1. DOMAIN s = 1..1 /\ s \in Seq([host : Port, cont : Port])
      BY <1>10, <2>2 DEF Fits
    <3>2. Len(s) = 1
      BY <3>1
    <3>3. s[1].host = i.port
      BY <1>8, <1>10, <1>13, <2>2, <3>2 DEF Fits, Explicit, IsService
    <3> QED BY <3>1, <3>3 DEF Hosts
  <2>3. Hosts(got) = Hosts(ports)
    BY <2>1, <2>2
  <2> QED BY <2>3, <1>13 DEF got, ports, k, i
<1>14. CASE i.port = 0 /\ inferServicePort(i) > 0
  <2>1. PICK x \in Listens(k) : ~(x < inferServicePort(i)) /\ ~Claimed(p, x)
    BY <1>14, <1>8 DEF Unseen, i, k
  <2>2. x \in Port /\ occ[x] = k
    BY <2>1 DEF Listens
  <2>3. \A y \in Listens(k) : y \in Hosts(ports)
    BY <1>1 DEF PortsInv, Bound, Listens, ports, k
  <2>4. Hosts(ports) = {ports[1].host}
    BY <1>2, <1>4, <1>8, <2>1, <2>3, StartsPorts DEF ports, k, i
  <2>5. Listens(k) = {x} /\ Hosts(ports) = {x}
    BY <2>1, <2>3, <2>4
  <2>6. x >= inferServicePort(i)
    BY <2>1, <2>2, <1>11, PortIs
  <2>7. \A j \in Range(cfg[p]) : /\ j.kind = "host" => j.port # x
                                 /\ j.kind = "pinned" => x \notin Range(j.hosts)
    BY <2>1 DEF Claimed
  <2>8. Hosts(got) = {x}
    <3>1. owned[n] = {x}
      BY <1>5, <2>5
    <3>2. ItemOf(cfg[p], n).kind = "host" /\ ItemOf(cfg[p], n).port = 0
      BY <1>8, <1>14 DEF i
    <3>3. x >= inferServicePort(ItemOf(cfg[p], n)) /\ inferServicePort(ItemOf(cfg[p], n)) > 0
      BY <2>6, <1>14 DEF i
    <3>4. AllocateHostPortsOwned(cfg[p], owned, Busy).ok
      BY <1>6
    <3>5. Hosts(AllocateHostPortsOwned(cfg[p], owned, Busy).ports[n]) = {x}
      BY <1>1, <1>5, <2>2, <2>7, <3>1, <3>2, <3>3, <3>4, ChosenKeeps
    <3> QED BY <3>5, <1>6 DEF got
  <2> QED BY <2>2, <2>5, <2>8 DEF got, ports, k
<1> QED BY <1>10, <1>11, <1>12, <1>13, <1>14

LEMMA Chooses ==
  ASSUME PortsInv, NEW p \in Project, Choose(p)
  PROVE  PortsInv'
<1>0. /\ RunTypeOK(p) /\ Wholes /\ pc \in [Project -> PortsPC] /\ portsLock \in Project \cup {Nobody} /\ DOMAIN cfg = Project
      /\ Adopts(p) /\ Config(cfg[p])
  BY Types
<1>1. CASE ~Allocation(p).ok
  BY <1>1, Stops DEF Choose, Release
<1>2. CASE Allocation(p).ok
  <2> DEFINE ports == Allocation(p).ports
             unseen == {n \in Names(cfg[p]) : Unseen(p, n)}
             noted == [name : unseen, cause : {"unseen"}]
  <2>1. /\ pc[p] = "choosing" /\ pc' = [pc EXCEPT ![p] = "reusing"]
        /\ alloc' = [alloc EXCEPT ![p] = ports]
        /\ why' = [why EXCEPT ![p] = @ \cup noted]
        /\ UNCHANGED <<portsLock, todo, left, adopted, upRest>>
    BY <1>2 DEF Choose, Note
  <2>2. pc'[p] = "reusing" /\ alloc'[p] = ports /\ why'[p] = why[p] \cup noted
    <3> HIDE DEF ports, noted
    <3> QED BY <1>0, <2>1 DEF Wholes
  <2>3. cfg' = cfg /\ life' = life /\ occ' = occ
    BY <2>1 DEF upRest
  <2> DEFINE owned == runningHostPorts(p)
  <2>4. \A n \in Names(cfg[p]) : owned[n] \in SUBSET Port
    BY DEF runningHostPorts, Listens
  <2>5. AllocateHostPortsOwned(cfg[p], owned, Busy) = Allocation(p)
    BY DEF Allocation
  <2> HIDE DEF owned
  <2>6. DOMAIN ports = Names(cfg[p])
    <3>1. DOMAIN AllocateHostPortsOwned(cfg[p], owned, Busy).ports = Names(cfg[p])
      BY AllocNames
    <3> QED BY <3>1, <2>5
  <2>7. ASSUME NEW n \in Names(cfg[p])
        PROVE  /\ IF Pass(ItemOf(cfg[p], n)) = 0 THEN ports[n] = <<>> ELSE Fits(ItemOf(cfg[p], n), ports[n])
               /\ ItemOf(cfg[p], n).kind = "pinned" => ports[n] = assignExplicitDepPorts(ItemOf(cfg[p], n))
    <3>1. AllocateHostPortsOwned(cfg[p], owned, Busy).ok
      BY <1>2, <2>5
    <3>2. LET i == ItemOf(cfg[p], n)
              got == AllocateHostPortsOwned(cfg[p], owned, Busy).ports[n]
          IN /\ IF Pass(i) = 0 THEN got = <<>> ELSE Fits(i, got)
             /\ i.kind = "pinned" => got = assignExplicitDepPorts(i)
      BY <1>0, <2>4, <3>1, ChosenFits
    <3> QED BY <3>2, <2>5
  <2>8. AllocFits(p)'
    <3> HIDE DEF ports, noted
    <3> QED BY <2>2, <2>3, <2>7 DEF AllocFits
  <2>9. ASSUME NEW m \in Names(cfg[p]), NEW n \in Names(cfg[p]), m # n
        PROVE  Hosts(ports[m]) \cap Hosts(ports[n]) = {}
    <3>1. AllocateHostPortsOwned(cfg[p], owned, Busy).ok
      BY <1>2, <2>5
    <3>2. LET all == AllocateHostPortsOwned(cfg[p], owned, Busy).ports
          IN Hosts(all[m]) \cap Hosts(all[n]) = {}
      BY <1>0, <2>4, <2>9, <3>1, ChosenApart
    <3> QED BY <3>2, <2>5
  <2>10. Apart(p)'
    <3> HIDE DEF ports, noted
    <3> QED BY <2>2, <2>3, <2>9 DEF Apart, ItemPorts
  <2>11. HostsKept(p)'
    <3> SUFFICES ASSUME NEW n \in Names(cfg[p]), ItemOf(cfg[p], n).kind = "host", life[Key(p, n)].on,
                        ~Changed(p, n)', ~Unallocated(p, n)', ~Is(p, n, "unseen")'
                 PROVE  /\ Hosts(ports[n]) = Hosts(life[Key(p, n)].ports)
                        /\ ItemOf(cfg[p], n).port = 0 => \A x \in Hosts(ports[n]) : occ[x] = Key(p, n)
      <4> HIDE DEF ports, noted
      <4> QED BY <2>2, <2>3 DEF HostsKept, ItemPorts
    <3>1. ~Changed(p, n) /\ ~Unallocated(p, n)
      BY <2>3 DEF Changed, Unallocated
    <3>2. ~Unseen(p, n)
      <4>1. [name |-> n, cause |-> "unseen"] \notin noted
        BY <2>2 DEF Is
      <4> HIDE DEF Unseen
      <4> QED BY <4>1
    <3> QED BY <1>2, <3>1, <3>2, KeepsItsPort
  <2>12. noted \subseteq [name : Names(cfg[p]), cause : Causes]
    BY DEF Causes
  <2> HIDE DEF ports, noted
  <2>13. RunTypeOK(p)'
    BY <1>0, <2>1, <2>2, <2>3, <2>6, <2>12 DEF RunTypeOK
  <2>14. Adopts(p)'
    BY <1>0, <2>1, <2>2, <2>3 DEF Adopts
  <2>15. RunInv(p)'
    BY <2>2, <2>8, <2>10, <2>11, <2>14 DEF RunInv, DepsKept, AbsentNoted, HasReused
  <2>16. Wholes' /\ pc' \in [Project -> PortsPC] /\ \A q \in Project \ {p} : SameRun(q)
    BY <1>0, <2>1 DEF Wholes, PortsPC, SameRun
  <2> QED BY <1>0, <2>1, <2>13, <2>15, <2>16, UpStep
<1> QED BY <1>1, <1>2

\* The port on which a container answers for one of its own.
LEMMA Published ==
  ASSUME PortsInv, NEW k \in Keys, NEW cont
  PROVE  LET live == GetPublishedHostPort(k, cont)
             ports == life[k].ports
         IN /\ live \in DeclaredPort
            /\ live # 0 => live \in Hosts(ports)
            /\ life[k].on /\ (\E j \in DOMAIN ports : ports[j].cont = cont) => live \in Hosts(ports)
<1> DEFINE ports == life[k].ports
           at == {j \in DOMAIN ports : ports[j].cont = cont}
           live == GetPublishedHostPort(k, cont)
<1>1. CASE life[k].on /\ at # {}
  <2>1. Item(life[k].from) /\ StartsWith(life[k].from, ports)
    BY <1>1 DEF PortsInv, PortsTypeOK, LifeTypeOK, LifeFits, Off
  <2>2. ports \in Seq(Request)
    BY <2>1, StartsPorts
  <2>3. at \in SUBSET Nat
    <3> HIDE DEF ports
    <3> QED BY <2>2
  <2>4. Lowest(at) \in at
    <3> HIDE DEF at
    <3> QED BY <2>3, <1>1, LowestIs
  <2>5. live = ports[Lowest(at)].host
    BY <1>1 DEF GetPublishedHostPort
  <2> HIDE DEF live, ports
  <2>6. ports[Lowest(at)] \in Request /\ Lowest(at) \in DOMAIN ports
    <3>1. Lowest(at) \in DOMAIN ports
      BY <2>4
    <3> HIDE DEF at
    <3> QED BY <3>1, <2>2, ElementIs
  <2> HIDE DEF at
  <2>7. live \in DeclaredPort /\ live \in Hosts(ports)
    BY <2>5, <2>6 DEF Request, Hosts
  <2> QED BY <2>7 DEF live, ports
<1>2. CASE ~(life[k].on /\ at # {})
  <2>1. live = 0
    BY <1>2 DEF GetPublishedHostPort
  <2> QED BY <1>2, <2>1, PortNat
<1> QED BY <1>1, <1>2

\* Looking up what runs moves a dependency's ports only, not its number of
\* them or the ports inside.
LEMMA ReusedIs ==
  ASSUME PortsInv, NEW p \in Project, HasPorts(p), NEW n \in Names(cfg[p])
  PROVE  LET i == ItemOf(cfg[p], n) IN
         /\ i.kind \in {"host", "docker", "pinned"} => Reused(p, n) = alloc[p][n]
         /\ IF Pass(i) = 0 THEN Reused(p, n) = <<>> ELSE Fits(i, Reused(p, n))
         /\ i.kind \in {"auto", "legacy"} =>
               /\ DOMAIN Reused(p, n) = DOMAIN alloc[p][n]
               /\ \A h \in DOMAIN alloc[p][n] :
                     /\ Reused(p, n)[h].cont = alloc[p][n][h].cont
                     /\ LET live == GetPublishedHostPort(Key(p, n), alloc[p][n][h].cont)
                        IN live # 0 => Reused(p, n)[h].host = live
<1> DEFINE i == ItemOf(cfg[p], n)
           was == alloc[p][n]
           Live(h) == GetPublishedHostPort(Key(p, n), was[h].cont)
           now == [h \in DOMAIN was |-> IF Live(h) = 0 THEN was[h] ELSE [was[h] EXCEPT !.host = Live(h)]]
<1>0. Config(cfg[p]) /\ Key(p, n) \in Keys /\ AllocFits(p)
  BY Types DEF RunTypeOK
<1>1. Item(i)
  BY <1>0, ItemIs
<1>2. IF Pass(i) = 0 THEN was = <<>> ELSE Fits(i, was)
  BY <1>0 DEF AllocFits
<1>3. i.kind \in {"host", "docker", "pinned", "auto", "legacy", "sibling"}
  BY <1>1, Kinds
<1>4. CASE i.kind \in {"host", "docker", "pinned"}
  <2>1. Reused(p, n) = was
    BY <1>4 DEF Reused, Explicit, IsService
  <2> QED BY <2>1, <1>2, <1>4
<1>5. CASE i.kind \in {"auto", "legacy", "sibling"}
  <2>1. Reused(p, n) = now
    BY <1>5 DEF Reused, Explicit, IsService
  <2>2. CASE Pass(i) = 0
    <3>1. was = <<>>
      BY <1>2, <2>2
    <3>2. DOMAIN now = 1..0
      <4> HIDE DEF Live
      <4>1. DOMAIN now = DOMAIN was
        OBVIOUS
      <4> QED BY <3>1, <4>1
    <3>3. now = <<>>
      <4>1. now \in [1..0 -> Port]
        <5> HIDE DEF Live
        <5> QED BY <3>1
      <4> HIDE DEF now
      <4> QED BY <4>1, FnSeq
    <3> HIDE DEF now
    <3> QED BY <2>1, <2>2, <3>1, <3>3, <1>5
  <2>3. CASE Pass(i) # 0
    <3>1. Fits(i, was) /\ was \in Seq([host : Port, cont : Port])
      BY <1>2, <2>3 DEF Fits
    <3> DEFINE len == Len(was)
    <3>2. len \in Nat /\ DOMAIN was = 1..len
      BY <3>1
    <3>3. ASSUME NEW h \in DOMAIN was
          PROVE  /\ now[h] \in [host : Port, cont : Port] /\ now[h].cont = was[h].cont
                 /\ Live(h) # 0 => now[h].host = Live(h)
      <4>1. was[h] \in [host : Port, cont : Port]
        BY <3>1, ElementIs
      <4>2. Live(h) \in DeclaredPort
        BY <1>0, Published
      <4>3. Live(h) # 0 => Live(h) \in Port
        BY <4>2, PortNat
      <4>4. now[h] = IF Live(h) = 0 THEN was[h] ELSE [was[h] EXCEPT !.host = Live(h)]
        <5> HIDE DEF Live
        <5> QED OBVIOUS
      <4> HIDE DEF Live, now
      <4> QED BY <4>1, <4>3, <4>4
    <3>4. DOMAIN now = 1..len
      <4> HIDE DEF Live, len
      <4>1. DOMAIN now = DOMAIN was
        OBVIOUS
      <4> QED BY <4>1, <3>2
    <3>5. now \in [1..len -> [host : Port, cont : Port]]
      <4>1. \A h \in 1..len : now[h] \in [host : Port, cont : Port]
        BY <3>2, <3>3
      <4>2. now = [h \in 1..len |-> now[h]]
        <5> HIDE DEF Live, len
        <5>1. now = [h \in DOMAIN was |-> now[h]]
          OBVIOUS
        <5> HIDE DEF now
        <5> QED BY <3>2, <5>1
      <4> HIDE DEF now, len
      <4> QED BY <4>1, <4>2
    <3> HIDE DEF now, len
    <3>6. now \in Seq([host : Port, cont : Port]) /\ DOMAIN now = DOMAIN was
      BY <3>2, <3>4, <3>5, FnSeq
    <3>7. Fits(i, now)
      <4>1. ~Explicit(i)
        BY <1>5 DEF Explicit, IsService
      <4> QED BY <3>1, <3>3, <3>6, <4>1 DEF Fits
    <3> QED BY <2>1, <2>3, <3>3, <3>6, <3>7, <1>5
  <2> QED BY <2>2, <2>3
<1> QED BY <1>3, <1>4, <1>5

\* A container that runs, made from the item as it is, answers for each port
\* that its request names.
LEMMA DepsFollow ==
  ASSUME PortsInv, NEW p \in Project, pc[p] = "reusing", NEW n \in Names(cfg[p]),
         ItemOf(cfg[p], n).kind # "host", life[Key(p, n)].on, ~Changed(p, n), ~Misread(p, n)
  PROVE  /\ Hosts(Reused(p, n)) \subseteq Hosts(life[Key(p, n)].ports)
         /\ Insides(Reused(p, n)) \subseteq Insides(life[Key(p, n)].ports)
<1> DEFINE i == ItemOf(cfg[p], n)
           k == Key(p, n)
           ports == life[k].ports
           was == alloc[p][n]
           now == Reused(p, n)
<1>0. Config(cfg[p]) /\ k \in Keys /\ AllocFits(p)
  BY Types DEF RunTypeOK
<1>1. Item(i) /\ life[k].from = i /\ StartsWith(i, ports)
  BY <1>0, ItemIs DEF Changed, PortsInv, LifeFits
<1>2. HasPorts(p)
  BY DEF HasPorts
<1>3. /\ i.kind \in {"host", "docker", "pinned"} => now = was
      /\ IF Pass(i) = 0 THEN now = <<>> ELSE Fits(i, now)
      /\ i.kind \in {"auto", "legacy"} =>
               /\ DOMAIN now = DOMAIN was
               /\ \A h \in DOMAIN was :
                     /\ now[h].cont = was[h].cont
                     /\ LET live == GetPublishedHostPort(k, was[h].cont) IN live # 0 => now[h].host = live
  BY <1>2, ReusedIs
<1>4. CASE Pass(i) = 0
  BY <1>3, <1>4, NoPortsHosts
<1>5. CASE Pass(i) # 0 /\ i.kind = "pinned"
  <2>1. now = assignExplicitDepPorts(i)
    BY <1>0, <1>3, <1>5 DEF AllocFits, HasPorts
  <2>2. ports = assignExplicitDepPorts(i)
    BY <1>5 DEF Misread
  <2> QED BY <2>1, <2>2
<1>6. CASE Pass(i) # 0 /\ i.kind \in {"auto", "legacy"}
  <2>1. Fits(i, ports) /\ Fits(i, was)
    BY <1>0, <1>1, <1>2, <1>6 DEF StartsWith, AllocFits
  <2>2. /\ DOMAIN ports = DOMAIN was /\ DOMAIN now = DOMAIN was
        /\ \A h \in DOMAIN was : was[h].cont = ports[h].cont /\ now[h].cont = ports[h].cont
    BY <1>3, <1>6, <2>1 DEF Fits
  <2>3. Hosts(ports) \subseteq Port
    BY <2>1, FitsHosts
  <2>4. ASSUME NEW h \in DOMAIN was PROVE now[h].host \in Hosts(ports)
    <3> DEFINE live == GetPublishedHostPort(k, was[h].cont)
    <3>1. \E j \in DOMAIN ports : ports[j].cont = was[h].cont
      BY <2>2
    <3>2. live \in Hosts(ports)
      BY <1>0, <3>1, Published
    <3>3. live # 0 => now[h].host = live
      BY <1>3, <1>6
    <3>4. live # 0
      <4> HIDE DEF live, ports
      <4> QED BY <2>3, <3>2, PortNat
    <3> QED BY <3>2, <3>3, <3>4
  <2> HIDE DEF now, was, ports
  <2>5. Hosts(now) \subseteq Hosts(ports)
    BY <2>2, <2>4 DEF Hosts
  <2>6. Insides(now) \subseteq Insides(ports)
    BY <2>2 DEF Insides
  <2> QED BY <2>5, <2>6 DEF now, ports
<1>7. i.kind \in {"docker", "pinned", "auto", "legacy", "sibling"}
  BY <1>1, Kinds
<1>8. i.kind \in {"docker", "sibling"} => Pass(i) = 0
  BY <1>1, OtherRequests
<1> QED BY <1>4, <1>5, <1>6, <1>7, <1>8

LEMMA ReusesRunning ==
  ASSUME PortsInv, NEW p \in Project, reuseRunningDepHostPorts(p)
  PROVE  PortsInv'
<1>0. /\ RunTypeOK(p) /\ Wholes /\ pc \in [Project -> PortsPC] /\ portsLock \in Project \cup {Nobody} /\ DOMAIN cfg = Project
      /\ AllocFits(p) /\ Adopts(p) /\ Apart(p) /\ HostsKept(p) /\ Config(cfg[p])
  BY Types
<1> DEFINE now == [n \in DOMAIN alloc[p] |-> Reused(p, n)]
           moved == {n \in DOMAIN alloc[p] : Reused(p, n) # alloc[p][n]}
           absent == {n \in DOMAIN alloc[p] : n \in Shared /\ ~life[Key(p, n)].on}
           noted == [name : moved, cause : {"pinned"}] \cup [name : absent, cause : {"absent"}]
<1>1. /\ pc[p] = "reusing" /\ pc' = [pc EXCEPT ![p] = "checking"]
      /\ alloc' = [alloc EXCEPT ![p] = now]
      /\ why' = [why EXCEPT ![p] = @ \cup noted]
      /\ UNCHANGED <<upRest, portsLock, todo, left, adopted>>
  <2>1. why' = [why EXCEPT ![p] = @ \cup [name : moved, cause : {"pinned"}] \cup [name : absent, cause : {"absent"}]]
    BY DEF reuseRunningDepHostPorts
  <2>2. (why[p] \cup [name : moved, cause : {"pinned"}]) \cup [name : absent, cause : {"absent"}] = why[p] \cup noted
    <3> HIDE DEF moved, absent
    <3> QED OBVIOUS
  <2>3. why' = [why EXCEPT ![p] = @ \cup noted]
    <3> HIDE DEF moved, absent, noted
    <3> QED BY <2>1, <2>2, <1>0
  <2> QED BY <2>3 DEF reuseRunningDepHostPorts
<1>2. pc'[p] = "checking" /\ alloc'[p] = now /\ why'[p] = why[p] \cup noted
  <2> HIDE DEF now, noted
  <2> QED BY <1>0, <1>1 DEF Wholes
<1>3. cfg' = cfg /\ life' = life /\ occ' = occ
  BY <1>1 DEF upRest
<1>4. HasPorts(p) /\ DOMAIN alloc[p] = Names(cfg[p])
  BY <1>0, <1>1 DEF RunTypeOK, HasPorts
<1>5. DOMAIN now = Names(cfg[p]) /\ \A n \in Names(cfg[p]) : now[n] = Reused(p, n)
  BY <1>4
<1>6. \A n \in Names(cfg[p]) : Reused(p, n) # alloc[p][n] => Is(p, n, "pinned")'
  <2>1. \A n \in Names(cfg[p]) : Reused(p, n) # alloc[p][n] => [name |-> n, cause |-> "pinned"] \in noted
    BY <1>4
  <2> QED BY <1>2, <2>1 DEF Is
<1>7. noted \subseteq [name : Names(cfg[p]), cause : Causes]
  BY <1>4 DEF Causes
<1>8. \A n \in Names(cfg[p]) \cap Shared : ~life[Key(p, n)].on => Is(p, n, "absent")'
  <2>1. \A n \in Names(cfg[p]) \cap Shared : ~life[Key(p, n)].on => [name |-> n, cause |-> "absent"] \in noted
    BY <1>4
  <2> QED BY <1>2, <2>1 DEF Is
<1> HIDE DEF now, noted, moved, absent
<1>9. \A n, w : Is(p, n, w) => Is(p, n, w)'
  BY <1>2 DEF Is
<1>10. RunTypeOK(p)'
  BY <1>0, <1>1, <1>2, <1>3, <1>5, <1>7 DEF RunTypeOK
<1>11. AllocFits(p)'
  <2>1. \A n \in Names(cfg[p]) : LET i == ItemOf(cfg[p], n)
                                 IN IF Pass(i) = 0 THEN now[n] = <<>> ELSE Fits(i, now[n])
    BY <1>4, <1>5, ReusedIs
  <2> QED BY <1>2, <1>3, <2>1 DEF AllocFits
<1>12. Adopts(p)'
  BY <1>0, <1>1, <1>2, <1>3 DEF Adopts
<1>13. Apart(p)'
  <2> SUFFICES ASSUME NEW m \in Names(cfg[p]), NEW n \in Names(cfg[p]), m # n, Hosts(now[m]) \cap Hosts(now[n]) # {}
               PROVE  \E x \in {m, n} : Is(p, x, "pinned")' \/ Is(p, x, "answered")'
    BY <1>2, <1>3 DEF Apart, ItemPorts
  <2>1. CASE Reused(p, m) = alloc[p][m] /\ Reused(p, n) = alloc[p][n]
    <3>1. ItemPorts(p, m) \cap ItemPorts(p, n) # {}
      BY <1>5, <2>1 DEF ItemPorts
    <3>2. \E x \in {m, n} : Is(p, x, "pinned") \/ Is(p, x, "answered")
      BY <1>0, <1>4, <3>1 DEF Apart
    <3> QED BY <3>2, <1>9
  <2>2. CASE ~(Reused(p, m) = alloc[p][m] /\ Reused(p, n) = alloc[p][n])
    BY <2>2, <1>6
  <2> QED BY <2>1, <2>2
<1>14. HostsKept(p)'
  <2> SUFFICES ASSUME NEW n \in Names(cfg[p]), ItemOf(cfg[p], n).kind = "host", life[Key(p, n)].on,
                      ~Changed(p, n)', ~Unallocated(p, n)', ~Is(p, n, "unseen")'
               PROVE  /\ Hosts(now[n]) = Hosts(life[Key(p, n)].ports)
                      /\ ItemOf(cfg[p], n).port = 0 => \A x \in Hosts(now[n]) : occ[x] = Key(p, n)
    BY <1>2, <1>3 DEF HostsKept, ItemPorts
  <2>1. ~Changed(p, n) /\ ~Unallocated(p, n) /\ ~Is(p, n, "unseen")
    BY <1>3, <1>9 DEF Changed, Unallocated
  <2>2. now[n] = alloc[p][n]
    BY <1>4, <1>5, ReusedIs
  <2>3. /\ ItemPorts(p, n) = Hosts(life[Key(p, n)].ports)
        /\ ItemOf(cfg[p], n).port = 0 => \A x \in ItemPorts(p, n) : occ[x] = Key(p, n)
    BY <1>0, <1>1, <1>4, <2>1 DEF HostsKept
  <2> QED BY <2>2, <2>3 DEF ItemPorts
<1>15. DepsKept(p)'
  <2> SUFFICES ASSUME NEW n \in Names(cfg[p]), ItemOf(cfg[p], n).kind # "host", life[Key(p, n)].on,
                      ~Changed(p, n)', ~Misread(p, n)'
               PROVE  /\ Hosts(now[n]) \subseteq Hosts(life[Key(p, n)].ports)
                      /\ Insides(now[n]) \subseteq Insides(life[Key(p, n)].ports)
    BY <1>2, <1>3 DEF DepsKept, ItemPorts
  <2>1. ~Changed(p, n) /\ ~Misread(p, n)
    BY <1>3 DEF Changed, Misread
  <2> QED BY <1>1, <1>5, <2>1, DepsFollow
<1>16. AbsentNoted(p)'
  BY <1>2, <1>3, <1>8 DEF AbsentNoted
<1>17. RunInv(p)'
  BY <1>11, <1>12, <1>13, <1>14, <1>15, <1>16 DEF RunInv
<1>18. Wholes' /\ pc' \in [Project -> PortsPC] /\ \A q \in Project \ {p} : SameRun(q)
  BY <1>0, <1>1 DEF Wholes, PortsPC, SameRun
<1> QED BY <1>0, <1>1, <1>10, <1>17, <1>18, UpStep

-----------------------------------------------------------------------------
(* An answer of the user: the configuration, and the ports of the item.    *)

\* What an answer does to an item of the file.
LEMMA UpdatedItem ==
  ASSUME NEW i, Item(i), NEW old \in Port, NEW new \in Port
  PROVE  LET j == UpdatePort(i, old, new) IN
         /\ Item(j) /\ j.name = i.name /\ j.kind = i.kind
         /\ i.kind = "host" /\ i.port = old => j.port = new
         /\ i.kind = "pinned" /\ i.hosts = <<old>> => j.hosts = <<new>>
         /\ j = i \/ (i.kind = "host" /\ i.port = old) \/ (i.kind = "pinned" /\ i.hosts = <<old>>)
<1> DEFINE j == UpdatePort(i, old, new)
<1>1. CASE i.kind = "host" /\ i.port = old
  <2>1. j = [i EXCEPT !.port = new]
    BY <1>1 DEF UpdatePort
  <2>2. i \in [name : {i.name}, kind : {"host"}, port : DeclaredPort, infer : Seq(DeclaredPort)] /\ i.name \notin Shared
    BY <1>1 DEF Item
  <2>3. new \in DeclaredPort
    BY PortNat
  <2>4. /\ j.name = i.name /\ j.kind = "host" /\ j.port = new
        /\ j \in [name : {j.name}, kind : {"host"}, port : DeclaredPort, infer : Seq(DeclaredPort)]
    <3> HIDE DEF j
    <3> QED BY <2>1, <2>2, <2>3
  <2>5. Item(j)
    <3> HIDE DEF j
    <3> QED BY <2>2, <2>4 DEF Item
  <2> QED BY <1>1, <2>4, <2>5
<1>2. CASE i.kind = "pinned" /\ i.hosts = <<old>>
  <2>1. j = [i EXCEPT !.hosts = <<new>>]
    BY <1>2 DEF UpdatePort
  <2>2. i \in [name : {i.name}, kind : {"pinned"}, hosts : Seq(Port), expose : Seq(Port)]
    BY <1>2 DEF Item
  <2>3. <<new>> \in Seq(Port) /\ <<new>> # <<>>
    OBVIOUS
  <2>4. /\ j.name = i.name /\ j.kind = "pinned" /\ j.hosts = <<new>>
        /\ j \in [name : {j.name}, kind : {"pinned"}, hosts : Seq(Port), expose : Seq(Port)]
    <3> DEFINE s == <<new>>
    <3>1. s \in Seq(Port)
      BY <2>3
    <3>2. j = [i EXCEPT !.hosts = s]
      BY <2>1
    <3> HIDE DEF j, s
    <3>3. j.name = i.name /\ j.kind = "pinned" /\ j.hosts = s
      BY <2>2, <3>2
    <3>4. j \in [name : {j.name}, kind : {"pinned"}, hosts : Seq(Port), expose : Seq(Port)]
      BY <2>2, <3>1, <3>2
    <3> QED BY <3>3, <3>4 DEF s
  <2>5. Item(j)
    <3> HIDE DEF j
    <3> QED BY <2>3, <2>4 DEF Item
  <2> QED BY <1>2, <2>4, <2>5
<1>3. CASE ~(i.kind = "host" /\ i.port = old) /\ ~(i.kind = "pinned" /\ i.hosts = <<old>>)
  <2>1. j = i
    BY <1>3 DEF UpdatePort
  <2> HIDE DEF j
  <2>2. /\ Item(j) /\ j.name = i.name /\ j.kind = i.kind /\ j = i
        /\ i.kind = "host" /\ i.port = old => j.port = new
        /\ i.kind = "pinned" /\ i.hosts = <<old>> => j.hosts = <<new>>
    BY <1>3, <2>1
  <2> QED BY <2>2 DEF j
<1> QED BY <1>1, <1>2, <1>3

\* ... and to the file.
Rewritten(c, name, old, new) ==
    [k \in DOMAIN c |-> IF c[k].name = name THEN UpdatePort(c[k], old, new) ELSE c[k]]

LEMMA UpdatedFile ==
  ASSUME NEW c, Config(c), NEW name, NEW old \in Port, NEW new \in Port
  PROVE  LET d == Rewritten(c, name, old, new) IN
         /\ Config(d) /\ Names(d) = Names(c)
         /\ \A n \in Names(c) : ItemOf(d, n) = IF n = name THEN UpdatePort(ItemOf(c, n), old, new) ELSE ItemOf(c, n)
<1> DEFINE d == Rewritten(c, name, old, new)
<1>0. d = [k \in DOMAIN c |-> IF c[k].name = name THEN UpdatePort(c[k], old, new) ELSE c[k]]
  BY DEF Rewritten
<1> HIDE DEF d
<1>1. DOMAIN c = 1..Len(c) /\ Len(c) \in Nat /\ \A k \in DOMAIN c : Item(c[k])
  BY ItemIs
<1>2. DOMAIN d = DOMAIN c
  BY <1>0
<1>3. ASSUME NEW k \in DOMAIN c
      PROVE  Item(d[k]) /\ d[k].name = c[k].name
             /\ d[k] = IF c[k].name = name THEN UpdatePort(c[k], old, new) ELSE c[k]
  <2>1. d[k] = IF c[k].name = name THEN UpdatePort(c[k], old, new) ELSE c[k]
    BY <1>0
  <2>2. Item(UpdatePort(c[k], old, new)) /\ UpdatePort(c[k], old, new).name = c[k].name
    BY <1>1, UpdatedItem
  <2> QED BY <1>1, <2>1, <2>2
<1>4. d \in Seq(Range(d))
  <2>1. \A k \in DOMAIN d : d[k] \in Range(d)
    BY DEF Range
  <2>2. d = [k \in 1..Len(c) |-> d[k]]
    BY <1>0, <1>1
  <2> DEFINE S == Range(d)
             n == Len(c)
  <2>3. d \in [1..n -> S]
    <3>1. DOMAIN d = 1..n /\ \A k \in 1..n : d[k] \in S
      BY <1>1, <1>2, <2>1
    <3>2. d = [k \in 1..n |-> d[k]]
      BY <2>2
    <3> HIDE DEF S, n
    <3> QED BY <3>1, <3>2
  <2>4. n \in Nat
    BY <1>1
  <2> HIDE DEF S, n
  <2>5. d \in Seq(S)
    BY <2>3, <2>4, FnSeq
  <2> QED BY <2>5 DEF S
<1>5. Config(d)
  <2>1. \A j, k \in DOMAIN c : c[j].name = c[k].name => j = k
    BY DEF Config
  <2> QED BY <1>2, <1>3, <1>4, <2>1 DEF Config
<1>6. Names(d) = Names(c)
  BY <1>2, <1>3 DEF Names
<1>7. ASSUME NEW n \in Names(c)
      PROVE  ItemOf(d, n) = IF n = name THEN UpdatePort(ItemOf(c, n), old, new) ELSE ItemOf(c, n)
  <2>1. PICK k \in DOMAIN c : c[k].name = n
    BY ItemIs
  <2>2. ItemOf(c, n) = c[k]
    BY <2>1, ItemIs
  <2>3. ItemOf(d, n) = d[k]
    <3>1. d[k].name = n
      BY <1>3, <2>1
    <3> QED BY <1>2, <1>5, <3>1, ItemIs
  <2> QED BY <1>3, <2>1, <2>2, <2>3
<1> QED BY <1>5, <1>6, <1>7 DEF d

\* The ports of an item after an answer.
Answered(was, old, new) ==
    LET at == Lowest({k \in DOMAIN was : was[k].host = old})
    IN IF at = 0 THEN was ELSE [was EXCEPT ![at].host = new]

LEMMA AnsweredIs ==
  ASSUME NEW was, was \in Seq([host : Port, cont : Port]), NEW old \in Port, NEW new \in Port
  PROVE  LET now == Answered(was, old, new) IN
         /\ now \in Seq([host : Port, cont : Port]) /\ DOMAIN now = DOMAIN was
         /\ \A h \in DOMAIN was : now[h].cont = was[h].cont
         /\ old \notin Hosts(was) => now = was
         /\ Len(was) = 1 /\ old \in Hosts(was) => now[1].host = new /\ was[1].host = old
<1> DEFINE S == {k \in DOMAIN was : was[k].host = old}
           at == Lowest(S)
           now == Answered(was, old, new)
<1>1. was \in Seq([host : Port, cont : Port]) /\ DOMAIN was = 1..Len(was) /\ Len(was) \in Nat
  OBVIOUS
<1>2. now = IF at = 0 THEN was ELSE [was EXCEPT ![at].host = new]
  BY DEF Answered
<1> HIDE DEF now
<1>3. CASE old \notin Hosts(was)
  <2>1. S = {}
    BY <1>3 DEF Hosts
  <2>2. at = 0
    BY <2>1 DEF Lowest
  <2>3. now = was
    BY <1>2, <2>2
  <2> QED BY <1>1, <1>3, <2>3 DEF now
<1>4. CASE old \in Hosts(was)
  <2>1. S # {} /\ S \in SUBSET Nat
    BY <1>1, <1>4 DEF Hosts
  <2>2. at \in S
    <3> HIDE DEF S
    <3> QED BY <2>1, LowestIs
  <2> HIDE DEF at
  <2>3. at \in 1..Len(was) /\ was[at].host = old
    BY <1>1, <2>2
  <2>4. at # 0
    BY <2>3
  <2>5. now = [was EXCEPT ![at].host = new]
    BY <1>2, <2>4
  <2> DEFINE m == [was[at] EXCEPT !.host = new]
  <2>6. was[at] \in [host : Port, cont : Port]
    BY <1>1, <2>3, ElementIs
  <2>7. m \in [host : Port, cont : Port] /\ m.host = new /\ m.cont = was[at].cont
    BY <2>6
  <2>8. now = [was EXCEPT ![at] = m]
    BY <2>5
  <2> HIDE DEF m
  <2>9. now \in Seq([host : Port, cont : Port]) /\ DOMAIN now = DOMAIN was /\ now[at] = m
        /\ \A h \in DOMAIN was : h # at => now[h] = was[h]
    BY <1>1, <2>3, <2>7, <2>8
  <2>10. \A h \in DOMAIN was : now[h].cont = was[h].cont
    BY <2>7, <2>9
  <2>11. Len(was) = 1 => at = 1
    BY <2>3
  <2> QED BY <1>4, <2>3, <2>7, <2>9, <2>10, <2>11 DEF now
<1> QED BY <1>3, <1>4

Suits(i, ports) == IF Pass(i) = 0 THEN ports = <<>> ELSE Fits(i, ports)

LEMMA AnsweredSuits ==
  ASSUME NEW i, Item(i), NEW was, Suits(i, was), NEW old \in Port, NEW new \in Port
  PROVE  /\ Suits(UpdatePort(i, old, new), Answered(was, old, new))
         /\ old \notin Hosts(was) => Answered(was, old, new) = was
<1> DEFINE j == UpdatePort(i, old, new)
           now == Answered(was, old, new)
<1>1. /\ Item(j) /\ j.name = i.name /\ j.kind = i.kind
      /\ i.kind = "host" /\ i.port = old => j.port = new
      /\ i.kind = "pinned" /\ i.hosts = <<old>> => j.hosts = <<new>>
      /\ j = i \/ (i.kind = "host" /\ i.port = old) \/ (i.kind = "pinned" /\ i.hosts = <<old>>)
  BY UpdatedItem
<1>2. was \in Seq([host : Port, cont : Port])
  <2>1. Fits(i, was) => was \in Seq([host : Port, cont : Port])
    BY DEF Fits
  <2>2. <<>> \in Seq([host : Port, cont : Port])
    OBVIOUS
  <2> QED BY <2>1, <2>2 DEF Suits
<1>3. /\ now \in Seq([host : Port, cont : Port]) /\ DOMAIN now = DOMAIN was
      /\ \A h \in DOMAIN was : now[h].cont = was[h].cont
      /\ old \notin Hosts(was) => now = was
      /\ Len(was) = 1 /\ old \in Hosts(was) => now[1].host = new /\ was[1].host = old
  BY <1>2, AnsweredIs
<1>4. old > 0 /\ new > 0 /\ old # 0 /\ new # 0
  BY PortIs
<1> HIDE DEF j, now, Suits
<1>5. CASE Pass(i) = 0
  <2>1. was = <<>> /\ Hosts(was) = {}
    BY <1>5, NoPortsHosts DEF Suits
  <2>2. now = <<>>
    BY <1>3, <2>1
  <2>3. j = i
    <3>1. i.kind = "host" => ~(i.port > 0)
      BY <1>5, HostRequests
    <3>2. i.kind # "pinned"
      BY <1>5, PinnedRequests
    <3> QED BY <1>1, <1>4, <3>1, <3>2
  <2> QED BY <1>3, <1>5, <2>2, <2>3 DEF j, now, Suits
<1>6. CASE Pass(i) # 0
  <2>1. Fits(i, was)
    BY <1>6 DEF Suits
  <2>2. Explicit(i) /\ Len(was) = 1 => was[1].host = Requests(i)[1].host
    BY <2>1 DEF Fits
  <2>3. DOMAIN was = DOMAIN Requests(i) /\ (Len(was) = 1 => DOMAIN was = 1..1) /\ Len(now) = Len(was)
    BY <1>2, <1>3, <2>1 DEF Fits
  <2>4. Len(was) = 1 => Hosts(was) = {was[1].host}
    BY <2>3 DEF Hosts
  <2>5. CASE i.kind = "host" /\ i.port = old
    <3>1. j.kind = "host" /\ (j.port = old \/ j.port = new) /\ Explicit(i) /\ j.port > 0
      BY <1>1, <1>4, <2>5 DEF Explicit, IsService
    <3>2. DOMAIN Requests(i) = 1..1 /\ Requests(i)[1].host = old
      BY <2>5, HostRequests
    <3>3. DOMAIN Requests(j) = 1..1 /\ Requests(j)[1].host = j.port /\ Pass(j) = 1
      BY <1>1, <3>1, HostRequests
    <3>4. Len(was) = 1
      BY <1>2, <2>3, <3>2
    <3>5. was[1].host = old /\ old \in Hosts(was) /\ now[1].host = new
      BY <1>3, <2>2, <2>4, <3>1, <3>2, <3>4
    <3>6. j.port = new
      BY <2>5, <1>1
    <3>7. Fits(j, now)
      BY <1>3, <3>1, <3>2, <3>3, <3>5, <3>6, <2>3 DEF Fits
    <3> QED BY <3>3, <3>5, <3>7 DEF j, now, Suits
  <2>6. CASE i.kind = "pinned" /\ i.hosts = <<old>>
    <3>1. j.kind = "pinned" /\ Pass(j) = 2 /\ Explicit(i)
      BY <1>1, <2>6, PinnedRequests DEF Explicit
    <3>2. ASSUME NEW x, Item(x), x.kind = "pinned", NEW y, x.hosts = <<y>>
          PROVE  DOMAIN Requests(x) = 1..1 /\ Requests(x)[1].host = y
      <4>1. Requests(x) = assignExplicitDepPorts(x)
        BY <3>2, PinnedRequests
      <4>2. DOMAIN x.hosts = 1..1 /\ x.hosts[1] = y
        BY <3>2
      <4> QED BY <4>1, <4>2 DEF assignExplicitDepPorts
    <3>3. DOMAIN Requests(i) = 1..1 /\ Requests(i)[1].host = old
      BY <2>6, <3>2
    <3>4. Len(was) = 1
      BY <1>2, <2>3, <3>3
    <3>5. was[1].host = old /\ old \in Hosts(was) /\ now[1].host = new
      BY <1>3, <2>2, <2>4, <3>1, <3>3, <3>4
    <3>6. j.hosts = <<new>>
      BY <2>6, <1>1
    <3>7. DOMAIN Requests(j) = 1..1 /\ Requests(j)[1].host = new
      BY <1>1, <3>1, <3>2, <3>6
    <3>8. Fits(j, now)
      BY <1>3, <2>3, <3>1, <3>3, <3>5, <3>7 DEF Fits
    <3> QED BY <3>1, <3>5, <3>8 DEF j, now, Suits
  <2>7. CASE ~(i.kind = "host" /\ i.port = old) /\ ~(i.kind = "pinned" /\ i.hosts = <<old>>)
    <3>1. j = i
      BY <2>7, <1>1
    <3>2. ASSUME i.kind \in {"auto", "legacy"}, NEW h \in DOMAIN now PROVE now[h].cont = Requests(i)[h].cont
      BY <1>3, <2>1, <3>2 DEF Fits
    <3>3. ASSUME Explicit(i), Len(now) = 1 PROVE now[1].host = Requests(i)[1].host
      <4>1. was[1].host = Requests(i)[1].host /\ Len(was) = 1
        BY <2>2, <2>3, <3>3
      <4>2. CASE old \notin Hosts(was)
        BY <1>3, <4>1, <4>2
      <4>3. CASE old \in Hosts(was)
        <5>1. Requests(i)[1].host = old
          BY <1>3, <4>1, <4>3
        <5>2. DOMAIN Requests(i) = 1..1
          BY <2>3, <4>1
        <5>3. CASE i.kind = "host"
          BY <2>7, <5>1, <5>3, HostRequests
        <5>4. CASE i.kind = "pinned"
          <6>1. Requests(i) = assignExplicitDepPorts(i)
            BY <5>4, PinnedRequests
          <6>2. DOMAIN i.hosts = 1..1 /\ i.hosts[1] = old
            BY <5>1, <5>2, <6>1 DEF assignExplicitDepPorts
          <6>3. i.hosts \in Seq(Port)
            BY <5>4 DEF Item
          <6>4. i.hosts = <<old>>
            BY <6>2, <6>3
          <6> QED BY <2>7, <5>4, <6>4
        <5>5. CASE i.kind = "docker"
          BY <1>6, <5>5, OtherRequests
        <5> QED BY <3>3, <5>3, <5>4, <5>5 DEF Explicit, IsService
      <4> QED BY <4>2, <4>3
    <3>4. Fits(i, now)
      BY <1>3, <2>3, <3>2, <3>3 DEF Fits
    <3> QED BY <1>3, <1>6, <3>1, <3>4 DEF j, now, Suits
  <2> QED BY <2>5, <2>6, <2>7
<1> QED BY <1>5, <1>6

\* The ports of a host service with a port of its own.
LEMMA NamedPort ==
  ASSUME NEW i, Item(i), i.kind = "host", i.port > 0, NEW ports, Fits(i, ports)
  PROVE  Hosts(ports) = {i.port}
<1>1. DOMAIN Requests(i) = 1..1 /\ Requests(i)[1].host = i.port
  BY HostRequests
<1>2. ports \in Seq([host : Port, cont : Port]) /\ DOMAIN ports = 1..1
  BY <1>1 DEF Fits
<1>3. Len(ports) = 1
  BY <1>2
<1>4. ports[1].host = i.port
  BY <1>1, <1>3 DEF Fits, Explicit, IsService
<1> QED BY <1>2, <1>4 DEF Hosts

\* What a host service was told, unless it was restarted on its own.
LEMMA ToldPorts ==
  ASSUME NEW i, Item(i), i.kind = "host", NEW ports, StartsWith(i, ports),
         \A h \in DOMAIN ports : ports[h].cont # 0
  PROVE  IF Pass(i) = 0 THEN ports = <<>> ELSE Fits(i, ports)
<1> DEFINE m == [host |-> inferServicePort(i), cont |-> 0]
<1>1. m.cont = 0
  OBVIOUS
<1> HIDE DEF m
<1>2. ports # <<m>>
  <2>1. ASSUME ports = <<m>> PROVE FALSE
    <3>1. 1 \in DOMAIN ports /\ ports[1] = m
      BY <2>1
    <3> QED BY <3>1, <1>1
  <2> QED BY <2>1
<1>3. ports # OwnPort(i)
  BY <1>2 DEF OwnPort, m
<1> QED BY <1>3 DEF StartsWith, declaredPorts

LEMMA Reassigns ==
  ASSUME PortsInv, NEW p \in Project, Reassign(p)
  PROVE  PortsInv'
<1>0. /\ RunTypeOK(p) /\ Wholes /\ pc \in [Project -> PortsPC] /\ portsLock \in Project \cup {Nobody} /\ DOMAIN cfg = Project
      /\ AllocFits(p) /\ Adopts(p) /\ Apart(p) /\ HostsKept(p) /\ DepsKept(p) /\ AbsentNoted(p) /\ Config(cfg[p])
      /\ LifeFits /\ Bound
  BY Types DEF PortsInv
<1>1. PICK c \in todo[p], new \in Port \ Busy :
        /\ pc[p] = "resolving"
        /\ ~(isOwnContainer(p, c.port) \/ ownHostServicePID(p, c))
        /\ applyPortChange(p, c, new)
        /\ todo' = [todo EXCEPT ![p] = @ \ {c}]
        /\ UNCHANGED <<occ, known, life, portsLock, pc, left, adopted, edits>>
  BY DEF Reassign
<1> DEFINE o == c.name
           old == c.port
           now == Answered(alloc[p][o], old, new)
           text == Rewritten(cfg[p], o, old, new)
           noted == [name : {o}, cause : {"answered"}]
<1>2. /\ alloc' = [alloc EXCEPT ![p][o] = now]
      /\ cfg' = [cfg EXCEPT ![p] = text]
      /\ why' = [why EXCEPT ![p] = @ \cup noted]
  <2>1. alloc' = [alloc EXCEPT ![p][o] = now]
    BY <1>1 DEF applyPortChange, Answered
  <2>2. cfg' = [cfg EXCEPT ![p] = text]
    BY <1>1 DEF applyPortChange, Rewritten
  <2>3. why' = [why EXCEPT ![p] = @ \cup noted]
    BY <1>1 DEF applyPortChange, Note
  <2> QED BY <2>1, <2>2, <2>3
<1>3. o \in Names(cfg[p]) /\ old \in Port /\ new \in Port /\ new \notin Busy
  BY <1>0, <1>1 DEF RunTypeOK
<1>4. HasPorts(p) /\ HasPorts(p)' /\ HasReused(p) /\ DOMAIN alloc[p] = Names(cfg[p])
  BY <1>0, <1>1 DEF RunTypeOK, HasPorts, HasReused
<1>5. /\ cfg'[p] = text /\ why'[p] = why[p] \cup noted /\ todo'[p] = todo[p] \ {c}
      /\ DOMAIN alloc'[p] = Names(cfg[p]) /\ alloc'[p][o] = now
      /\ \A n \in Names(cfg[p]) : n # o => alloc'[p][n] = alloc[p][n]
  <2> HIDE DEF now, text, noted
  <2>1. cfg'[p] = text /\ why'[p] = why[p] \cup noted /\ todo'[p] = todo[p] \ {c}
    BY <1>0, <1>1, <1>2 DEF Wholes
  <2>2. alloc'[p] = [alloc[p] EXCEPT ![o] = now]
    BY <1>0, <1>2 DEF Wholes
  <2> HIDE DEF o
  <2> QED BY <2>1, <2>2, <1>3, <1>4
<1> DEFINE i == ItemOf(cfg[p], o)
           j == UpdatePort(i, old, new)
<1>6. /\ Config(text) /\ Names(text) = Names(cfg[p])
      /\ \A n \in Names(cfg[p]) : ItemOf(text, n) = IF n = o THEN UpdatePort(ItemOf(cfg[p], n), old, new) ELSE ItemOf(cfg[p], n)
  <2> HIDE DEF o, old
  <2> QED BY <1>0, <1>3, UpdatedFile
<1>7. Item(i) /\ (IF Pass(i) = 0 THEN alloc[p][o] = <<>> ELSE Fits(i, alloc[p][o]))
  BY <1>0, <1>3, <1>4, ItemIs DEF AllocFits
<1>8. /\ Item(j) /\ j.kind = i.kind
      /\ i.kind = "host" /\ i.port = old => j.port = new
      /\ i.kind = "pinned" /\ i.hosts = <<old>> => j.hosts = <<new>>
      /\ j = i \/ (i.kind = "host" /\ i.port = old) \/ (i.kind = "pinned" /\ i.hosts = <<old>>)
  <2> HIDE DEF i, old
  <2> QED BY <1>3, <1>7, UpdatedItem
<1>9. /\ IF Pass(j) = 0 THEN now = <<>> ELSE Fits(j, now)
      /\ old \notin Hosts(alloc[p][o]) => now = alloc[p][o]
  <2> DEFINE was == alloc[p][o]
  <2>1. Suits(i, was) /\ Item(i) /\ old \in Port /\ new \in Port
    BY <1>3, <1>7 DEF Suits
  <2> HIDE DEF i, old, was, o
  <2>2. Suits(j, Answered(was, old, new)) /\ (old \notin Hosts(was) => Answered(was, old, new) = was)
    BY <2>1, AnsweredSuits
  <2> QED BY <2>2 DEF was, Suits
<1>10. occ' = occ /\ known' = known /\ life' = life /\ pc' = pc /\ left' = left /\ adopted' = adopted /\ portsLock' = portsLock
  BY <1>1
<1>11. noted \subseteq [name : Names(cfg[p]), cause : Causes] /\ [name |-> o, cause |-> "answered"] \in noted
  BY <1>3 DEF Causes
<1>12. ItemOf(cfg'[p], o) = j /\ Names(cfg'[p]) = Names(cfg[p])
       /\ \A n \in Names(cfg[p]) : n # o => ItemOf(cfg'[p], n) = ItemOf(cfg[p], n)
  BY <1>3, <1>5, <1>6
<1>13. pc[p] = "resolving" /\ ~isOwnContainer(p, old) /\ ~ownHostServicePID(p, c)
  BY <1>1
<1>14. occ[new] = Nobody /\ new > 0
  BY <1>3, PortIs DEF Busy
<1>15. Config(cfg'[p])
  BY <1>5, <1>6
<1>16. Key(p, o) \in Keys /\ old = c.port /\ o = c.name
  BY <1>0, <1>3 DEF RunTypeOK
<1> HIDE DEF now, text, noted, j, i, o, old
<1>17. \A n, w : Is(p, n, w) => Is(p, n, w)'
  BY <1>5 DEF Is
<1>18. Is(p, o, "answered")'
  BY <1>5, <1>11 DEF Is
<1>19. RunTypeOK(p)'
  BY <1>0, <1>1, <1>4, <1>5, <1>10, <1>11, <1>12, <1>15 DEF RunTypeOK
<1>20. AllocFits(p)'
  <2> SUFFICES ASSUME NEW n \in Names(cfg[p])
               PROVE  LET x == ItemOf(cfg'[p], n)
                      IN IF Pass(x) = 0 THEN alloc'[p][n] = <<>> ELSE Fits(x, alloc'[p][n])
    BY <1>10, <1>12, <1>13 DEF AllocFits
  <2>1. CASE n = o
    BY <2>1, <1>5, <1>9, <1>12
  <2>2. CASE n # o
    BY <2>2, <1>0, <1>4, <1>5, <1>12 DEF AllocFits
  <2> QED BY <2>1, <2>2
<1>21. \A n \in Names(cfg[p]) : ItemOf(cfg'[p], n).kind = ItemOf(cfg[p], n).kind
  BY <1>8, <1>12 DEF i
<1>22. Adopts(p)' /\ AbsentNoted(p)'
  BY <1>0, <1>10, <1>12, <1>17, <1>21 DEF Adopts, AbsentNoted, HasReused
<1>23. Apart(p)'
  <2> SUFFICES ASSUME NEW m \in Names(cfg[p]), NEW n \in Names(cfg[p]), m # n, ItemPorts(p, m)' \cap ItemPorts(p, n)' # {}
               PROVE  \E x \in {m, n} : Is(p, x, "pinned")' \/ Is(p, x, "answered")'
    BY <1>12 DEF Apart
  <2>1. CASE m # o /\ n # o
    <3>1. ItemPorts(p, m) \cap ItemPorts(p, n) # {}
      BY <1>5, <2>1 DEF ItemPorts
    <3>2. \E x \in {m, n} : Is(p, x, "pinned") \/ Is(p, x, "answered")
      BY <1>0, <1>4, <3>1 DEF Apart
    <3> QED BY <3>2, <1>17
  <2>2. CASE m = o \/ n = o
    BY <2>2, <1>18
  <2> QED BY <2>1, <2>2
<1>24. HostsKept(p)'
  <2> SUFFICES ASSUME NEW n \in Names(cfg[p]), ItemOf(cfg'[p], n).kind = "host", life[Key(p, n)].on,
                      ~Changed(p, n)', ~Unallocated(p, n)', ~Is(p, n, "unseen")'
               PROVE  /\ Hosts(alloc'[p][n]) = Hosts(life[Key(p, n)].ports)
                      /\ ItemOf(cfg'[p], n).port = 0 => \A x \in Hosts(alloc'[p][n]) : occ[x] = Key(p, n)
    BY <1>10, <1>12 DEF HostsKept, ItemPorts
  <2>1. ~Unallocated(p, n) /\ ~Is(p, n, "unseen") /\ life[Key(p, n)].from = ItemOf(cfg'[p], n)
    BY <1>10, <1>17 DEF Changed, Unallocated
  <2>2. ASSUME ~Changed(p, n)
        PROVE  /\ Hosts(alloc[p][n]) = Hosts(life[Key(p, n)].ports)
               /\ ItemOf(cfg[p], n).port = 0 => \A x \in Hosts(alloc[p][n]) : occ[x] = Key(p, n)
    BY <1>0, <1>4, <1>13, <1>21, <2>1, <2>2 DEF HostsKept, ItemPorts
  <2>3. CASE n # o
    <3>1. ~Changed(p, n)
      BY <1>12, <2>1, <2>3 DEF Changed
    <3> QED BY <2>2, <2>3, <3>1, <1>5, <1>12
  <2>4. CASE n = o
    <3>1. j.kind = "host" /\ life[Key(p, o)].from = j
      BY <2>1, <2>4, <1>12
    <3>2. j.port \in Nat
      BY <1>8, <3>1, HostRequests, PortNat
    <3>3. CASE j.port > 0
      <4>1. Pass(j) = 1
        BY <1>8, <3>1, <3>3, HostRequests
      <4>2. Fits(j, alloc'[p][o])
        BY <4>1, <1>5, <1>9
      <4>3. Fits(j, life[Key(p, o)].ports)
        <5>1. StartsWith(j, life[Key(p, o)].ports)
          BY <1>0, <1>16, <2>4, <3>1 DEF LifeFits
        <5>2. \A h \in DOMAIN life[Key(p, o)].ports : life[Key(p, o)].ports[h].cont # 0
          BY <2>1, <2>4 DEF Unallocated
        <5> QED BY <5>1, <5>2, <3>1, <4>1, <1>8, ToldPorts
      <4> QED BY <2>4, <3>1, <3>3, <4>2, <4>3, <1>8, <1>12, NamedPort, SMTT(60)
    <3>4. CASE j.port = 0
      <4>1. j = i
        BY <1>8, <1>14, <3>1, <3>4
      <4>2. ~Changed(p, n)
        BY <3>1, <4>1, <2>4 DEF Changed, i
      <4>3. /\ Hosts(alloc[p][o]) = Hosts(life[Key(p, o)].ports)
            /\ \A x \in Hosts(alloc[p][o]) : occ[x] = Key(p, o)
        BY <2>2, <2>4, <3>4, <4>1, <4>2 DEF i
      <4>4. old \notin Hosts(alloc[p][o])
        <5>1. ASSUME old \in Hosts(alloc[p][o]) PROVE FALSE
          <6>1. occ[c.port] = Key(p, c.name) /\ life[Key(p, c.name)].on /\ ItemOf(cfg[p], c.name).kind = "host"
            BY <4>1, <4>3, <5>1, <1>16, <2>4, <3>1 DEF i
          <6> QED BY <6>1, <1>13 DEF ownHostServicePID
        <5> QED BY <5>1
      <4>5. alloc'[p][o] = alloc[p][o]
        BY <4>4, <1>5, <1>9
      <4> QED BY <2>4, <4>3, <4>5
    <3> QED BY <3>2, <3>3, <3>4
  <2> QED BY <2>3, <2>4
<1>25. DepsKept(p)'
  <2> SUFFICES ASSUME NEW n \in Names(cfg[p]), ItemOf(cfg'[p], n).kind # "host", life[Key(p, n)].on,
                      ~Changed(p, n)', ~Misread(p, n)', ~Is(p, n, "absent")'
               PROVE  /\ Hosts(alloc'[p][n]) \subseteq Hosts(life[Key(p, n)].ports)
                      /\ Insides(alloc'[p][n]) \subseteq Insides(life[Key(p, n)].ports)
    BY <1>10, <1>12 DEF DepsKept, ItemPorts
  <2>1. ~Is(p, n, "absent") /\ life[Key(p, n)].from = ItemOf(cfg'[p], n)
    BY <1>10, <1>17 DEF Changed
  <2>2. ASSUME ItemOf(cfg'[p], n) = ItemOf(cfg[p], n)
        PROVE  /\ Hosts(alloc[p][n]) \subseteq Hosts(life[Key(p, n)].ports)
               /\ Insides(alloc[p][n]) \subseteq Insides(life[Key(p, n)].ports)
    <3>1. ~Changed(p, n) /\ ~Misread(p, n)
      BY <1>10, <2>1, <2>2 DEF Changed, Misread
    <3> QED BY <1>0, <1>4, <2>1, <2>2, <3>1 DEF DepsKept, ItemPorts
  <2>3. CASE n # o
    BY <2>2, <2>3, <1>5, <1>12
  <2>4. CASE n = o
    <3>1. j.kind # "host" /\ life[Key(p, o)].from = j /\ life[Key(p, o)].on
      BY <2>1, <2>4, <1>12
    <3>2. \A x \in Hosts(life[Key(p, o)].ports) \cap Port : occ[x] = Key(p, o)
      BY <1>0, <1>16, <3>1 DEF Bound
    <3>3. CASE j = i
      <4>1. /\ Hosts(alloc[p][o]) \subseteq Hosts(life[Key(p, o)].ports)
            /\ Insides(alloc[p][o]) \subseteq Insides(life[Key(p, o)].ports)
        BY <2>2, <2>4, <3>3, <1>12 DEF i
      <4>2. old \notin Hosts(alloc[p][o])
        <5>1. ASSUME old \in Hosts(alloc[p][o]) PROVE FALSE
          <6>1. occ[old] = Key(p, o)
            BY <3>2, <4>1, <5>1, <1>3
          <6>2. occ[old] \in Keys /\ life[occ[old]].from.kind # "host"
            BY <6>1, <1>16, <3>1
          <6>3. CASE o \notin Shared
            <7>1. occ[old].owner = p
              BY <6>1, <6>3, KeyIs
            <7> QED BY <6>2, <7>1, <1>13 DEF isOwnContainer
          <6>4. CASE o \in Shared
            <7>1. occ[old].owner = Workspace /\ occ[old].name = o
              BY <6>1, <6>4 DEF Key
            <7>2. IsDep(i)
              <8>1. i.name = o
                BY <1>0, <1>3, ItemIs DEF i
              <8> QED BY <8>1, <1>7, <6>4, ServiceIsOwn DEF IsDep
            <7>3. occ[old].name \in {m \in Names(cfg[p]) : IsDep(ItemOf(cfg[p], m))}
              BY <7>1, <7>2, <1>3 DEF i
            <7> QED BY <6>2, <7>1, <7>3, <1>13 DEF isOwnContainer
          <6> QED BY <6>3, <6>4
        <5> QED BY <5>1
      <4>3. alloc'[p][o] = alloc[p][o]
        BY <4>2, <1>5, <1>9
      <4> QED BY <2>4, <4>1, <4>3
    <3>4. CASE j # i
      <4>1. j.kind = "pinned" /\ j.hosts = <<new>>
        BY <1>8, <3>1, <3>4
      <4>2. life[Key(p, o)].ports = assignExplicitDepPorts(j)
        BY <1>10, <1>12, <2>4, <4>1 DEF Misread
      <4>3. new \in Hosts(assignExplicitDepPorts(j))
        <5> DEFINE told == assignExplicitDepPorts(j)
        <5>1. 1 \in DOMAIN j.hosts /\ j.hosts[1] = new
          BY <4>1
        <5>2. 1 \in DOMAIN told /\ told[1].host = new
          BY <5>1 DEF assignExplicitDepPorts
        <5> HIDE DEF told
        <5>3. new \in Hosts(told)
          BY <5>2 DEF Hosts
        <5> QED BY <5>3 DEF told
      <4>4. occ[new] = Key(p, o)
        BY <3>2, <4>2, <4>3, <1>3
      <4> QED BY <4>4, <1>14, <1>16, NotKeys
    <3> QED BY <3>3, <3>4
  <2> QED BY <2>3, <2>4
<1>26. RunInv(p)'
  BY <1>20, <1>22, <1>23, <1>24, <1>25 DEF RunInv
<1>27. Wholes' /\ pc' \in [Project -> PortsPC] /\ \A q \in Project \ {p} : SameRun(q) /\ cfg'[q] = cfg[q]
  BY <1>0, <1>1, <1>2 DEF Wholes, PortsPC, SameRun
<1>28. DOMAIN cfg' = Project
  BY <1>0, <1>2
<1>29. known' \subseteq Project
  BY <1>10 DEF PortsInv, PortsTypeOK
<1> QED BY <1>0, <1>10, <1>19, <1>26, <1>27, <1>28, <1>29, RunStep

-----------------------------------------------------------------------------
(* The steps of the machine: what ends, what binds, what is edited.        *)

\* Something starts, or ends, on the machine, or binds a port.
LEMMA MachineStep ==
  ASSUME PortsInv, UNCHANGED <<cfg, alloc, runRest>>,
         pc' \in [Project -> PortsPC], known' \subseteq Project,
         DOMAIN occ' = Port, \A x \in Port : occ'[x] \in Keys \cup {Nobody, Intruder},
         DOMAIN life' = Keys, \A k \in Keys : LifeTypeOK(k)',
         LifeFits', Bound',
         \A q \in Project :
            \/ pc'[q] \in {"idle", "up"}
            \/ /\ pc'[q] = pc[q]
               /\ \A n \in Names(cfg[q]) :
                    \/ life'[Key(q, n)] = life[Key(q, n)]
                    \/ ~life'[Key(q, n)].on /\ (n \in Shared => ~HasReused(q))
               /\ \A n \in Names(cfg[q]) : \A x \in Port :
                    n \notin Shared /\ occ[x] = Key(q, n) /\ life'[Key(q, n)].on => occ'[x] = Key(q, n)
  PROVE  PortsInv'
<1>0. PortsTypeOK /\ Wholes /\ portsLock \in Project \cup {Nobody} /\ DOMAIN cfg = Project
  BY DEF PortsInv, PortsTypeOK, Wholes
<1>1. cfg' = cfg /\ alloc' = alloc /\ portsLock' = portsLock /\ todo' = todo /\ left' = left /\ adopted' = adopted /\ why' = why
  BY DEF runRest
<1>2. ASSUME NEW q \in Project PROVE RunTypeOK(q)' /\ RunInv(q)'
  <2>0. RunTypeOK(q) /\ RunInv(q) /\ Config(cfg[q])
    BY Types
  <2>1. CASE pc'[q] \in {"idle", "up"}
    <3>1. ~HasPorts(q)'
      BY <2>1 DEF HasPorts
    <3>2. RunTypeOK(q)'
      BY <1>1, <2>0, <3>1 DEF RunTypeOK
    <3>3. RunInv(q)'
      BY <2>1, AtRest
    <3> QED BY <3>2, <3>3
  <2>2. CASE ~(pc'[q] \in {"idle", "up"})
    <3>1. /\ pc'[q] = pc[q]
          /\ \A n \in Names(cfg[q]) :
                    \/ life'[Key(q, n)] = life[Key(q, n)]
                    \/ ~life'[Key(q, n)].on /\ (n \in Shared => ~HasReused(q))
          /\ \A n \in Names(cfg[q]) : \A x \in Port :
                    n \notin Shared /\ occ[x] = Key(q, n) /\ life'[Key(q, n)].on => occ'[x] = Key(q, n)
      BY <2>2
    <3>2. RunTypeOK(q)'
      BY <1>1, <2>0, <3>1, SameRunTypeOK DEF SameRun
    <3>3. RunInv(q)'
      BY <1>1, <2>0, <3>1, Others
    <3> QED BY <3>2, <3>3
  <2> QED BY <2>1, <2>2
<1>3. PortsTypeOK'
  BY <1>0, <1>1, <1>2 DEF PortsTypeOK, Wholes
<1> QED BY <1>2, <1>3 DEF PortsInv

LEMMA Finishes ==
  ASSUME PortsInv, NEW p \in Project, Finish(p)
  PROVE  PortsInv'
<1>0. RunTypeOK(p) /\ Wholes /\ pc \in [Project -> PortsPC] /\ portsLock \in Project \cup {Nobody} /\ DOMAIN cfg = Project
      /\ known \subseteq Project
  BY Types DEF PortsInv, PortsTypeOK
<1>1. pc' = [pc EXCEPT ![p] = "up"] /\ known' = known \cup {p} /\ Ends(p) /\ UNCHANGED <<cfg, occ, life, edits, portsLock>>
  BY DEF Finish
<1>2. pc'[p] = "up" /\ todo'[p] = {} /\ left'[p] = {} /\ adopted'[p] = {} /\ why'[p] = {}
  BY <1>0, <1>1 DEF Ends, Wholes
<1>3. RunTypeOK(p)'
  BY <1>0, <1>1, <1>2 DEF RunTypeOK, HasPorts
<1>4. RunInv(p)'
  BY <1>2, AtRest
<1>5. Wholes' /\ pc' \in [Project -> PortsPC] /\ \A q \in Project \ {p} : SameRun(q)
  BY <1>0, <1>1 DEF Ends, Wholes, PortsPC, SameRun
<1>6. known' \subseteq Project /\ DOMAIN cfg' = Project /\ portsLock' \in Project \cup {Nobody}
  BY <1>0, <1>1
<1> QED BY <1>1, <1>3, <1>4, <1>5, <1>6, RunStep

LEMMA Edits ==
  ASSUME PortsInv, NEW p \in Project, Edit(p)
  PROVE  PortsInv'
<1>0. RunTypeOK(p) /\ Wholes /\ pc \in [Project -> PortsPC] /\ portsLock \in Project \cup {Nobody} /\ DOMAIN cfg = Project
      /\ known \subseteq Project
  BY Types DEF PortsInv, PortsTypeOK
<1>1. PICK f \in Plans : /\ \A q \in Project : Names(f[q]) = Names(cfg[q])
                         /\ cfg' = [cfg EXCEPT ![p] = f[p]]
  BY DEF Edit
<1>2. pc[p] \in {"idle", "up"} /\ UNCHANGED <<occ, known, life, pc, alloc, runRest>>
  BY DEF Edit
<1>3. Config(cfg'[p]) /\ Names(cfg'[p]) = Names(cfg[p]) /\ DOMAIN cfg' = Project
      /\ \A q \in Project \ {p} : cfg'[q] = cfg[q]
  BY <1>0, <1>1, PlansAssumption
<1>4. RunTypeOK(p)'
  BY <1>0, <1>2, <1>3 DEF RunTypeOK, HasPorts, runRest
<1>5. RunInv(p)'
  BY <1>2, AtRest
<1>6. Wholes' /\ pc' \in [Project -> PortsPC] /\ \A q \in Project \ {p} : SameRun(q)
  BY <1>0, <1>2 DEF Wholes, SameRun, runRest
<1>7. occ' = occ /\ known' \subseteq Project /\ life' = life /\ portsLock' \in Project \cup {Nobody}
  BY <1>0, <1>2 DEF runRest
<1> QED BY <1>3, <1>4, <1>5, <1>6, <1>7, RunStep

LEMMA Machine ==
  ASSUME PortsInv
  PROVE  /\ DOMAIN occ = Port /\ \A x \in Port : occ[x] \in Keys \cup {Nobody, Intruder}
         /\ DOMAIN life = Keys /\ \A k \in Keys : LifeTypeOK(k)
         /\ LifeFits /\ Bound /\ pc \in [Project -> PortsPC] /\ known \subseteq Project
         /\ portsLock \in Project \cup {Nobody} /\ DOMAIN cfg = Project
BY DEF PortsInv, PortsTypeOK

LEMMA Intrudes ==
  ASSUME PortsInv, NEW x \in Contested, Intrude(x)
  PROVE  PortsInv'
<1>0. /\ DOMAIN occ = Port /\ \A y \in Port : occ[y] \in Keys \cup {Nobody, Intruder}
      /\ DOMAIN life = Keys /\ \A k \in Keys : LifeTypeOK(k)
      /\ LifeFits /\ Bound /\ pc \in [Project -> PortsPC] /\ known \subseteq Project
  BY Machine
<1>1. occ[x] = Nobody /\ occ' = [occ EXCEPT ![x] = Intruder] /\ UNCHANGED <<cfg, known, life, pc, alloc, runRest>>
  BY DEF Intrude
<1>2. life' = life /\ pc' = pc /\ known' = known
  BY <1>1
<1>3. DOMAIN occ' = Port /\ \A y \in Port : occ'[y] \in Keys \cup {Nobody, Intruder}
  BY <1>0, <1>1
<1>4. \A k \in Keys : LifeTypeOK(k)'
  BY <1>0, <1>2 DEF LifeTypeOK
<1>5. LifeFits'
  BY <1>0, <1>2 DEF LifeFits
<1>6. \A y \in Port : \A k \in Keys : occ[y] = k <=> occ'[y] = k
  BY <1>0, <1>1, NotKeys
<1>7. Bound'
  <2>1. ASSUME NEW y \in Port, occ'[y] \in Keys PROVE life'[occ'[y]].on /\ y \in Hosts(life'[occ'[y]].ports)
    <3>1. occ'[y] = occ[y]
      BY <1>6, <2>1
    <3> QED BY <3>1, <2>1, <1>0, <1>2 DEF Bound
  <2>2. ASSUME NEW k \in Keys, life'[k].on, life'[k].from.kind # "host", NEW y \in Hosts(life'[k].ports) \cap Port
        PROVE  occ'[y] = k
    <3>1. occ[y] = k
      BY <1>0, <1>2, <2>2 DEF Bound
    <3> QED BY <3>1, <1>6
  <2> QED BY <2>1, <2>2 DEF Bound
<1>8. ASSUME NEW q \in Project, NEW n \in Names(cfg[q]), NEW y \in Port, occ[y] = Key(q, n)
      PROVE  occ'[y] = Key(q, n)
  <2>1. Key(q, n) \in Keys
    BY Types DEF RunTypeOK
  <2> QED BY <1>6, <1>8, <2>1
<1> QED BY <1>0, <1>1, <1>2, <1>3, <1>4, <1>5, <1>7, <1>8, MachineStep

\* What ends with D, or by its name, is of no project that has an `up` on its way.
LEMMA Stopped ==
  ASSUME NEW D \in SUBSET Project, NEW names, \A q \in names \cap Project : Resting(q),
         NEW q \in Project \ D, ~Resting(q), NEW n
  PROVE  Key(q, n) \notin downOrchestrated(D) \cup StopProjectContainers(names)
<1>1. Key(q, n).owner \in {q, Workspace} /\ Workspace \notin Project
  BY NotKeys DEF Key
<1>2. pc[q] # "idle"
  BY DEF Resting
<1>3. Key(q, n) \notin downOrchestrated(D)
  BY <1>1, <1>2 DEF downOrchestrated
<1>4. Key(q, n) \notin StopProjectContainers(names)
  BY <1>1 DEF StopProjectContainers
<1> QED BY <1>3, <1>4

LEMMA EndedStep ==
  ASSUME PortsInv, NEW gone, NEW D \in SUBSET Project, Ended(gone, D),
         \A q \in Project \ D : ~Resting(q) => \A n : Key(q, n) \notin gone
  PROVE  PortsInv'
<1>0. /\ DOMAIN occ = Port /\ \A y \in Port : occ[y] \in Keys \cup {Nobody, Intruder}
      /\ DOMAIN life = Keys /\ \A k \in Keys : LifeTypeOK(k)
      /\ LifeFits /\ Bound /\ pc \in [Project -> PortsPC] /\ known \subseteq Project
  BY Machine
<1>1. /\ life' = [k \in Keys |-> IF k \in gone THEN Off ELSE life[k]]
      /\ occ' = [x \in Port |-> IF occ[x] \in gone THEN Nobody ELSE occ[x]]
      /\ pc' = [q \in Project |-> IF q \in D THEN "idle" ELSE pc[q]]
      /\ known' = known \ D
      /\ UNCHANGED <<cfg, alloc, runRest, edits>>
  BY DEF Ended, Freed
<1>2. pc' \in [Project -> PortsPC] /\ known' \subseteq Project /\ DOMAIN life' = Keys /\ DOMAIN occ' = Port
  BY <1>0, <1>1 DEF PortsPC
<1>3. \A y \in Port : occ'[y] \in Keys \cup {Nobody, Intruder}
  BY <1>0, <1>1
<1>4. ASSUME NEW k \in Keys PROVE LifeTypeOK(k)'
  <2>1. LifeTypeOK(k)
    BY <1>0
  <2>2. life'[k] = Off \/ life'[k] = life[k]
    BY <1>1
  <2> QED BY <2>1, <2>2 DEF LifeTypeOK
<1>5. LifeFits'
  <2>1. ASSUME NEW k \in Keys, life'[k].on PROVE StartsWith(life'[k].from, life'[k].ports)
    <3>1. life'[k] = life[k]
      BY <1>1, <2>1 DEF Off
    <3> QED BY <3>1, <2>1, <1>0 DEF LifeFits
  <2> QED BY <2>1 DEF LifeFits
<1>6. Bound'
  <2>1. ASSUME NEW y \in Port, occ'[y] \in Keys PROVE life'[occ'[y]].on /\ y \in Hosts(life'[occ'[y]].ports)
    <3>1. occ'[y] = occ[y] /\ occ[y] \notin gone
      BY <1>1, <2>1, NotKeys
    <3>2. life'[occ[y]] = life[occ[y]]
      BY <1>1, <2>1, <3>1
    <3> QED BY <3>1, <3>2, <2>1, <1>0 DEF Bound
  <2>2. ASSUME NEW k \in Keys, life'[k].on, life'[k].from.kind # "host", NEW y \in Hosts(life'[k].ports) \cap Port
        PROVE  occ'[y] = k
    <3>1. life'[k] = life[k] /\ k \notin gone
      BY <1>1, <2>2 DEF Off
    <3>2. occ[y] = k
      BY <1>0, <3>1, <2>2 DEF Bound
    <3> QED BY <3>1, <3>2, <1>1
  <2> QED BY <2>1, <2>2 DEF Bound
<1>7. ASSUME NEW q \in Project, ~(pc'[q] \in {"idle", "up"})
      PROVE  /\ pc'[q] = pc[q]
             /\ \A n \in Names(cfg[q]) : life'[Key(q, n)] = life[Key(q, n)]
             /\ \A n \in Names(cfg[q]) : \A x \in Port : occ[x] = Key(q, n) => occ'[x] = Key(q, n)
  <2>1. q \notin D /\ pc'[q] = pc[q]
    BY <1>1, <1>7
  <2>2. \A n : Key(q, n) \notin gone
    BY <1>7, <2>1 DEF Resting
  <2>3. \A n \in Names(cfg[q]) : Key(q, n) \in Keys
    BY Types DEF RunTypeOK
  <2> QED BY <2>1, <2>2, <2>3, <1>1
<1>8. UNCHANGED <<cfg, alloc, runRest>>
  BY <1>1
<1> QED BY <1>0, <1>2, <1>3, <1>4, <1>5, <1>6, <1>7, <1>8, MachineStep

LEMMA Downs ==
  ASSUME PortsInv, NEW p \in Project, Down(p)
  PROVE  PortsInv'
<1>1. Ended(downOrchestrated({p}), {p})
  BY DEF Down
<1>2. ASSUME NEW q \in Project \ {p}, ~Resting(q), NEW n PROVE Key(q, n) \notin downOrchestrated({p})
  <2>1. {p} \in SUBSET Project /\ \A r \in {} \cap Project : Resting(r)
    OBVIOUS
  <2>2. Key(q, n) \notin downOrchestrated({p}) \cup StopProjectContainers({})
    BY <1>2, <2>1, Stopped
  <2> QED BY <2>2
<1> QED BY <1>1, <1>2, EndedStep, {p} \in SUBSET Project

LEMMA StopsOthers ==
  ASSUME PortsInv, NEW p \in Project, NEW names, Stop(p, names)
  PROVE  PortsInv'
<1> DEFINE D == downProjectAt(names)
<1>1. Ended(stopProjects(names), D) /\ \A q \in names \cap Project : Resting(q)
  BY DEF Stop, approveStopping
<1>2. D \in SUBSET Project
  BY Machine DEF downProjectAt
<1> HIDE DEF D
<1>3. \A q \in Project \ D : ~Resting(q) => \A n : Key(q, n) \notin stopProjects(names)
  BY <1>1, <1>2, Stopped DEF stopProjects, D
<1> QED BY <1>1, <1>2, <1>3, EndedStep

LEMMA StopsWorkspace ==
  ASSUME PortsInv, NEW p \in Project, downOtherWorkspaceProjects(p)
  PROVE  PortsInv'
<1> DEFINE names == ListActiveProjects \ {p}
           D == downProjectAt(names) \cup {p}
           gone == downOrchestrated(D) \cup StopProjectContainers(names)
<1>1. Ended(gone, D) /\ \A q \in names \cap Project : Resting(q)
  BY DEF downOtherWorkspaceProjects, approveStopping
<1>2. D \in SUBSET Project
  BY Machine DEF downProjectAt
<1> HIDE DEF D, names
<1>3. \A q \in Project \ D : ~Resting(q) => \A n : Key(q, n) \notin gone
  BY <1>1, <1>2, Stopped
<1> QED BY <1>1, <1>2, <1>3, EndedStep

LEMMA Binds ==
  ASSUME PortsInv, NEW k \in Keys, Bind(k)
  PROVE  PortsInv'
<1>0. /\ DOMAIN occ = Port /\ \A y \in Port : occ[y] \in Keys \cup {Nobody, Intruder}
      /\ DOMAIN life = Keys /\ \A l \in Keys : LifeTypeOK(l)
      /\ LifeFits /\ Bound /\ pc \in [Project -> PortsPC] /\ known \subseteq Project
  BY Machine
<1> DEFINE x == life[k].ports[1].host
<1>1. /\ life[k].on /\ life[k].ports # <<>> /\ life[k].from.kind = "host" /\ x \in Port /\ Listens(k) = {}
      /\ UNCHANGED <<cfg, known, pc, alloc, runRest>>
  BY DEF Bind
<1>2. \/ occ[x] = Nobody /\ occ' = [occ EXCEPT ![x] = k] /\ life' = life
      \/ life' = [life EXCEPT ![k] = Off] /\ occ' = occ
  BY DEF Bind
<1>3. Item(life[k].from) /\ k.owner \in Project /\ StartsWith(life[k].from, life[k].ports)
  BY <1>0, <1>1 DEF LifeTypeOK, LifeFits, Off
<1>4. Hosts(life[k].ports) = {x}
  <2>1. \/ Hosts(life[k].ports) = {}
        \/ DOMAIN life[k].ports = 1..1 /\ Hosts(life[k].ports) = {x}
    BY <1>1, <1>3, StartsPorts
  <2>2. life[k].ports \in Seq(Request)
    BY <1>3, StartsPorts
  <2>3. 1 \in DOMAIN life[k].ports
    BY <1>1, <2>2
  <2> QED BY <2>1, <2>3 DEF Hosts
<1>5. \A y \in Port : occ[y] # k
  BY <1>1 DEF Listens
<1>6. pc' \in [Project -> PortsPC] /\ known' \subseteq Project /\ DOMAIN life' = Keys /\ DOMAIN occ' = Port
  BY <1>0, <1>1, <1>2
<1>7. \A y \in Port : occ'[y] \in Keys \cup {Nobody, Intruder}
  BY <1>0, <1>1, <1>2
<1>8. ASSUME NEW l \in Keys PROVE LifeTypeOK(l)'
  <2>1. LifeTypeOK(l)
    BY <1>0
  <2>2. life'[l] = Off \/ life'[l] = life[l]
    BY <1>0, <1>2
  <2> QED BY <2>1, <2>2 DEF LifeTypeOK
<1>9. LifeFits'
  <2>1. ASSUME NEW l \in Keys, life'[l].on PROVE StartsWith(life'[l].from, life'[l].ports)
    <3>1. life'[l] = life[l]
      BY <1>0, <1>2, <2>1 DEF Off
    <3> QED BY <3>1, <2>1, <1>0 DEF LifeFits
  <2> QED BY <2>1 DEF LifeFits
<1> HIDE DEF x
<1>10. Bound'
  <2>1. ASSUME NEW y \in Port, occ'[y] \in Keys PROVE life'[occ'[y]].on /\ y \in Hosts(life'[occ'[y]].ports)
    <3>1. CASE occ[x] = Nobody /\ occ' = [occ EXCEPT ![x] = k] /\ life' = life
      <4>1. CASE y = x
        BY <4>1, <3>1, <1>0, <1>1, <1>4
      <4>2. CASE y # x
        BY <4>2, <3>1, <2>1, <1>0 DEF Bound
      <4> QED BY <4>1, <4>2
    <3>2. CASE life' = [life EXCEPT ![k] = Off] /\ occ' = occ
      <4>1. occ[y] # k
        BY <1>5
      <4>2. life'[occ[y]] = life[occ[y]] /\ occ[y] \in Keys
        BY <4>1, <3>2, <2>1, <1>0
      <4> QED BY <4>2, <3>2, <1>0 DEF Bound
    <3> QED BY <3>1, <3>2, <1>2
  <2>2. ASSUME NEW l \in Keys, life'[l].on, life'[l].from.kind # "host", NEW y \in Hosts(life'[l].ports) \cap Port
        PROVE  occ'[y] = l
    <3>1. l # k /\ life'[l] = life[l]
      BY <1>0, <1>1, <1>2, <2>2 DEF Off
    <3>2. occ[y] = l
      BY <1>0, <3>1, <2>2 DEF Bound
    <3>3. occ'[y] = occ[y]
      BY <1>2, <3>2, <1>0, NotKeys
    <3> QED BY <3>2, <3>3
  <2> QED BY <2>1, <2>2 DEF Bound
<1>11. ASSUME NEW q \in Project, NEW n \in Names(cfg[q])
       PROVE  /\ \/ life'[Key(q, n)] = life[Key(q, n)]
                 \/ ~life'[Key(q, n)].on /\ n \notin Shared
              /\ \A y \in Port : occ[y] = Key(q, n) => occ'[y] = Key(q, n)
  <2>1. Key(q, n) \in Keys
    BY Types DEF RunTypeOK
  <2>2. Key(q, n) = k => n \notin Shared
    BY <1>3, NotKeys DEF Key
  <2>3. life'[Key(q, n)] = life[Key(q, n)] \/ (~life'[Key(q, n)].on /\ n \notin Shared)
    BY <1>0, <1>2, <2>1, <2>2 DEF Off
  <2>4. \A y \in Port : occ[y] = Key(q, n) => occ'[y] = Key(q, n)
    BY <1>0, <1>2, <2>1, NotKeys
  <2> QED BY <2>3, <2>4
<1>12. UNCHANGED <<cfg, alloc, runRest>> /\ pc' = pc
  BY <1>1
<1> QED BY <1>0, <1>6, <1>7, <1>8, <1>9, <1>10, <1>11, <1>12, MachineStep

-----------------------------------------------------------------------------
(* What is started, and started again.                                     *)

\* What a restart, or a start, makes of an item.
LEMMA StartedIs ==
  ASSUME NEW k \in Keys, NEW i, Item(i), i.name = k.name, i.kind = "host" => k.owner \in Project,
         NEW ports, StartsWith(i, ports),
         life' = [life EXCEPT ![k] = Started(i, ports)],
         DOMAIN life = Keys, \A l \in Keys : LifeTypeOK(l), LifeFits
  PROVE  /\ DOMAIN life' = Keys /\ LifeFits' /\ \A l \in Keys : LifeTypeOK(l)'
         /\ life'[k] = Started(i, ports)
         /\ \A l \in Keys \ {k} : life'[l] = life[l]
<1> DEFINE new == Started(i, ports)
<1>1. new.on = TRUE /\ new.ports = ports /\ new.from = i /\ DOMAIN new = DOMAIN Off
  BY DEF Started, Off
<1> HIDE DEF new
<1>2. DOMAIN life' = Keys /\ life'[k] = new /\ \A l \in Keys \ {k} : life'[l] = life[l]
  BY DEF new
<1>3. ASSUME NEW l \in Keys PROVE LifeTypeOK(l)'
  <2>1. CASE l = k
    BY <2>1, <1>1, <1>2 DEF LifeTypeOK
  <2>2. CASE l # k
    BY <2>2, <1>2 DEF LifeTypeOK
  <2> QED BY <2>1, <2>2
<1>4. LifeFits'
  BY <1>1, <1>2 DEF LifeFits
<1> QED BY <1>2, <1>3, <1>4 DEF new

\* The items that a project starts on the host are its own.
LEMMA KeyOfItem ==
  ASSUME NEW p \in Project, NEW n, NEW i, Item(i), i.name = n
  PROVE  /\ i.name = Key(p, n).name
         /\ i.kind = "host" => Key(p, n).owner \in Project /\ n \notin Shared
<1>1. i.kind = "host" => n \notin Shared
  BY ServiceIsOwn DEF IsService
<1> QED BY <1>1 DEF Key

LEMMA Restarts ==
  ASSUME PortsInv, NEW p \in Project, NEW n \in Names(cfg[p]), Restart(p, n)
  PROVE  PortsInv'
<1>0. /\ DOMAIN occ = Port /\ \A y \in Port : occ[y] \in Keys \cup {Nobody, Intruder}
      /\ DOMAIN life = Keys /\ \A k \in Keys : LifeTypeOK(k)
      /\ LifeFits /\ Bound /\ pc \in [Project -> PortsPC] /\ known \subseteq Project
  BY Machine
<1> DEFINE i == ItemOf(cfg[p], n)
           k == Key(p, n)
           owned == runningHostPorts(p)
           ports == IF Allocation(p).ok THEN Allocation(p).ports[n] ELSE OwnPort(i)
<1>1. /\ pc[p] = "up" /\ i.kind = "host" /\ life' = [life EXCEPT ![k] = Started(i, ports)]
      /\ occ' = [x \in Port |-> IF occ[x] \in {k} THEN Nobody ELSE occ[x]]
      /\ UNCHANGED <<cfg, known, pc, alloc, runRest>>
  BY DEF Restart, Freed
<1>2. Config(cfg[p]) /\ k \in Keys /\ Item(i) /\ i.name = n
  BY Types, ItemIs DEF RunTypeOK
<1>3. StartsWith(i, ports)
  <2>1. CASE Allocation(p).ok
    <3>1. AllocateHostPortsOwned(cfg[p], owned, Busy) = Allocation(p)
      BY DEF Allocation
    <3>2. \A m \in Names(cfg[p]) : owned[m] \in SUBSET Port
      BY DEF runningHostPorts, Listens
    <3> HIDE DEF owned
    <3>3. AllocateHostPortsOwned(cfg[p], owned, Busy).ok
      BY <2>1, <3>1
    <3>4. IF Pass(i) = 0 THEN ports = <<>> ELSE Fits(i, ports)
      BY <1>2, <2>1, <3>1, <3>2, <3>3, ChosenFits
    <3> QED BY <3>4, <1>1 DEF StartsWith, declaredPorts
  <2>2. CASE ~Allocation(p).ok
    BY <2>2, <1>1 DEF StartsWith
  <2> QED BY <2>1, <2>2
<1> HIDE DEF i, ports
<1>4. /\ DOMAIN life' = Keys /\ LifeFits' /\ \A l \in Keys : LifeTypeOK(l)'
      /\ life'[k].ports = ports /\ life'[k].from = i
      /\ \A l \in Keys \ {k} : life'[l] = life[l]
  <2>1. i.name = k.name /\ (i.kind = "host" => k.owner \in Project)
    BY <1>2, KeyOfItem
  <2>2. /\ DOMAIN life' = Keys /\ LifeFits' /\ \A l \in Keys : LifeTypeOK(l)'
        /\ life'[k] = Started(i, ports)
        /\ \A l \in Keys \ {k} : life'[l] = life[l]
    <3> HIDE DEF k
    <3> QED BY <2>1, <1>0, <1>1, <1>2, <1>3, StartedIs
  <2> QED BY <2>2 DEF Started
<1>5. n \notin Shared
  BY <1>1, <1>2, ServiceIsOwn DEF IsService
<1>6. Bound'
  <2>1. ASSUME NEW y \in Port, occ'[y] \in Keys PROVE life'[occ'[y]].on /\ y \in Hosts(life'[occ'[y]].ports)
    <3>1. occ'[y] = occ[y] /\ occ[y] # k
      BY <1>1, <2>1, NotKeys
    <3> QED BY <3>1, <2>1, <1>0, <1>4 DEF Bound
  <2>2. ASSUME NEW l \in Keys, life'[l].on, life'[l].from.kind # "host", NEW y \in Hosts(life'[l].ports) \cap Port
        PROVE  occ'[y] = l
    <3>1. l # k /\ life'[l] = life[l]
      BY <1>1, <1>4, <2>2
    <3>2. occ[y] = l
      BY <1>0, <3>1, <2>2 DEF Bound
    <3> QED BY <3>1, <3>2, <1>1
  <2> QED BY <2>1, <2>2 DEF Bound
<1>7. ASSUME NEW q \in Project, ~(pc'[q] \in {"idle", "up"}), NEW m \in Names(cfg[q])
      PROVE  /\ life'[Key(q, m)] = life[Key(q, m)]
             /\ \A x \in Port : occ[x] = Key(q, m) => occ'[x] = Key(q, m)
  <2>1. q # p
    BY <1>1, <1>7
  <2>2. Key(q, m) \in Keys
    BY Types DEF RunTypeOK
  <2>3. Key(q, m) # k
    BY <1>5, <2>1, KeyIs
  <2> QED BY <2>2, <2>3, <1>1, <1>4
<1>8. DOMAIN occ' = Port /\ \A y \in Port : occ'[y] \in Keys \cup {Nobody, Intruder}
  BY <1>0, <1>1
<1>9. UNCHANGED <<cfg, alloc, runRest>> /\ pc' = pc /\ known' = known
  BY <1>1
<1> QED BY <1>0, <1>4, <1>6, <1>7, <1>8, <1>9, MachineStep

\* A step of p's `up` that starts an item, or finds that it runs.
LEMMA StartStep ==
  ASSUME PortsInv, NEW p \in Project, pc[p] = "starting", NEW n, left' = [left EXCEPT ![p] = @ \ {n}],
         UNCHANGED <<cfg, known, portsLock, pc, alloc, todo, adopted>>,
         DOMAIN why' = Project, \A q \in Project \ {p} : why'[q] = why[q], why'[p] \subseteq why[p],
         DOMAIN occ' = Port, \A x \in Port : occ'[x] \in Keys \cup {Nobody, Intruder},
         DOMAIN life' = Keys, \A k \in Keys : LifeTypeOK(k)',
         LifeFits', Bound', RunInv(p)',
         \A q \in Project \ {p} : \A m \in Names(cfg[q]) :
            /\ \/ life'[Key(q, m)] = life[Key(q, m)]
               \/ m \in Shared /\ ~life[Key(q, m)].on /\ life'[Key(q, m)].on
            /\ \A x \in Port : m \notin Shared /\ occ[x] = Key(q, m) => occ'[x] = Key(q, m)
  PROVE  PortsInv'
<1>0. PortsTypeOK /\ Wholes
  BY DEF PortsInv, PortsTypeOK, Wholes
<1>1. left'[p] \subseteq left[p] /\ \A q \in Project \ {p} : left'[q] = left[q]
  BY <1>0 DEF Wholes
<1>2. ASSUME NEW q \in Project PROVE RunTypeOK(q)' /\ RunInv(q)'
  <2>0. RunTypeOK(q) /\ RunInv(q) /\ Config(cfg[q])
    BY Types
  <2>1. CASE q = p
    BY <2>0, <2>1, <1>1 DEF RunTypeOK, HasPorts
  <2>2. CASE q # p
    <3>1. RunTypeOK(q)'
      BY <1>1, <2>0, <2>2, SameRunTypeOK DEF SameRun
    <3>2. RunInv(q)'
      BY <1>1, <2>0, <2>2, Others
    <3> QED BY <3>1, <3>2
  <2> QED BY <2>1, <2>2
<1>3. Wholes'
  BY <1>0 DEF Wholes
<1>4. PortsTypeOK'
  BY <1>0, <1>2, <1>3 DEF PortsTypeOK, Wholes
<1> QED BY <1>2, <1>4 DEF PortsInv

LEMMA Skips ==
  ASSUME PortsInv, NEW p \in Project, pc[p] = "starting", NEW n, left' = [left EXCEPT ![p] = @ \ {n}],
         UNCHANGED <<cfg, occ, known, life, portsLock, pc, alloc, todo, adopted, why>>
  PROVE  PortsInv'
<1>0. /\ RunTypeOK(p) /\ Wholes /\ pc \in [Project -> PortsPC]
      /\ AllocFits(p) /\ Adopts(p) /\ Apart(p) /\ HostsKept(p) /\ DepsKept(p) /\ AbsentNoted(p)
  BY Types
<1>1. /\ DOMAIN occ = Port /\ \A y \in Port : occ[y] \in Keys \cup {Nobody, Intruder}
      /\ DOMAIN life = Keys /\ \A k \in Keys : LifeTypeOK(k)
      /\ LifeFits /\ Bound
  BY Machine
<1>2. left'[p] \subseteq left[p]
  BY <1>0 DEF Wholes
<1>3. Adopts(p)'
  BY <1>0, <1>2 DEF Adopts
<1>4. AllocFits(p)' /\ Apart(p)' /\ HostsKept(p)'
  BY <1>0 DEF AllocFits, Apart, HostsKept, HasPorts, ItemPorts, Is, Changed, Unallocated
<1>5. DepsKept(p)' /\ AbsentNoted(p)'
  BY <1>0 DEF DepsKept, AbsentNoted, HasReused, ItemPorts, Is, Changed, Misread
<1>6. RunInv(p)'
  BY <1>3, <1>4, <1>5 DEF RunInv
<1>7. LifeFits' /\ Bound' /\ \A k \in Keys : LifeTypeOK(k)'
  BY <1>1 DEF LifeFits, Bound, LifeTypeOK
<1>8. DOMAIN why' = Project
  BY <1>0 DEF Wholes
<1>9. occ' = occ /\ life' = life /\ why' = why /\ UNCHANGED <<cfg, known, portsLock, pc, alloc, todo, adopted>>
  OBVIOUS
<1>10. \A q \in Project \ {p} : \A m \in Names(cfg[q]) :
            /\ \/ life'[Key(q, m)] = life[Key(q, m)]
               \/ m \in Shared /\ ~life[Key(q, m)].on /\ life'[Key(q, m)].on
            /\ \A x \in Port : m \notin Shared /\ occ[x] = Key(q, m) => occ'[x] = Key(q, m)
  BY <1>9
<1>11. /\ \A q \in Project \ {p} : why'[q] = why[q]
       /\ why'[p] \subseteq why[p]
       /\ DOMAIN occ' = Port /\ DOMAIN life' = Keys /\ \A x \in Port : occ'[x] \in Keys \cup {Nobody, Intruder}
  BY <1>1, <1>9
<1> QED BY <1>6, <1>7, <1>8, <1>9, <1>10, <1>11, StartStep

LEMMA StartsService ==
  ASSUME PortsInv, NEW p \in Project, StartService(p)
  PROVE  PortsInv'
<1>0. /\ RunTypeOK(p) /\ Wholes /\ pc \in [Project -> PortsPC] /\ Config(cfg[p])
      /\ AllocFits(p) /\ Adopts(p) /\ Apart(p) /\ HostsKept(p) /\ DepsKept(p) /\ AbsentNoted(p)
  BY Types
<1>1. /\ DOMAIN occ = Port /\ \A y \in Port : occ[y] \in Keys \cup {Nobody, Intruder}
      /\ DOMAIN life = Keys /\ \A k \in Keys : LifeTypeOK(k)
      /\ LifeFits /\ Bound
  BY Machine
<1>2. PICK n \in left[p] :
        /\ pc[p] = "starting" /\ ItemOf(cfg[p], n).kind = "host"
        /\ left' = [left EXCEPT ![p] = @ \ {n}]
        /\ life' = IF n \in adopted[p] THEN life
                   ELSE [life EXCEPT ![Key(p, n)] = Started(ItemOf(cfg[p], n), alloc[p][n])]
        /\ UNCHANGED <<cfg, occ, known, portsLock, pc, alloc, todo, adopted, why, edits>>
  BY DEF StartService
<1>3. CASE n \in adopted[p]
  BY <1>2, <1>3, Skips
<1>4. CASE n \notin adopted[p]
  <2> DEFINE i == ItemOf(cfg[p], n)
             k == Key(p, n)
             ports == alloc[p][n]
  <2>1. n \in Names(cfg[p]) /\ k \in Keys /\ Item(i) /\ i.name = n
    BY <1>0, ItemIs DEF RunTypeOK
  <2>2. ~life[k].on
    BY <1>0, <1>2, <1>4, <2>1 DEF Adopts
  <2>3. StartsWith(i, ports)
    <3>1. IF Pass(i) = 0 THEN ports = <<>> ELSE Fits(i, ports)
      BY <1>0, <1>2, <2>1 DEF AllocFits, HasPorts
    <3> QED BY <3>1, <1>2 DEF StartsWith, declaredPorts
  <2>4. life' = [life EXCEPT ![Key(p, n)] = Started(i, ports)] /\ i.kind = "host"
    BY <1>2, <1>4
  <2> HIDE DEF i, ports
  <2>5. /\ DOMAIN life' = Keys /\ LifeFits' /\ \A l \in Keys : LifeTypeOK(l)'
        /\ life'[Key(p, n)].ports = ports /\ life'[Key(p, n)].from = i
        /\ \A l \in Keys \ {Key(p, n)} : life'[l] = life[l]
    <3>1. i.name = k.name /\ (i.kind = "host" => k.owner \in Project)
      BY <2>1, KeyOfItem
    <3>2. life' = [life EXCEPT ![k] = Started(i, ports)]
      BY <2>4
    <3>3. /\ DOMAIN life' = Keys /\ LifeFits' /\ \A l \in Keys : LifeTypeOK(l)'
          /\ life'[k] = Started(i, ports)
          /\ \A l \in Keys \ {k} : life'[l] = life[l]
      <4> HIDE DEF k
      <4> QED BY <3>1, <3>2, <2>1, <2>3, <1>1, StartedIs
    <3> QED BY <3>3 DEF Started
  <2>6. n \notin Shared
    BY <2>1, <2>4, ServiceIsOwn DEF IsService
  <2>7. \A y \in Port : occ[y] # k
    BY <1>1, <2>1, <2>2 DEF Bound
  <2>8. Bound'
    <3>1. ASSUME NEW y \in Port, occ'[y] \in Keys PROVE life'[occ'[y]].on /\ y \in Hosts(life'[occ'[y]].ports)
      <4>1. occ'[y] = occ[y] /\ occ[y] # k
        BY <1>2, <2>7
      <4> QED BY <4>1, <3>1, <1>1, <2>5 DEF Bound
    <3>2. ASSUME NEW l \in Keys, life'[l].on, life'[l].from.kind # "host", NEW y \in Hosts(life'[l].ports) \cap Port
          PROVE  occ'[y] = l
      <4>1. l # k /\ life'[l] = life[l]
        BY <2>4, <2>5, <3>2
      <4>2. occ[y] = l
        BY <1>1, <4>1, <3>2 DEF Bound
      <4> QED BY <4>2, <1>2
    <3> QED BY <3>1, <3>2 DEF Bound
  <2>9. ASSUME NEW q \in Project, NEW m \in Names(cfg[q]), q # p \/ m # n
        PROVE  life'[Key(q, m)] = life[Key(q, m)]
    <3>1. Key(q, m) \in Keys
      BY Types DEF RunTypeOK
    <3>2. Key(q, m) # Key(p, n)
      BY <2>6, <2>9, KeyIs
    <3> QED BY <3>1, <3>2, <2>5
  <2>10. AllocFits(p)' /\ Apart(p)'
    BY <1>0, <1>2 DEF AllocFits, Apart, HasPorts, ItemPorts, Is
  <2>11. left'[p] = left[p] \ {n} /\ cfg' = cfg /\ pc' = pc /\ alloc' = alloc /\ adopted' = adopted /\ why' = why /\ occ' = occ
    BY <1>0, <1>2 DEF Wholes
  <2>12. Adopts(p)'
    <3> SUFFICES ASSUME NEW m \in Names(cfg[p]), ItemOf(cfg[p], m).kind = "host", life'[Key(p, m)].on, m \in left'[p]
                 PROVE  m \in adopted[p]
      BY <1>2, <2>11 DEF Adopts
    <3>1. m # n /\ m \in left[p]
      BY <2>11
    <3>2. life'[Key(p, m)] = life[Key(p, m)]
      BY <2>9, <3>1
    <3> QED BY <1>0, <1>2, <3>1, <3>2 DEF Adopts
  <2>13. HostsKept(p)'
    <3> SUFFICES ASSUME NEW m \in Names(cfg[p]), ItemOf(cfg[p], m).kind = "host", life'[Key(p, m)].on,
                        ~Changed(p, m)', ~Unallocated(p, m)', ~Is(p, m, "unseen")'
                 PROVE  ItemPorts(p, m) = Hosts(life'[Key(p, m)].ports)
      BY <1>2, <2>11 DEF HostsKept, ItemPorts
    <3>1. CASE m = n
      BY <3>1, <2>5 DEF ItemPorts, ports
    <3>2. CASE m # n
      <4>1. life'[Key(p, m)] = life[Key(p, m)]
        BY <2>9, <3>2
      <4>2. ~Changed(p, m) /\ ~Unallocated(p, m) /\ ~Is(p, m, "unseen")
        BY <4>1, <2>11 DEF Changed, Unallocated, Is
      <4>3. HasPorts(p)
        BY <1>2 DEF HasPorts
      <4> QED BY <1>0, <4>1, <4>2, <4>3 DEF HostsKept
    <3> QED BY <3>1, <3>2
  <2>14. DepsKept(p)'
    <3> SUFFICES ASSUME NEW m \in Names(cfg[p]), ItemOf(cfg[p], m).kind # "host", life'[Key(p, m)].on,
                        ~Changed(p, m)', ~Misread(p, m)', ~Is(p, m, "absent")'
                 PROVE  /\ ItemPorts(p, m) \subseteq Hosts(life'[Key(p, m)].ports)
                        /\ Insides(alloc[p][m]) \subseteq Insides(life'[Key(p, m)].ports)
      BY <2>11 DEF DepsKept, ItemPorts
    <3>1. life'[Key(p, m)] = life[Key(p, m)]
      BY <2>4, <2>9 DEF i
    <3>2. ~Changed(p, m) /\ ~Misread(p, m) /\ ~Is(p, m, "absent")
      BY <3>1, <2>11 DEF Changed, Misread, Is
    <3>3. HasReused(p)
      BY <1>2 DEF HasReused
    <3> QED BY <1>0, <3>1, <3>2, <3>3 DEF DepsKept
  <2>15. AbsentNoted(p)'
    <3> SUFFICES ASSUME NEW m \in Names(cfg[p]) \cap Shared, ~life'[Key(p, m)].on
                 PROVE  Is(p, m, "absent")
      BY <2>11 DEF AbsentNoted, Is
    <3>1. life'[Key(p, m)] = life[Key(p, m)]
      BY <2>6, <2>9
    <3>2. HasReused(p)
      BY <1>2 DEF HasReused
    <3> QED BY <1>0, <3>1, <3>2 DEF AbsentNoted
  <2>16. RunInv(p)'
    BY <2>10, <2>12, <2>13, <2>14, <2>15 DEF RunInv
  <2>17. \A q \in Project \ {p} : \A m \in Names(cfg[q]) :
            /\ \/ life'[Key(q, m)] = life[Key(q, m)]
               \/ m \in Shared /\ ~life[Key(q, m)].on /\ life'[Key(q, m)].on
            /\ \A x \in Port : m \notin Shared /\ occ[x] = Key(q, m) => occ'[x] = Key(q, m)
    BY <2>9, <2>11
  <2>18. /\ DOMAIN why' = Project /\ \A q \in Project \ {p} : why'[q] = why[q]
         /\ why'[p] \subseteq why[p]
         /\ DOMAIN occ' = Port /\ \A x \in Port : occ'[x] \in Keys \cup {Nobody, Intruder}
         /\ UNCHANGED <<cfg, known, portsLock, pc, alloc, todo, adopted>>
    BY <1>0, <1>1, <1>2 DEF Wholes
  <2> QED BY <1>2, <2>5, <2>8, <2>16, <2>17, <2>18, StartStep
<1> QED BY <1>3, <1>4

\* What `up` starts a container with is what its item is to be started with.
LEMMA ResolvedStarts ==
  ASSUME NEW p \in Project, NEW i, Item(i), i.kind # "host",
         IF Pass(i) = 0 THEN alloc[p][i.name] = <<>> ELSE Fits(i, alloc[p][i.name])
  PROVE  /\ StartsWith(i, resolveDepPublishPorts(p, i))
         /\ Hosts(alloc[p][i.name]) \subseteq Hosts(resolveDepPublishPorts(p, i))
         /\ Insides(alloc[p][i.name]) \subseteq Insides(resolveDepPublishPorts(p, i))
<1> DEFINE was == alloc[p][i.name]
<1>1. CASE was # <<>>
  BY <1>1 DEF StartsWith, resolveDepPublishPorts
<1>2. CASE was = <<>>
  <2>1. resolveDepPublishPorts(p, i) = declaredPorts(i)
    BY <1>2 DEF resolveDepPublishPorts
  <2>2. CASE Pass(i) = 0
    BY <1>2, <2>1, <2>2, NoPortsHosts DEF StartsWith
  <2>3. CASE Pass(i) # 0
    <3>1. Fits(i, <<>>) /\ Requests(i) = <<>>
      <4>1. Requests(i) \in Seq(Request)
        BY RequestsType
      <4>2. Fits(i, <<>>) /\ DOMAIN Requests(i) = DOMAIN <<>>
        BY <1>2, <2>3 DEF Fits
      <4> QED BY <4>1, <4>2
    <3>2. i.kind = "auto"
      BY <2>3, <3>1, Kinds, PinnedRequests, LegacyRequests, OtherRequests
    <3>3. declaredPorts(i) = <<>>
      BY <3>2 DEF declaredPorts
    <3> QED BY <1>2, <2>1, <2>3, <3>1, <3>3 DEF StartsWith
  <2> QED BY <2>2, <2>3
<1> QED BY <1>1, <1>2

LEMMA StartsContainer ==
  ASSUME PortsInv, NEW p \in Project, StartContainer(p)
  PROVE  PortsInv'
<1>0. /\ RunTypeOK(p) /\ Wholes /\ pc \in [Project -> PortsPC] /\ Config(cfg[p])
      /\ AllocFits(p) /\ Adopts(p) /\ Apart(p) /\ HostsKept(p) /\ DepsKept(p) /\ AbsentNoted(p)
  BY Types
<1>1. /\ DOMAIN occ = Port /\ \A y \in Port : occ[y] \in Keys \cup {Nobody, Intruder}
      /\ DOMAIN life = Keys /\ \A k \in Keys : LifeTypeOK(k)
      /\ LifeFits /\ Bound
  BY Machine
<1>2. PICK n \in left[p] :
        LET i == ItemOf(cfg[p], n)
            ports == resolveDepPublishPorts(p, i)
        IN /\ pc[p] = "starting" /\ i.kind # "host"
           /\ IF life[Key(p, n)].on
              THEN UNCHANGED <<life, occ, why>>
              ELSE /\ Hosts(ports) \cap Busy = {}
                   /\ life' = [life EXCEPT ![Key(p, n)] = Started(i, ports)]
                   /\ occ' = [x \in Port |-> IF x \in Hosts(ports) THEN Key(p, n) ELSE occ[x]]
                   /\ why' = [why EXCEPT ![p] = @ \ {[name |-> n, cause |-> "absent"]}]
           /\ left' = [left EXCEPT ![p] = @ \ {n}]
           /\ UNCHANGED <<cfg, known, portsLock, pc, alloc, todo, adopted, edits>>
  BY DEF StartContainer
<1>3. CASE life[Key(p, n)].on
  BY <1>2, <1>3, Skips
<1>4. CASE ~life[Key(p, n)].on
  <2> DEFINE i == ItemOf(cfg[p], n)
             k == Key(p, n)
             ports == resolveDepPublishPorts(p, i)
             absent == [name |-> n, cause |-> "absent"]
  <2>1. n \in Names(cfg[p]) /\ k \in Keys /\ Item(i) /\ i.name = n
    BY <1>0, ItemIs DEF RunTypeOK
  <2>2. /\ pc[p] = "starting" /\ i.kind # "host" /\ Hosts(ports) \cap Busy = {}
        /\ life' = [life EXCEPT ![k] = Started(i, ports)]
        /\ occ' = [x \in Port |-> IF x \in Hosts(ports) THEN k ELSE occ[x]]
        /\ why' = [why EXCEPT ![p] = @ \ {absent}]
        /\ left' = [left EXCEPT ![p] = @ \ {n}]
        /\ UNCHANGED <<cfg, known, portsLock, pc, alloc, todo, adopted, edits>>
    BY <1>2, <1>4
  <2>3. /\ StartsWith(i, ports) /\ Hosts(alloc[p][n]) \subseteq Hosts(ports)
        /\ Insides(alloc[p][n]) \subseteq Insides(ports)
    <3>1. IF Pass(i) = 0 THEN alloc[p][i.name] = <<>> ELSE Fits(i, alloc[p][i.name])
      BY <1>0, <2>1, <2>2 DEF AllocFits, HasPorts
    <3> HIDE DEF i
    <3> QED BY <3>1, <2>1, <2>2, ResolvedStarts
  <2> HIDE DEF i, ports
  <2>4. /\ DOMAIN life' = Keys /\ LifeFits' /\ \A l \in Keys : LifeTypeOK(l)'
        /\ life'[k].on /\ life'[k].ports = ports /\ life'[k].from = i
        /\ \A l \in Keys \ {k} : life'[l] = life[l]
    <3>1. i.name = k.name /\ (i.kind = "host" => k.owner \in Project)
      BY <2>1, KeyOfItem
    <3>2. life' = [life EXCEPT ![k] = Started(i, ports)]
      BY <2>2
    <3>3. /\ DOMAIN life' = Keys /\ LifeFits' /\ \A l \in Keys : LifeTypeOK(l)'
          /\ life'[k] = Started(i, ports)
          /\ \A l \in Keys \ {k} : life'[l] = life[l]
      <4> HIDE DEF k
      <4> QED BY <3>1, <3>2, <2>1, <2>3, <1>1, StartedIs
    <3> QED BY <3>3 DEF Started
  <2>5. \A y \in Port : occ[y] # k
    BY <1>1, <2>1, <1>4 DEF Bound
  <2>6. \A y \in Port : y \in Hosts(ports) => occ[y] = Nobody
    BY <2>2 DEF Busy
  <2>7. Bound'
    <3>1. ASSUME NEW y \in Port, occ'[y] \in Keys PROVE life'[occ'[y]].on /\ y \in Hosts(life'[occ'[y]].ports)
      <4>1. CASE y \in Hosts(ports)
        BY <4>1, <2>2, <2>4
      <4>2. CASE y \notin Hosts(ports)
        <5>1. occ'[y] = occ[y] /\ occ[y] # k
          BY <4>2, <2>2, <2>5
        <5> QED BY <5>1, <3>1, <1>1, <2>4 DEF Bound
      <4> QED BY <4>1, <4>2
    <3>2. ASSUME NEW l \in Keys, life'[l].on, life'[l].from.kind # "host", NEW y \in Hosts(life'[l].ports) \cap Port
          PROVE  occ'[y] = l
      <4>1. CASE l = k
        BY <4>1, <3>2, <2>2, <2>4
      <4>2. CASE l # k
        <5>1. occ[y] = l
          BY <1>1, <4>2, <2>4, <3>2 DEF Bound
        <5>2. y \notin Hosts(ports)
          BY <5>1, <2>6, NotKeys
        <5> QED BY <5>1, <5>2, <2>2
      <4> QED BY <4>1, <4>2
    <3> QED BY <3>1, <3>2 DEF Bound
  <2>8. ASSUME NEW q \in Project, NEW m \in Names(cfg[q]), Key(q, m) # k
        PROVE  life'[Key(q, m)] = life[Key(q, m)]
    <3>1. Key(q, m) \in Keys
      BY Types DEF RunTypeOK
    <3> QED BY <3>1, <2>4, <2>8
  <2>9. \A m : m # n => Key(p, m) # k
    BY DEF Key
  <2>10. left'[p] = left[p] \ {n} /\ why'[p] = why[p] \ {absent} /\ cfg' = cfg /\ pc' = pc /\ alloc' = alloc
         /\ adopted' = adopted
    BY <1>0, <2>2 DEF Wholes
  <2>11. /\ \A m : \A c \in Causes \ {"absent"} : Is(p, m, c)' <=> Is(p, m, c)
         /\ \A m : m # n => (Is(p, m, "absent")' <=> Is(p, m, "absent"))
    BY <2>10 DEF Is, Causes
  <2>12. {"unseen", "pinned", "answered"} \subseteq Causes \ {"absent"}
    BY DEF Causes
  <2> HIDE DEF absent, k
  <2>13. AllocFits(p)'
    BY <1>0, <2>10 DEF AllocFits, HasPorts
  <2>14. Apart(p)'
    <3>1. \A m : (Is(p, m, "pinned") => Is(p, m, "pinned")') /\ (Is(p, m, "answered") => Is(p, m, "answered")')
      BY <2>11, <2>12
    <3> QED BY <1>0, <2>10, <3>1 DEF Apart, HasPorts, ItemPorts
  <2>15. Adopts(p)'
    <3> SUFFICES ASSUME NEW m \in Names(cfg[p]), ItemOf(cfg[p], m).kind = "host", life'[Key(p, m)].on, m \in left'[p]
                 PROVE  m \in adopted[p]
      BY <2>2, <2>10 DEF Adopts
    <3>1. m # n /\ m \in left[p]
      BY <2>10
    <3>2. life'[Key(p, m)] = life[Key(p, m)]
      BY <2>8, <2>9, <3>1
    <3> QED BY <1>0, <2>2, <3>1, <3>2 DEF Adopts
  <2>16. HostsKept(p)'
    <3> SUFFICES ASSUME NEW m \in Names(cfg[p]), ItemOf(cfg[p], m).kind = "host", life'[Key(p, m)].on,
                        ~Changed(p, m)', ~Unallocated(p, m)', ~Is(p, m, "unseen")'
                 PROVE  ItemPorts(p, m) = Hosts(life'[Key(p, m)].ports)
      BY <2>2, <2>10 DEF HostsKept, ItemPorts
    <3>1. m # n
      BY <2>2 DEF i
    <3>2. life'[Key(p, m)] = life[Key(p, m)]
      BY <2>8, <2>9, <3>1
    <3>3. ~Changed(p, m) /\ ~Unallocated(p, m) /\ ~Is(p, m, "unseen")
      BY <3>2, <2>10, <2>11, <2>12 DEF Changed, Unallocated
    <3>4. HasPorts(p)
      BY <2>2 DEF HasPorts
    <3> QED BY <1>0, <3>2, <3>3, <3>4 DEF HostsKept
  <2>17. DepsKept(p)'
    <3> SUFFICES ASSUME NEW m \in Names(cfg[p]), ItemOf(cfg[p], m).kind # "host", life'[Key(p, m)].on,
                        ~Changed(p, m)', ~Misread(p, m)', ~Is(p, m, "absent")'
                 PROVE  /\ ItemPorts(p, m) \subseteq Hosts(life'[Key(p, m)].ports)
                        /\ Insides(alloc[p][m]) \subseteq Insides(life'[Key(p, m)].ports)
      BY <2>10 DEF DepsKept, ItemPorts
    <3>1. CASE m = n
      BY <3>1, <2>3, <2>4 DEF ItemPorts, k
    <3>2. CASE m # n
      <4>1. life'[Key(p, m)] = life[Key(p, m)]
        BY <2>8, <2>9, <3>2
      <4>2. ~Changed(p, m) /\ ~Misread(p, m) /\ ~Is(p, m, "absent")
        BY <4>1, <3>2, <2>10, <2>11 DEF Changed, Misread
      <4>3. HasReused(p)
        BY <2>2 DEF HasReused
      <4> QED BY <1>0, <4>1, <4>2, <4>3 DEF DepsKept
    <3> QED BY <3>1, <3>2
  <2>18. AbsentNoted(p)'
    <3> SUFFICES ASSUME NEW m \in Names(cfg[p]) \cap Shared, ~life'[Key(p, m)].on
                 PROVE  Is(p, m, "absent")'
      BY <2>10 DEF AbsentNoted
    <3>1. m # n
      BY <2>4 DEF k
    <3>2. life'[Key(p, m)] = life[Key(p, m)]
      BY <2>8, <2>9, <3>1
    <3>3. HasReused(p)
      BY <2>2 DEF HasReused
    <3> QED BY <1>0, <2>11, <3>1, <3>2, <3>3 DEF AbsentNoted
  <2>19. RunInv(p)'
    BY <2>13, <2>14, <2>15, <2>16, <2>17, <2>18 DEF RunInv
  <2>20. ASSUME NEW q \in Project \ {p}, NEW m \in Names(cfg[q])
         PROVE  /\ \/ life'[Key(q, m)] = life[Key(q, m)]
                   \/ m \in Shared /\ ~life[Key(q, m)].on /\ life'[Key(q, m)].on
                /\ \A x \in Port : m \notin Shared /\ occ[x] = Key(q, m) => occ'[x] = Key(q, m)
    <3>1. Key(q, m) \in Keys
      BY Types DEF RunTypeOK
    <3>2. Key(q, m) = k => m \in Shared
      BY NotKeys DEF Key, k
    <3>3. \A x \in Port : occ[x] = Key(q, m) => x \notin Hosts(ports)
      BY <3>1, <2>6, NotKeys
    <3>4. \A x \in Port : occ[x] = Key(q, m) => occ'[x] = Key(q, m)
      BY <3>3, <2>2
    <3> QED BY <3>2, <3>4, <2>4, <2>8, <1>4 DEF k
  <2>21. /\ DOMAIN why' = Project /\ \A q \in Project \ {p} : why'[q] = why[q]
         /\ why'[p] \subseteq why[p]
         /\ DOMAIN occ' = Port /\ \A x \in Port : occ'[x] \in Keys \cup {Nobody, Intruder}
         /\ UNCHANGED <<cfg, known, portsLock, pc, alloc, todo, adopted>>
    BY <1>0, <1>1, <2>1, <2>2, <2>10 DEF Wholes
  <2> QED BY <2>2, <2>4, <2>7, <2>19, <2>20, <2>21, StartStep
<1> QED BY <1>3, <1>4

-----------------------------------------------------------------------------
(* The inductive invariant, and what follows from it.                      *)

LEMMA AtFirst ==
  ASSUME PortsInit
  PROVE  PortsInv
<1>1. /\ cfg \in Plans /\ occ = [x \in Port |-> Nobody] /\ known = {}
      /\ life = [k \in Keys |-> Off] /\ portsLock = Nobody
      /\ pc = [p \in Project |-> "idle"] /\ alloc = [p \in Project |-> NoPorts]
      /\ todo = [p \in Project |-> {}] /\ left = [p \in Project |-> {}]
      /\ adopted = [p \in Project |-> {}] /\ why = [p \in Project |-> {}]
  BY DEF PortsInit
<1>2. DOMAIN cfg = Project /\ \A p \in Project : Config(cfg[p])
  BY <1>1, PlansAssumption
<1>3. ASSUME NEW p \in Project, NEW n \in Names(cfg[p]) PROVE Key(p, n) \in Keys
  BY <1>1, <1>3 DEF Keys
<1>4. ASSUME NEW p \in Project PROVE RunTypeOK(p) /\ RunInv(p)
  <2>1. ~HasPorts(p) /\ ~HasReused(p) /\ pc[p] \in {"idle", "up"}
    BY <1>1 DEF HasPorts, HasReused
  <2>2. todo[p] = {} /\ left[p] = {} /\ adopted[p] = {} /\ why[p] = {}
    BY <1>1
  <2>3. RunTypeOK(p)
    BY <1>2, <1>3, <2>1, <2>2 DEF RunTypeOK
  <2>4. RunInv(p)
    BY <2>1 DEF RunInv, AllocFits, Adopts, Apart, HostsKept, DepsKept, AbsentNoted
  <2> QED BY <2>3, <2>4
<1>5. \A k \in Keys : life[k] = Off /\ ~life[k].on
  BY <1>1 DEF Off
<1>6. \A x \in Port : occ[x] = Nobody /\ occ[x] \notin Keys
  BY <1>1, NotKeys
<1>7. LifeFits /\ Bound
  BY <1>5, <1>6 DEF LifeFits, Bound
<1>8. PortsTypeOK
  BY <1>1, <1>2, <1>4, <1>5, <1>6 DEF PortsTypeOK, PortsPC, LifeTypeOK
<1> QED BY <1>4, <1>7, <1>8 DEF PortsInv

LEMMA PortsFollow ==
  ASSUME PortsInv, [PortsNext]_portVars
  PROVE  PortsInv'
<1>1. CASE UNCHANGED portVars
  <2>0. /\ DOMAIN occ = Port /\ \A y \in Port : occ[y] \in Keys \cup {Nobody, Intruder}
        /\ DOMAIN life = Keys /\ \A k \in Keys : LifeTypeOK(k)
        /\ LifeFits /\ Bound /\ pc \in [Project -> PortsPC] /\ known \subseteq Project
    BY Machine
  <2>1. /\ cfg' = cfg /\ occ' = occ /\ known' = known /\ life' = life /\ pc' = pc
        /\ UNCHANGED <<cfg, alloc, runRest>>
    BY <1>1 DEF portVars, runRest
  <2>2. LifeFits' /\ Bound' /\ \A k \in Keys : LifeTypeOK(k)'
    BY <2>0, <2>1 DEF LifeFits, Bound, LifeTypeOK
  <2> QED BY <2>0, <2>1, <2>2, MachineStep
<1>2. ASSUME NEW p \in Project, Up(p) PROVE PortsInv'
  BY <1>2, Begins, Acquires, Chooses, ReusesRunning, Checks, Reuses, Reassigns, GivesUp, ResolvesAll,
     StartsContainer, FailsToStart, StartsService, Finishes DEF Up
<1>3. ASSUME NEW p \in Project, Down(p) \/ Edit(p) PROVE PortsInv'
  BY <1>3, Downs, Edits
<1>4. ASSUME NEW p \in Project,
             DownConflictingProjects(p) \/ DownAllOtherProjects(p) \/ downOtherWorkspaceProjects(p)
      PROVE  PortsInv'
  BY <1>4, StopsOthers, StopsWorkspace DEF DownConflictingProjects, DownAllOtherProjects
<1>5. ASSUME NEW p \in Project, NEW n \in Names(cfg[p]), Restart(p, n) PROVE PortsInv'
  BY <1>5, Restarts
<1>6. ASSUME NEW k \in Keys, Bind(k) PROVE PortsInv'
  BY <1>6, Binds
<1>7. ASSUME NEW x \in Contested, Intrude(x) PROVE PortsInv'
  BY <1>7, Intrudes
<1> QED BY <1>1, <1>2, <1>3, <1>4, <1>5, <1>6, <1>7 DEF PortsNext

\* The inductive invariant holds in every state that can be reached.
THEOREM AlwaysPortsInv == PortsSpec => []PortsInv
<1>1. PortsInit => PortsInv
  BY AtFirst
<1>2. PortsInv /\ [PortsNext]_portVars => PortsInv'
  BY PortsFollow
<1> QED BY <1>1, <1>2, PTL DEF PortsSpec

\* Every variable of PortAlloc has its type: files are of unique names, an `up`
\* that has chosen has ports for each item, and what runs was made from an item
\* of its name (ensurePorts, startServices).
THEOREM PortsTypeCorrect == PortsSpec => []PortsTypeOK
<1>1. PortsInv => PortsTypeOK
  BY DEF PortsInv
<1> QED BY <1>1, AlwaysPortsInv, PTL

\* AllocateHostPortsOwned never gives two items of a run one host port, and
\* they stay apart until one is pinned to its running container or answered for.
THEOREM PortsStayApart == PortsSpec => []PortsApart
<1>1. ASSUME PortsInv PROVE PortsApart
  <2>1. ASSUME NEW p \in Project, pc[p] \in {"resolving", "starting"} PROVE HasPorts(p) /\ Apart(p) /\ DOMAIN alloc[p] = Names(cfg[p])
    <3>1. HasPorts(p)
      BY <2>1 DEF HasPorts
    <3> QED BY <1>1, <3>1, Types DEF RunTypeOK
  <2> QED BY <2>1 DEF PortsApart, Apart
<1> QED BY <1>1, AlwaysPortsInv, PTL

LEMMA KeyOwner ==
  ASSUME NEW k \in Keys
  PROVE  k.owner \in Project \cup {Workspace}
BY DEF Keys, Key

LEMMA ClearsTheWay ==
  ASSUME PortsInv
  PROVE  ConflictsGone
<1> SUFFICES ASSUME NEW p \in Project
             PROVE  LET first == AllocateHostPortsOwned(cfg[p], [n \in Names(cfg[p]) |-> {}], {})
                        gone == stopProjects(uniqueConflictingProjects(p))
                        OutOfReach(k) ==
                            \/ k.owner = Workspace
                            \/ Runs(k, "host") /\ k.owner \notin known \ Elsewhere
                    IN /\ \A k \in gone : k.owner # p /\ (k.owner = Workspace => pc[p] = "idle")
                       /\ first.ok => \A n \in Names(cfg[p]) : \A x \in Hosts(first.ports[n]) :
                             occ[x] \in Keys \ gone => occ[x].owner = p \/ OutOfReach(occ[x])
  BY DEF ConflictsGone
<1> DEFINE first == AllocateHostPortsOwned(cfg[p], [n \in Names(cfg[p]) |-> {}], {})
           names == uniqueConflictingProjects(p)
           D == downProjectAt(names)
           gone == stopProjects(names)
<1>0. Bound /\ known \subseteq Project /\ Config(cfg[p])
  BY Machine, Types
<1>1. gone = downOrchestrated(D) \cup StopProjectContainers(names)
  BY DEF stopProjects
<1>2. p \notin names /\ D = names \cap (known \ Elsewhere)
  BY DEF uniqueConflictingProjects, downProjectAt
<1>3. ASSUME NEW k \in gone PROVE k.owner # p /\ (k.owner = Workspace => pc[p] = "idle")
  <2>1. CASE k \in downOrchestrated(D)
    BY <1>0, <1>2, <2>1, NotKeys DEF downOrchestrated
  <2>2. CASE k \in StopProjectContainers(names)
    BY <1>2, <2>2, NotKeys DEF StopProjectContainers
  <2> QED BY <1>1, <2>1, <2>2
<1>4. ASSUME first.ok, NEW n \in Names(cfg[p]), NEW x \in Hosts(first.ports[n]), occ[x] \in Keys \ gone,
             occ[x].owner # p, occ[x].owner # Workspace,
             ~(Runs(occ[x], "host") /\ occ[x].owner \notin known \ Elsewhere)
      PROVE  FALSE
  <2> DEFINE k == occ[x]
  <2>1. x \in Port
    <3> DEFINE owned == [m \in Names(cfg[p]) |-> {}]
    <3>1. \A m \in Names(cfg[p]) : owned[m] \in SUBSET Port
      OBVIOUS
    <3> HIDE DEF owned
    <3>2. Hosts(AllocateHostPortsOwned(cfg[p], owned, {}).ports[n]) \subseteq Port
      BY <1>0, <1>4, <3>1, ChosenFits DEF owned
    <3> QED BY <3>2 DEF owned
  <2>2. x \in WantedHostPorts(p)
    BY <1>4 DEF WantedHostPorts
  <2>3. k \in Keys /\ k \notin gone /\ life[k].on /\ k.owner \in Project
    BY <1>0, <1>4, <2>1, KeyOwner DEF Bound
  <2>4. ~ownEndpoint(p, k)
    BY <1>4 DEF ownEndpoint
  <2>5. x \in collectActiveEndpoints => k.owner \in names
    BY <1>4, <2>2, <2>4 DEF findPortConflicts, uniqueConflictingProjects
  <2>6. CASE life[k].from.kind = "host"
    <3>1. Runs(k, "host") /\ k.owner \in known \ Elsewhere
      BY <1>4, <2>3, <2>6 DEF Runs
    <3>2. x \in collectActiveEndpoints
      BY <2>1, <2>3, <3>1 DEF collectActiveEndpoints, Listens
    <3>3. k.owner \in D
      BY <1>2, <2>5, <3>1, <3>2
    <3> QED BY <1>1, <2>3, <3>3 DEF downOrchestrated
  <2>7. CASE life[k].from.kind # "host"
    <3>1. Runs(k, "container")
      BY <2>3, <2>7 DEF Runs
    <3>2. x \in collectActiveEndpoints
      BY <2>1, <2>3, <3>1 DEF collectActiveEndpoints, ListManagedPublishedPorts
    <3> QED BY <1>1, <2>3, <2>5, <3>1, <3>2 DEF StopProjectContainers
  <2> QED BY <2>6, <2>7
<1> QED BY <1>3, <1>4

\* Nothing but a restart makes something else of what runs.
LEMMA OnlyRestarts ==
  ASSUME PortsInv, [PortsNext]_portVars, NEW k \in Keys, life[k].on, life'[k].on, life'[k] # life[k]
  PROVE  \E p \in Project : \E n \in Names(cfg[p]) : Restart(p, n) /\ k = Key(p, n)
<1>0. DOMAIN life = Keys
  BY Machine
<1>1. life' # life
  OBVIOUS
<1>2. ASSUME NEW gone, NEW D, Ended(gone, D) PROVE FALSE
  BY <1>2 DEF Ended, Off
<1>3. ASSUME NEW p \in Project, Up(p) PROVE FALSE
  <2>1. ~(runningHostServices(p) \/ acquirePortsLock(p) \/ Choose(p) \/ reuseRunningDepHostPorts(p)
          \/ checkPortBindConflicts(p))
    BY <1>1 DEF runningHostServices, acquirePortsLock, Choose, reuseRunningDepHostPorts, checkPortBindConflicts, upRest
  <2>2. ~(Reuse(p) \/ Reassign(p) \/ GiveUp(p) \/ Resolved(p) \/ StartFails(p) \/ Finish(p))
    BY <1>1 DEF Reuse, Reassign, GiveUp, Resolved, StartFails, Finish, upRest
  <2>3. ~StartContainer(p)
    <3> SUFFICES ASSUME StartContainer(p) PROVE FALSE
      OBVIOUS
    <3>1. PICK n \in left[p] :
             \/ life' = life
             \/ ~life[Key(p, n)].on /\ \E new : life' = [life EXCEPT ![Key(p, n)] = new]
      BY DEF StartContainer
    <3> QED BY <3>1, <1>0
  <2>4. ~StartService(p)
    <3> SUFFICES ASSUME StartService(p) PROVE FALSE
      OBVIOUS
    <3>1. PICK n \in left[p] :
             /\ pc[p] = "starting" /\ ItemOf(cfg[p], n).kind = "host"
             /\ n \in adopted[p] => life' = life
             /\ \E new : life' = life \/ life' = [life EXCEPT ![Key(p, n)] = new]
      BY DEF StartService
    <3>2. n \notin adopted[p] => ~life[Key(p, n)].on
      BY <3>1, Types DEF Adopts, RunTypeOK
    <3> QED BY <3>1, <3>2, <1>0
  <2> QED BY <1>3, <2>1, <2>2, <2>3, <2>4 DEF Up
<1>4. ASSUME NEW p \in Project, Down(p) \/ Edit(p) PROVE FALSE
  BY <1>1, <1>2, <1>4 DEF Down, Edit
<1>5. ASSUME NEW p \in Project,
             DownConflictingProjects(p) \/ DownAllOtherProjects(p) \/ downOtherWorkspaceProjects(p)
      PROVE  FALSE
  BY <1>2, <1>5 DEF DownConflictingProjects, DownAllOtherProjects, Stop, downOtherWorkspaceProjects
<1>6. ASSUME NEW p \in Project, NEW n \in Names(cfg[p]), Restart(p, n) PROVE k = Key(p, n)
  <2>1. PICK new : life' = [life EXCEPT ![Key(p, n)] = new]
    BY <1>6 DEF Restart
  <2> QED BY <2>1, <1>0
<1>7. ASSUME NEW l \in Keys, Bind(l) PROVE FALSE
  BY <1>0, <1>1, <1>7 DEF Bind, Off
<1>8. ASSUME NEW x \in Contested, Intrude(x) PROVE FALSE
  BY <1>1, <1>8 DEF Intrude
<1>9. ~UNCHANGED portVars
  BY <1>1 DEF portVars
<1> QED BY <1>3, <1>4, <1>5, <1>6, <1>7, <1>8, <1>9 DEF PortsNext

LEMMA RestartsInPlace ==
  ASSUME PortsInv, [PortsNext]_portVars, NEW p \in Project, NEW n \in Names(cfg[p]),
         life[Key(p, n)].on, life'[Key(p, n)].on, life'[Key(p, n)] # life[Key(p, n)],
         ~Changed(p, n), ~Unseen(p, n), ~Unallocated(p, n), Allocation(p).ok
  PROVE  Hosts(life'[Key(p, n)].ports) = Hosts(life[Key(p, n)].ports)
<1> DEFINE k == Key(p, n)
<1>1. k \in Keys /\ DOMAIN life = Keys
  BY Types, Machine DEF RunTypeOK
<1>2. PICK q \in Project : \E m \in Names(cfg[q]) : Restart(q, m) /\ k = Key(q, m)
  BY <1>1, OnlyRestarts
<1>8. PICK m \in Names(cfg[q]) : Restart(q, m) /\ k = Key(q, m)
  BY <1>2
<1>3. ItemOf(cfg[q], m).kind = "host" /\ m \notin Shared
  BY <1>8, Types, ItemIs, ServiceIsOwn, SMTT(60) DEF Restart, IsService
<1>4. q = p /\ m = n
  BY <1>8, <1>3, KeyIs, NotKeys DEF Key
<1>5. life' = [life EXCEPT ![k] = Started(ItemOf(cfg[p], n), Allocation(p).ports[n])]
  BY <1>8, <1>4 DEF Restart
<1>6. life'[k].ports = Allocation(p).ports[n]
  BY <1>1, <1>5 DEF Started
<1>7. Hosts(Allocation(p).ports[n]) = Hosts(life[k].ports)
  BY <1>3, <1>4, KeepsItsPort
<1> QED BY <1>6, <1>7

\* DownConflictingProjects stops whoever holds a port that the project asks for
\* first, and nothing of the project's own: who is left is out of its reach.
THEOREM ConflictsAreGone == PortsSpec => []ConflictsGone
BY ClearsTheWay, AlwaysPortsInv, PTL

\* Nothing but a `restart` makes something else of what runs, and it puts a
\* service back on the ports it had.
THEOREM RestartsStayInPlace == PortsSpec => RestartedInPlace
<1> DEFINE P == \A p \in Project : \A n \in Names(cfg[p]) :
          LET k == Key(p, n) IN
          (pc[p] = "up" /\ life[k].on /\ life'[k] # life[k] /\ life'[k].on) =>
              \/ Hosts(life'[k].ports) = Hosts(life[k].ports)
              \/ Changed(p, n) \/ Unseen(p, n) \/ Unallocated(p, n) \/ ~Allocation(p).ok
<1>1. PortsInv /\ [PortsNext]_portVars => P
  BY RestartsInPlace
<1>2. RestartedInPlace <=> [][P]_portVars
  BY DEF RestartedInPlace
<1> HIDE DEF P
<1> QED BY <1>1, <1>2, AlwaysPortsInv, PTL DEF PortsSpec

-----------------------------------------------------------------------------
(* What the others are told is served.                                     *)

\* Everything the theorem is about: an item that runs when `up` is done.
Advertised(p, n) ==
    /\ pc[p] = "starting" /\ left[p] = {} /\ n \in Names(cfg[p])
    /\ ItemOf(cfg[p], n).kind # "sibling" /\ life[Key(p, n)].on
    /\ ~Changed(p, n) /\ ~Unallocated(p, n) /\ ~Misread(p, n)
    /\ ~Is(p, n, "unseen") /\ ~Is(p, n, "absent")

\* The ports of a container that the callers are given exist in it.
ToldIsServed(p, n) ==
    LET i == ItemOf(cfg[p], n)
        l == life[Key(p, n)]
    IN \A onHost \in BOOLEAN :
          \/ GenerateEnvVars(p, n, onHost) \in Answers(l, resolveHost(i, onHost)) \cup {0}
          \/ i.kind = "legacy" /\ alloc[p][n] = <<>> /\ Split(p, i)

RouteIsServed(p, n) ==
    LET i == ItemOf(cfg[p], n)
        l == life[Key(p, n)]
        route == buildProxyRoute(p, i)
    IN route.port \in Answers(l, route.at) \cup {0} \/ Split(p, i)

LEMMA AdvertisedIs ==
  ASSUME PortsInv, NEW p \in Project, NEW n, Advertised(p, n)
  PROVE  LET i == ItemOf(cfg[p], n)
             l == life[Key(p, n)]
         IN /\ Item(i) /\ i.name = n /\ l.from = i /\ StartsWith(i, l.ports)
            /\ IF Pass(i) = 0 THEN alloc[p][n] = <<>> ELSE Fits(i, alloc[p][n])
            /\ i.kind = "host" => ItemPorts(p, n) = Hosts(l.ports)
            /\ i.kind # "host" => /\ ItemPorts(p, n) \subseteq Hosts(l.ports)
                                  /\ Insides(alloc[p][n]) \subseteq Insides(l.ports)
<1>1. HasPorts(p) /\ HasReused(p) /\ n \in Names(cfg[p])
  BY DEF Advertised, HasPorts, HasReused
<1>2. Config(cfg[p]) /\ Key(p, n) \in Keys /\ AllocFits(p) /\ HostsKept(p) /\ DepsKept(p) /\ LifeFits
  BY <1>1, Types, Machine DEF RunTypeOK
<1>3. Item(ItemOf(cfg[p], n)) /\ ItemOf(cfg[p], n).name = n
  BY <1>1, <1>2, ItemIs
<1>4. life[Key(p, n)].from = ItemOf(cfg[p], n)
  BY DEF Advertised, Changed
<1>5. StartsWith(ItemOf(cfg[p], n), life[Key(p, n)].ports)
  BY <1>2, <1>4 DEF Advertised, LifeFits
<1>6. IF Pass(ItemOf(cfg[p], n)) = 0 THEN alloc[p][n] = <<>> ELSE Fits(ItemOf(cfg[p], n), alloc[p][n])
  BY <1>1, <1>2 DEF AllocFits
<1>7. ItemOf(cfg[p], n).kind = "host" => ItemPorts(p, n) = Hosts(life[Key(p, n)].ports)
  BY <1>1, <1>2 DEF HostsKept, Advertised
<1>8. ItemOf(cfg[p], n).kind # "host" =>
        /\ ItemPorts(p, n) \subseteq Hosts(life[Key(p, n)].ports)
        /\ Insides(alloc[p][n]) \subseteq Insides(life[Key(p, n)].ports)
  BY <1>1, <1>2 DEF DepsKept, Advertised
<1> QED BY <1>3, <1>4, <1>5, <1>6, <1>7, <1>8

LEMMA AnswersIs ==
  ASSUME NEW l
  PROVE  /\ Answers(l, "host") = Hosts(l.ports)
         /\ Insides(l.ports) \subseteq Answers(l, "network")
         /\ "expose" \in DOMAIN l.from => Range(l.from.expose) \subseteq Answers(l, "network")
BY DEF Answers, Insides

LEMMA ServedHost ==
  ASSUME PortsInv, NEW p \in Project, NEW n, Advertised(p, n), ItemOf(cfg[p], n).kind = "host"
  PROVE  ToldIsServed(p, n) /\ RouteIsServed(p, n)
<1> DEFINE i == ItemOf(cfg[p], n)
           l == life[Key(p, n)]
           was == alloc[p][n]
<1>1. /\ Item(i) /\ i.name = n /\ Hosts(was) = Hosts(l.ports)
      /\ IF Pass(i) = 0 THEN was = <<>> ELSE Fits(i, was)
  BY AdvertisedIs DEF ItemPorts
<1>2. was # <<>> => was[1].host \in Hosts(l.ports)
  <2>1. was # <<>> => Fits(i, was) /\ DOMAIN Requests(i) = 1..1
    BY <1>1, HostRequests
  <2>2. was # <<>> => 1 \in DOMAIN was
    BY <2>1 DEF Fits
  <2> QED BY <1>1, <2>2 DEF Hosts
<1>4. was = <<>> => inferServicePort(i) = 0
  <2>1. was = <<>> => Pass(i) = 0
    <3>1. Fits(i, was) => DOMAIN was = 1..1
      BY <1>1, HostRequests DEF Fits
    <3>2. was = <<>> => 1 \notin DOMAIN was
      OBVIOUS
    <3> QED BY <1>1, <3>1, <3>2
  <2>2. inferServicePort(i) \in Nat /\ i.port \in Nat
        /\ Pass(i) = IF i.port > 0 THEN 1 ELSE IF inferServicePort(i) > 0 THEN 3 ELSE 0
    BY <1>1, HostRequests, PortNat
  <2> QED BY <2>1, <2>2
<1>5. \A onHost \in BOOLEAN : resolveHost(i, onHost) = "host"
  BY DEF resolveHost
<1>6. buildEndpoints(p, n).port = IF was # <<>> THEN was[1].host ELSE 0
  BY DEF buildEndpoints, IsDep, IsService
<1>7. \A onHost \in BOOLEAN : GenerateEnvVars(p, n, onHost) = buildEndpoints(p, n).port
  BY DEF GenerateEnvVars, ContainerOnly
<1>8. ToldIsServed(p, n)
  BY <1>2, <1>5, <1>6, <1>7, AnswersIs DEF ToldIsServed
<1>9. applyPortAllocs(p, i) \in Hosts(l.ports) \cup {0}
  <2>1. was # <<>> => applyPortAllocs(p, i) = was[1].host
    BY <1>1 DEF applyPortAllocs
  <2>2. was = <<>> => applyPortAllocs(p, i) = inferServicePort(i)
    BY <1>1 DEF applyPortAllocs
  <2> QED BY <1>2, <1>4, <2>1, <2>2
<1>10. RouteIsServed(p, n)
  BY <1>5, <1>9, AnswersIs DEF RouteIsServed, buildProxyRoute
<1> QED BY <1>8, <1>10

LEMMA ServedDocker ==
  ASSUME PortsInv, NEW p \in Project, NEW n, Advertised(p, n), ItemOf(cfg[p], n).kind = "docker"
  PROVE  ToldIsServed(p, n) /\ RouteIsServed(p, n)
<1> DEFINE i == ItemOf(cfg[p], n)
           l == life[Key(p, n)]
           was == alloc[p][n]
<1>1. /\ Item(i) /\ i.name = n /\ StartsWith(i, l.ports)
      /\ IF Pass(i) = 0 THEN was = <<>> ELSE Fits(i, was)
  BY AdvertisedIs
<1>2. Pass(i) = 0 /\ was = <<>>
  BY <1>1, OtherRequests
<1>3. l.ports = IF i.port > 0 THEN <<[host |-> i.port, cont |-> i.port]>> ELSE <<>>
  BY <1>1, <1>2 DEF StartsWith, declaredPorts
<1>4. i.port \in Nat
  BY <1>1, PortNat DEF Item
<1> HIDE DEF l
<1>5. i.port \in Hosts(l.ports) \cup {0} /\ i.port \in Insides(l.ports) \cup {0}
  <2>1. CASE i.port > 0
    <3>1. DOMAIN l.ports = {1} /\ l.ports[1].host = i.port /\ l.ports[1].cont = i.port
      BY <1>3, <2>1
    <3> QED BY <3>1 DEF Hosts, Insides
  <2>2. CASE i.port = 0
    BY <2>2
  <2> QED BY <1>4, <2>1, <2>2
<1>6. buildEndpoints(p, n) = [port |-> i.port, hostPort |-> 0]
  BY DEF buildEndpoints, IsDep, IsService
<1>7. \A onHost \in BOOLEAN : GenerateEnvVars(p, n, onHost) = i.port
  BY <1>6 DEF GenerateEnvVars, ContainerOnly
<1>8. \A onHost \in BOOLEAN : resolveHost(i, onHost) = IF onHost THEN "host" ELSE "network"
  BY DEF resolveHost
<1>9. ToldIsServed(p, n)
  BY <1>5, <1>7, <1>8, AnswersIs DEF ToldIsServed, l
<1>10. applyPortAllocs(p, i) = i.port
  BY <1>1, <1>2 DEF applyPortAllocs
<1>11. RouteIsServed(p, n)
  BY <1>5, <1>8, <1>10, AnswersIs DEF RouteIsServed, buildProxyRoute, l
<1> QED BY <1>9, <1>11

LEMMA ServedPublished ==
  ASSUME PortsInv, NEW p \in Project, NEW n, Advertised(p, n),
         ItemOf(cfg[p], n).kind \in {"pinned", "auto", "legacy"}, alloc[p][n] # <<>>
  PROVE  ToldIsServed(p, n) /\ RouteIsServed(p, n)
<1> DEFINE i == ItemOf(cfg[p], n)
           l == life[Key(p, n)]
           was == alloc[p][n]
<1>1. /\ Item(i) /\ i.name = n /\ Hosts(was) \subseteq Hosts(l.ports) /\ Insides(was) \subseteq Insides(l.ports)
      /\ Fits(i, was)
  BY AdvertisedIs DEF ItemPorts
<1>2. 1 \in DOMAIN was /\ was[1].host \in Port /\ was[1].cont \in Port
  <2>1. was \in Seq([host : Port, cont : Port])
    BY <1>1 DEF Fits
  <2>2. 1 \in DOMAIN was
    BY <2>1
  <2>3. was[1] \in [host : Port, cont : Port]
    <3> HIDE DEF was
    <3> QED BY <2>1, <2>2, ElementIs
  <2> QED BY <2>2, <2>3
<1>3. was[1].host \in Hosts(l.ports) /\ was[1].cont \in Insides(l.ports) /\ was[1].host > 0
  <2>1. was[1].host \in Hosts(was) /\ was[1].cont \in Insides(was)
    <3> HIDE DEF was
    <3> QED BY <1>2 DEF Hosts, Insides
  <2>2. was[1].host > 0
    BY <1>2, PortNat DEF Port
  <2> QED BY <1>1, <2>1, <2>2
<1>4. buildEndpoints(p, n) = [port |-> was[1].cont, hostPort |-> was[1].host]
  BY DEF buildEndpoints, IsDep, IsService
<1>5. GenerateEnvVars(p, n, TRUE) = was[1].host /\ GenerateEnvVars(p, n, FALSE) = was[1].cont
  BY <1>1, <1>3, <1>4 DEF GenerateEnvVars, ContainerOnly
<1>6. resolveHost(i, TRUE) = "host" /\ resolveHost(i, FALSE) = "network"
  BY DEF resolveHost
<1>7. ToldIsServed(p, n)
  <2>1. GenerateEnvVars(p, n, TRUE) \in Answers(l, resolveHost(i, TRUE))
    BY <1>3, <1>5, <1>6, AnswersIs
  <2>2. GenerateEnvVars(p, n, FALSE) \in Answers(l, resolveHost(i, FALSE))
    BY <1>3, <1>5, <1>6, AnswersIs
  <2> QED BY <2>1, <2>2 DEF ToldIsServed
<1>8. applyPortAllocs(p, i) = was[1].host
  BY <1>1 DEF applyPortAllocs
<1>9. was[1].host = was[1].cont \/ Split(p, i)
  BY <1>1 DEF Split, resolveDepPublishPorts, IsDep, IsService
<1>10. RouteIsServed(p, n)
  BY <1>3, <1>6, <1>8, <1>9, AnswersIs DEF RouteIsServed, buildProxyRoute
<1> QED BY <1>7, <1>10

LEMMA ServedUnpublished ==
  ASSUME PortsInv, NEW p \in Project, NEW n, Advertised(p, n),
         ItemOf(cfg[p], n).kind \in {"pinned", "auto"}, alloc[p][n] = <<>>
  PROVE  ToldIsServed(p, n) /\ RouteIsServed(p, n)
<1> DEFINE i == ItemOf(cfg[p], n)
           l == life[Key(p, n)]
<1>1. /\ Item(i) /\ i.name = n /\ l.from = i
      /\ IF Pass(i) = 0 THEN alloc[p][n] = <<>> ELSE Fits(i, alloc[p][n])
  BY AdvertisedIs
<1>2. i.kind = "auto"
  <2> SUFFICES ASSUME i.kind = "pinned" PROVE FALSE
    OBVIOUS
  <2>1. Requests(i) \in Seq([host : Port, cont : Port]) /\ Requests(i) # <<>> /\ Pass(i) = 2
    BY <1>1, PinnedRequests
  <2>2. DOMAIN Requests(i) = DOMAIN <<>>
    BY <1>1, <2>1 DEF Fits
  <2> QED BY <2>1, <2>2
<1>3. i.expose \in Seq(Port) /\ "expose" \in DOMAIN i
  BY <1>1, <1>2 DEF Item
<1>4. buildEndpoints(p, n) = [port |-> IF i.expose = <<>> THEN 0 ELSE i.expose[1], hostPort |-> 0]
  BY <1>2 DEF buildEndpoints, IsDep, IsService, applyInternalDepPort
<1> HIDE DEF i
<1>5. buildEndpoints(p, n).port \in Answers(l, "network") \cup {0}
  <2>1. i.expose # <<>> => i.expose[1] \in Range(i.expose)
    BY <1>3 DEF Range
  <2>2. Range(i.expose) \subseteq Answers(l, "network")
    BY <1>1, <1>3, AnswersIs
  <2> QED BY <1>4, <2>1, <2>2
<1>6. GenerateEnvVars(p, n, TRUE) = 0 /\ GenerateEnvVars(p, n, FALSE) = buildEndpoints(p, n).port
  BY <1>1, <1>2, <1>4 DEF GenerateEnvVars, ContainerOnly, i
<1>7. resolveHost(i, FALSE) = "network"
  BY <1>2 DEF resolveHost
<1>8. ToldIsServed(p, n)
  <2>1. GenerateEnvVars(p, n, TRUE) \in Answers(l, resolveHost(i, TRUE)) \cup {0}
    BY <1>6
  <2>2. GenerateEnvVars(p, n, FALSE) \in Answers(l, resolveHost(i, FALSE)) \cup {0}
    BY <1>5, <1>6, <1>7
  <2> QED BY <2>1, <2>2 DEF ToldIsServed, i
<1>9. applyPortAllocs(p, i) = buildEndpoints(p, n).port
  BY <1>1, <1>2 DEF applyPortAllocs
<1>10. RouteIsServed(p, n)
  BY <1>5, <1>7, <1>9 DEF RouteIsServed, buildProxyRoute, i
<1> QED BY <1>8, <1>10

LEMMA ServedLegacy ==
  ASSUME PortsInv, NEW p \in Project, NEW n, Advertised(p, n),
         ItemOf(cfg[p], n).kind = "legacy", alloc[p][n] = <<>>
  PROVE  ToldIsServed(p, n) /\ RouteIsServed(p, n)
<1> DEFINE i == ItemOf(cfg[p], n)
           l == life[Key(p, n)]
           port == i.specs[1].cont
<1>1. /\ Item(i) /\ i.name = n /\ StartsWith(i, l.ports)
      /\ IF Pass(i) = 0 THEN alloc[p][n] = <<>> ELSE Fits(i, alloc[p][n])
  BY AdvertisedIs
<1>2. /\ Requests(i) = assignLegacyDepPorts(i) /\ Requests(i) \in Seq([host : DeclaredPort, cont : Port])
      /\ Requests(i) # <<>> /\ DOMAIN Requests(i) = DOMAIN i.specs
      /\ \A k \in DOMAIN i.specs : Requests(i)[k] = [host |-> i.specs[k].host, cont |-> i.specs[k].cont]
  BY <1>1, LegacyRequests
<1>3. Pass(i) = 0
  <2> SUFFICES ASSUME Fits(i, <<>>) PROVE FALSE
    BY <1>1
  <2>1. DOMAIN Requests(i) = DOMAIN <<>>
    BY DEF Fits
  <2> QED BY <1>2, <2>1
<1>4. l.ports = Requests(i) /\ declaredPorts(i) = Requests(i)
  BY <1>1, <1>2, <1>3 DEF StartsWith, declaredPorts
<1>5. resolveDepPublishPorts(p, i) = Requests(i)
  BY <1>1, <1>4 DEF resolveDepPublishPorts
<1> HIDE DEF i, l
<1>6. 1 \in DOMAIN l.ports /\ l.ports[1].cont = port
  <2>1. 1 \in DOMAIN Requests(i)
    BY <1>2
  <2>2. Requests(i)[1] = [host |-> i.specs[1].host, cont |-> i.specs[1].cont]
    BY <1>2, <2>1
  <2> QED BY <1>4, <2>1, <2>2
<1>7. port \in Insides(l.ports)
  BY <1>6 DEF Insides
<1>8. l.ports[1].host = port \/ Split(p, i)
  BY <1>2, <1>4, <1>5, <1>6 DEF Split, IsDep, IsService, i
<1>9. l.ports[1].host \in Hosts(l.ports)
  BY <1>6 DEF Hosts
<1>10. buildEndpoints(p, n) = [port |-> port, hostPort |-> port]
  BY DEF buildEndpoints, IsDep, IsService, applyInlineDepEndpoint, i
<1>11. \A onHost \in BOOLEAN : GenerateEnvVars(p, n, onHost) = port
  BY <1>10 DEF GenerateEnvVars, ContainerOnly, i
<1>12. resolveHost(i, TRUE) = "host" /\ resolveHost(i, FALSE) = "network"
  BY DEF resolveHost, i
<1>13. ToldIsServed(p, n)
  <2>1. GenerateEnvVars(p, n, TRUE) \in Answers(l, resolveHost(i, TRUE)) \/ Split(p, i)
    BY <1>8, <1>9, <1>11, <1>12, AnswersIs
  <2>2. GenerateEnvVars(p, n, FALSE) \in Answers(l, resolveHost(i, FALSE))
    BY <1>7, <1>11, <1>12, AnswersIs
  <2> QED BY <2>1, <2>2 DEF ToldIsServed, i, l
<1>14. applyPortAllocs(p, i) = port
  BY <1>1, <1>10 DEF applyPortAllocs, i
<1>15. RouteIsServed(p, n)
  BY <1>7, <1>12, <1>14, AnswersIs DEF RouteIsServed, buildProxyRoute, i, l
<1> QED BY <1>13, <1>15

\* What buildEndpoints, GenerateEnvVars and buildProxyRoute tell of an item is
\* where it answers when `up` is done, the named exceptions aside.
THEOREM AdvertisedIsServed == PortsSpec => []ServedAsAdvertised
<1>1. ASSUME PortsInv, NEW p \in Project, NEW n, Advertised(p, n)
      PROVE  ToldIsServed(p, n) /\ RouteIsServed(p, n)
  <2>1. ItemOf(cfg[p], n).kind \in {"host", "docker", "pinned", "auto", "legacy"}
    BY <1>1, AdvertisedIs, Kinds DEF Advertised
  <2> QED BY <1>1, <2>1, ServedHost, ServedDocker, ServedPublished, ServedUnpublished, ServedLegacy
<1>2. ASSUME PortsInv PROVE ServedAsAdvertised
  <2>1. ASSUME NEW p \in Project, pc[p] = "starting" PROVE DOMAIN alloc[p] = Names(cfg[p])
    BY <1>2, <2>1, Types DEF RunTypeOK, HasPorts
  <2> QED BY <1>1, <1>2, <2>1 DEF ServedAsAdvertised, Advertised, ToldIsServed, RouteIsServed
<1> QED BY <1>2, AlwaysPortsInv, PTL

================================================================================
