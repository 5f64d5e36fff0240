------------------------- MODULE RemoteControlProofs -------------------------
(***************************************************************************)
(* No Remote Control process is lost as long as spawns do not overlap, for *)
(* every number of processes and of stops in progress.                     *)
(*                                                                         *)
(* NoStray counts the calls that hold a live process.  What makes it hold  *)
(* is that a process is handed on and never shared: popped before it is    *)
(* signalled, tracked only when the call that started it lets go of it,    *)
(* and that a spawn in progress has popped what was tracked (SpawnPops).   *)
(***************************************************************************)
EXTENDS RemoteControl, FiniteSetTheorems, TLAPS

(* A call in progress knows what it is, and starts processes only as a     *)
(* spawn.                                                                  *)
CallShape ==
  \A c \in Call :
    /\ call[c].pc = "idle" <=> call[c].op = "none"
    /\ call[c].pc \in {"exec", "url"} => call[c].op = "spawn"

OneSpawn == \A c, d \in Call : call[c].op = "spawn" /\ call[d].op = "spawn" => c = d

SpawnPops == \A c \in Call : call[c].op = "spawn" => tracked = NoProc

Fresh ==
  \A p \in Proc : proc[p] = "unused" => tracked # p /\ \A c \in Call : call[c].p # p

(* A live process is tracked and held by nobody, or held by one call. *)
Owned ==
  \A p \in Proc : proc[p] = "alive" =>
    /\ tracked = p => \A c \in Call : call[c].p # p
    /\ tracked # p => \E c \in Call : call[c].p = p
    /\ \A c, d \in Call : call[c].p = p /\ call[d].p = p => c = d

Handing == CallShape /\ OneSpawn /\ SpawnPops /\ Fresh /\ Owned

IInv == TypeOK /\ Handing

-----------------------------------------------------------------------------
LEMMA TypeInit == Init => TypeOK
BY RemoteAssumption DEF Init, Idle, TypeOK

LEMMA TypeStep == ASSUME TypeOK, [Next]_vars PROVE TypeOK'
<1>1. ASSUME NEW c \in Call, NEW o \in {"spawn", "stop"}, Pop(c, o) PROVE TypeOK'
  BY <1>1, RemoteAssumption DEF Pop, TypeOK
<1>2. ASSUME NEW c \in Call, Resume(c), tracked' = tracked,
             proc' \in [Proc -> {"unused", "alive", "dead"}]
      PROVE  TypeOK'
  BY <1>2, RemoteAssumption DEF Resume, Goto, End, Idle, TypeOK
<1>3. ASSUME NEW c \in Call, Resumes(c) PROVE TypeOK'
  BY <1>2, <1>3 DEF Resumes, TypeOK
<1>4. ASSUME NEW c \in Call, KillsHard(c) PROVE TypeOK'
  <2>1. proc' \in [Proc -> {"unused", "alive", "dead"}]
    BY <1>4 DEF KillsHard, TypeOK
  <2>2. QED
    BY <1>2, <1>4, <2>1 DEF KillsHard
<1>5. ASSUME NEW c \in Call, Exec(c) PROVE TypeOK'
  BY <1>5, RemoteAssumption DEF Exec, Goto, End, Idle, TypeOK
<1>6. ASSUME NEW c \in Call, Registers(c) PROVE TypeOK'
  BY <1>6, RemoteAssumption DEF Registers, End, Idle, TypeOK
<1>7. ASSUME NEW c \in Call, GivesUp(c) PROVE TypeOK'
  BY <1>7, RemoteAssumption DEF GivesUp, End, Idle, TypeOK
<1>8. ASSUME NEW p \in Proc, Exits(p) PROVE TypeOK'
  BY <1>8 DEF Exits, TypeOK
<1>9. CASE UNCHANGED vars
  BY <1>9 DEF vars, TypeOK
<1>10. QED
  BY <1>1, <1>3, <1>4, <1>5, <1>6, <1>7, <1>8, <1>9 DEF Next, Spawn, Stop

(* A call holds a process exactly while it waits for it, and every kind of *)
(* value is what it should be, also when spawns overlap.                   *)
THEOREM RemoteTypes == Spec => []TypeOK
BY TypeInit, TypeStep, PTL DEF Spec

-----------------------------------------------------------------------------
(* A spawn begins only when there is none. *)
LEMMA SpawnAlone ==
  ASSUME MaxSpawns <= 1, Cardinality(Spawning) < MaxSpawns
  PROVE  \A c \in Call : call[c].op # "spawn"
<1>1. IsFiniteSet(Spawning)
  BY RemoteAssumption, FS_Subset DEF Spawning
<1>2. Cardinality(Spawning) = 0
  BY <1>1, FS_CardinalityType, RemoteAssumption
<1>3. Spawning = {}
  BY <1>1, <1>2, FS_EmptySet
<1>4. QED
  BY <1>3 DEF Spawning

(* What was tracked changes hands, or is dead. *)
LEMMA PopStep ==
  ASSUME IInv, NEW c \in Call, call[c].pc = "idle", NEW o \in {"spawn", "stop"}, Pop(c, o),
         o = "spawn" => \A d \in Call : call[d].op # "spawn"
  PROVE  Handing'
<1>1. /\ tracked' = NoProc /\ proc' = proc
      /\ call' = [call EXCEPT ![c] = call'[c]]
      /\ call'[c].op = o
      /\ \/ /\ call'[c] = [pc |-> "term", op |-> o, p |-> tracked]
            /\ tracked # NoProc /\ proc[tracked] = "alive"
         \/ /\ call'[c] = [pc |-> "resume", op |-> o, p |-> NoProc]
            /\ tracked # NoProc => proc[tracked] # "alive"
  BY DEF Pop, IInv, TypeOK
<1>2. call[c].p = NoProc
  BY DEF IInv, TypeOK
<1>3. CallShape' /\ OneSpawn' /\ SpawnPops'
  BY <1>1 DEF IInv, Handing, TypeOK, CallShape, OneSpawn, SpawnPops
<1>4. Fresh'
  BY <1>1, RemoteAssumption DEF IInv, Handing, TypeOK, Fresh
<1>5. Owned'
  BY <1>1, <1>2, RemoteAssumption DEF IInv, Handing, TypeOK, Owned
<1>6. QED
  BY <1>3, <1>4, <1>5 DEF Handing

(* A call lets go of a process that is dead. *)
LEMMA LetGo ==
  ASSUME IInv, NEW c \in Call, tracked' = tracked,
         call' = [call EXCEPT ![c] = call'[c]],
         \/ call'[c] = [pc |-> "exec", op |-> "spawn", p |-> NoProc] /\ call[c].op = "spawn"
         \/ call'[c] = Idle,
         \A p \in Proc : proc'[p] = proc[p] \/ (proc'[p] = "dead" /\ proc[p] = "alive"),
         call[c].p # NoProc => proc'[call[c].p] = "dead"
  PROVE  Handing'
<1>1. CallShape' /\ OneSpawn' /\ SpawnPops'
  BY DEF IInv, Handing, TypeOK, CallShape, OneSpawn, SpawnPops, Idle
<1>2. Fresh'
  BY RemoteAssumption DEF IInv, Handing, TypeOK, Fresh, Idle
<1>3. Owned'
  BY RemoteAssumption, SMTT(30) DEF IInv, Handing, TypeOK, Owned, Idle
<1>4. QED
  BY <1>1, <1>2, <1>3 DEF Handing

LEMMA Resumed ==
  ASSUME IInv, NEW c \in Call, Resume(c)
  PROVE  /\ call' = [call EXCEPT ![c] = call'[c]]
         /\ \/ call'[c] = [pc |-> "exec", op |-> "spawn", p |-> NoProc] /\ call[c].op = "spawn"
            \/ call'[c] = Idle
BY DEF Resume, Goto, End, IInv, TypeOK

LEMMA ResumesStep == ASSUME IInv, NEW c \in Call, Resumes(c) PROVE Handing'
<1>1. call[c].p # NoProc => proc'[call[c].p] = "dead"
  BY DEF Resumes, IInv, TypeOK
<1>2. QED
  BY <1>1, Resumed, LetGo DEF Resumes

LEMMA KillStep == ASSUME IInv, NEW c \in Call, KillsHard(c) PROVE Handing'
<1>1. /\ proc'[call[c].p] = "dead"
      /\ \A p \in Proc : proc'[p] = proc[p] \/ (proc'[p] = "dead" /\ proc[p] = "alive")
  BY DEF KillsHard, IInv, TypeOK
<1>2. QED
  BY <1>1, Resumed, LetGo DEF KillsHard

LEMMA GiveUpStep == ASSUME IInv, NEW c \in Call, GivesUp(c) PROVE Handing'
<1>1. call[c].p \in Proc /\ proc[call[c].p] # "unused"
  BY RemoteAssumption DEF GivesUp, IInv, Handing, TypeOK, Fresh
<1>2. /\ proc'[call[c].p] = "dead"
      /\ \A p \in Proc : proc'[p] = proc[p] \/ (proc'[p] = "dead" /\ proc[p] = "alive")
  BY <1>1 DEF GivesUp, IInv, TypeOK
<1>3. call' = [call EXCEPT ![c] = call'[c]] /\ call'[c] = Idle /\ tracked' = tracked
  BY DEF GivesUp, End, IInv, TypeOK
<1>4. QED
  BY <1>2, <1>3, LetGo

(* A process that is started is in the hands of the spawn alone. *)
LEMMA ExecStep == ASSUME IInv, NEW c \in Call, Exec(c) PROVE Handing'
<1>1. call[c].pc = "exec" /\ call[c].op = "spawn" /\ call[c].p = NoProc /\ tracked = NoProc
  BY DEF Exec, IInv, Handing, TypeOK, CallShape, SpawnPops
<1>2. ASSUME NEW p \in Proc, proc[p] = "unused", proc' = [proc EXCEPT ![p] = "alive"],
             Goto(c, "url", p), tracked' = tracked
      PROVE  Handing'
  <2>1. call' = [call EXCEPT ![c] = [pc |-> "url", op |-> "spawn", p |-> p]]
    BY <1>1, <1>2 DEF Goto, IInv, TypeOK
  <2>2. CallShape' /\ OneSpawn' /\ SpawnPops'
    BY <1>1, <1>2, <2>1 DEF IInv, Handing, TypeOK, CallShape, OneSpawn, SpawnPops
  <2>3. Fresh' /\ Owned'
    BY <1>1, <1>2, <2>1, RemoteAssumption DEF IInv, Handing, TypeOK, Fresh, Owned
  <2>4. QED
    BY <2>2, <2>3 DEF Handing
<1>3. ASSUME End(c), UNCHANGED <<proc, tracked>> PROVE Handing'
  BY <1>1, <1>3, LetGo DEF End, IInv, TypeOK
<1>4. QED
  BY <1>2, <1>3 DEF Exec

(* The one spawn in progress puts its process where nothing is. *)
LEMMA RegisterStep == ASSUME IInv, NEW c \in Call, Registers(c) PROVE Handing'
<1>1. /\ call[c].op = "spawn" /\ call[c].p \in Proc
      /\ tracked = NoProc /\ tracked' = call[c].p /\ proc' = proc
      /\ call' = [call EXCEPT ![c] = Idle]
      /\ \A d \in Call \ {c} : call[d].op # "spawn"
  BY RemoteAssumption
  DEF Registers, End, IInv, Handing, TypeOK, CallShape, SpawnPops, OneSpawn
<1>2. CallShape' /\ OneSpawn' /\ SpawnPops'
  BY <1>1 DEF IInv, Handing, TypeOK, CallShape, OneSpawn, SpawnPops, Idle
<1>3. Fresh' /\ Owned'
  BY <1>1, RemoteAssumption DEF IInv, Handing, TypeOK, Fresh, Owned, Idle
<1>4. QED
  BY <1>2, <1>3 DEF Handing

LEMMA ExitStep == ASSUME IInv, NEW p \in Proc, Exits(p) PROVE Handing'
BY DEF Exits, IInv, TypeOK, Handing, CallShape, OneSpawn, SpawnPops, Fresh, Owned

LEMMA HandingInit == Init => Handing
BY RemoteAssumption DEF Init, Idle, Handing, CallShape, OneSpawn, SpawnPops, Fresh, Owned

LEMMA HandingStep == ASSUME IInv, MaxSpawns <= 1, [Next]_vars PROVE Handing'
<1>1. ASSUME NEW c \in Call, Spawn(c) PROVE Handing'
  BY <1>1, SpawnAlone, PopStep DEF Spawn
<1>2. ASSUME NEW c \in Call, Stop(c) PROVE Handing'
  BY <1>2, PopStep DEF Stop
<1>3. CASE UNCHANGED vars
  BY <1>3 DEF vars, IInv, Handing, CallShape, OneSpawn, SpawnPops, Fresh, Owned
<1>4. QED
  BY <1>1, <1>2, <1>3, ResumesStep, KillStep, ExecStep, RegisterStep, GiveUpStep, ExitStep
  DEF Next

LEMMA Counted == IInv => NoStray
<1>1. SUFFICES ASSUME IInv, NEW p \in Proc, proc[p] = "alive"
               PROVE  Cardinality({c \in Call : call[c].p = p}) = IF tracked = p THEN 0 ELSE 1
  BY DEF NoStray
<1>2. CASE tracked = p
  <2>1. {c \in Call : call[c].p = p} = {}
    BY <1>1, <1>2 DEF IInv, Handing, Owned
  <2>2. QED
    BY <1>2, <2>1, FS_EmptySet
<1>3. CASE tracked # p
  <2>1. PICK c \in Call : call[c].p = p
    BY <1>1, <1>3 DEF IInv, Handing, Owned
  <2>2. {d \in Call : call[d].p = p} = {c}
    BY <1>1, <2>1 DEF IInv, Handing, Owned
  <2>3. QED
    BY <1>3, <2>2, FS_Singleton
<1>4. QED
  BY <1>2, <1>3

(* As long as spawn_rc_process calls do not overlap, every Remote Control  *)
(* process that lives is tracked, or in the hands of the one call that     *)
(* starts or stops it, however many stops come in between.                 *)
THEOREM NothingStrays == ASSUME MaxSpawns <= 1 PROVE Spec => []NoStray
<1>1. Init => IInv
  BY TypeInit, HandingInit DEF IInv
<1>2. IInv /\ [Next]_vars => IInv'
  BY TypeStep, HandingStep DEF IInv
<1>3. QED
  BY <1>1, <1>2, Counted, PTL DEF Spec
=============================================================================
