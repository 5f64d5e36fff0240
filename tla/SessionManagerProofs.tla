------------------------ MODULE SessionManagerProofs ------------------------
(***************************************************************************)
(* Proofs about SessionManager, for every set of sessions, surfaces and    *)
(* concurrent calls, whatever calls are made and whatever faults happen.   *)
(***************************************************************************)
EXTENDS SessionManager, TLAPS

(* Where an op goes after _spawn and after _kill_process. *)
AfterSpawn == {"return", "forward", "mark", "request", "setRunning"}
AfterKillProcess == {"close", "deleteTurns", "return", "setRunning", "remint"}

(* The session of an op is known except before it is looked up or made. *)
NoSession == {"idle", "lookup", "insert", "return"}

Shape(r) ==
  /\ r.pc \notin NoSession => r.sid \in Sid
  /\ r.pc = "lookup" => r.client \in Client
  /\ r.pc \in {"spawn", "spawned"} => r.ret \in AfterSpawn
  /\ r.pc \in {"killProcess", "killOnMind"} => r.ret \in AfterKillProcess

OpInv == op \in [Op -> OpType] /\ \A o \in Op : Shape(op[o])

TypeInv == TypeOK /\ OpInv

-----------------------------------------------------------------------------
(* How an op may move on without losing its shape *)

LEMMA OpStep ==
  ASSUME OpInv, NEW o \in Op, NEW r \in OpType, Shape(r), Become(o, r)
  PROVE  OpInv'
BY DEF OpInv, Become

LEMMA EndOp ==
  ASSUME TypeInv, NEW o \in Op, End(o)
  PROVE  OpInv' /\ lock' \in [Sid -> Op \cup {Free}]
<1>1. Idle \in OpType /\ Shape(Idle)
  BY ConstantsAssumption DEF Idle, OpType, OpPc, RowStatus, AllCalls, Conv, Shape, NoSession
<1>2. OpInv'
  BY <1>1, OpStep DEF End, TypeInv
<1>3. QED
  BY <1>2 DEF End, TypeInv, TypeOK

LEMMA GotoOp ==
  ASSUME TypeInv, NEW o \in Op, NEW pc \in OpPc, Goto(o, pc),
         pc \in NoSession \/ op[o].sid \in Sid,
         pc # "spawn", pc # "killProcess", pc # "lookup",
         pc = "spawned" => op[o].pc = "spawn",
         pc = "killOnMind" => op[o].pc = "killProcess"
  PROVE  OpInv'
<1> DEFINE r == [op[o] EXCEPT !.pc = pc]
<1>1. op[o] \in OpType /\ Shape(op[o])
  BY DEF TypeInv, OpInv
<1>2. r \in OpType
  BY <1>1 DEF OpType
<1>3. r.pc = pc /\ r.sid = op[o].sid /\ r.ret = op[o].ret
  BY <1>1 DEF OpType
<1>4. Shape(r)
  BY <1>1, <1>3 DEF Shape
<1>5. Become(o, r)
  BY DEF Goto
<1>6. QED
  BY <1>2, <1>4, <1>5, OpStep DEF TypeInv

LEMMA Pcs ==
  /\ {"acquire", "kill", "arm", "bindNew", "bind", "interrupt", "return", "adopt",
      "finalize", "check", "stream", "spawn", "killProcess"} \subseteq OpPc
  /\ {"none", "running", "idle", "closed", "deleted"} \subseteq RowStatus
  /\ 0 \in Conv
BY ConstantsAssumption DEF OpPc, RowStatus, Conv

LEMMA PcsOfSubroutines ==
  /\ AfterSpawn \subseteq OpPc
  /\ AfterKillProcess \subseteq OpPc
BY DEF AfterSpawn, AfterKillProcess, OpPc

LEMMA SpawnOp ==
  ASSUME TypeInv, NEW o \in Op, NEW conv \in Conv, NEW ret \in AfterSpawn,
         CallSpawn(o, conv, ret), op[o].sid \in Sid
  PROVE  OpInv'
<1> DEFINE r == [op[o] EXCEPT !.pc = "spawn", !.conv = conv, !.ret = ret]
<1>1. op[o] \in OpType
  BY DEF TypeInv, OpInv
<1>2. r \in OpType
  BY <1>1, Pcs, PcsOfSubroutines DEF OpType
<1>3. Shape(r)
  BY <1>1 DEF Shape, OpType
<1>4. Become(o, r)
  BY DEF CallSpawn
<1>5. QED
  BY <1>2, <1>3, <1>4, OpStep DEF TypeInv

LEMMA KillOp ==
  ASSUME TypeInv, NEW o \in Op, NEW ret \in AfterKillProcess,
         CallKillProcess(o, ret), op[o].sid \in Sid
  PROVE  OpInv'
<1> DEFINE r == [op[o] EXCEPT !.pc = "killProcess", !.ret = ret]
<1>1. op[o] \in OpType
  BY DEF TypeInv, OpInv
<1>2. r \in OpType
  BY <1>1, Pcs, PcsOfSubroutines DEF OpType
<1>3. Shape(r)
  BY <1>1 DEF Shape, OpType
<1>4. Become(o, r)
  BY DEF CallKillProcess
<1>5. QED
  BY <1>2, <1>3, <1>4, OpStep DEF TypeInv

LEMMA RowHas == ASSUME TypeInv, NEW s \in Sid PROVE row[s] \in RowType
BY DEF TypeInv, TypeOK

LEMMA OpHas == ASSUME TypeInv, NEW o \in Op PROVE op[o] \in OpType /\ Shape(op[o])
BY DEF TypeInv, OpInv

LEMMA RowOp ==
  ASSUME TypeInv, NEW s, NEW r \in RowType, Update(s, r)
  PROVE  row' \in [Sid -> RowType]
BY DEF TypeInv, TypeOK, Update

LEMMA StatusOp ==
  ASSUME TypeInv, NEW s \in Sid, NEW status \in RowStatus, UpdateStatus(s, status)
  PROVE  row' \in [Sid -> RowType]
<1>1. row[s] \in RowType
  BY DEF TypeInv, TypeOK
<1>2. [row[s] EXCEPT !.status = status] \in RowType
  BY <1>1 DEF RowType
<1>3. QED
  BY <1>2, RowOp DEF UpdateStatus

LEMMA UnbindOp ==
  ASSUME TypeInv, NEW s, Unbind(s)
  PROVE  active' \in [Client -> Sid \cup {NoSid}]
BY DEF TypeInv, TypeOK, Unbind

-----------------------------------------------------------------------------
(* Each step of an op *)

LEMMA ReturnType == ASSUME TypeInv, NEW o \in Op, Return(o) PROVE TypeInv'
BY EndOp DEF Return, TypeInv, TypeOK, OpInv, tables

LEMMA LookupType == ASSUME TypeInv, NEW o \in Op, Lookup(o) PROVE TypeInv'
<1> DEFINE s == active[op[o].client]
           r == [op[o] EXCEPT !.sid = s,
                              !.pc = IF op[o].call = "new" THEN "kill" ELSE "arm"]
<1>1. CASE s # NoSid /\ Open(s) /\ Become(o, r)
  <2>1. op[o] \in OpType
    BY DEF TypeInv, OpInv
  <2>2. s \in Sid
    BY <1>1, OpHas DEF Lookup, At, Shape, TypeInv, TypeOK
  <2>3. r \in OpType
    BY <2>1, <2>2, Pcs DEF OpType
  <2>4. Shape(r)
    BY <2>1, <2>2 DEF OpType, Shape
  <2>5. QED
    BY <1>1, <2>3, <2>4, OpStep DEF Lookup, TypeInv, TypeOK, OpInv, tables
<1>2. CASE Goto(o, IF op[o].call = "new" THEN "insert" ELSE "return")
  BY <1>2, GotoOp DEF Lookup, TypeInv, TypeOK, OpInv, tables, OpPc, NoSession
<1>3. QED
  BY <1>1, <1>2 DEF Lookup

LEMMA ArmType == ASSUME TypeInv, NEW o \in Op, Arm(o) PROVE TypeInv'
<1>1. OpInv'
  BY GotoOp DEF Arm, OpPc, NoSession
<1>2. op[o].sid \in Sid
  BY DEF Arm, At, TypeInv, OpInv, Shape, NoSession
<1>3. [row[op[o].sid] EXCEPT !.armed = TRUE] \in RowType
  BY <1>2, RowHas DEF RowType
<1>4. QED
  BY <1>1, <1>3, RowOp DEF Arm, TypeInv, TypeOK, OpInv

LEMMA InsertType == ASSUME TypeInv, NEW o \in Op, Insert(o) PROVE TypeInv'
<1>1. PICK s \in Sid :
        /\ row' = [row EXCEPT ![s] = [NoRow EXCEPT !.status = "running",
                                        !.owner = op[o].owner, !.from = op[o].from]]
        /\ Become(o, [op[o] EXCEPT !.sid = s, !.pc = "bindNew"])
  BY DEF Insert
<1>2. op[o] \in OpType
  BY DEF TypeInv, OpInv
<1>3. [NoRow EXCEPT !.status = "running", !.owner = op[o].owner, !.from = op[o].from]
        \in RowType
  BY <1>2, Pcs DEF NoRow, RowType, OpType
<1>4. [op[o] EXCEPT !.sid = s, !.pc = "bindNew"] \in OpType
  BY <1>2, Pcs DEF OpType
<1>5. Shape([op[o] EXCEPT !.sid = s, !.pc = "bindNew"])
  BY <1>2 DEF OpType, Shape
<1>6. OpInv'
  BY <1>1, <1>4, <1>5, OpStep DEF TypeInv
<1>7. QED
  BY <1>1, <1>3, <1>6 DEF Insert, TypeInv, TypeOK, OpInv

LEMMA CreateRefusedType == ASSUME TypeInv, NEW o \in Op, CreateRefused(o) PROVE TypeInv'
BY EndOp DEF CreateRefused, TypeInv, TypeOK, OpInv, tables

LEMMA BindNewType == ASSUME TypeInv, NEW o \in Op, BindNew(o) PROVE TypeInv'
<1>1. op[o].sid \in Sid
  BY DEF BindNew, At, TypeInv, OpInv, Shape, NoSession
<1>2. CASE CallSpawn(o, 0, IF op[o].call = "send" THEN "forward" ELSE "return")
  <2>1. OpInv'
    BY <1>1, <1>2, SpawnOp, ConstantsAssumption DEF Conv, AfterSpawn
  <2>2. QED
    BY <1>1, <2>1 DEF BindNew, TypeInv, TypeOK, OpInv, CallSpawn, Become, End
<1>3. CASE End(o) /\ UNCHANGED active
  BY <1>3, EndOp DEF BindNew, TypeInv, TypeOK, OpInv
<1>4. QED
  BY <1>2, <1>3 DEF BindNew

LEMMA SpawnOnMindType == ASSUME TypeInv, NEW o \in Op, SpawnOnMind(o) PROVE TypeInv'
<1>1. op[o].sid \in Sid /\ op[o].conv \in Conv
  BY DEF SpawnOnMind, At, TypeInv, OpInv, OpType, Shape, NoSession
<1>2. OpInv'
  BY <1>1, GotoOp DEF SpawnOnMind, At, OpPc
<1>3. QED
  BY <1>1, <1>2 DEF SpawnOnMind, TypeInv, TypeOK, OpInv, tables

LEMMA SpawnFailsType == ASSUME TypeInv, NEW o \in Op, SpawnFails(o) PROVE TypeInv'
<1>1. op[o].conv \in Conv
  BY DEF TypeInv, OpInv, OpType
<1>2. QED
  BY <1>1, EndOp DEF SpawnFails, TypeInv, TypeOK, OpInv, tables

LEMMA SpawnedType == ASSUME TypeInv, NEW o \in Op, Spawned(o) PROVE TypeInv'
<1>1. op[o].sid \in Sid /\ op[o].ret \in AfterSpawn
  BY DEF Spawned, At, TypeInv, OpInv, Shape, NoSession
<1>2. OpInv'
  BY <1>1, GotoOp DEF Spawned, AfterSpawn, OpPc
<1>3. QED
  BY <1>1, <1>2 DEF Spawned, TypeInv, TypeOK, OpInv, tables

LEMMA KillProcessType == ASSUME TypeInv, NEW o \in Op, KillProcess(o) PROVE TypeInv'
<1>1. op[o].sid \in Sid
  BY DEF KillProcess, At, TypeInv, OpInv, Shape, NoSession
<1>2. OpInv'
  BY <1>1, GotoOp DEF KillProcess, At, OpPc
<1>3. QED
  BY <1>2 DEF KillProcess, TypeInv, TypeOK, OpInv, tables

LEMMA KillOnMindType == ASSUME TypeInv, NEW o \in Op, KillOnMind(o) PROVE TypeInv'
<1>1. op[o].sid \in Sid /\ op[o].ret \in AfterKillProcess
  BY DEF KillOnMind, At, TypeInv, OpInv, Shape, NoSession
<1>2. OpInv'
  BY <1>1, GotoOp DEF KillOnMind, AfterKillProcess, OpPc
<1>3. QED
  BY <1>2 DEF KillOnMind, TypeInv, TypeOK, OpInv, tables

LEMMA KillType == ASSUME TypeInv, NEW o \in Op, Kill(o) PROVE TypeInv'
<1>1. CASE /\ CallKillProcess(o, IF row[op[o].sid].owner \in Scheduler THEN "deleteTurns"
                                                                       ELSE "close")
           /\ UNCHANGED lock
  <2>1. op[o].sid \in Sid
    BY DEF Kill, At, TypeInv, OpInv, Shape, NoSession
  <2>2. OpInv'
    BY <1>1, <2>1, KillOp DEF AfterKillProcess
  <2>3. QED
    BY <1>1, <2>2 DEF Kill, TypeInv, TypeOK, OpInv, tables
<1>2. CASE End(o)
  BY <1>2, EndOp DEF Kill, TypeInv, TypeOK, OpInv, tables
<1>3. QED
  BY <1>1, <1>2 DEF Kill

LEMMA CloseType == ASSUME TypeInv, NEW o \in Op, Close(o) PROVE TypeInv'
<1>1. op[o].sid \in Sid
  BY OpHas DEF Close, At, Shape, NoSession
<1>2. OpInv'
  BY <1>1, GotoOp DEF Close, At, OpPc
<1>3. QED
  BY <1>1, <1>2, Pcs, StatusOp DEF Close, TypeInv, TypeOK, OpInv, tables

LEMMA UnbindClosedType == ASSUME TypeInv, NEW o \in Op, UnbindClosed(o) PROVE TypeInv'
<1>1. op[o].sid \in Sid
  BY OpHas DEF UnbindClosed, At, Shape, NoSession
<1>2. OpInv'
  BY <1>1, GotoOp DEF UnbindClosed, At, OpPc, AfterKill, NoSession
<1>3. QED
  BY <1>1, <1>2, UnbindOp DEF UnbindClosed, TypeInv, TypeOK, OpInv, tables

LEMMA DeleteTurnsType == ASSUME TypeInv, NEW o \in Op, DeleteTurns(o) PROVE TypeInv'
<1>1. op[o].sid \in Sid
  BY OpHas DEF DeleteTurns, At, Shape, NoSession
<1>2. OpInv'
  BY <1>1, GotoOp DEF DeleteTurns, At, OpPc
<1>3. QED
  BY <1>1, <1>2 DEF DeleteTurns, TypeInv, TypeOK, OpInv, tables

LEMMA DeleteBindingType == ASSUME TypeInv, NEW o \in Op, DeleteBinding(o) PROVE TypeInv'
<1>1. op[o].sid \in Sid
  BY OpHas DEF DeleteBinding, At, Shape, NoSession
<1>2. OpInv'
  BY <1>1, GotoOp DEF DeleteBinding, At, OpPc
<1>3. QED
  BY <1>1, <1>2, UnbindOp DEF DeleteBinding, TypeInv, TypeOK, OpInv, tables

LEMMA DeleteRowType == ASSUME TypeInv, NEW o \in Op, DeleteRow(o) PROVE TypeInv'
<1>1. op[o].sid \in Sid
  BY OpHas DEF DeleteRow, At, Shape, NoSession
<1>2. CASE UpdateStatus(op[o].sid, "deleted") /\ Goto(o, AfterKill(o)) /\ UNCHANGED lock
  <2>1. OpInv'
    BY <1>2, GotoOp DEF AfterKill, OpPc, NoSession
  <2>2. QED
    BY <1>1, <1>2, <2>1, Pcs, StatusOp DEF DeleteRow, TypeInv, TypeOK, OpInv
<1>3. CASE End(o) /\ UNCHANGED row
  BY <1>3, EndOp DEF DeleteRow, TypeInv, TypeOK, OpInv
<1>4. QED
  BY <1>2, <1>3 DEF DeleteRow

LEMMA ReadRowType == ASSUME TypeInv, NEW o \in Op, ReadRow(o) PROVE TypeInv'
<1>1. op[o].sid \in Sid
  BY OpHas DEF ReadRow, At, Shape, NoSession
<1> DEFINE s == op[o].sid
           read == [op[o] EXCEPT !.conv = row[s].conv, !.status = row[s].status]
           toKill == [read EXCEPT !.pc = "killProcess", !.ret = "setRunning"]
           toInterrupt ==
             [read EXCEPT !.pc = IF s \in procs THEN "interrupt" ELSE "return"]
           toBind(adopting) == [read EXCEPT !.pc = IF adopting THEN "adopt" ELSE "bind"]
<1>2. op[o] \in OpType /\ row[s] \in RowType
  BY <1>1, OpHas, RowHas
<1>3. read \in OpType /\ read.sid \in Sid
  BY <1>1, <1>2 DEF OpType, RowType
<1>4. CASE Become(o, toKill) /\ UNCHANGED lock
  <2>1. toKill \in OpType
    BY <1>3, Pcs, PcsOfSubroutines DEF OpType, AfterKillProcess
  <2>2. Shape(toKill)
    BY <1>3 DEF Shape, OpType, AfterKillProcess
  <2>3. QED
    BY <1>4, <2>1, <2>2, OpStep DEF ReadRow, TypeInv, TypeOK, OpInv, tables
<1>5. CASE Become(o, toInterrupt) /\ UNCHANGED lock
  <2>1. toInterrupt \in OpType
    BY <1>3, Pcs DEF OpType
  <2>2. Shape(toInterrupt)
    BY <1>3 DEF Shape, OpType
  <2>3. QED
    BY <1>5, <2>1, <2>2, OpStep DEF ReadRow, TypeInv, TypeOK, OpInv, tables
<1>6. ASSUME NEW adopting \in BOOLEAN, Become(o, toBind(adopting)), UNCHANGED lock
      PROVE  TypeInv'
  <2>1. toBind(adopting) \in OpType
    BY <1>3, Pcs DEF OpType
  <2>2. Shape(toBind(adopting))
    BY <1>3 DEF Shape, OpType
  <2>3. QED
    BY <1>6, <2>1, <2>2, OpStep DEF ReadRow, TypeInv, TypeOK, OpInv, tables
<1>7. CASE End(o)
  BY <1>7, EndOp DEF ReadRow, TypeInv, TypeOK, OpInv, tables
<1>8. QED
  BY <1>4, <1>5, <1>6, <1>7 DEF ReadRow

LEMMA InterruptType == ASSUME TypeInv, NEW o \in Op, Interrupt(o) PROVE TypeInv'
<1>1. op[o].sid \in Sid
  BY OpHas DEF Interrupt, At, Shape, NoSession
<1>2. CASE CallKillProcess(o, "return") /\ UNCHANGED lock
  <2>1. OpInv'
    BY <1>1, <1>2, KillOp DEF AfterKillProcess
  <2>2. QED
    BY <1>2, <2>1 DEF Interrupt, TypeInv, TypeOK, OpInv, tables
<1>3. CASE End(o)
  BY <1>3, EndOp DEF Interrupt, TypeInv, TypeOK, OpInv, tables
<1>4. QED
  BY <1>2, <1>3 DEF Interrupt

LEMMA SetRunningType == ASSUME TypeInv, NEW o \in Op, SetRunning(o) PROVE TypeInv'
<1>1. op[o].sid \in Sid
  BY OpHas DEF SetRunning, At, Shape, NoSession
<1>2. op[o].conv \in Conv
  BY OpHas DEF OpType
<1>3. OpInv'
  BY <1>1, <1>2, SpawnOp, GotoOp DEF SetRunning, AfterSpawn, OpPc
<1>4. QED
  BY <1>1, <1>3, Pcs, StatusOp DEF SetRunning, TypeInv, TypeOK, OpInv

LEMMA AdoptType == ASSUME TypeInv, NEW o \in Op, Adopt(o) PROVE TypeInv'
<1>1. op[o].sid \in Sid
  BY OpHas DEF Adopt, At, Shape, NoSession
<1>2. OpInv'
  BY <1>1, GotoOp DEF Adopt, At, OpPc
<1>3. [row[op[o].sid] EXCEPT !.owner = op[o].client, !.status = "idle"] \in RowType
  BY <1>1, OpHas, RowHas, Pcs, ZenonT(30) DEF RowType, OpType
<1>4. QED
  BY <1>2, <1>3, RowOp DEF Adopt, TypeInv, TypeOK, OpInv

LEMMA AdoptUnbindType == ASSUME TypeInv, NEW o \in Op, AdoptUnbind(o) PROVE TypeInv'
<1>1. op[o].sid \in Sid
  BY OpHas DEF AdoptUnbind, At, Shape, NoSession
<1>2. OpInv'
  BY <1>1, GotoOp DEF AdoptUnbind, At, OpPc
<1>3. QED
  BY <1>1, <1>2, UnbindOp DEF AdoptUnbind, TypeInv, TypeOK, OpInv, tables

LEMMA RereadType == ASSUME TypeInv, NEW o \in Op, Reread(o) PROVE TypeInv'
<1>1. op[o].sid \in Sid
  BY OpHas DEF Reread, At, Shape, NoSession
<1> DEFINE r == [op[o] EXCEPT !.pc = "bind", !.conv = row[op[o].sid].conv,
                             !.status = row[op[o].sid].status]
<1>2. op[o] \in OpType /\ row[op[o].sid] \in RowType
  BY <1>1, OpHas, RowHas
<1>3. r \in OpType
  BY <1>2, Pcs DEF OpType, RowType
<1>4. Shape(r)
  BY <1>1, <1>2 DEF Shape, OpType
<1>5. QED
  BY <1>3, <1>4, OpStep DEF Reread, TypeInv, TypeOK, OpInv, tables

LEMMA BindType == ASSUME TypeInv, NEW o \in Op, Bind(o) PROVE TypeInv'
<1>1. op[o].sid \in Sid
  BY OpHas DEF Bind, At, Shape, NoSession
<1>2. CASE Goto(o, "respawnIdle") /\ UNCHANGED lock
  <2>1. OpInv'
    BY <1>1, <1>2, GotoOp DEF OpPc
  <2>2. QED
    BY <1>1, <1>2, <2>1 DEF Bind, TypeInv, TypeOK, OpInv, Goto, Become, End
<1>3. CASE End(o) /\ UNCHANGED active
  BY <1>3, EndOp DEF Bind, TypeInv, TypeOK, OpInv
<1>4. QED
  BY <1>2, <1>3 DEF Bind

LEMMA RespawnIdleType == ASSUME TypeInv, NEW o \in Op, RespawnIdle(o) PROVE TypeInv'
<1>1. op[o].sid \in Sid
  BY OpHas DEF RespawnIdle, At, Shape, NoSession
<1>2. op[o].conv \in Conv
  BY OpHas DEF OpType
<1>3. OpInv'
  BY <1>1, <1>2, SpawnOp, GotoOp DEF RespawnIdle, AfterSpawn, OpPc
<1>4. QED
  BY <1>3 DEF RespawnIdle, TypeInv, TypeOK, OpInv, tables

LEMMA AcquireType == ASSUME TypeInv, NEW o \in Op, Acquire(o) PROVE TypeInv'
<1>1. op[o].sid \in Sid
  BY OpHas DEF Acquire, At, Shape, NoSession
<1>2. OpInv'
  BY <1>1, GotoOp DEF Acquire, At, OpPc
<1>3. QED
  BY <1>1, <1>2 DEF Acquire, TypeInv, TypeOK, OpInv, tables

LEMMA BeginOp ==
  ASSUME TypeInv, NEW o \in Op, NEW call \in AllCalls, NEW pc \in OpPc,
         NEW s \in Sid \cup {NoSid}, NEW c \in Client \cup {NoClient},
         Become(o, [Idle EXCEPT !.call = call, !.pc = pc,
                                !.sid = s, !.client = c, !.owner = c]),
         pc \in NoSession \/ s \in Sid,
         pc = "lookup" => c \in Client,
         pc \notin {"spawn", "spawned", "killProcess", "killOnMind"}
  PROVE  OpInv'
<1> DEFINE r == [Idle EXCEPT !.call = call, !.pc = pc, !.sid = s, !.client = c, !.owner = c]
<1>1. r \in OpType
  BY Pcs DEF Idle, OpType
<1>2. Shape(r)
  BY DEF Idle, Shape
<1>3. QED
  BY <1>1, <1>2, OpStep DEF TypeInv

LEMMA BeginOnSessionType ==
  ASSUME TypeInv, NEW o \in Op, NEW s \in Sid, BeginOnSession(o, s)
  PROVE  TypeInv'
<1>1. OpInv'
  <2> DEFINE starts(call, pc, c) ==
        Become(o, [Idle EXCEPT !.call = call, !.pc = pc,
                               !.sid = s, !.client = c, !.owner = c])
  <2>1. \/ starts("send", "acquire", NoClient) \/ starts("kill", "kill", NoClient)
        \/ starts("respawn", "readRow", NoClient) \/ starts("interrupt", "readRow", NoClient)
        \/ \E c \in Client : starts("activate", "readRow", c) \/ starts("adopt", "readRow", c)
    BY DEF BeginOnSession, Begin
  <2>2. {"send", "kill", "respawn", "interrupt", "activate", "adopt"} \subseteq AllCalls
    BY DEF AllCalls
  <2>3. {"acquire", "kill", "readRow"} \subseteq OpPc
    BY DEF OpPc
  <2>4. ASSUME NEW call \in AllCalls, NEW pc \in {"acquire", "kill", "readRow"},
               NEW c \in Client \cup {NoClient}, starts(call, pc, c)
        PROVE  OpInv'
    BY <2>3, <2>4, BeginOp
  <2>5. QED
    BY <2>1, <2>2, <2>4
<1>2. QED
  BY <1>1 DEF BeginOnSession, TypeInv, TypeOK, OpInv, tables

LEMMA BeginOnSurfaceType ==
  ASSUME TypeInv, NEW o \in Op, NEW c \in Client, BeginOnSurface(o, c)
  PROVE  TypeInv'
<1>1. OpInv'
  <2> DEFINE starts(call, pc) ==
        Become(o, [Idle EXCEPT !.call = call, !.pc = pc,
                               !.sid = NoSid, !.client = c, !.owner = c])
  <2>1. starts("create", "insert") \/ starts("new", "lookup") \/ starts("arm", "lookup")
    BY DEF BeginOnSurface, Begin
  <2>2. {"create", "new", "arm"} \subseteq AllCalls
    BY DEF AllCalls
  <2>3. {"insert", "lookup"} \subseteq OpPc
    BY DEF OpPc
  <2>4. ASSUME NEW call \in AllCalls, NEW pc \in {"insert", "lookup"}, starts(call, pc)
        PROVE  OpInv'
    <3>1. pc \in NoSession /\ pc \in OpPc
      BY <2>3 DEF NoSession
    <3>2. QED
      BY <2>4, <3>1, BeginOp
  <2>5. QED
    BY <2>1, <2>2, <2>4
<1>2. QED
  BY <1>1 DEF BeginOnSurface, TypeInv, TypeOK, OpInv, tables

LEMMA ReadType == ASSUME TypeInv, NEW o \in Op, Read(o) PROVE TypeInv'
<1>1. op[o].sid \in Sid
  BY OpHas DEF Read, At, Shape, NoSession
<1> DEFINE s == op[o].sid
           r == [op[o] EXCEPT !.conv = row[s].conv, !.owner = row[s].owner,
                              !.pc = IF row[s].armed THEN "finalize" ELSE "check"]
<1>2. op[o] \in OpType /\ row[s] \in RowType
  BY <1>1, OpHas, RowHas
<1>3. r \in OpType
  BY <1>2, Pcs, ZenonT(30) DEF OpType, RowType
<1>4. Shape(r)
  BY <1>1, <1>2 DEF Shape, OpType
<1>5. CASE End(o)
  BY <1>5, EndOp DEF Read, TypeInv, TypeOK, OpInv, tables
<1>6. CASE Become(o, r) /\ UNCHANGED lock
  BY <1>3, <1>4, <1>6, OpStep DEF Read, TypeInv, TypeOK, OpInv, tables
<1>7. QED
  BY <1>5, <1>6 DEF Read

LEMMA FinalizeType == ASSUME TypeInv, NEW o \in Op, Finalize(o) PROVE TypeInv'
<1>1. op[o].sid \in Sid
  BY OpHas DEF Finalize, At, Shape, NoSession
<1>2. ASSUME NEW c \in Client,
             Become(o, [op[o] EXCEPT !.pc = "kill", !.client = c, !.from = op[o].sid])
      PROVE  TypeInv'
  <2> DEFINE r == [op[o] EXCEPT !.pc = "kill", !.client = c, !.from = op[o].sid]
  <2>1. r \in OpType
    BY <1>1, OpHas, Pcs DEF OpType
  <2>2. Shape(r)
    BY <1>1, OpHas DEF Shape, OpType
  <2>3. QED
    BY <1>2, <2>1, <2>2, OpStep DEF Finalize, TypeInv, TypeOK, OpInv, tables
<1>3. CASE Goto(o, "disarm")
  <2>1. OpInv'
    BY <1>1, <1>3, GotoOp DEF OpPc
  <2>2. QED
    BY <2>1 DEF Finalize, TypeInv, TypeOK, OpInv, tables
<1>4. QED
  BY <1>2, <1>3 DEF Finalize

LEMMA DisarmType == ASSUME TypeInv, NEW o \in Op, Disarm(o) PROVE TypeInv'
<1>1. op[o].sid \in Sid
  BY OpHas DEF Disarm, At, Shape, NoSession
<1>2. OpInv'
  BY <1>1, GotoOp DEF Disarm, OpPc
<1>3. [row[op[o].sid] EXCEPT !.armed = FALSE] \in RowType
  BY <1>1, RowHas DEF RowType
<1>4. QED
  BY <1>2, <1>3, RowOp DEF Disarm, TypeInv, TypeOK, OpInv

LEMMA ForwardType == ASSUME TypeInv, NEW o \in Op, Forward(o) PROVE TypeInv'
<1>1. op[o].sid \in Sid
  BY OpHas DEF Forward, At, Shape, NoSession
<1> DEFINE r == [Idle EXCEPT !.call = "send", !.pc = "acquire", !.sid = op[o].sid]
<1>2. r \in OpType
  BY <1>1, Pcs DEF Idle, OpType, AllCalls
<1>3. Shape(r)
  BY <1>1 DEF Idle, Shape
<1>4. QED
  BY <1>2, <1>3, OpStep DEF Forward, TypeInv, TypeOK, OpInv, tables

LEMMA NeedsRespawnType == ASSUME TypeInv, NEW o \in Op, NeedsRespawn(o) PROVE TypeInv'
<1>1. op[o].sid \in Sid
  BY OpHas DEF NeedsRespawn, At, Shape, NoSession
<1>2. op[o].conv \in Conv
  BY OpHas DEF OpType
<1>3. OpInv'
  BY <1>1, <1>2, SpawnOp, GotoOp DEF NeedsRespawn, AfterSpawn, OpPc
<1>4. QED
  BY <1>3 DEF NeedsRespawn, TypeInv, TypeOK, OpInv, tables

LEMMA MarkType == ASSUME TypeInv, NEW o \in Op, Mark(o) PROVE TypeInv'
<1>1. op[o].sid \in Sid
  BY OpHas DEF Mark, At, Shape, NoSession
<1>2. OpInv'
  BY <1>1, GotoOp DEF Mark, At, OpPc
<1>3. [row[op[o].sid] EXCEPT !.status = "running", !.old = FALSE] \in RowType
  BY <1>1, RowHas, Pcs DEF RowType
<1>4. QED
  BY <1>2, <1>3, RowOp DEF Mark, TypeInv, TypeOK, OpInv

LEMMA AddTurnOp ==
  ASSUME TypeInv, NEW s \in Sid, AddTurn(s)
  PROVE  turns' \subseteq Sid
BY DEF AddTurn, TypeInv, TypeOK

LEMMA StoreTurnType == ASSUME TypeInv, NEW o \in Op, StoreTurn(o) PROVE TypeInv'
<1>1. op[o].sid \in Sid
  BY OpHas DEF StoreTurn, At, Shape, NoSession
<1>2. CASE AddTurn(op[o].sid) /\ Goto(o, "post") /\ UNCHANGED lock
  <2>1. OpInv'
    BY <1>1, <1>2, GotoOp DEF OpPc
  <2>2. QED
    BY <1>1, <1>2, <2>1, AddTurnOp DEF StoreTurn, TypeInv, TypeOK, OpInv
<1>3. CASE End(o) /\ UNCHANGED turns
  BY <1>3, EndOp DEF StoreTurn, TypeInv, TypeOK, OpInv
<1>4. QED
  BY <1>2, <1>3 DEF StoreTurn

LEMMA CheckProcType == ASSUME TypeInv, NEW o \in Op, CheckProc(o) PROVE TypeInv'
<1>1. op[o].sid \in Sid
  BY OpHas DEF CheckProc, At, Shape, NoSession
<1>2. CASE Goto(o, "request") /\ UNCHANGED lock
  <2>1. OpInv'
    BY <1>1, <1>2, GotoOp DEF OpPc
  <2>2. QED
    BY <1>2, <2>1 DEF CheckProc, TypeInv, TypeOK, OpInv, tables
<1>3. CASE End(o)
  BY <1>3, EndOp DEF CheckProc, TypeInv, TypeOK, OpInv, tables
<1>4. QED
  BY <1>2, <1>3 DEF CheckProc

LEMMA RequestType == ASSUME TypeInv, NEW o \in Op, Request(o) PROVE TypeInv'
<1>1. op[o].sid \in Sid
  BY OpHas DEF Request, At, Shape, NoSession
<1>2. CASE Become(o, [op[o] EXCEPT !.pc = "stream", !.posted = TRUE])
  <2> DEFINE r == [op[o] EXCEPT !.pc = "stream", !.posted = TRUE]
  <2>1. r \in OpType
    BY OpHas, Pcs DEF OpType
  <2>2. Shape(r)
    BY <1>1, OpHas DEF Shape, OpType
  <2>3. QED
    BY <1>2, <2>1, <2>2, OpStep DEF Request, TypeInv, TypeOK, OpInv, tables
<1>3. ASSUME NEW pc \in {"notFound", "return"}, Goto(o, pc) PROVE TypeInv'
  <2>1. OpInv'
    BY <1>1, <1>3, GotoOp DEF OpPc
  <2>2. QED
    BY <2>1 DEF Request, TypeInv, TypeOK, OpInv, tables
<1>4. QED
  BY <1>2, <1>3 DEF Request

LEMMA NotFoundType == ASSUME TypeInv, NEW o \in Op, NotFound(o) PROVE TypeInv'
<1>1. op[o].sid \in Sid
  BY OpHas DEF NotFound, At, Shape, NoSession
<1> DEFINE r == [op[o] EXCEPT !.pc = "spawn", !.ret = "request", !.retried = TRUE]
<1>2. r \in OpType
  BY OpHas, Pcs, PcsOfSubroutines DEF OpType, AfterSpawn
<1>3. Shape(r)
  BY <1>1, OpHas DEF Shape, OpType, AfterSpawn
<1>4. CASE Become(o, r) /\ UNCHANGED lock
  BY <1>2, <1>3, <1>4, OpStep DEF NotFound, TypeInv, TypeOK, OpInv, tables
<1>5. CASE End(o)
  BY <1>5, EndOp DEF NotFound, TypeInv, TypeOK, OpInv, tables
<1>6. QED
  BY <1>4, <1>5 DEF NotFound

LEMMA FinishType == ASSUME TypeInv, NEW o \in Op, Finish(o) PROVE TypeInv'
<1>1. op[o].sid \in Sid
  BY OpHas DEF Finish, At, Shape, NoSession
<1>2. OpInv'
  BY <1>1, GotoOp DEF Finish, OpPc
<1>3. turns' \subseteq Sid
  BY <1>1, AddTurnOp DEF Finish, TypeInv, TypeOK
<1>4. QED
  BY <1>2, <1>3 DEF Finish, TypeInv, TypeOK, OpInv

LEMMA StaleResumeType == ASSUME TypeInv, NEW o \in Op, StaleResume(o) PROVE TypeInv'
<1>1. op[o].sid \in Sid
  BY OpHas DEF StaleResume, At, Shape, NoSession
<1> DEFINE r == [op[o] EXCEPT !.pc = "killProcess", !.ret = "remint",
                              !.retried = TRUE, !.posted = FALSE]
<1>2. r \in OpType
  BY OpHas, Pcs, PcsOfSubroutines DEF OpType, AfterKillProcess
<1>3. Shape(r)
  BY <1>1, OpHas DEF Shape, OpType, AfterKillProcess
<1>4. QED
  BY <1>2, <1>3, OpStep DEF StaleResume, TypeInv, TypeOK, OpInv, tables

LEMMA RemintType == ASSUME TypeInv, NEW o \in Op, Remint(o) PROVE TypeInv'
<1>1. op[o].sid \in Sid
  BY OpHas DEF Remint, At, Shape, NoSession
<1> DEFINE fresh == row[op[o].sid].conv + 1
<1>2. fresh \in Conv
  BY <1>1, RowHas, ConstantsAssumption DEF Remint, Conv, RowType
<1>3. OpInv'
  BY <1>1, <1>2, SpawnOp DEF Remint, AfterSpawn
<1>4. [row[op[o].sid] EXCEPT !.conv = fresh] \in RowType
  BY <1>1, <1>2, RowHas DEF RowType
<1>5. QED
  BY <1>3, <1>4, RowOp DEF Remint, TypeInv, TypeOK, OpInv

LEMMA CancelType == ASSUME TypeInv, NEW o \in Op, Cancel(o) PROVE TypeInv'
BY EndOp DEF Cancel, TypeInv, TypeOK, OpInv, tables

-----------------------------------------------------------------------------
(* The reaper, the minds, time, crashes *)

LEMMA ReaperType == ASSUME TypeInv, Reaper PROVE TypeInv'
<1>1. CASE ReapSelect
  BY <1>1 DEF ReapSelect, Stale, TypeInv, TypeOK, OpInv, tables
<1>2. ASSUME NEW s \in Sid, ReapClose(s) PROVE TypeInv'
  <2>1. row' \in [Sid -> RowType]
    BY <1>2, Pcs, StatusOp DEF ReapClose
  <2>2. reaper' \in [pc : {"sleep", "close", "unbind"}, stale : SUBSET Sid,
                     sid : Sid \cup {NoSid}]
    BY <1>2 DEF ReapClose, TypeInv, TypeOK
  <2>3. QED
    BY <1>2, <2>1, <2>2 DEF ReapClose, TypeInv, TypeOK, OpInv
<1>3. CASE ReapUnbind
  <2>1. active' \in [Client -> Sid \cup {NoSid}]
    BY <1>3, UnbindOp DEF ReapUnbind
  <2>2. reaper' \in [pc : {"sleep", "close", "unbind"}, stale : SUBSET Sid,
                     sid : Sid \cup {NoSid}]
    BY <1>3 DEF ReapUnbind, TypeInv, TypeOK
  <2>3. QED
    BY <1>3, <2>1, <2>2 DEF ReapUnbind, TypeInv, TypeOK, OpInv
<1>4. QED
  BY <1>1, <1>2, <1>3 DEF Reaper

LEMMA AgeType == ASSUME TypeInv, NEW s \in Sid, Age(s) PROVE TypeInv'
<1>1. [row[s] EXCEPT !.old = TRUE] \in RowType
  BY RowHas DEF RowType
<1>2. QED
  BY <1>1, RowOp DEF Age, TypeInv, TypeOK, OpInv

LEMMA MindDropsType == ASSUME TypeInv, NEW s \in Sid, MindDrops(s) PROVE TypeInv'
BY DEF MindDrops, TypeInv, TypeOK, OpInv, tables

LEMMA IdleShape == Idle \in OpType /\ Shape(Idle)
BY ConstantsAssumption DEF Idle, OpType, OpPc, RowStatus, AllCalls, Conv, Shape, NoSession

LEMMA CrashType == ASSUME TypeInv, Crash PROVE TypeInv'
<1>1. OpInv'
  BY IdleShape DEF Crash, OpInv
<1>2. \A s \in Sid : [row[s] EXCEPT !.status = "idle"] \in RowType
  BY RowHas, Pcs DEF RowType
<1>3. row' \in [Sid -> RowType]
  BY <1>2, RowHas DEF Crash
<1>4. crashes' \in 0..MaxCrashes
  BY ConstantsAssumption DEF Crash, TypeInv, TypeOK
<1>5. QED
  BY <1>1, <1>3, <1>4 DEF Crash, TypeInv, TypeOK, OpInv

LEMMA StutterType == ASSUME TypeInv, UNCHANGED vars PROVE TypeInv'
BY DEF vars, TypeInv, TypeOK, OpInv

-----------------------------------------------------------------------------
LEMMA InitType == ASSUME Init PROVE TypeInv
<1>1. OpInv
  BY IdleShape DEF Init, OpInv
<1>2. NoRow \in RowType
  BY Pcs DEF NoRow, RowType
<1>3. NoProc \in Conv \cup {NoProc}
  OBVIOUS
<1>4. crashes \in 0..MaxCrashes
  BY ConstantsAssumption DEF Init
<1>5. QED
  BY <1>1, <1>2, <1>3, <1>4 DEF Init, TypeInv, TypeOK, OpInv

LEMMA StepType == ASSUME TypeInv, NEW o \in Op, Step(o) PROVE TypeInv'
BY ReturnType, LookupType, ArmType, InsertType, CreateRefusedType, BindNewType,
   SpawnOnMindType, SpawnFailsType, SpawnedType, KillProcessType, KillOnMindType,
   KillType, CloseType, UnbindClosedType, DeleteTurnsType, DeleteBindingType,
   DeleteRowType, ReadRowType, InterruptType, SetRunningType, AdoptType,
   AdoptUnbindType, RereadType, BindType, RespawnIdleType, ReadType, FinalizeType,
   DisarmType, ForwardType, NeedsRespawnType, MarkType, StoreTurnType, CheckProcType,
   RequestType, NotFoundType, FinishType, StaleResumeType, RemintType
DEF Step

LEMMA NextType == ASSUME TypeInv, [Next]_vars PROVE TypeInv'
<1>1. ASSUME NEW o \in Op, BeginCall(o) PROVE TypeInv'
  BY <1>1, BeginOnSessionType, BeginOnSurfaceType DEF BeginCall
<1>2. QED
  BY <1>1, AcquireType, StepType, CancelType, ReaperType, AgeType, MindDropsType,
     CrashType, StutterType
  DEF Next

(* Type correctness: whatever calls interleave and whatever fails, rows,   *)
(* bindings, processes, locks and the locals of every call keep their      *)
(* shape; and a call past its lookup or INSERT has a session.              *)
THEOREM Typing == Spec => []TypeInv
<1>1. Init => TypeInv
  BY InitType
<1>2. TypeInv /\ [Next]_vars => TypeInv'
  BY NextType
<1>3. QED
  BY <1>1, <1>2, PTL DEF Spec

(* Tables, processes, locks and calls keep the shape sessions.py gives      *)
(* them, in every state the session core can reach.                        *)
THEOREM TypeCorrect == Spec => []TypeOK
<1>1. TypeInv => TypeOK
  BY DEF TypeInv
<1>2. QED
  BY <1>1, Typing, PTL

-----------------------------------------------------------------------------
(***************************************************************************)
(* The locks of send_message do what they are there for: a session has one *)
(* turn or one rotation at a time, through the swap of an armed session    *)
(* and the turn forwarded to its successor, and no lock is left behind.    *)
(*                                                                         *)
(* OneTurnPerSession speaks of calls, and is not inductive: it follows     *)
(* from which lock each of them holds (Holds), and that a call which       *)
(* retires a session for a turn knows which one (LockShape).               *)
(***************************************************************************)


(* The steps of kill_session and of the INSERT that follows it: a send     *)
(* makes them only in order to rotate.                                     *)
Retiring == {"kill", "close", "unbind", "deleteTurns", "deleteBinding",
             "deleteRow", "insert"}

Rotating(r) ==
  \/ r.pc \in Retiring
  \/ r.pc \in {"killProcess", "killOnMind"} /\ r.ret \in {"close", "deleteTurns"}

LockShape(r) ==
  /\ r.pc \in {"acquire", "read", "finalize"} => r.from = NoSid
  /\ r.pc = "acquire" => r.call = "send"
  /\ r.pc \in {"idle", "lookup"} => r.call # "send"
  /\ r.call = "send" => r.sid \in Sid /\ (Rotating(r) => r.from \in Sid)

(* A send past the acquisition holds the lock of the session it works on. *)
Holds == \A o \in Op : Sending(o) => lock[Target(o)] = o

LockInv ==
  /\ \A o \in Op : LockShape(op[o])
  /\ Holds
  /\ LocksReleased

IInv == TypeInv /\ LockInv

-----------------------------------------------------------------------------
LEMMA TargetIsSession ==
  ASSUME IInv, NEW o \in Op, op[o].call = "send"
  PROVE  Target(o) \in Sid
BY OpHas DEF IInv, LockInv, LockShape, Target, OpType

LEMMA Unlocked == ASSUME IInv, UNCHANGED <<op, lock>> PROVE LockInv'
BY DEF IInv, LockInv, LockShape, Rotating, Holds, LocksReleased, Sending, Target

(* A call that ends gives back what it holds and nothing else. *)
LEMMA EndLock == ASSUME IInv, NEW o \in Op, End(o) PROVE LockInv'
<1>1. op' = [op EXCEPT ![o] = Idle] /\ lock' = [s \in Sid |-> IF lock[s] = o THEN Free ELSE lock[s]]
  BY DEF End, Become
<1>2. op'[o] = Idle /\ \A x \in Op \ {o} : op'[x] = op[x]
  BY <1>1 DEF IInv, TypeInv, OpInv
<1>3. LockShape(Idle)
  BY DEF LockShape, Rotating, Retiring, Idle
<1>4. \A x \in Op : LockShape(op'[x])
  BY <1>2, <1>3 DEF IInv, LockInv
<1>5. ASSUME NEW x \in Op, Sending(x)' PROVE lock'[Target(x)'] = x
  <2>1. x # o
    BY <1>2, <1>5 DEF Sending, Idle
  <2>2. Sending(x) /\ Target(x)' = Target(x)
    BY <1>2, <1>5, <2>1 DEF Sending, Target
  <2>3. Target(x) \in Sid /\ lock[Target(x)] = x
    BY <2>2, TargetIsSession DEF Sending, IInv, LockInv, Holds
  <2>4. QED
    BY <1>1, <2>1, <2>2, <2>3
<1>6. ASSUME NEW s \in Sid, lock'[s] # Free PROVE op'[lock'[s]].call = "send"
  <2>1. lock'[s] = lock[s] /\ lock[s] # o /\ lock[s] # Free
    BY <1>1, <1>6
  <2>2. lock[s] \in Op /\ op[lock[s]].call = "send"
    BY <2>1 DEF IInv, TypeInv, TypeOK, LockInv, LocksReleased
  <2>3. QED
    BY <1>2, <2>1, <2>2
<1>7. QED
  BY <1>4, <1>5, <1>6 DEF LockInv, Holds, LocksReleased

(* A call that goes on with the same session keeps what it holds. *)
LEMMA OnwardLock ==
  ASSUME IInv, NEW o \in Op, NEW r, Become(o, r), UNCHANGED lock, LockShape(r),
         r.call = op[o].call,
         op[o].call = "send" =>
           /\ (IF r.from # NoSid THEN r.from ELSE r.sid) = Target(o)
           /\ op[o].pc # "acquire"
  PROVE  LockInv'
<1>1. op'[o] = r /\ \A x \in Op \ {o} : op'[x] = op[x]
  BY DEF Become, IInv, TypeInv, OpInv
<1>2. \A x \in Op : LockShape(op'[x])
  BY <1>1 DEF IInv, LockInv
<1>3. ASSUME NEW x \in Op, Sending(x)' PROVE lock'[Target(x)'] = x
  <2>1. Sending(x) /\ Target(x)' = Target(x)
    BY <1>1, <1>3 DEF Sending, Target
  <2>2. QED
    BY <2>1 DEF IInv, LockInv, Holds
<1>4. ASSUME NEW s \in Sid, lock'[s] # Free PROVE op'[lock'[s]].call = "send"
  <2>1. lock[s] \in Op /\ op[lock[s]].call = "send"
    BY <1>4 DEF IInv, TypeInv, TypeOK, LockInv, LocksReleased
  <2>2. QED
    BY <1>1, <2>1
<1>5. QED
  BY <1>2, <1>3, <1>4 DEF LockInv, Holds, LocksReleased

(* Any step of a call that keeps to its session, and does not begin to     *)
(* wait for a lock or to retire the session.                               *)
LEMMA SameSession ==
  ASSUME IInv, NEW o \in Op, NEW r, Become(o, r), UNCHANGED lock,
         op[o].pc # "acquire",
         r.call = op[o].call, r.sid = op[o].sid, r.from = op[o].from,
         r.pc \notin {"idle", "lookup", "acquire"},
         r.pc \in {"read", "finalize"} => op[o].pc = "read",
         Rotating(r) => Rotating(op[o])
  PROVE  LockInv'
<1>1. LockShape(op[o])
  BY DEF IInv, LockInv
<1>2. LockShape(r)
  BY <1>1 DEF LockShape
<1>3. QED
  BY <1>2, OnwardLock DEF Target

Plain == OpPc \ (Retiring \cup {"idle", "lookup", "acquire", "read", "finalize",
                                "killProcess", "killOnMind"})

LEMMA GotoLock ==
  ASSUME IInv, NEW o \in Op, NEW pc \in OpPc, Goto(o, pc), UNCHANGED lock,
         op[o].pc # "acquire",
         \/ pc \in Plain
         \/ pc \in Retiring /\ Rotating(op[o])
         \/ pc = "killOnMind" /\ op[o].pc = "killProcess"
  PROVE  LockInv'
<1> DEFINE r == [op[o] EXCEPT !.pc = pc]
<1>1. op[o] \in OpType
  BY OpHas DEF IInv
<1>2. /\ r.pc = pc /\ r.call = op[o].call /\ r.sid = op[o].sid
      /\ r.from = op[o].from /\ r.ret = op[o].ret
  BY <1>1 DEF OpType
<1>3. Rotating(r) => Rotating(op[o])
  BY <1>2 DEF Rotating, Plain, Retiring
<1>4. pc \notin {"idle", "lookup", "acquire", "read", "finalize"}
  BY DEF Plain, Retiring
<1>5. Become(o, r)
  BY DEF Goto
<1>6. QED
  BY <1>2, <1>3, <1>4, <1>5, SameSession

LEMMA SpawnLock ==
  ASSUME IInv, NEW o \in Op, NEW conv, NEW ret, CallSpawn(o, conv, ret), UNCHANGED lock,
         op[o].pc # "acquire"
  PROVE  LockInv'
<1> DEFINE r == [op[o] EXCEPT !.pc = "spawn", !.conv = conv, !.ret = ret]
<1>1. op[o] \in OpType
  BY OpHas DEF IInv
<1>2. /\ r.pc = "spawn" /\ r.call = op[o].call /\ r.sid = op[o].sid
      /\ r.from = op[o].from
  BY <1>1 DEF OpType
<1>3. ~ Rotating(r)
  BY <1>2 DEF Rotating, Retiring
<1>4. Become(o, r)
  BY DEF CallSpawn
<1>5. QED
  BY <1>2, <1>3, <1>4, SameSession

LEMMA KillLock ==
  ASSUME IInv, NEW o \in Op, NEW ret, CallKillProcess(o, ret), UNCHANGED lock,
         op[o].pc # "acquire", ret \in {"close", "deleteTurns"} => Rotating(op[o])
  PROVE  LockInv'
<1> DEFINE r == [op[o] EXCEPT !.pc = "killProcess", !.ret = ret]
<1>1. op[o] \in OpType
  BY OpHas DEF IInv
<1>2. /\ r.pc = "killProcess" /\ r.call = op[o].call /\ r.sid = op[o].sid
      /\ r.from = op[o].from /\ r.ret = ret
  BY <1>1 DEF OpType
<1>3. Rotating(r) => Rotating(op[o])
  BY <1>2 DEF Rotating, Retiring
<1>4. Become(o, r)
  BY DEF CallKillProcess
<1>5. QED
  BY <1>2, <1>3, <1>4, SameSession

-----------------------------------------------------------------------------
(* The steps that change which session a call works on, or its locks *)

LEMMA BeginLock ==
  ASSUME IInv, NEW o \in Op, BeginCall(o)
  PROVE  LockInv'
<1>1. PICK call, pc, s, c :
        /\ Begin(o, call, pc, s, c)
        /\ call = "send" => pc = "acquire" /\ s \in Sid
        /\ pc \in {"acquire", "kill", "readRow", "insert", "lookup"}
        /\ pc = "acquire" => call = "send"
        /\ pc = "lookup" => call # "send"
  BY DEF BeginCall, BeginOnSession, BeginOnSurface
<1> DEFINE r == [Idle EXCEPT !.call = call, !.pc = pc, !.sid = s, !.client = c, !.owner = c]
<1>2. r.pc = pc /\ r.call = call /\ r.sid = s /\ r.from = NoSid
  BY DEF Idle
<1>3. LockShape(r)
  BY <1>1, <1>2 DEF LockShape, Rotating, Retiring
<1>4. UNCHANGED lock
  BY DEF BeginCall, BeginOnSession, BeginOnSurface
<1>5. op[o].pc = "idle" /\ op' = [op EXCEPT ![o] = r]
  BY <1>1 DEF Begin, At, Become
<1>6. op'[o] = r /\ \A x \in Op \ {o} : op'[x] = op[x]
  BY <1>5 DEF IInv, TypeInv, OpInv
<1>7. \A x \in Op : LockShape(op'[x])
  BY <1>3, <1>6 DEF IInv, LockInv
<1>8. ASSUME NEW x \in Op, Sending(x)' PROVE lock'[Target(x)'] = x
  <2>1. x # o
    BY <1>1, <1>2, <1>6, <1>8 DEF Sending
  <2>2. Sending(x) /\ Target(x)' = Target(x)
    BY <1>6, <1>8, <2>1 DEF Sending, Target
  <2>3. QED
    BY <1>4, <2>2 DEF IInv, LockInv, Holds
<1>9. ASSUME NEW q \in Sid, lock'[q] # Free PROVE op'[lock'[q]].call = "send"
  <2>1. lock[q] \in Op /\ op[lock[q]].call = "send"
    BY <1>4, <1>9 DEF IInv, TypeInv, TypeOK, LockInv, LocksReleased
  <2>2. lock[q] # o
    BY <1>5, <2>1 DEF IInv, LockInv, LockShape
  <2>3. QED
    BY <1>4, <1>6, <2>1, <2>2
<1>10. QED
  BY <1>7, <1>8, <1>9 DEF LockInv, Holds, LocksReleased

LEMMA AcquireLock == ASSUME IInv, NEW o \in Op, Acquire(o) PROVE LockInv'
<1> DEFINE s == op[o].sid
           r == [op[o] EXCEPT !.pc = "read"]
<1>1. op[o].pc = "acquire" /\ op[o].call = "send" /\ op[o].from = NoSid /\ s \in Sid
  BY DEF Acquire, At, IInv, LockInv, LockShape
<1>2. /\ r.pc = "read" /\ r.call = op[o].call /\ r.sid = s /\ r.from = NoSid
  BY <1>1, OpHas DEF OpType, IInv
<1>3. LockShape(r)
  BY <1>1, <1>2 DEF LockShape, Rotating, Retiring
<1>4. op'[o] = r /\ \A x \in Op \ {o} : op'[x] = op[x]
  BY DEF Acquire, Goto, Become, IInv, TypeInv, OpInv
<1>5. lock[s] = Free /\ lock' = [lock EXCEPT ![s] = o]
  BY DEF Acquire
<1>6. lock'[s] = o /\ \A q \in Sid \ {s} : lock'[q] = lock[q]
  BY <1>1, <1>5 DEF IInv, TypeInv, TypeOK
<1>7. \A x \in Op : LockShape(op'[x])
  BY <1>3, <1>4 DEF IInv, LockInv
<1>8. ASSUME NEW x \in Op, Sending(x)' PROVE lock'[Target(x)'] = x
  <2>1. CASE x = o
    BY <1>2, <1>4, <1>6, <2>1 DEF Target
  <2>2. CASE x # o
    <3>1. Sending(x) /\ Target(x)' = Target(x)
      BY <1>4, <1>8, <2>2 DEF Sending, Target
    <3>2. lock[Target(x)] = x /\ Target(x) \in Sid
      BY <3>1, TargetIsSession DEF Sending, IInv, LockInv, Holds
    <3>3. Target(x) # s
      BY <1>5, <3>2, ConstantsAssumption
    <3>4. QED
      BY <1>6, <3>1, <3>2, <3>3
  <2>3. QED
    BY <2>1, <2>2
<1>9. ASSUME NEW q \in Sid, lock'[q] # Free PROVE op'[lock'[q]].call = "send"
  <2>1. CASE q = s
    BY <1>1, <1>2, <1>4, <1>6, <2>1
  <2>2. CASE q # s
    <3>1. lock[q] \in Op /\ op[lock[q]].call = "send"
      BY <1>6, <1>9, <2>2 DEF IInv, TypeInv, TypeOK, LockInv, LocksReleased
    <3>2. lock'[q] = lock[q]
      BY <1>6, <2>2
    <3>3. \A x \in Op : op[x].call = "send" => op'[x].call = "send"
      BY <1>1, <1>2, <1>4
    <3>4. QED
      BY <3>1, <3>2, <3>3
  <2>3. QED
    BY <2>1, <2>2
<1>10. QED
  BY <1>7, <1>8, <1>9 DEF LockInv, Holds, LocksReleased

(* The turn goes on to the successor: it still has the old lock and works  *)
(* on neither session until it has the new one.                            *)
LEMMA ForwardLock == ASSUME IInv, NEW o \in Op, Forward(o) PROVE LockInv'
<1> DEFINE r == [Idle EXCEPT !.call = "send", !.pc = "acquire", !.sid = op[o].sid]
<1>1. op[o].sid \in Sid
  BY OpHas DEF Forward, At, Shape, NoSession, IInv
<1>2. r.pc = "acquire" /\ r.call = "send" /\ r.sid = op[o].sid /\ r.from = NoSid
  BY DEF Idle
<1>3. LockShape(r)
  BY <1>1, <1>2 DEF LockShape, Rotating, Retiring
<1>4. (op'[o] = r /\ \A x \in Op \ {o} : op'[x] = op[x]) /\ lock' = lock
  BY DEF Forward, Become, IInv, TypeInv, OpInv
<1>5. \A x \in Op : LockShape(op'[x])
  BY <1>3, <1>4 DEF IInv, LockInv
<1>6. ASSUME NEW x \in Op, Sending(x)' PROVE lock'[Target(x)'] = x
  <2>1. x # o
    BY <1>2, <1>4, <1>6 DEF Sending
  <2>2. Sending(x) /\ Target(x)' = Target(x)
    BY <1>4, <1>6, <2>1 DEF Sending, Target
  <2>3. QED
    BY <1>4, <2>2 DEF IInv, LockInv, Holds
<1>7. ASSUME NEW q \in Sid, lock'[q] # Free PROVE op'[lock'[q]].call = "send"
  <2>1. lock[q] \in Op /\ op[lock[q]].call = "send"
    BY <1>4, <1>7 DEF IInv, TypeInv, TypeOK, LockInv, LocksReleased
  <2>2. QED
    BY <1>2, <1>4, <2>1
<1>8. QED
  BY <1>5, <1>6, <1>7 DEF LockInv, Holds, LocksReleased

LEMMA LookupLock == ASSUME IInv, NEW o \in Op, Lookup(o) PROVE LockInv'
<1>1. op[o].pc = "lookup" /\ op[o].call # "send" /\ UNCHANGED lock
  BY DEF Lookup, At, IInv, LockInv, LockShape
<1> DEFINE s == active[op[o].client]
           r1 == [op[o] EXCEPT !.sid = s,
                               !.pc = IF op[o].call = "new" THEN "kill" ELSE "arm"]
           r2 == [op[o] EXCEPT !.pc = IF op[o].call = "new" THEN "insert" ELSE "return"]
<1>2. Become(o, r1) \/ Become(o, r2)
  BY DEF Lookup, Goto
<1>3. op[o] \in OpType
  BY OpHas DEF IInv
<1>4. r1.call = op[o].call /\ r1.pc \in {"kill", "arm"}
  BY <1>3 DEF OpType
<1>5. r2.call = op[o].call /\ r2.pc \in {"insert", "return"}
  BY <1>3 DEF OpType
<1>6. LockShape(r1) /\ LockShape(r2)
  BY <1>1, <1>4, <1>5 DEF LockShape
<1>7. QED
  BY <1>1, <1>2, <1>4, <1>5, <1>6, OnwardLock

(* The successor's row: the rotation still works on the session it retires. *)
LEMMA InsertLock == ASSUME IInv, NEW o \in Op, Insert(o) PROVE LockInv'
<1>1. PICK s \in Sid : Become(o, [op[o] EXCEPT !.sid = s, !.pc = "bindNew"])
  BY DEF Insert
<1> DEFINE r == [op[o] EXCEPT !.sid = s, !.pc = "bindNew"]
<1>2. op[o].pc = "insert" /\ UNCHANGED lock
  BY DEF Insert, At
<1>3. r.pc = "bindNew" /\ r.call = op[o].call /\ r.sid = s /\ r.from = op[o].from
  BY OpHas DEF OpType, IInv
<1>4. op[o].call = "send" => op[o].from # NoSid
  BY <1>2, ConstantsAssumption DEF IInv, LockInv, LockShape, Rotating, Retiring
<1>5. LockShape(r)
  BY <1>3 DEF LockShape, Rotating, Retiring
<1>6. QED
  BY <1>1, <1>2, <1>3, <1>4, <1>5, OnwardLock DEF Target

LEMMA FinalizeLock == ASSUME IInv, NEW o \in Op, Finalize(o) PROVE LockInv'
<1>1. op[o].pc = "finalize" /\ op[o].from = NoSid /\ UNCHANGED lock /\ op[o].sid \in Sid
  BY OpHas DEF Finalize, At, IInv, LockInv, LockShape, Shape, NoSession
<1>2. ASSUME NEW c \in Client,
             Become(o, [op[o] EXCEPT !.pc = "kill", !.client = c, !.from = op[o].sid])
      PROVE  LockInv'
  <2> DEFINE r == [op[o] EXCEPT !.pc = "kill", !.client = c, !.from = op[o].sid]
  <2>1. r.pc = "kill" /\ r.call = op[o].call /\ r.sid = op[o].sid /\ r.from = op[o].sid
    BY OpHas DEF OpType, IInv
  <2>2. LockShape(r)
    BY <1>1, <2>1 DEF LockShape
  <2>3. QED
    BY <1>1, <1>2, <2>1, <2>2, OnwardLock, ConstantsAssumption DEF Target
<1>3. CASE Goto(o, "disarm")
  BY <1>1, <1>3, GotoLock DEF Plain, Retiring, OpPc
<1>4. QED
  BY <1>2, <1>3 DEF Finalize

-----------------------------------------------------------------------------
(* The other steps: a call stays with its session, or ends *)

LEMMA MoreLock ==
  ASSUME IInv, NEW o \in Op,
         Arm(o) \/ DeleteTurns(o) \/ DeleteBinding(o) \/ Close(o) \/ UnbindClosed(o)
           \/ DeleteRow(o)
  PROVE  LockInv'
<1>1. op[o].pc # "acquire"
  BY DEF Arm, DeleteTurns, DeleteBinding, Close, UnbindClosed, DeleteRow, At
<1>2. {"return", "unbind", "deleteBinding", "deleteRow", "insert"} \subseteq OpPc
  BY DEF OpPc
<1>3. {"unbind", "deleteBinding", "deleteRow", "insert"} \subseteq Retiring
  BY DEF Retiring
<1>4. "return" \in Plain
  BY DEF Plain, OpPc, Retiring
<1>5. CASE Arm(o)
  BY <1>1, <1>2, <1>4, <1>5, GotoLock DEF Arm
<1>6. CASE \/ Goto(o, "unbind") \/ Goto(o, "deleteBinding") \/ Goto(o, "deleteRow")
           \/ Goto(o, AfterKill(o))
  <2>1. SUFFICES ASSUME ~ Arm(o) PROVE LockInv'
    BY <1>5
  <2>2. Rotating(op[o])
    BY <2>1 DEF DeleteTurns, DeleteBinding, Close, UnbindClosed, DeleteRow, At,
                Rotating, Retiring
  <2>3. CASE UNCHANGED lock
    BY <1>1, <1>2, <1>3, <1>4, <1>6, <2>2, <2>3, GotoLock DEF AfterKill
  <2>4. CASE End(o)
    BY <2>4, EndLock
  <2>5. QED
    BY <2>1, <2>3, <2>4 DEF DeleteTurns, DeleteBinding, Close, UnbindClosed, DeleteRow
<1>7. CASE End(o)
  BY <1>7, EndLock
<1>8. QED
  BY <1>5, <1>6, <1>7 DEF DeleteTurns, DeleteBinding, Close, UnbindClosed, DeleteRow

LEMMA SpawningLock ==
  ASSUME IInv, NEW o \in Op,
         \/ SpawnOnMind(o) \/ SpawnFails(o) \/ Spawned(o) \/ BindNew(o)
         \/ NeedsRespawn(o) \/ RespawnIdle(o) \/ SetRunning(o) \/ Remint(o)
  PROVE  LockInv'
<1>1. CASE SpawnOnMind(o)
  BY <1>1, GotoLock DEF SpawnOnMind, At, Plain, Retiring, OpPc
<1>2. CASE SpawnFails(o)
  BY <1>2, EndLock DEF SpawnFails
<1>3. CASE Spawned(o)
  <2>1. op[o].pc = "spawned" /\ op[o].ret \in AfterSpawn
    BY <1>3, OpHas DEF Spawned, At, Shape, IInv
  <2>2. AfterSpawn \subseteq Plain
    BY DEF AfterSpawn, Plain, Retiring, OpPc
  <2>3. QED
    BY <1>3, <2>1, <2>2, PcsOfSubroutines, GotoLock DEF Spawned
<1>4. CASE BindNew(o)
  BY <1>4, EndLock, SpawnLock DEF BindNew, At
<1>5. CASE NeedsRespawn(o)
  BY <1>5, SpawnLock, GotoLock DEF NeedsRespawn, At, Plain, Retiring, OpPc
<1>6. CASE RespawnIdle(o)
  BY <1>6, SpawnLock, GotoLock DEF RespawnIdle, At, Plain, Retiring, OpPc
<1>7. CASE SetRunning(o)
  BY <1>7, SpawnLock, GotoLock DEF SetRunning, At, Plain, Retiring, OpPc
<1>8. CASE Remint(o)
  BY <1>8, SpawnLock DEF Remint, At
<1>9. QED
  BY <1>1, <1>2, <1>3, <1>4, <1>5, <1>6, <1>7, <1>8

LEMMA KillingLock ==
  ASSUME IInv, NEW o \in Op,
         KillProcess(o) \/ KillOnMind(o) \/ Kill(o) \/ Interrupt(o) \/ StaleResume(o)
  PROVE  LockInv'
<1>1. CASE KillProcess(o)
  BY <1>1, GotoLock DEF KillProcess, At, OpPc
<1>2. CASE KillOnMind(o)
  <2>1. op[o].pc = "killOnMind" /\ op[o].ret \in AfterKillProcess
    BY <1>2, OpHas DEF KillOnMind, At, Shape, IInv
  <2>2. op[o].ret \in Plain \/ (op[o].ret \in Retiring /\ Rotating(op[o]))
    BY <2>1 DEF AfterKillProcess, Plain, Retiring, Rotating, OpPc
  <2>3. QED
    BY <1>2, <2>1, <2>2, PcsOfSubroutines, GotoLock DEF KillOnMind
<1>3. CASE Kill(o)
  <2>1. op[o].pc = "kill" /\ Rotating(op[o])
    BY <1>3 DEF Kill, At, Rotating, Retiring
  <2>2. QED
    BY <1>3, <2>1, KillLock, EndLock DEF Kill
<1>4. CASE Interrupt(o)
  BY <1>4, KillLock, EndLock DEF Interrupt, At
<1>5. CASE StaleResume(o)
  <2> DEFINE r == [op[o] EXCEPT !.pc = "killProcess", !.ret = "remint",
                                !.retried = TRUE, !.posted = FALSE]
  <2>1. /\ r.pc = "killProcess" /\ r.ret = "remint" /\ r.call = op[o].call
        /\ r.sid = op[o].sid /\ r.from = op[o].from
    BY OpHas DEF OpType, IInv
  <2>2. ~ Rotating(r)
    BY <2>1 DEF Rotating, Retiring
  <2>3. Become(o, r) /\ UNCHANGED lock /\ op[o].pc = "stream"
    BY <1>5 DEF StaleResume, At
  <2>4. QED
    BY <2>1, <2>2, <2>3, SameSession
<1>6. QED
  BY <1>1, <1>2, <1>3, <1>4, <1>5

LEMMA ActivateLock ==
  ASSUME IInv, NEW o \in Op,
         ReadRow(o) \/ Adopt(o) \/ AdoptUnbind(o) \/ Reread(o) \/ Bind(o)
  PROVE  LockInv'
<1>1. CASE ReadRow(o)
  <2> DEFINE s == op[o].sid
             read == [op[o] EXCEPT !.conv = row[s].conv, !.status = row[s].status]
             toKill == [read EXCEPT !.pc = "killProcess", !.ret = "setRunning"]
             toPc(pc) == [read EXCEPT !.pc = pc]
  <2>1. op[o] \in OpType /\ op[o].pc = "readRow"
    BY <1>1, OpHas DEF ReadRow, At, IInv
  <2>2. ASSUME Become(o, toKill), UNCHANGED lock PROVE LockInv'
    <3>1. /\ toKill.pc = "killProcess" /\ toKill.ret = "setRunning"
          /\ toKill.call = op[o].call /\ toKill.sid = s /\ toKill.from = op[o].from
      BY <2>1 DEF OpType
    <3>2. ~ Rotating(toKill)
      BY <3>1 DEF Rotating, Retiring
    <3>3. QED
      BY <2>1, <2>2, <3>1, <3>2, SameSession
  <2>3. ASSUME NEW pc \in {"interrupt", "return", "adopt", "bind"},
               Become(o, toPc(pc)), UNCHANGED lock
        PROVE  LockInv'
    <3>1. /\ toPc(pc).pc = pc /\ toPc(pc).call = op[o].call
          /\ toPc(pc).sid = s /\ toPc(pc).from = op[o].from
      BY <2>1 DEF OpType
    <3>2. ~ Rotating(toPc(pc))
      BY <3>1 DEF Rotating, Retiring
    <3>3. QED
      BY <2>1, <2>3, <3>1, <3>2, SameSession
  <2>4. CASE End(o)
    BY <2>4, EndLock
  <2>5. QED
    BY <1>1, <2>2, <2>3, <2>4 DEF ReadRow
<1>2. CASE Adopt(o)
  BY <1>2, GotoLock DEF Adopt, At, Plain, Retiring, OpPc
<1>3. CASE AdoptUnbind(o)
  BY <1>3, GotoLock DEF AdoptUnbind, At, Plain, Retiring, OpPc
<1>4. CASE Reread(o)
  <2> DEFINE r == [op[o] EXCEPT !.pc = "bind", !.conv = row[op[o].sid].conv,
                               !.status = row[op[o].sid].status]
  <2>1. /\ r.pc = "bind" /\ r.call = op[o].call
        /\ r.sid = op[o].sid /\ r.from = op[o].from
    BY OpHas DEF OpType, IInv
  <2>2. ~ Rotating(r)
    BY <2>1 DEF Rotating, Retiring
  <2>3. Become(o, r) /\ UNCHANGED lock /\ op[o].pc = "reread"
    BY <1>4 DEF Reread, At
  <2>4. QED
    BY <2>1, <2>2, <2>3, SameSession
<1>5. CASE Bind(o)
  BY <1>5, GotoLock, EndLock DEF Bind, At, Plain, Retiring, OpPc
<1>6. QED
  BY <1>1, <1>2, <1>3, <1>4, <1>5

LEMMA TurnLock ==
  ASSUME IInv, NEW o \in Op,
         \/ Read(o) \/ Disarm(o) \/ Mark(o) \/ StoreTurn(o) \/ CheckProc(o)
         \/ Request(o) \/ NotFound(o) \/ Finish(o)
  PROVE  LockInv'
<1> DEFINE onward(r) == r.call = op[o].call /\ r.sid = op[o].sid /\ r.from = op[o].from
<1>1. CASE Read(o)
  <2> DEFINE s == op[o].sid
             r == [op[o] EXCEPT !.conv = row[s].conv, !.owner = row[s].owner,
                                !.pc = IF row[s].armed THEN "finalize" ELSE "check"]
  <2>1. onward(r) /\ r.pc \in {"finalize", "check"}
    BY OpHas DEF OpType, IInv
  <2>2. ~ Rotating(r)
    BY <2>1 DEF Rotating, Retiring
  <2>3. op[o].pc = "read"
    BY <1>1 DEF Read, At
  <2>4. CASE Become(o, r) /\ UNCHANGED lock
    BY <2>1, <2>2, <2>3, <2>4, SameSession
  <2>5. QED
    BY <1>1, <2>4, EndLock DEF Read
<1>2. CASE Disarm(o)
  BY <1>2, GotoLock DEF Disarm, At, Plain, Retiring, OpPc
<1>3. CASE Mark(o)
  BY <1>3, GotoLock DEF Mark, At, Plain, Retiring, OpPc
<1>4. CASE StoreTurn(o)
  BY <1>4, GotoLock, EndLock DEF StoreTurn, At, Plain, Retiring, OpPc
<1>5. CASE CheckProc(o)
  BY <1>5, GotoLock, EndLock DEF CheckProc, At, Plain, Retiring, OpPc
<1>6. CASE Request(o)
  <2> DEFINE r == [op[o] EXCEPT !.pc = "stream", !.posted = TRUE]
  <2>1. onward(r) /\ r.pc = "stream"
    BY OpHas DEF OpType, IInv
  <2>2. ~ Rotating(r)
    BY <2>1 DEF Rotating, Retiring
  <2>3. op[o].pc = "request" /\ UNCHANGED lock
    BY <1>6 DEF Request, At
  <2>4. CASE Become(o, r)
    BY <2>1, <2>2, <2>3, <2>4, SameSession
  <2>5. ASSUME NEW pc \in {"notFound", "return"}, Goto(o, pc) PROVE LockInv'
    BY <2>3, <2>5, GotoLock DEF Plain, Retiring, OpPc
  <2>6. QED
    BY <1>6, <2>4, <2>5 DEF Request
<1>7. CASE NotFound(o)
  <2> DEFINE r == [op[o] EXCEPT !.pc = "spawn", !.ret = "request", !.retried = TRUE]
  <2>1. onward(r) /\ r.pc = "spawn"
    BY OpHas DEF OpType, IInv
  <2>2. ~ Rotating(r)
    BY <2>1 DEF Rotating, Retiring
  <2>3. op[o].pc = "notFound"
    BY <1>7 DEF NotFound, At
  <2>4. CASE Become(o, r) /\ UNCHANGED lock
    BY <2>1, <2>2, <2>3, <2>4, SameSession
  <2>5. QED
    BY <1>7, <2>4, EndLock DEF NotFound
<1>8. CASE Finish(o)
  BY <1>8, GotoLock DEF Finish, At, Plain, Retiring, OpPc
<1>9. QED
  BY <1>1, <1>2, <1>3, <1>4, <1>5, <1>6, <1>7, <1>8

LEMMA StepLock == ASSUME IInv, NEW o \in Op, Step(o) PROVE LockInv'
<1>1. CASE Return(o) \/ CreateRefused(o)
  BY <1>1, EndLock DEF Return, CreateRefused
<1>2. QED
  BY <1>1, LookupLock, InsertLock, FinalizeLock, ForwardLock, MoreLock, SpawningLock,
     KillingLock, ActivateLock, TurnLock
  DEF Step

LEMMA CrashLock == ASSUME IInv, Crash PROVE LockInv'
<1>1. /\ \A o \in Op : op'[o] = Idle
      /\ \A s \in Sid : lock'[s] = Free
  BY DEF Crash
<1>2. LockShape(Idle) /\ Idle.call # "send"
  BY DEF LockShape, Rotating, Retiring, Idle
<1>3. QED
  BY <1>1, <1>2 DEF LockInv, Holds, LocksReleased, Sending

-----------------------------------------------------------------------------
LEMMA InitLock == ASSUME Init PROVE LockInv
<1>1. /\ \A o \in Op : op[o] = Idle
      /\ \A s \in Sid : lock[s] = Free
  BY DEF Init
<1>2. LockShape(Idle) /\ Idle.call # "send"
  BY DEF LockShape, Rotating, Retiring, Idle
<1>3. QED
  BY <1>1, <1>2 DEF LockInv, Holds, LocksReleased, Sending

LEMMA NextLock == ASSUME IInv, [Next]_vars PROVE LockInv'
<1>1. CASE Reaper \/ (\E s \in Sid : Age(s) \/ MindDrops(s)) \/ UNCHANGED vars
  <2>1. UNCHANGED <<op, lock>>
    BY <1>1 DEF Reaper, ReapSelect, ReapClose, ReapUnbind, Age, MindDrops, vars
  <2>2. QED
    BY <2>1, Unlocked
<1>2. ASSUME NEW o \in Op, Cancel(o) PROVE LockInv'
  BY <1>2, EndLock DEF Cancel
<1>3. QED
  BY <1>1, <1>2, BeginLock, AcquireLock, StepLock, CrashLock DEF Next

LEMMA LocksInvariant == Spec => []IInv
<1>1. Init => IInv
  BY InitType, InitLock DEF IInv
<1>2. IInv /\ [Next]_vars => IInv'
  BY NextType, NextLock DEF IInv
<1>3. QED
  BY <1>1, <1>2, PTL DEF Spec

(* No two turns of a session, nor a turn and a rotation that retires it,   *)
(* are ever in progress at the same time.                                  *)
THEOREM TurnsExclude == Spec => []OneTurnPerSession
<1>1. IInv => OneTurnPerSession
  <2>1. SUFFICES ASSUME IInv, NEW o1 \in Op, NEW o2 \in Op,
                        Sending(o1), Sending(o2), o1 # o2
                 PROVE  Target(o1) # Target(o2)
    BY DEF OneTurnPerSession
  <2>2. lock[Target(o1)] = o1 /\ lock[Target(o2)] = o2
    BY <2>1 DEF IInv, LockInv, Holds
  <2>3. QED
    BY <2>1, <2>2
<1>2. QED
  BY <1>1, LocksInvariant, PTL

(* Whichever way a call ends, it leaves no lock behind: only sends in      *)
(* progress hold any.                                                      *)
THEOREM LocksFreed == Spec => []LocksReleased
<1>1. IInv => LocksReleased
  BY DEF IInv, LockInv
<1>2. QED
  BY <1>1, LocksInvariant, PTL

=============================================================================
