------------------------- MODULE SessionTablesProofs -------------------------
(***************************************************************************)
(* The tables of the session core agree with each other, for every set of  *)
(* sessions, surfaces and concurrent calls.                                *)
(*                                                                         *)
(* The foreign keys need no strengthening beyond the types: a row that is  *)
(* there stays until a DELETE that finds nothing referring to it, and a    *)
(* binding or a turn is written only for a row that is there at that very  *)
(* step, however stale the reads that led to it are.                       *)
(*                                                                         *)
(* A process runs no conversation but one its row is or was pinned to: an  *)
(* op may carry a conversation number that is stale, but never one the row *)
(* has not reached, and rows only move forward.  No bound on the calls, on *)
(* how they interleave or on the faults is needed.                         *)
(***************************************************************************)
EXTENDS SessionManagerProofs

Gone == {"none", "deleted"}

LEMMA UpdateKeeps ==
  ASSUME TypeInv, NEW s \in Sid, NEW r, r.status \notin Gone, Update(s, r),
         NEW t \in Sid, Exists(t)
  PROVE  Exists(t)'
BY DEF Update, Exists, Gone, TypeInv, TypeOK

(* Nothing that refers to a session is written, and no row goes. *)
LEMMA Kept ==
  ASSUME TypeInv, NothingDangles,
         \A t \in Sid : Exists(t) => Exists(t)',
         \A c \in Client : active'[c] \in {active[c], NoSid},
         turns' \subseteq turns
  PROVE  NothingDangles'
<1>1. ASSUME NEW t \in Sid, Exists(t) PROVE row'[t].status \notin Gone
  BY <1>1 DEF Exists, Gone
<1>2. ASSUME NEW c \in Client, active'[c] # NoSid PROVE row'[active'[c]].status \notin Gone
  <2>1. active'[c] = active[c] /\ active[c] \in Sid /\ Exists(active[c])
    BY <1>2 DEF NothingDangles, TypeInv, TypeOK
  <2>2. QED
    BY <1>1, <2>1
<1>3. ASSUME NEW s \in turns' PROVE row'[s].status \notin Gone
  BY <1>1, <1>3 DEF NothingDangles, TypeInv, TypeOK
<1>4. QED
  BY <1>2, <1>3 DEF NothingDangles, Exists, Gone

LEMMA Untouched ==
  ASSUME TypeInv, NothingDangles, UNCHANGED <<row, active, turns>>
  PROVE  NothingDangles'
BY DEF NothingDangles, Exists

LEMMA UpdateTables ==
  ASSUME TypeInv, NothingDangles, NEW s \in Sid, NEW r, r.status \notin Gone,
         Update(s, r), UNCHANGED <<active, turns>>
  PROVE  NothingDangles'
BY UpdateKeeps, Kept

LEMMA UnbindTables ==
  ASSUME TypeInv, NothingDangles, NEW s, Unbind(s), UNCHANGED <<row, turns>>
  PROVE  NothingDangles'
<1>1. \A c \in Client : active'[c] \in {active[c], NoSid}
  BY DEF Unbind
<1>2. \A t \in Sid : Exists(t) => Exists(t)'
  BY DEF Exists
<1>3. QED
  BY <1>1, <1>2, Kept

(* A status is set on a row that is there, in an UPDATE of the others. *)
LEMMA StatusTables ==
  ASSUME TypeInv, NothingDangles, NEW s \in Sid, NEW status \in RowStatus \ Gone,
         UpdateStatus(s, status), UNCHANGED <<active, turns>>
  PROVE  NothingDangles'
<1>1. [row[s] EXCEPT !.status = status].status = status
  BY RowHas DEF RowType
<1>2. QED
  BY <1>1, UpdateTables DEF UpdateStatus

(* An UPDATE that leaves the status as it is: of a row that is gone, it    *)
(* changes nothing.                                                        *)
LEMMA FieldTables ==
  ASSUME TypeInv, NothingDangles, NEW s \in Sid, NEW r, r.status = row[s].status,
         Update(s, r), UNCHANGED <<active, turns>>
  PROVE  NothingDangles'
<1>1. CASE Exists(s)
  <2>1. r.status \notin Gone
    BY <1>1 DEF Exists, Gone
  <2>2. QED
    BY <2>1, UpdateTables
<1>2. CASE ~ Exists(s)
  BY <1>2, Untouched DEF Update
<1>3. QED
  BY <1>1, <1>2

-----------------------------------------------------------------------------
(* The steps of a call *)

LEMMA RowTables ==
  ASSUME TypeInv, NothingDangles, NEW o \in Op,
         \/ Arm(o) \/ Close(o) \/ SetRunning(o) \/ Adopt(o)
         \/ Disarm(o) \/ Mark(o) \/ Remint(o)
  PROVE  NothingDangles'
<1> DEFINE s == op[o].sid
<1>1. s \in Sid
  BY OpHas DEF Arm, Close, SetRunning, Adopt, Disarm, Mark, Remint, At, Shape, NoSession
<1>2. row[s] \in RowType
  BY <1>1, RowHas
<1>3. CASE Arm(o)
  <2>1. [row[s] EXCEPT !.armed = TRUE].status = row[s].status
    BY <1>2 DEF RowType
  <2>2. QED
    BY <1>1, <1>3, <2>1, FieldTables DEF Arm
<1>4. CASE Close(o)
  BY <1>1, <1>4, StatusTables DEF Close, RowStatus, Gone
<1>5. CASE SetRunning(o)
  BY <1>1, <1>5, StatusTables DEF SetRunning, RowStatus, Gone
<1>6. CASE Adopt(o)
  <2>1. [row[s] EXCEPT !.owner = op[o].client, !.status = "idle"].status = "idle"
    BY <1>2 DEF RowType
  <2>2. QED
    BY <1>1, <1>6, <2>1, UpdateTables DEF Adopt, Gone
<1>7. CASE Disarm(o)
  <2>1. [row[s] EXCEPT !.armed = FALSE].status = row[s].status
    BY <1>2 DEF RowType
  <2>2. QED
    BY <1>1, <1>7, <2>1, FieldTables DEF Disarm
<1>8. CASE Mark(o)
  <2>1. [row[s] EXCEPT !.status = "running", !.old = FALSE].status = "running"
    BY <1>2 DEF RowType
  <2>2. QED
    BY <1>1, <1>8, <2>1, UpdateTables DEF Mark, Gone
<1>9. CASE Remint(o)
  <2>1. [row[s] EXCEPT !.conv = row[s].conv + 1].status = row[s].status
    BY <1>2 DEF RowType
  <2>2. QED
    BY <1>1, <1>9, <2>1, FieldTables DEF Remint
<1>10. QED
  BY <1>3, <1>4, <1>5, <1>6, <1>7, <1>8, <1>9

LEMMA InsertTables ==
  ASSUME TypeInv, NothingDangles, NEW o \in Op, Insert(o)
  PROVE  NothingDangles'
<1>1. PICK s \in Sid :
        row' = [row EXCEPT ![s] = [NoRow EXCEPT !.status = "running",
                                     !.owner = op[o].owner, !.from = op[o].from]]
  BY DEF Insert
<1>2. [NoRow EXCEPT !.status = "running", !.owner = op[o].owner,
                    !.from = op[o].from].status = "running"
  BY DEF NoRow
<1>3. \A t \in Sid : Exists(t) => Exists(t)'
  BY <1>1, <1>2 DEF Exists, TypeInv, TypeOK
<1>4. UNCHANGED <<active, turns>>
  BY DEF Insert
<1>5. QED
  BY <1>3, <1>4, Kept

LEMMA UnbindingTables ==
  ASSUME TypeInv, NothingDangles, NEW o \in Op,
         UnbindClosed(o) \/ DeleteBinding(o) \/ AdoptUnbind(o) \/ DeleteTurns(o)
  PROVE  NothingDangles'
<1>1. CASE UnbindClosed(o) \/ DeleteBinding(o) \/ AdoptUnbind(o)
  BY <1>1, UnbindTables DEF UnbindClosed, DeleteBinding, AdoptUnbind
<1>2. CASE DeleteTurns(o)
  <2>1. (\A t \in Sid : Exists(t) => Exists(t)') /\ turns' \subseteq turns
    BY <1>2 DEF DeleteTurns, Exists
  <2>2. UNCHANGED active
    BY <1>2 DEF DeleteTurns
  <2>3. QED
    BY <2>1, <2>2, Kept
<1>3. QED
  BY <1>1, <1>2

(* A binding or a turn is written under the foreign key. *)
LEMMA WritingTables ==
  ASSUME TypeInv, NothingDangles, NEW o \in Op,
         BindNew(o) \/ Bind(o) \/ StoreTurn(o) \/ Finish(o)
  PROVE  NothingDangles'
<1> DEFINE s == op[o].sid
<1>1. UNCHANGED row
  BY DEF BindNew, Bind, StoreTurn, Finish
<1>2. CASE UNCHANGED <<active, turns>>
  BY <1>1, <1>2, Untouched
<1>3. CASE Exists(s) /\ active' = [active EXCEPT ![op[o].client] = s] /\ UNCHANGED turns
  BY <1>1, <1>3 DEF NothingDangles, Exists, TypeInv, TypeOK
<1>4. CASE Exists(s) /\ AddTurn(s) /\ UNCHANGED active
  BY <1>1, <1>4 DEF NothingDangles, Exists, AddTurn
<1>5. QED
  BY <1>2, <1>3, <1>4 DEF BindNew, Bind, StoreTurn, Finish

(* The DELETE that would leave something dangling fails. *)
LEMMA DeleteTables ==
  ASSUME TypeInv, NothingDangles, NEW o \in Op, DeleteRow(o)
  PROVE  NothingDangles'
<1> DEFINE s == op[o].sid
<1>1. s \in Sid
  BY OpHas DEF DeleteRow, At, Shape, NoSession
<1>2. UNCHANGED <<active, turns>>
  BY DEF DeleteRow
<1>3. CASE UNCHANGED row
  BY <1>2, <1>3, Untouched
<1>4. CASE ~ Referenced(s) /\ UpdateStatus(s, "deleted")
  <2>1. \A t \in Sid \ {s} : row'[t] = row[t]
    BY <1>1, <1>4 DEF UpdateStatus, Update, TypeInv, TypeOK
  <2>2. s \notin turns /\ \A c \in Client : active[c] # s
    BY <1>4 DEF Referenced
  <2>3. QED
    BY <1>2, <2>1, <2>2 DEF NothingDangles, Exists, TypeInv, TypeOK
<1>5. QED
  BY <1>3, <1>4 DEF DeleteRow

LEMMA OtherTables ==
  ASSUME TypeInv, NothingDangles, NEW o \in Op,
         \/ Return(o) \/ Lookup(o) \/ CreateRefused(o) \/ SpawnOnMind(o)
         \/ SpawnFails(o) \/ Spawned(o) \/ KillProcess(o) \/ KillOnMind(o)
         \/ Kill(o) \/ ReadRow(o) \/ Interrupt(o) \/ Reread(o) \/ RespawnIdle(o)
         \/ Read(o) \/ Finalize(o) \/ Forward(o) \/ NeedsRespawn(o)
         \/ CheckProc(o) \/ Request(o) \/ NotFound(o) \/ StaleResume(o)
         \/ BeginCall(o) \/ Acquire(o) \/ Cancel(o)
  PROVE  NothingDangles'
<1>1. UNCHANGED tables
  BY DEF Return, Lookup, CreateRefused, SpawnOnMind, SpawnFails, Spawned, KillProcess,
     KillOnMind, Kill, ReadRow, Interrupt, Reread, RespawnIdle, Read, Finalize, Forward,
     NeedsRespawn, CheckProc, Request, NotFound, StaleResume, BeginCall,
     BeginOnSession, BeginOnSurface, Acquire, Cancel
<1>2. QED
  BY <1>1, Untouched DEF tables

LEMMA StepTables ==
  ASSUME TypeInv, NothingDangles, NEW o \in Op, Step(o)
  PROVE  NothingDangles'
BY RowTables, InsertTables, UnbindingTables, WritingTables, DeleteTables, OtherTables
DEF Step

-----------------------------------------------------------------------------
(* The reaper, time, crashes *)

LEMMA ReaperTables == ASSUME TypeInv, NothingDangles, Reaper PROVE NothingDangles'
<1>1. CASE ReapSelect
  BY <1>1, Untouched DEF ReapSelect, tables
<1>2. ASSUME NEW s \in Sid, ReapClose(s) PROVE NothingDangles'
  BY <1>2, StatusTables DEF ReapClose, RowStatus, Gone
<1>3. CASE ReapUnbind
  BY <1>3, UnbindTables DEF ReapUnbind
<1>4. QED
  BY <1>1, <1>2, <1>3 DEF Reaper

LEMMA AgeTables ==
  ASSUME TypeInv, NothingDangles, NEW s \in Sid, Age(s) PROVE NothingDangles'
<1>1. [row[s] EXCEPT !.old = TRUE].status = row[s].status
  BY RowHas DEF RowType
<1>2. QED
  BY <1>1, FieldTables DEF Age

LEMMA CrashTables == ASSUME TypeInv, NothingDangles, Crash PROVE NothingDangles'
<1>1. \A t \in Sid : [row[t] EXCEPT !.status = "idle"].status = "idle"
  BY RowHas DEF RowType
<1>2. \A t \in Sid : Exists(t) => Exists(t)'
  BY <1>1 DEF Crash, Exists
<1>3. UNCHANGED <<active, turns>>
  BY DEF Crash
<1>4. QED
  BY <1>2, <1>3, Kept

LEMMA NextTables ==
  ASSUME TypeInv, NothingDangles, [Next]_vars PROVE NothingDangles'
<1>1. CASE UNCHANGED vars
  BY <1>1, Untouched DEF vars
<1>2. ASSUME NEW s \in Sid, MindDrops(s) PROVE NothingDangles'
  BY <1>2, Untouched DEF MindDrops, tables
<1>3. QED
  BY <1>1, <1>2, OtherTables, StepTables, ReaperTables, AgeTables, CrashTables DEF Next

(* No surface is ever bound to a session that is gone, and no turn kept of *)
(* one, though kill_session deletes turns, binding and row in three steps  *)
(* between which other calls bind the session and write turns for it.      *)
THEOREM KeysHold == Spec => []NothingDangles
<1>1. Init => NothingDangles
  BY DEF Init, NothingDangles
<1>2. TypeInv /\ NothingDangles /\ [Next]_vars => NothingDangles'
  BY NextTables
<1>3. QED
  BY <1>1, <1>2, Typing, PTL DEF Spec

-----------------------------------------------------------------------------
(* The conversations that processes run *)

(* A row that is there runs what it has reached, one that was never        *)
(* inserted runs nothing.                                                  *)
Started(s) ==
  /\ row[s].status = "none" => mind[s] = NoProc
  /\ Exists(s) /\ mind[s] # NoProc => mind[s] <= row[s].conv

(* The conversation an op carries is one the row of its session has        *)
(* reached; only between the insert and the spawn of a new session does it *)
(* still carry that of the one it replaces.                                *)
Reached(o) ==
  /\ op[o].pc = "lookup" => op[o].conv = 0
  /\ op[o].sid \in Sid => row[op[o].sid].status # "none"
  /\ op[o].sid \in Sid /\ Exists(op[o].sid) /\ op[o].pc # "bindNew"
       => op[o].conv <= row[op[o].sid].conv

ConvInv == (\A s \in Sid : Started(s)) /\ \A o \in Op : Reached(o)

(* Rows are neither inserted nor un-deleted, and move forward. *)
RowsOnward ==
  \A s \in Sid : /\ row'[s].status = "none" <=> row[s].status = "none"
                 /\ row'[s].status \notin Gone => /\ row[s].status \notin Gone
                                                 /\ row[s].conv <= row'[s].conv

(* Processes end, or are started as an op has it. *)
MindsOnward(o) ==
  \A s \in Sid : \/ mind'[s] \in {mind[s], NoProc}
                 \/ s = op[o].sid /\ op[o].pc # "bindNew" /\ mind'[s] = op[o].conv

Others(o) == \A x \in Op \ {o} : op'[x] = op[x]

(* What an op may do with its session and conversation. *)
Keeps(o) ==
  /\ Others(o)
  /\ op'[o].pc # "lookup"
  /\ op'[o].sid \in {op[o].sid, NoSid}
  /\ \/ op'[o].conv = 0
     \/ op[o].pc # "bindNew" /\ op'[o].conv = op[o].conv
     \/ op[o].sid \in Sid /\ op'[o].conv = row[op[o].sid].conv

LEMMA Integers ==
  ASSUME TypeInv
  PROVE  /\ \A s \in Sid : row[s].conv \in Nat /\ mind[s] \in Nat
         /\ \A o \in Op : op[o].conv \in Nat
BY ConstantsAssumption DEF TypeInv, TypeOK, RowType, OpType, Conv, NoProc

LEMMA IntegersNext ==
  ASSUME TypeInv'
  PROVE  \A s \in Sid : row'[s].conv \in Nat /\ mind'[s] \in Nat
BY ConstantsAssumption DEF TypeInv, TypeOK, RowType, Conv, NoProc

LEMMA StartedKept ==
  ASSUME TypeInv, TypeInv', ConvInv, NEW o \in Op, RowsOnward, MindsOnward(o),
         NEW s \in Sid
  PROVE  Started(s)'
<1>1. /\ row[s].conv \in Nat /\ row'[s].conv \in Nat
      /\ mind[s] \in Nat /\ mind'[s] \in Nat /\ op[o].conv \in Nat
  BY Integers, IntegersNext
<1>2. Started(s) /\ Reached(o)
  BY DEF ConvInv
<1>3. CASE mind'[s] \in {mind[s], NoProc}
  BY <1>1, <1>2, <1>3 DEF Started, Exists, RowsOnward, Gone, NoProc
<1>4. CASE s = op[o].sid /\ op[o].pc # "bindNew" /\ mind'[s] = op[o].conv
  BY <1>1, <1>2, <1>4 DEF Started, Reached, Exists, RowsOnward, Gone, NoProc
<1>5. QED
  BY <1>3, <1>4 DEF MindsOnward

LEMMA ReachedKept ==
  ASSUME TypeInv, TypeInv', ConvInv, RowsOnward, NEW x \in Op, op'[x] = op[x]
  PROVE  Reached(x)'
<1>1. \A s \in Sid : row[s].conv \in Nat /\ row'[s].conv \in Nat
  BY Integers, IntegersNext
<1>2. op[x].conv \in Nat /\ Reached(x)
  BY Integers DEF ConvInv
<1>3. QED
  BY <1>1, <1>2 DEF Reached, Exists, RowsOnward, Gone

LEMMA StepConv ==
  ASSUME TypeInv, TypeInv', ConvInv, NEW o \in Op, Others(o),
         RowsOnward, MindsOnward(o), Reached(o)'
  PROVE  ConvInv'
<1>1. \A s \in Sid : Started(s)'
  BY StartedKept
<1>2. \A x \in Op : Reached(x)'
  BY ReachedKept DEF Others
<1>3. QED
  BY <1>1, <1>2 DEF ConvInv

LEMMA KeepsConv ==
  ASSUME TypeInv, TypeInv', ConvInv, NEW o \in Op,
         Keeps(o), RowsOnward, MindsOnward(o)
  PROVE  ConvInv'
<1>1. \A s \in Sid : row[s].conv \in Nat /\ row'[s].conv \in Nat
  BY Integers, IntegersNext
<1>2. op[o].conv \in Nat /\ Reached(o) /\ NoSid \notin Sid
  BY Integers, ConstantsAssumption DEF ConvInv
<1>3. Reached(o)'
  BY <1>1, <1>2 DEF Keeps, Reached, Exists, RowsOnward, Gone
<1>4. QED
  BY <1>3, StepConv DEF Keeps

-----------------------------------------------------------------------------
(* What the steps do to rows *)

LEMMA SameRows == ASSUME TypeInv, UNCHANGED row PROVE RowsOnward
BY Integers DEF RowsOnward

LEMMA UpdateRows ==
  ASSUME TypeInv, NEW s \in Sid, NEW r, Update(s, r),
         r.status # "none", r.conv \in Nat, row[s].conv <= r.conv
  PROVE  RowsOnward
<1>1. CASE Exists(s)
  <2>1. row'[s] = r /\ \A t \in Sid \ {s} : row'[t] = row[t]
    BY <1>1 DEF Update, TypeInv, TypeOK
  <2>2. QED
    BY <1>1, <2>1, Integers DEF RowsOnward, Exists, Gone
<1>2. CASE ~ Exists(s)
  BY <1>2, SameRows DEF Update
<1>3. QED
  BY <1>1, <1>2

LEMMA StatusRows ==
  ASSUME TypeInv, NEW s \in Sid, NEW status \in RowStatus, status # "none",
         UpdateStatus(s, status)
  PROVE  RowsOnward
<1> DEFINE r == [row[s] EXCEPT !.status = status]
<1>1. r.status = status /\ r.conv = row[s].conv
  BY RowHas DEF RowType
<1>2. r.conv \in Nat /\ row[s].conv <= r.conv
  BY <1>1, Integers
<1>3. Update(s, r)
  BY DEF UpdateStatus
<1> HIDE DEF r
<1>4. QED
  BY <1>1, <1>2, <1>3, UpdateRows

(* What they do to the op *)

LEMMA EndKeeps == ASSUME TypeInv, NEW o \in Op, End(o) PROVE Keeps(o)
BY DEF End, Become, Keeps, Others, Idle, TypeInv, OpInv

LEMMA GotoKeeps ==
  ASSUME TypeInv, NEW o \in Op, NEW pc, Goto(o, pc), pc # "lookup",
         op[o].pc # "bindNew"
  PROVE  Keeps(o)
BY OpHas DEF Goto, Become, Keeps, Others, OpType, TypeInv, OpInv

LEMMA SpawnKeeps ==
  ASSUME TypeInv, NEW o \in Op, NEW conv, NEW ret, CallSpawn(o, conv, ret),
         \/ conv = 0
         \/ op[o].pc # "bindNew" /\ conv = op[o].conv
         \/ op[o].sid \in Sid /\ conv = row[op[o].sid].conv
  PROVE  Keeps(o)
BY OpHas DEF CallSpawn, Become, Keeps, Others, OpType, TypeInv, OpInv

LEMMA KillKeeps ==
  ASSUME TypeInv, NEW o \in Op, NEW ret, CallKillProcess(o, ret),
         op[o].pc # "bindNew"
  PROVE  Keeps(o)
BY OpHas DEF CallKillProcess, Become, Keeps, Others, OpType, TypeInv, OpInv

LEMMA BecomeKeeps ==
  ASSUME TypeInv, NEW o \in Op, NEW r, Become(o, r), op[o].pc # "bindNew",
         op[o].sid \in Sid, r.sid = op[o].sid, r.pc # "lookup",
         r.conv \in {op[o].conv, row[op[o].sid].conv}
  PROVE  Keeps(o)
BY DEF Become, Keeps, Others, TypeInv, OpInv

(* Minds go on as they are, unless the step is at a mind. *)
LEMMA SameMinds == ASSUME NEW o, UNCHANGED mind PROVE MindsOnward(o)
BY DEF MindsOnward

-----------------------------------------------------------------------------
(* The steps that take a session up *)

LEMMA BeginConv ==
  ASSUME TypeInv, TypeInv', ConvInv, NEW o \in Op, BeginCall(o)
  PROVE  ConvInv'
<1>1. UNCHANGED <<row, mind>>
  BY DEF BeginCall, BeginOnSession, BeginOnSurface, tables
<1>2. ASSUME NEW s \in Sid, BeginOnSession(o, s) PROVE ConvInv'
  <2>1. row[s].status # "none" /\ Others(o)
    BY <1>2 DEF BeginOnSession, Begin, Become, Others, TypeInv, OpInv
  <2>2. op'[o].sid = s /\ op'[o].conv = 0 /\ op'[o].pc # "lookup"
    <3>1. ASSUME NEW call, NEW pc, NEW c, pc # "lookup", Begin(o, call, pc, s, c)
          PROVE  op'[o].sid = s /\ op'[o].conv = 0 /\ op'[o].pc # "lookup"
      BY <3>1 DEF Begin, Become, Idle, TypeInv, OpInv
    <3>2. QED
      BY <1>2, <3>1 DEF BeginOnSession
  <2>3. Reached(o)'
    BY <1>1, <2>1, <2>2, Integers DEF Reached
  <2>4. QED
    BY <1>1, <2>1, <2>3, SameRows, SameMinds, StepConv
<1>3. ASSUME NEW c \in Client, BeginOnSurface(o, c) PROVE ConvInv'
  <2>1. Others(o)
    BY <1>3 DEF BeginOnSurface, Begin, Become, Others, TypeInv, OpInv
  <2>2. op'[o].sid = NoSid /\ op'[o].conv = 0
    BY <1>3 DEF BeginOnSurface, Begin, Become, Idle, TypeInv, OpInv
  <2>3. Reached(o)'
    BY <2>2, ConstantsAssumption DEF Reached
  <2>4. QED
    BY <1>1, <2>1, <2>3, SameRows, SameMinds, StepConv
<1>4. QED
  BY <1>2, <1>3 DEF BeginCall

LEMMA LookupConv ==
  ASSUME TypeInv, TypeInv', ConvInv, NEW o \in Op, Lookup(o)
  PROVE  ConvInv'
<1> DEFINE s == active[op[o].client]
<1>1. UNCHANGED <<row, mind>> /\ op[o] \in OpType /\ op[o].pc = "lookup"
  BY OpHas DEF Lookup, At, tables
<1>2. CASE /\ Open(s)
           /\ Become(o, [op[o] EXCEPT !.sid = s,
                            !.pc = IF op[o].call = "new" THEN "kill" ELSE "arm"])
  <2>1. Others(o) /\ op'[o].sid = s /\ op'[o].conv = op[o].conv
    BY <1>1, <1>2 DEF Become, Others, OpType, TypeInv, OpInv
  <2>2. op'[o].pc # "lookup"
    BY <1>1, <1>2 DEF Become, OpType, TypeInv, OpInv
  <2>3. op[o].conv = 0
    BY <1>1 DEF ConvInv, Reached
  <2>4. Reached(o)'
    BY <1>1, <1>2, <2>1, <2>2, <2>3, Integers DEF Reached, Open
  <2>5. QED
    BY <1>1, <2>1, <2>4, SameRows, SameMinds, StepConv
<1>3. CASE Goto(o, IF op[o].call = "new" THEN "insert" ELSE "return")
  BY <1>1, <1>3, GotoKeeps, SameRows, SameMinds, KeepsConv
<1>4. QED
  BY <1>2, <1>3 DEF Lookup

LEMMA InsertConv ==
  ASSUME TypeInv, TypeInv', ConvInv, NEW o \in Op, Insert(o)
  PROVE  ConvInv'
<1>1. PICK s \in Sid :
        /\ row[s].status = "none"
        /\ row' = [row EXCEPT ![s] = [NoRow EXCEPT !.status = "running",
                                        !.owner = op[o].owner, !.from = op[o].from]]
        /\ Become(o, [op[o] EXCEPT !.sid = s, !.pc = "bindNew"])
  BY DEF Insert
<1>2. row'[s].status = "running" /\ \A t \in Sid \ {s} : row'[t] = row[t]
  BY <1>1 DEF NoRow, TypeInv, TypeOK
<1>3. op'[o].sid = s /\ op'[o].pc = "bindNew" /\ Others(o)
  BY <1>1, OpHas DEF Become, Others, OpType, TypeInv, OpInv
<1>4. UNCHANGED mind
  BY DEF Insert
<1>5. \A t \in Sid : Started(t)'
  BY <1>1, <1>2, <1>4 DEF ConvInv, Started, Exists
<1>6. \A x \in Op \ {o} : Reached(x)'
  BY <1>1, <1>2, <1>3 DEF ConvInv, Reached, Exists, Others
<1>7. Reached(o)'
  BY <1>2, <1>3 DEF Reached
<1>8. QED
  BY <1>5, <1>6, <1>7 DEF ConvInv

(* The row is moved forward and the op with it. *)
LEMMA RemintConv ==
  ASSUME TypeInv, TypeInv', ConvInv, NEW o \in Op, Remint(o)
  PROVE  ConvInv'
<1> DEFINE s == op[o].sid
           fresh == row[s].conv + 1
           new == [row[s] EXCEPT !.conv = fresh]
<1>1. op[o] \in OpType /\ s \in Sid /\ row[s].conv \in Nat /\ row[s].status # "none"
  BY OpHas, Integers DEF ConvInv, Reached, Remint, At, Shape, NoSession
<1>2. new.status = row[s].status /\ new.conv = fresh
  BY <1>1, RowHas DEF RowType
<1>3. Update(s, new) /\ UNCHANGED mind
  BY DEF Remint
<1>4. new.conv \in Nat /\ row[s].conv <= new.conv
  BY <1>1, <1>2
<1>5. op'[o].sid = s /\ op'[o].conv = fresh /\ op'[o].pc = "spawn" /\ Others(o)
  BY <1>1 DEF Remint, CallSpawn, Become, Others, OpType, TypeInv, OpInv
<1> HIDE DEF new
<1>10. RowsOnward
  BY <1>1, <1>2, <1>3, <1>4, UpdateRows
<1>6. row'[s].status \notin Gone => row'[s].conv = fresh
  <2>1. Exists(s) => row'[s] = new
    BY <1>1, <1>3 DEF Update, TypeInv, TypeOK
  <2>2. ~ Exists(s) => row' = row
    BY <1>3 DEF Update
  <2>3. QED
    BY <1>2, <2>1, <2>2 DEF Exists, Gone
<1>7. row'[s].status # "none"
  BY <1>1, <1>10 DEF RowsOnward
<1>8. Reached(o)'
  BY <1>1, <1>5, <1>6, <1>7 DEF Reached, Exists, Gone
<1>9. QED
  BY <1>3, <1>5, <1>8, <1>10, SameMinds, StepConv

-----------------------------------------------------------------------------
(* The steps that stay with their session *)

LEMMA MindConv ==
  ASSUME TypeInv, TypeInv', ConvInv, NEW o \in Op,
         SpawnOnMind(o) \/ SpawnFails(o) \/ KillOnMind(o)
  PROVE  ConvInv'
<1>1. op[o].pc \in {"spawn", "killOnMind"} /\ UNCHANGED row
  BY DEF SpawnOnMind, SpawnFails, KillOnMind, At, tables
<1>2. MindsOnward(o)
  BY <1>1 DEF MindsOnward, SpawnOnMind, SpawnFails, KillOnMind, TypeInv, TypeOK
<1>3. Keeps(o)
  <2>1. CASE SpawnOnMind(o)
    BY <1>1, <2>1, GotoKeeps DEF SpawnOnMind
  <2>2. CASE SpawnFails(o)
    BY <2>2, EndKeeps DEF SpawnFails
  <2>3. CASE KillOnMind(o)
    <3>1. op[o].ret # "lookup"
      BY <2>3, OpHas DEF KillOnMind, At, Shape, AfterKillProcess
    <3>2. QED
      BY <1>1, <2>3, <3>1, GotoKeeps DEF KillOnMind
  <2>4. QED
    BY <2>1, <2>2, <2>3
<1>4. QED
  BY <1>1, <1>2, <1>3, SameRows, KeepsConv

LEMMA RowConv ==
  ASSUME TypeInv, TypeInv', ConvInv, NEW o \in Op,
         \/ Arm(o) \/ Close(o) \/ DeleteRow(o) \/ SetRunning(o)
         \/ Adopt(o) \/ Disarm(o) \/ Mark(o)
  PROVE  ConvInv'
<1> DEFINE s == op[o].sid
<1>1. s \in Sid /\ op[o].pc # "bindNew"
  BY OpHas DEF Arm, Close, DeleteRow, SetRunning, Adopt, Disarm, Mark, At, Shape, NoSession
<1>2. row[s] \in RowType /\ row[s].conv \in Nat /\ row[s].status # "none"
  BY <1>1, RowHas, Integers DEF ConvInv, Reached
<1>3. ASSUME NEW r, Update(s, r), r.status # "none", r.conv = row[s].conv
      PROVE  RowsOnward
  BY <1>1, <1>2, <1>3, UpdateRows
<1>4. CASE Arm(o)
  <2> DEFINE r == [row[s] EXCEPT !.armed = TRUE]
  <2>1. r.status # "none" /\ r.conv = row[s].conv
    BY <1>2 DEF RowType
  <2>2. Update(s, r)
    BY <1>4 DEF Arm
  <2> HIDE DEF r
  <2>3. RowsOnward
    BY <1>3, <2>1, <2>2
  <2>4. QED
    BY <1>1, <1>4, <2>3, GotoKeeps, SameMinds, KeepsConv DEF Arm
<1>5. CASE Close(o)
  BY <1>1, <1>5, StatusRows, GotoKeeps, SameMinds, KeepsConv DEF Close, RowStatus
<1>6. CASE DeleteRow(o)
  <2>1. RowsOnward
    BY <1>1, <1>6, StatusRows, SameRows DEF DeleteRow, RowStatus
  <2>2. Keeps(o)
    BY <1>1, <1>6, GotoKeeps, EndKeeps DEF DeleteRow, AfterKill
  <2>3. QED
    BY <1>6, <2>1, <2>2, SameMinds, KeepsConv DEF DeleteRow
<1>7. CASE SetRunning(o)
  <2>1. Keeps(o)
    BY <1>1, <1>7, GotoKeeps, SpawnKeeps DEF SetRunning
  <2>2. RowsOnward
    BY <1>1, <1>7, StatusRows DEF SetRunning, RowStatus
  <2>3. QED
    BY <1>7, <2>1, <2>2, SameMinds, KeepsConv DEF SetRunning
<1>8. CASE Adopt(o)
  <2> DEFINE r == [row[s] EXCEPT !.owner = op[o].client, !.status = "idle"]
  <2>1. r.status # "none" /\ r.conv = row[s].conv
    BY <1>2 DEF RowType
  <2>2. Update(s, r)
    BY <1>8 DEF Adopt
  <2> HIDE DEF r
  <2>3. RowsOnward
    BY <1>3, <2>1, <2>2
  <2>4. QED
    BY <1>1, <1>8, <2>3, GotoKeeps, SameMinds, KeepsConv DEF Adopt
<1>9. CASE Disarm(o)
  <2> DEFINE r == [row[s] EXCEPT !.armed = FALSE]
  <2>1. r.status # "none" /\ r.conv = row[s].conv
    BY <1>2 DEF RowType
  <2>2. Update(s, r)
    BY <1>9 DEF Disarm
  <2> HIDE DEF r
  <2>3. RowsOnward
    BY <1>3, <2>1, <2>2
  <2>4. QED
    BY <1>1, <1>9, <2>3, GotoKeeps, SameMinds, KeepsConv DEF Disarm
<1>10. CASE Mark(o)
  <2> DEFINE r == [row[s] EXCEPT !.status = "running", !.old = FALSE]
  <2>1. r.status # "none" /\ r.conv = row[s].conv
    BY <1>2 DEF RowType
  <2>2. Update(s, r)
    BY <1>10 DEF Mark
  <2> HIDE DEF r
  <2>3. RowsOnward
    BY <1>3, <2>1, <2>2
  <2>4. QED
    BY <1>1, <1>10, <2>3, GotoKeeps, SameMinds, KeepsConv DEF Mark
<1>11. QED
  BY <1>4, <1>5, <1>6, <1>7, <1>8, <1>9, <1>10

(* Steps after which the call ends or goes on, its conversation as it was. *)
LEMMA PlainConv ==
  ASSUME TypeInv, TypeInv', ConvInv, NEW o \in Op,
         \/ Return(o) \/ CreateRefused(o) \/ BindNew(o) \/ Spawned(o)
         \/ KillProcess(o) \/ Kill(o) \/ UnbindClosed(o) \/ DeleteTurns(o)
         \/ DeleteBinding(o) \/ Interrupt(o) \/ AdoptUnbind(o) \/ Bind(o)
         \/ RespawnIdle(o) \/ NeedsRespawn(o) \/ StoreTurn(o) \/ CheckProc(o)
         \/ Finish(o) \/ Acquire(o) \/ Cancel(o)
  PROVE  ConvInv'
<1>1. UNCHANGED <<row, mind>>
  BY DEF Return, CreateRefused, BindNew, Spawned, KillProcess, Kill, UnbindClosed,
     DeleteTurns, DeleteBinding, Interrupt, AdoptUnbind, Bind, RespawnIdle, NeedsRespawn,
     StoreTurn, CheckProc, Finish, Acquire, Cancel, tables
<1>2. CASE End(o)
  BY <1>1, <1>2, EndKeeps, SameRows, SameMinds, KeepsConv
<1>3. ASSUME NEW pc, Goto(o, pc), pc # "lookup", op[o].pc # "bindNew"
      PROVE  ConvInv'
  BY <1>1, <1>3, GotoKeeps, SameRows, SameMinds, KeepsConv
<1>4. ASSUME NEW ret, CallSpawn(o, op[o].conv, ret), op[o].pc # "bindNew"
      PROVE  ConvInv'
  BY <1>1, <1>4, SpawnKeeps, SameRows, SameMinds, KeepsConv
<1>5. ASSUME NEW ret, CallSpawn(o, 0, ret) PROVE ConvInv'
  BY <1>1, <1>5, SpawnKeeps, SameRows, SameMinds, KeepsConv
<1>6. ASSUME NEW ret, CallKillProcess(o, ret), op[o].pc # "bindNew"
      PROVE  ConvInv'
  BY <1>1, <1>6, KillKeeps, SameRows, SameMinds, KeepsConv
<1>7. CASE Return(o) \/ CreateRefused(o) \/ Cancel(o)
  BY <1>2, <1>7 DEF Return, CreateRefused, Cancel
<1>8. CASE BindNew(o)
  BY <1>2, <1>5, <1>8 DEF BindNew
<1>9. CASE Spawned(o)
  <2>1. op[o].ret # "lookup" /\ op[o].pc = "spawned"
    BY <1>9, OpHas DEF Spawned, At, Shape, AfterSpawn
  <2>2. QED
    BY <1>3, <1>9, <2>1 DEF Spawned
<1>10. CASE \/ KillProcess(o) \/ UnbindClosed(o) \/ DeleteTurns(o) \/ DeleteBinding(o)
            \/ AdoptUnbind(o) \/ Finish(o) \/ Acquire(o)
  BY <1>3, <1>10
  DEF KillProcess, UnbindClosed, DeleteTurns, DeleteBinding, AdoptUnbind, Finish,
      Acquire, At, AfterKill
<1>11. CASE Kill(o) \/ Interrupt(o)
  BY <1>2, <1>6, <1>11 DEF Kill, Interrupt, At
<1>12. CASE Bind(o) \/ StoreTurn(o) \/ CheckProc(o)
  BY <1>2, <1>3, <1>12 DEF Bind, StoreTurn, CheckProc, At
<1>13. CASE RespawnIdle(o) \/ NeedsRespawn(o)
  BY <1>3, <1>4, <1>13 DEF RespawnIdle, NeedsRespawn, At
<1>14. QED
  BY <1>7, <1>8, <1>9, <1>10, <1>11, <1>12, <1>13

(* Steps that read the row, or set the fields of the call one by one. *)
LEMMA ReadingConv ==
  ASSUME TypeInv, TypeInv', ConvInv, NEW o \in Op,
         \/ ReadRow(o) \/ Reread(o) \/ Read(o) \/ Finalize(o) \/ Forward(o)
         \/ Request(o) \/ NotFound(o) \/ StaleResume(o)
  PROVE  ConvInv'
<1>1. UNCHANGED <<row, mind>>
  BY DEF ReadRow, Reread, Read, Finalize, Forward, Request, NotFound, StaleResume, tables
<1>2. op[o] \in OpType /\ op[o].sid \in Sid /\ op[o].pc # "bindNew"
  BY OpHas DEF ReadRow, Reread, Read, Finalize, Forward, Request, NotFound, StaleResume,
     At, Shape, NoSession
<1> DEFINE s == op[o].sid
           read == [op[o] EXCEPT !.conv = row[s].conv, !.status = row[s].status]
<1>3. ASSUME Keeps(o) PROVE ConvInv'
  BY <1>1, <1>3, SameRows, SameMinds, KeepsConv
<1>4. ASSUME End(o) PROVE ConvInv'
  BY <1>3, <1>4, EndKeeps
<1>5. ASSUME NEW pc, Goto(o, pc), pc # "lookup" PROVE ConvInv'
  BY <1>2, <1>3, <1>5, GotoKeeps
<1>6. ASSUME NEW r, Become(o, r), r.sid = s, r.pc # "lookup",
             r.conv \in {op[o].conv, row[s].conv}
      PROVE  ConvInv'
  BY <1>2, <1>3, <1>6, BecomeKeeps
<1>7. CASE ReadRow(o)
  <2>1. read.sid = s /\ read.conv = row[s].conv /\ read \in OpType
    BY <1>2, RowHas DEF OpType, RowType
  <2>2. CASE Become(o, [read EXCEPT !.pc = "killProcess", !.ret = "setRunning"])
    BY <1>6, <2>1, <2>2 DEF OpType
  <2>3. ASSUME NEW pc \in {"interrupt", "return", "adopt", "bind"},
               Become(o, [read EXCEPT !.pc = pc])
        PROVE  ConvInv'
    BY <1>6, <2>1, <2>3 DEF OpType
  <2>4. QED
    BY <1>4, <1>7, <2>2, <2>3 DEF ReadRow
<1>8. CASE Reread(o)
  <2> DEFINE r == [op[o] EXCEPT !.pc = "bind", !.conv = row[s].conv,
                                !.status = row[s].status]
  <2>1. r.sid = s /\ r.pc = "bind" /\ r.conv = row[s].conv
    BY <1>2 DEF OpType
  <2>2. Become(o, r)
    BY <1>8 DEF Reread
  <2>3. QED
    BY <1>6, <2>1, <2>2
<1>9. CASE Read(o)
  <2> DEFINE r == [op[o] EXCEPT !.conv = row[s].conv, !.owner = row[s].owner,
                     !.pc = IF row[s].armed THEN "finalize" ELSE "check"]
  <2>1. r.sid = s /\ r.pc # "lookup" /\ r.conv = row[s].conv
    BY <1>2 DEF OpType
  <2>2. Become(o, r) \/ End(o)
    BY <1>9 DEF Read
  <2>3. QED
    BY <1>4, <1>6, <2>1, <2>2
<1>10. CASE Finalize(o)
  <2>1. ASSUME NEW c \in Client,
               Become(o, [op[o] EXCEPT !.pc = "kill", !.client = c, !.from = s])
        PROVE  ConvInv'
    BY <1>2, <1>6, <2>1 DEF OpType
  <2>2. QED
    BY <1>5, <1>10, <2>1 DEF Finalize
<1>11. CASE Forward(o)
  BY <1>2, <1>3, <1>11 DEF Forward, Become, Keeps, Others, Idle, TypeInv, OpInv
<1>12. CASE Request(o)
  <2> DEFINE r == [op[o] EXCEPT !.pc = "stream", !.posted = TRUE]
  <2>1. r.sid = s /\ r.pc # "lookup" /\ r.conv = op[o].conv
    BY <1>2 DEF OpType
  <2>2. Become(o, r) \/ Goto(o, "notFound") \/ Goto(o, "return")
    BY <1>12 DEF Request
  <2>3. QED
    BY <1>5, <1>6, <2>1, <2>2
<1>13. CASE NotFound(o)
  <2> DEFINE r == [op[o] EXCEPT !.pc = "spawn", !.ret = "request", !.retried = TRUE]
  <2>1. r.sid = s /\ r.pc # "lookup" /\ r.conv = op[o].conv
    BY <1>2 DEF OpType
  <2>2. Become(o, r) \/ End(o)
    BY <1>13 DEF NotFound
  <2>3. QED
    BY <1>4, <1>6, <2>1, <2>2
<1>14. CASE StaleResume(o)
  <2> DEFINE r == [op[o] EXCEPT !.pc = "killProcess", !.ret = "remint",
                                !.retried = TRUE, !.posted = FALSE]
  <2>1. r.sid = s /\ r.pc # "lookup" /\ r.conv = op[o].conv
    BY <1>2 DEF OpType
  <2>2. Become(o, r)
    BY <1>14 DEF StaleResume
  <2>3. QED
    BY <1>6, <2>1, <2>2
<1>15. QED
  BY <1>7, <1>8, <1>9, <1>10, <1>11, <1>12, <1>13, <1>14

-----------------------------------------------------------------------------
(* The reaper, the minds, time, crashes *)

LEMMA QuietConv ==
  ASSUME TypeInv, TypeInv', ConvInv, UNCHANGED op, RowsOnward,
         \A s \in Sid : mind'[s] \in {mind[s], NoProc}
  PROVE  ConvInv'
<1>1. \A x \in Op : Reached(x)'
  BY ReachedKept
<1>2. ASSUME NEW s \in Sid PROVE Started(s)'
  BY IntegersNext, Integers DEF ConvInv, Started, RowsOnward, Exists, Gone, NoProc
<1>3. QED
  BY <1>1, <1>2 DEF ConvInv

LEMMA ReaperConv ==
  ASSUME TypeInv, TypeInv', ConvInv, Reaper PROVE ConvInv'
<1>1. CASE ReapSelect \/ ReapUnbind
  BY <1>1, SameRows, QuietConv DEF ReapSelect, ReapUnbind, tables
<1>2. ASSUME NEW s \in Sid, ReapClose(s) PROVE ConvInv'
  BY <1>2, StatusRows, QuietConv DEF ReapClose, RowStatus
<1>3. QED
  BY <1>1, <1>2 DEF Reaper

LEMMA AgeConv ==
  ASSUME TypeInv, TypeInv', ConvInv, NEW s \in Sid, Age(s) PROVE ConvInv'
<1> DEFINE r == [row[s] EXCEPT !.old = TRUE]
<1>1. r.status = row[s].status /\ r.conv = row[s].conv /\ row[s].status # "none"
  BY RowHas DEF RowType, Age, Open
<1>2. Update(s, r) /\ UNCHANGED <<op, mind>>
  BY DEF Age
<1> HIDE DEF r
<1>3. RowsOnward
  BY <1>1, <1>2, Integers, UpdateRows
<1>4. QED
  BY <1>2, <1>3, QuietConv

LEMMA DropsConv ==
  ASSUME TypeInv, TypeInv', ConvInv, NEW s \in Sid, MindDrops(s) PROVE ConvInv'
<1>1. \A t \in Sid : mind'[t] \in {mind[t], NoProc}
  BY DEF MindDrops, TypeInv, TypeOK
<1>2. UNCHANGED <<row, op>>
  BY DEF MindDrops, tables
<1>3. QED
  BY <1>1, <1>2, SameRows, QuietConv

LEMMA CrashConv ==
  ASSUME TypeInv, TypeInv', ConvInv, Crash PROVE ConvInv'
<1>1. ASSUME NEW s \in Sid
      PROVE  /\ row'[s].conv = row[s].conv
             /\ row'[s].status = IF row[s].status = "running" THEN "idle" ELSE row[s].status
  BY RowHas DEF Crash, RowType
<1>2. RowsOnward
  BY <1>1, Integers DEF RowsOnward, Gone
<1>3. UNCHANGED mind /\ \A o \in Op : op'[o] = Idle
  BY DEF Crash
<1>4. \A o \in Op : Reached(o)'
  BY <1>3, ConstantsAssumption DEF Reached, Idle
<1>5. ASSUME NEW s \in Sid PROVE Started(s)'
  BY <1>1, <1>3 DEF ConvInv, Started, Exists
<1>6. QED
  BY <1>4, <1>5 DEF ConvInv

LEMMA StayConv ==
  ASSUME TypeInv, TypeInv', ConvInv, UNCHANGED vars PROVE ConvInv'
BY SameRows, QuietConv DEF vars

LEMMA InitConv == ASSUME Init PROVE ConvInv
BY ConstantsAssumption
DEF Init, ConvInv, Started, Reached, Idle, NoRow, Exists

LEMMA NextConv == ASSUME TypeInv, ConvInv, [Next]_vars PROVE ConvInv'
<1>1. TypeInv'
  BY NextType
<1>2. ASSUME NEW o \in Op, Step(o) PROVE ConvInv'
  BY <1>1, <1>2, LookupConv, InsertConv, RemintConv, MindConv, RowConv, PlainConv,
     ReadingConv DEF Step
<1>3. ASSUME NEW o \in Op, BeginCall(o) \/ Acquire(o) \/ Cancel(o) PROVE ConvInv'
  BY <1>1, <1>3, BeginConv, PlainConv
<1>4. QED
  BY <1>1, <1>2, <1>3, ReaperConv, AgeConv, DropsConv, CrashConv, StayConv DEF Next

(* No mind ever runs, for a session that is there, a conversation its row  *)
(* was never pinned to: whatever calls interleave with a stale resume, are *)
(* refused, time out or are cut off by a crash, a conversation is recorded *)
(* before it is started and none is carried over to another session.       *)
THEOREM ConversationsRecorded == Spec => []ConversationRecorded
<1>1. Init => ConvInv
  BY InitConv
<1>2. TypeInv /\ ConvInv /\ [Next]_vars => ConvInv'
  BY NextConv
<1>3. ConvInv => ConversationRecorded
  BY DEF ConvInv, Started, ConversationRecorded
<1>4. QED
  BY <1>1, <1>2, <1>3, Typing, PTL DEF Spec
=============================================================================
