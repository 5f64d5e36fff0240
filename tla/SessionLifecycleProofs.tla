------------------------ MODULE SessionLifecycleProofs ------------------------
(***************************************************************************)
(* The session core implements SessionLifecycle as long as sessions are    *)
(* created, talked to, armed and interrupted, whatever fails: what the     *)
(* other calls do to a session they do without its lock.                   *)
(***************************************************************************)
EXTENDS SessionManagerProofs

LockedCalls == {"create", "send", "arm", "interrupt"}

(* Where each of these calls can stand. *)
Killing == {"killProcess", "killOnMind"}
Spawning == {"spawn", "spawned"}

CreateFlow(r) ==
  /\ r.call = "create" /\ r.from = NoSid
  /\ \/ r.pc \in {"insert", "bindNew", "return"}
     \/ r.pc \in Spawning /\ r.ret = "return"

ArmFlow(r) == r.call = "arm" /\ r.pc \in {"lookup", "arm", "return"}

InterruptFlow(r) ==
  /\ r.call = "interrupt"
  /\ \/ r.pc \in {"readRow", "interrupt", "return"}
     \/ r.pc \in Killing /\ r.ret = "return"

TurnFlow(r) ==
  /\ r.call = "send" /\ r.from = NoSid
  /\ \/ r.pc \in {"acquire", "read", "finalize", "disarm", "check", "mark", "storeTurn",
                  "post", "request", "notFound", "stream", "remint", "return"}
     \/ r.pc \in Spawning /\ r.ret \in {"mark", "request", "return"}
     \/ r.pc \in Killing /\ r.ret = "remint"

SwapFlow(r) ==
  /\ r.call = "send" /\ r.from \in Sid
  /\ \/ Rotating(r) /\ (r.pc # "insert" => r.sid = r.from)
     \/ r.pc \in {"bindNew", "forward"}
     \/ r.pc \in Spawning /\ r.ret = "forward"

Flow(r) ==
  \/ r.call = "none" /\ r.pc = "idle"
  \/ CreateFlow(r) \/ ArmFlow(r) \/ InterruptFlow(r) \/ TurnFlow(r) \/ SwapFlow(r)

Closed(s) == row[s].status \in {"closed", "deleted"}

(* A turn that is past the checks works on an open session; a rotation     *)
(* retires an open session that has no successor, and makes the successor  *)
(* when it is closed.                                                      *)
Life(r) ==
  /\ Flow(r)
  /\ TurnFlow(r) /\ r.pc \notin {"acquire", "read"} => Open(r.sid)
  /\ SwapFlow(r) /\ Rotating(r) =>
       /\ IF r.pc \in {"unbind", "insert"} THEN Closed(r.from) ELSE Open(r.from)
       /\ \A t \in Sid : row[t].from # r.from

(* A successor follows a session that is closed. *)
Descent ==
  \A t \in Sid : row[t].from # NoSid => Closed(row[t].from) /\ row[t].status # "none"

LifeInv == (\A o \in Op : Life(op[o])) /\ Descent /\ reaper.pc = "sleep"

(* Sessions neither open nor close. *)
SteadyLife ==
  \A s \in Sid : /\ Open(s)' <=> Open(s)
                 /\ Closed(s)' <=> Closed(s)
                 /\ row'[s].from = row[s].from

(* A turn is being delivered by a call only after it was waiting there for *)
(* the session's checks or was being delivered already.                    *)
Keeps(q, r) ==
  r.call = "send" /\ r.pc \notin {"acquire", "read", "finalize"} /\ r.from = NoSid =>
    q.call = "send" /\ q.pc # "acquire" /\ q.from = NoSid /\ q.sid = r.sid

(* A step of a call that opens and closes nothing. *)
Onward(o) ==
  /\ SteadyLife /\ UNCHANGED reaper
  /\ \E r : Become(o, r) /\ Life(r) /\ Keeps(op[o], r)

-----------------------------------------------------------------------------
LEMMA LifeKept ==
  ASSUME SteadyLife, NEW r, LockShape(r), Life(r)
  PROVE  Life(r)'
<1>1. r.call = "send" => r.sid \in Sid
  BY DEF LockShape
<1>2. Flow(r)' <=> Flow(r)
  BY DEF Flow, CreateFlow, ArmFlow, InterruptFlow, TurnFlow, SwapFlow, Rotating
<1>3. TurnFlow(r)' <=> TurnFlow(r)
  BY DEF TurnFlow
<1>4. SwapFlow(r)' <=> SwapFlow(r)
  BY DEF SwapFlow, Rotating
<1>5. TurnFlow(r) => r.sid \in Sid
  BY <1>1 DEF TurnFlow
<1>6. SwapFlow(r) => r.from \in Sid
  BY DEF SwapFlow
<1>7. QED
  BY <1>2, <1>3, <1>4, <1>5, <1>6 DEF Life, SteadyLife, Rotating

LEMMA DescentKept ==
  ASSUME IInv, SteadyLife, Descent
  PROVE  Descent'
<1>1. \A t \in Sid : row[t].from \in Sid \cup {NoSid}
  BY RowHas DEF IInv, RowType
<1>2. \A t \in Sid : row'[t].status = "none" => row[t].status = "none"
  <2>1. \A t \in Sid : row[t].status \in RowStatus
    BY RowHas DEF IInv, RowType
  <2>2. QED
    BY <2>1 DEF SteadyLife, Open, Closed, RowStatus
<1>3. QED
  BY <1>1, <1>2 DEF Descent, SteadyLife, Closed

LEMMA OnwardLife ==
  ASSUME IInv, IInv', LifeInv, NEW o \in Op, Onward(o)
  PROVE  LifeInv'
<1> PICK r : Become(o, r) /\ Life(r)
  BY DEF Onward
<1> SteadyLife /\ UNCHANGED reaper
  BY DEF Onward
<1>1. op'[o] = r /\ \A x \in Op \ {o} : op'[x] = op[x]
  BY DEF Become, IInv, TypeInv, OpInv
<1>2. \A x \in Op : LockShape(op'[x])
  BY DEF IInv, LockInv, LockShape, Rotating
<1>3. ASSUME NEW x \in Op PROVE Life(op[x])'
  <2>1. PICK q : q = op'[x]
    OBVIOUS
  <2>2. Life(q) /\ LockShape(q)
    BY <1>1, <1>2, <2>1 DEF LifeInv
  <2>3. Life(q)'
    BY <2>2, LifeKept
  <2>4. QED
    BY <2>1, <2>3 DEF Life, Flow, CreateFlow, ArmFlow, InterruptFlow, TurnFlow, SwapFlow,
       Rotating, Open, Closed
<1>4. Descent'
  BY DescentKept DEF LifeInv
<1>5. QED
  BY <1>3, <1>4 DEF LifeInv

LEMMA IdleLife == Life(Idle)
BY DEF Life, Flow, TurnFlow, SwapFlow, Idle

LEMMA EndLife ==
  ASSUME IInv, LifeInv, NEW o \in Op, End(o), SteadyLife, UNCHANGED reaper
  PROVE  Onward(o)
BY IdleLife DEF End, Onward, Keeps, Idle

(* A step of a call that stays with what it knows. *)
LEMMA MoveLife ==
  ASSUME IInv, LifeInv, NEW o \in Op, NEW r, Become(o, r), SteadyLife,
         UNCHANGED reaper,
         r.call = op[o].call, r.sid = op[o].sid, r.from = op[o].from, Flow(r),
         op[o].pc \notin {"acquire", "read"},
         Rotating(r) => /\ Rotating(op[o])
                        /\ r.pc \in {"unbind", "insert"} <=> op[o].pc \in {"unbind", "insert"}
  PROVE  Onward(o)
<1>1. Life(op[o])
  BY DEF LifeInv
<1>2. TurnFlow(r) => TurnFlow(op[o])
  BY <1>1, ConstantsAssumption DEF Life, Flow, CreateFlow, ArmFlow, InterruptFlow, TurnFlow, SwapFlow
<1>3. SwapFlow(r) /\ Rotating(r) => SwapFlow(op[o]) /\ Rotating(op[o])
  BY <1>1, ConstantsAssumption DEF Life, Flow, CreateFlow, ArmFlow, InterruptFlow, TurnFlow, SwapFlow
<1>4. Life(r)
  BY <1>1, <1>2, <1>3 DEF Life
<1>5. QED
  BY <1>4 DEF Onward, Keeps

TurnPcs == {"finalize", "disarm", "check", "mark", "storeTurn", "post", "request",
            "notFound", "stream", "remint", "return"}

(* From where a call may go on to pc without learning anything new. *)
Edge(r, pc) ==
  \/ TurnFlow(r) /\ r.pc \notin {"acquire", "read"} /\ pc \in TurnPcs
  \/ (CreateFlow(r) \/ ArmFlow(r) \/ InterruptFlow(r)) /\ pc = "return"
  \/ r.pc = "spawn" /\ pc = "spawned"
  \/ r.pc = "killProcess" /\ pc = "killOnMind"
  \/ SwapFlow(r) /\ r.pc = "spawned" /\ pc = "forward"
  \/ /\ SwapFlow(r) /\ Rotating(r) /\ r.pc \notin {"unbind", "insert"}
     /\ pc \in {"close", "deleteTurns", "deleteBinding", "deleteRow"}
  \/ SwapFlow(r) /\ r.pc = "unbind" /\ pc = "insert"

LEMMA GotoLife ==
  ASSUME IInv, LifeInv, NEW o \in Op, NEW pc, Goto(o, pc), SteadyLife,
         UNCHANGED reaper, Edge(op[o], pc)
  PROVE  Onward(o)
<1> DEFINE r == [op[o] EXCEPT !.pc = pc]
<1>1. op[o] \in OpType /\ Flow(op[o])
  BY OpHas DEF IInv, LifeInv, Life
<1>2. /\ r.pc = pc /\ r.call = op[o].call /\ r.sid = op[o].sid
      /\ r.from = op[o].from /\ r.ret = op[o].ret
  BY <1>1 DEF OpType
<1>3. op[o].pc \notin {"acquire", "read"}
  BY DEF Edge, CreateFlow, ArmFlow, InterruptFlow, SwapFlow, Spawning, Killing,
         Rotating, Retiring
<1>4. Flow(r)
  BY <1>1, <1>2 DEF Edge, Flow, TurnPcs, CreateFlow, ArmFlow, InterruptFlow, TurnFlow,
     SwapFlow, Spawning, Killing, Rotating, Retiring
<1>5. Rotating(r) => /\ Rotating(op[o])
                     /\ r.pc \in {"unbind", "insert"} <=> op[o].pc \in {"unbind", "insert"}
  BY <1>2 DEF Edge, TurnPcs, Rotating, Retiring
<1>6. Become(o, r)
  BY DEF Goto
<1>7. QED
  BY <1>2, <1>3, <1>4, <1>5, <1>6, MoveLife

LEMMA SpawnLife ==
  ASSUME IInv, LifeInv, NEW o \in Op, NEW conv, NEW ret, CallSpawn(o, conv, ret),
         SteadyLife, UNCHANGED reaper,
         \/ TurnFlow(op[o]) /\ op[o].pc \notin {"acquire", "read"}
              /\ ret \in {"mark", "request", "return"}
         \/ CreateFlow(op[o]) /\ ret = "return"
         \/ SwapFlow(op[o]) /\ ret = "forward"
  PROVE  Onward(o)
<1> DEFINE r == [op[o] EXCEPT !.pc = "spawn", !.conv = conv, !.ret = ret]
<1>1. op[o] \in OpType /\ Flow(op[o])
  BY OpHas DEF IInv, LifeInv, Life
<1>2. /\ r.pc = "spawn" /\ r.call = op[o].call /\ r.sid = op[o].sid
      /\ r.from = op[o].from /\ r.ret = ret
  BY <1>1 DEF OpType
<1>3. op[o].pc \notin {"acquire", "read"}
  BY DEF CreateFlow, SwapFlow, Spawning, Rotating, Retiring
<1>4. Flow(r)
  BY <1>1, <1>2 DEF Flow, CreateFlow, TurnFlow, SwapFlow, Spawning
<1>5. ~ Rotating(r)
  BY <1>2 DEF Rotating, Retiring
<1>6. QED
  BY <1>2, <1>3, <1>4, <1>5, MoveLife DEF CallSpawn

LEMMA KillLife ==
  ASSUME IInv, LifeInv, NEW o \in Op, NEW ret, CallKillProcess(o, ret),
         SteadyLife, UNCHANGED reaper,
         \/ InterruptFlow(op[o]) /\ ret = "return"
         \/ /\ SwapFlow(op[o]) /\ op[o].pc = "kill"
            /\ ret \in {"close", "deleteTurns"}
  PROVE  Onward(o)
<1> DEFINE r == [op[o] EXCEPT !.pc = "killProcess", !.ret = ret]
<1>1. op[o] \in OpType /\ Flow(op[o])
  BY OpHas DEF IInv, LifeInv, Life
<1>2. /\ r.pc = "killProcess" /\ r.call = op[o].call /\ r.sid = op[o].sid
      /\ r.from = op[o].from /\ r.ret = ret
  BY <1>1 DEF OpType
<1>3. op[o].pc \notin {"acquire", "read"}
  BY DEF InterruptFlow, Killing
<1>4. Flow(r)
  BY <1>1, <1>2 DEF Flow, InterruptFlow, SwapFlow, Killing, Spawning, Rotating, Retiring
<1>5. Rotating(r) => Rotating(op[o]) /\ op[o].pc = "kill"
  BY <1>2 DEF Rotating, Retiring
<1>6. QED
  BY <1>2, <1>3, <1>4, <1>5, MoveLife DEF CallKillProcess

-----------------------------------------------------------------------------
(* Rows whose status does not open or close *)

LEMMA SameRows == ASSUME UNCHANGED row PROVE SteadyLife
BY DEF SteadyLife, Open, Closed

LEMMA RowsUpdate ==
  ASSUME TypeInv, NEW s \in Sid, NEW r, Update(s, r), r.from = row[s].from,
         r.status = row[s].status \/ (r.status \in {"running", "idle"} /\ Open(s))
  PROVE  SteadyLife
BY DEF Update, SteadyLife, Open, Closed, TypeInv, TypeOK

LEMMA CrashLife == ASSUME IInv, LifeInv, Crash PROVE SteadyLife /\ LifeInv'
<1>1. \A s \in Sid : /\ [row[s] EXCEPT !.status = "idle"].status = "idle"
                     /\ [row[s] EXCEPT !.status = "idle"].from = row[s].from
  BY RowHas DEF IInv, RowType
<1>2. SteadyLife
  BY <1>1 DEF Crash, SteadyLife, Open, Closed
<1>3. \A o \in Op : op'[o] = Idle
  BY DEF Crash
<1>4. \A o \in Op : Life(op[o])'
  <2>1. LockShape(Idle)
    BY DEF LockShape, Rotating, Retiring, Idle
  <2>2. Life(Idle)'
    BY <1>2, <2>1, IdleLife, LifeKept
  <2>3. QED
    BY <1>3, <2>2 DEF Life, Flow, CreateFlow, ArmFlow, InterruptFlow, TurnFlow, SwapFlow,
       Rotating, Open, Closed, Idle
<1>5. Descent'
  BY <1>2, DescentKept DEF LifeInv
<1>6. QED
  BY <1>2, <1>4, <1>5 DEF LifeInv, Crash

-----------------------------------------------------------------------------
(* The steps of a call *)

LEMMA Where ==
  ASSUME LifeInv, NEW o \in Op
  PROVE  /\ op[o].pc \in {"acquire", "read", "finalize", "disarm", "check", "mark",
                          "storeTurn", "post", "request", "notFound", "stream",
                          "remint"} => TurnFlow(op[o])
         /\ op[o].pc \in {"kill", "close", "unbind", "deleteTurns", "deleteBinding",
                          "deleteRow", "forward"} => SwapFlow(op[o])
         /\ op[o].pc \in {"insert", "bindNew"} => CreateFlow(op[o]) \/ SwapFlow(op[o])
         /\ op[o].pc \in {"lookup", "arm"} => ArmFlow(op[o])
         /\ op[o].pc \in {"readRow", "interrupt"} => InterruptFlow(op[o])
         /\ op[o].pc \notin {"setRunning", "adopt", "adoptUnbind", "reread", "bind",
                             "respawnIdle"}
BY DEF LifeInv, Life, Flow, CreateFlow, ArmFlow, InterruptFlow, TurnFlow, SwapFlow,
   Killing, Spawning, Rotating, Retiring

LEMMA StartLife ==
  ASSUME IInv, LifeInv, NEW o \in Op, NEW call, NEW pc, NEW s, NEW c,
         Begin(o, call, pc, s, c), UNCHANGED <<row, reaper>>,
         \/ call = "send" /\ pc = "acquire"
         \/ call = "interrupt" /\ pc = "readRow"
         \/ call = "create" /\ pc = "insert"
         \/ call = "arm" /\ pc = "lookup"
  PROVE  Onward(o)
<1> DEFINE r == [Idle EXCEPT !.call = call, !.pc = pc, !.sid = s, !.client = c, !.owner = c]
<1>1. r.pc = pc /\ r.call = call /\ r.from = NoSid
  BY DEF Idle
<1>2. Life(r)
  BY <1>1, ConstantsAssumption
  DEF Life, Flow, CreateFlow, ArmFlow, InterruptFlow, TurnFlow, SwapFlow
<1>3. QED
  BY <1>1, <1>2, SameRows DEF Begin, Onward, Keeps

LEMMA BeginLife ==
  ASSUME IInv, LifeInv, Calls \subseteq LockedCalls, NEW o \in Op, BeginCall(o)
  PROVE  Onward(o)
<1>1. CASE \E s \in Sid : BeginOnSession(o, s)
  <2>1. PICK s \in Sid : \/ Begin(o, "send", "acquire", s, NoClient)
                         \/ Begin(o, "interrupt", "readRow", s, NoClient)
    BY <1>1 DEF BeginOnSession, Begin, LockedCalls
  <2>2. UNCHANGED <<row, reaper>>
    BY <1>1 DEF BeginOnSession, tables
  <2>3. QED
    BY <2>1, <2>2, StartLife
<1>2. CASE \E c \in Client : BeginOnSurface(o, c)
  <2>1. PICK c \in Client : \/ Begin(o, "create", "insert", NoSid, c)
                            \/ Begin(o, "arm", "lookup", NoSid, c)
    BY <1>2 DEF BeginOnSurface, Begin, LockedCalls
  <2>2. UNCHANGED <<row, reaper>>
    BY <1>2 DEF BeginOnSurface, tables
  <2>3. QED
    BY <2>1, <2>2, StartLife
<1>3. QED
  BY <1>1, <1>2 DEF BeginCall

LEMMA LookupLife ==
  ASSUME IInv, LifeInv, NEW o \in Op, Lookup(o)
  PROVE  Onward(o)
<1> DEFINE r == [op[o] EXCEPT !.sid = active[op[o].client],
                              !.pc = IF op[o].call = "new" THEN "kill" ELSE "arm"]
<1>1. ArmFlow(op[o]) /\ op[o] \in OpType
  BY Where, OpHas DEF Lookup, At, IInv
<1>2. UNCHANGED <<row, reaper>>
  BY DEF Lookup, tables
<1>3. CASE Become(o, r)
  <2>1. r.pc = "arm" /\ r.call = "arm"
    BY <1>1 DEF ArmFlow, OpType
  <2>2. Life(r)
    BY <2>1 DEF Life, Flow, ArmFlow, TurnFlow, SwapFlow
  <2>3. QED
    BY <1>1, <1>2, <1>3, <2>1, <2>2, SameRows DEF Onward, Keeps
<1>4. CASE Goto(o, "return")
  BY <1>1, <1>2, <1>4, SameRows, GotoLife DEF Edge
<1>5. QED
  BY <1>1, <1>3, <1>4 DEF Lookup, ArmFlow

(* Two calls do not work on the same session. *)
LEMMA Elsewhere ==
  ASSUME IInv, NEW x \in Op, NEW y \in Op, x # y, Sending(x), Sending(y)
  PROVE  Target(x) # Target(y)
BY DEF IInv, LockInv, Holds

(* A session opened; it is the successor of the one its maker retired. *)
LEMMA InsertLife ==
  ASSUME IInv, IInv', LifeInv, NEW o \in Op, Insert(o)
  PROVE  LifeInv'
<1>1. PICK s \in Sid :
        /\ row[s].status = "none"
        /\ row' = [row EXCEPT ![s] = [NoRow EXCEPT !.status = "running",
                                        !.owner = op[o].owner, !.from = op[o].from]]
        /\ Become(o, [op[o] EXCEPT !.sid = s, !.pc = "bindNew"])
  BY DEF Insert
<1> DEFINE new == [NoRow EXCEPT !.status = "running",
                                !.owner = op[o].owner, !.from = op[o].from]
           p == op[o].from
<1>2. op[o] \in OpType /\ op[o].pc = "insert" /\ Life(op[o])
  BY OpHas DEF Insert, At, IInv, LifeInv
<1>3. new.status = "running" /\ new.from = p
  BY DEF NoRow
<1>4. row'[s] = new /\ \A t \in Sid \ {s} : row'[t] = row[t]
  BY <1>1 DEF IInv, TypeInv, TypeOK
<1>5. \/ CreateFlow(op[o]) /\ p = NoSid
      \/ SwapFlow(op[o]) /\ p \in Sid /\ Closed(p)
  <2>1. CreateFlow(op[o]) => p = NoSid
    BY DEF CreateFlow
  <2>2. ASSUME SwapFlow(op[o]) PROVE p \in Sid /\ Closed(p)
    <3>1. Rotating(op[o])
      BY <1>2 DEF Rotating, Retiring
    <3>2. QED
      BY <1>2, <2>2, <3>1 DEF Life, SwapFlow
  <2>3. CreateFlow(op[o]) \/ SwapFlow(op[o])
    BY <1>2, Where
  <2>4. QED
    BY <2>1, <2>2, <2>3, Zenon
<1>6. p # NoSid => p # s
  BY <1>1, <1>5 DEF Closed
<1>7. Descent'
  <2> SUFFICES ASSUME NEW t \in Sid, row'[t].from # NoSid
               PROVE  /\ row'[row'[t].from].status \in {"closed", "deleted"}
                      /\ row'[t].status # "none"
    BY DEF Descent, Closed
  <2>1. CASE t = s
    <3>1. row'[t].from = p /\ row'[t].status = "running"
      BY <1>3, <1>4, <2>1
    <3>2. p \in Sid \ {s} /\ row[p].status \in {"closed", "deleted"}
      BY <1>5, <1>6, <3>1 DEF Closed
    <3>3. QED
      BY <1>4, <3>1, <3>2
  <2>2. CASE t # s
    <3>1. /\ row'[t].from = row[t].from /\ Closed(row[t].from) /\ row[t].from \in Sid
          /\ row'[t].status # "none"
      BY <1>4, <2>2, RowHas DEF LifeInv, Descent, IInv, RowType
    <3>2. row[t].from # s
      BY <1>1, <3>1 DEF Closed
    <3>3. QED
      BY <1>4, <3>1, <3>2 DEF Closed
  <2>3. QED
    BY <2>1, <2>2
<1>8. op'[o] = [op[o] EXCEPT !.sid = s, !.pc = "bindNew"] /\ \A x \in Op \ {o} : op'[x] = op[x]
  BY <1>1 DEF Become, IInv, TypeInv, OpInv
<1>9. Life(op[o])'
  <2>1. PICK r : r = op'[o]
    OBVIOUS
  <2>2. r.pc = "bindNew" /\ r.call = op[o].call /\ r.from = p
    BY <1>2, <1>8, <2>1 DEF OpType
  <2>3. CreateFlow(r) \/ SwapFlow(r)
    BY <1>5, <2>2 DEF CreateFlow, SwapFlow
  <2>4. ~ Rotating(r) /\ ~ TurnFlow(r)
    BY <2>2 DEF Rotating, Retiring, TurnFlow, Spawning, Killing
  <2>5. QED
    BY <2>1, <2>3, <2>4 DEF Life, Flow, CreateFlow, ArmFlow, InterruptFlow, TurnFlow,
       SwapFlow, Rotating
<1>10. ASSUME NEW x \in Op \ {o} PROVE Life(op[x])'
  <2>1. PICK r : r = op[x]
    OBVIOUS
  <2>2. Life(r) /\ LockShape(r)
    BY <2>1 DEF LifeInv, IInv, LockInv
  <2>3. TurnFlow(r) /\ r.pc \notin {"acquire", "read"} => r.sid \in Sid /\ r.sid # s
    BY <1>1, <2>2 DEF Life, TurnFlow, LockShape, Open
  <2>4. ASSUME SwapFlow(r), Rotating(r) PROVE r.from \in Sid /\ r.from # s /\ r.from # p
    <3>1. r.from \in Sid /\ r.from # s
      BY <1>1, <2>2, <2>4 DEF Life, SwapFlow, Open, Closed
    <3>2. CASE p = NoSid
      BY <3>1, <3>2, ConstantsAssumption
    <3>3. CASE p # NoSid
      <4>1. Sending(x) /\ Sending(o)
        BY <1>2, <1>5, <2>1, <2>4, <3>3 DEF SwapFlow, CreateFlow, Sending, Rotating, Retiring
      <4>2. Target(x) = r.from /\ Target(o) = p
        BY <2>1, <3>1, <3>3, ConstantsAssumption DEF Target
      <4>3. QED
        BY <3>1, <4>1, <4>2, Elsewhere
    <3>4. QED
      BY <3>2, <3>3
  <2>5. Life(r)'
    <3>1. Flow(r)'
      BY <2>2 DEF Life, Flow, CreateFlow, ArmFlow, InterruptFlow, TurnFlow, SwapFlow, Rotating
    <3>2. TurnFlow(r) /\ r.pc \notin {"acquire", "read"} => Open(r.sid)'
      BY <1>4, <2>2, <2>3 DEF Life, Open
    <3>3. SwapFlow(r) /\ Rotating(r) =>
            /\ IF r.pc \in {"unbind", "insert"} THEN Closed(r.from)' ELSE Open(r.from)'
            /\ \A t \in Sid : row'[t].from # r.from
      BY <1>3, <1>4, <2>2, <2>4, ZenonT(30) DEF Life, Open, Closed
    <3>4. QED
      BY <3>1, <3>2, <3>3 DEF Life, TurnFlow, SwapFlow, Rotating
  <2>6. QED
    BY <1>8, <2>1, <2>5 DEF Life, Flow, CreateFlow, ArmFlow, InterruptFlow, TurnFlow,
       SwapFlow, Rotating, Open, Closed
<1>11. UNCHANGED reaper
  BY DEF Insert
<1>12. QED
  BY <1>7, <1>9, <1>10, <1>11 DEF LifeInv

(* The retired session closes, and nobody else works on it. *)
LEMMA CloseLife ==
  ASSUME IInv, IInv', LifeInv, NEW o \in Op,
         NEW r, Become(o, r), NEW status \in {"closed", "deleted"},
         UpdateStatus(op[o].sid, status), UNCHANGED reaper,
         SwapFlow(op[o]), op[o].pc \in {"close", "deleteRow"},
         r.pc \in {"unbind", "insert"}, r.call = "send", r.sid = op[o].sid,
         r.from = op[o].from
  PROVE  LifeInv'
<1> DEFINE p == op[o].from
<1>1. p \in Sid /\ op[o].sid = p /\ Life(op[o]) /\ Rotating(op[o])
  BY DEF SwapFlow, Rotating, Retiring, LifeInv, Spawning, Killing
<1>2. Open(p) /\ \A t \in Sid : row[t].from # p
  BY <1>1 DEF Life
<1>3. /\ row'[p].status = status /\ row'[p].from = row[p].from
      /\ \A t \in Sid \ {p} : row'[t] = row[t]
  <2>1. /\ [row[p] EXCEPT !.status = status].status = status
        /\ [row[p] EXCEPT !.status = status].from = row[p].from
    BY <1>1, RowHas DEF IInv, RowType
  <2>2. row' = [row EXCEPT ![p] = [row[p] EXCEPT !.status = status]]
    BY <1>1, <1>2 DEF UpdateStatus, Update, Exists, Open
  <2>3. QED
    BY <1>1, <2>1, <2>2 DEF IInv, TypeInv, TypeOK
<1>4. \A t \in Sid : row'[t].from = row[t].from
  BY <1>3
<1>5. Descent'
  <2>1. ASSUME NEW t \in Sid, row[t].from # NoSid
        PROVE  row'[row[t].from].status \in {"closed", "deleted"} /\ row'[t].status # "none"
    BY <1>3, <2>1, RowHas DEF LifeInv, Descent, Closed, IInv, RowType
  <2>2. QED
    BY <1>4, <2>1 DEF Descent, Closed
<1>6. op'[o] = r /\ \A x \in Op \ {o} : op'[x] = op[x]
  BY DEF Become, IInv, TypeInv, OpInv
<1>7. Life(op[o])'
  <2>1. SwapFlow(r) /\ ~ TurnFlow(r)
    BY <1>1, ConstantsAssumption DEF SwapFlow, TurnFlow, Rotating, Retiring
  <2>2. row'[r.from].status \in {"closed", "deleted"} /\ \A t \in Sid : row'[t].from # r.from
    BY <1>2, <1>3, <1>4
  <2>3. Life(r)'
    BY <2>1, <2>2 DEF Life, Flow, TurnFlow, SwapFlow, Rotating, Closed
  <2>4. QED
    BY <1>6, <2>3 DEF Life, Flow, CreateFlow, ArmFlow, InterruptFlow, TurnFlow, SwapFlow,
       Rotating, Open, Closed
<1>8. ASSUME NEW x \in Op \ {o} PROVE Life(op[x])'
  <2>1. PICK q : q = op[x]
    OBVIOUS
  <2>2. Life(q) /\ LockShape(q)
    BY <2>1 DEF LifeInv, IInv, LockInv
  <2>3. Sending(o) /\ Target(o) = p
    BY <1>1, ConstantsAssumption DEF Sending, Target, SwapFlow
  <2>4. TurnFlow(q) /\ q.pc \notin {"acquire", "read"} => q.sid \in Sid /\ q.sid # p
    BY <2>1, <2>2, <2>3, Elsewhere DEF TurnFlow, LockShape, Sending, Target
  <2>5. SwapFlow(q) /\ Rotating(q) => q.from \in Sid /\ q.from # p
    BY <2>1, <2>3, Elsewhere, ConstantsAssumption DEF SwapFlow, Sending, Target, Rotating, Retiring
  <2>6. Life(q)'
    <3>1. Flow(q)'
      BY <2>2 DEF Life, Flow, CreateFlow, ArmFlow, InterruptFlow, TurnFlow, SwapFlow, Rotating
    <3>2. TurnFlow(q) /\ q.pc \notin {"acquire", "read"} => Open(q.sid)'
      BY <1>3, <2>2, <2>4 DEF Life, Open
    <3>3. SwapFlow(q) /\ Rotating(q) =>
            /\ IF q.pc \in {"unbind", "insert"} THEN Closed(q.from)' ELSE Open(q.from)'
            /\ \A t \in Sid : row'[t].from # q.from
      BY <1>3, <1>4, <2>2, <2>5 DEF Life, Open, Closed
    <3>4. QED
      BY <3>1, <3>2, <3>3 DEF Life, TurnFlow, SwapFlow, Rotating
  <2>7. QED
    BY <1>6, <2>1, <2>6 DEF Life, Flow, CreateFlow, ArmFlow, InterruptFlow, TurnFlow,
       SwapFlow, Rotating, Open, Closed
<1>9. QED
  BY <1>5, <1>7, <1>8 DEF LifeInv

-----------------------------------------------------------------------------
(* The other steps neither open nor close a session *)

LEMMA ReadingLife ==
  ASSUME IInv, LifeInv, NEW o \in Op, ReadRow(o) \/ Read(o) \/ Acquire(o)
  PROVE  Onward(o)
<1>1. UNCHANGED <<row, reaper>> /\ SteadyLife
  BY SameRows DEF ReadRow, Read, Acquire, tables
<1>2. op[o] \in OpType
  BY OpHas DEF IInv
<1>3. CASE End(o)
  BY <1>1, <1>3, EndLife
<1>4. CASE ReadRow(o) /\ ~ End(o)
  <2> DEFINE s == op[o].sid
             r == [[op[o] EXCEPT !.conv = row[s].conv, !.status = row[s].status]
                     EXCEPT !.pc = IF s \in procs THEN "interrupt" ELSE "return"]
  <2>1. InterruptFlow(op[o])
    BY <1>4, Where DEF ReadRow, At
  <2>2. Become(o, r)
    BY <1>4, <2>1 DEF ReadRow, InterruptFlow
  <2>3. r.call = "interrupt" /\ r.pc \in {"interrupt", "return"}
    BY <1>2, <2>1 DEF InterruptFlow, OpType
  <2>4. Life(r)
    BY <2>3 DEF Life, Flow, InterruptFlow, TurnFlow, SwapFlow
  <2>5. QED
    BY <1>1, <2>2, <2>3, <2>4 DEF Onward, Keeps
<1>5. CASE Read(o) /\ ~ End(o)
  <2> DEFINE s == op[o].sid
             r == [op[o] EXCEPT !.conv = row[s].conv, !.owner = row[s].owner,
                                !.pc = IF row[s].armed THEN "finalize" ELSE "check"]
  <2>1. TurnFlow(op[o]) /\ op[o].pc = "read"
    BY <1>5, Where DEF Read, At
  <2>2. Become(o, r) /\ Open(s)
    BY <1>5 DEF Read
  <2>3. /\ r.call = op[o].call /\ r.sid = s /\ r.from = op[o].from
        /\ r.pc \in {"finalize", "check"}
    BY <1>2 DEF OpType
  <2>4. Life(r)
    BY <2>1, <2>2, <2>3, ConstantsAssumption DEF Life, Flow, TurnFlow, SwapFlow
  <2>5. QED
    BY <1>1, <2>1, <2>2, <2>3, <2>4 DEF Onward, Keeps, TurnFlow
<1>6. CASE Acquire(o)
  <2> DEFINE r == [op[o] EXCEPT !.pc = "read"]
  <2>1. TurnFlow(op[o])
    BY <1>6, Where DEF Acquire, At
  <2>2. Become(o, r)
    BY <1>6 DEF Acquire, Goto
  <2>3. r.call = op[o].call /\ r.from = op[o].from /\ r.pc = "read"
    BY <1>2 DEF OpType
  <2>4. Life(r)
    BY <2>1, <2>3, ConstantsAssumption DEF Life, Flow, TurnFlow, SwapFlow
  <2>5. QED
    BY <1>1, <2>2, <2>3, <2>4 DEF Onward, Keeps
<1>7. QED
  BY <1>3, <1>4, <1>5, <1>6

(* An armed session that has a successor would be closed (Descent).        *)
LEMMA FinalizeLife ==
  ASSUME IInv, LifeInv, NEW o \in Op, Finalize(o)
  PROVE  Onward(o)
<1>1. UNCHANGED <<row, reaper>> /\ SteadyLife
  BY SameRows DEF Finalize, tables
<1>2. op[o] \in OpType /\ op[o].sid \in Sid
  BY OpHas DEF Finalize, At, IInv, Shape, NoSession
<1>3. TurnFlow(op[o]) /\ op[o].pc = "finalize"
  BY Where DEF Finalize, At
<1>4. Open(op[o].sid)
  BY <1>3 DEF LifeInv, Life
<1>5. \A t \in Sid : row[t].from # op[o].sid
  BY <1>2, <1>4, ConstantsAssumption DEF LifeInv, Descent, Open, Closed
<1>6. ASSUME NEW c \in Client,
             Become(o, [op[o] EXCEPT !.pc = "kill", !.client = c, !.from = op[o].sid])
      PROVE  Onward(o)
  <2> DEFINE r == [op[o] EXCEPT !.pc = "kill", !.client = c, !.from = op[o].sid]
  <2>1. r.pc = "kill" /\ r.call = op[o].call /\ r.sid = op[o].sid /\ r.from = op[o].sid
    BY <1>2 DEF OpType
  <2>2. SwapFlow(r) /\ ~ TurnFlow(r) /\ r.from # NoSid
    BY <1>2, <1>3, <2>1, ConstantsAssumption DEF SwapFlow, TurnFlow, Rotating, Retiring
  <2>3. Life(r)
    BY <1>4, <1>5, <2>1, <2>2 DEF Life, Flow
  <2>4. QED
    BY <1>1, <1>6, <2>2, <2>3 DEF Onward, Keeps
<1>7. CASE Goto(o, "disarm")
  BY <1>1, <1>3, <1>7, GotoLife DEF Edge, TurnPcs
<1>8. QED
  BY <1>6, <1>7 DEF Finalize

LEMMA ForwardLife ==
  ASSUME IInv, LifeInv, NEW o \in Op, Forward(o)
  PROVE  Onward(o)
<1> DEFINE r == [Idle EXCEPT !.call = "send", !.pc = "acquire", !.sid = op[o].sid]
<1>1. UNCHANGED <<row, reaper>> /\ SteadyLife
  BY SameRows DEF Forward, tables
<1>2. r.call = "send" /\ r.pc = "acquire" /\ r.from = NoSid
  BY DEF Idle
<1>3. Life(r)
  BY <1>2, ConstantsAssumption DEF Life, Flow, TurnFlow, SwapFlow
<1>4. QED
  BY <1>1, <1>2, <1>3 DEF Onward, Keeps, Forward

LEMMA RequestLife ==
  ASSUME IInv, LifeInv, NEW o \in Op, Request(o) \/ NotFound(o) \/ StaleResume(o)
  PROVE  Onward(o)
<1>1. UNCHANGED <<row, reaper>> /\ SteadyLife
  BY SameRows DEF Request, NotFound, StaleResume, tables
<1>2. op[o] \in OpType /\ TurnFlow(op[o]) /\ op[o].pc \notin {"acquire", "read"}
  BY OpHas, Where DEF Request, NotFound, StaleResume, At, IInv
<1>3. CASE End(o)
  BY <1>1, <1>3, EndLife
<1>4. ASSUME NEW pc \in {"notFound", "return"}, Goto(o, pc) PROVE Onward(o)
  BY <1>1, <1>2, <1>4, GotoLife DEF Edge, TurnPcs
<1>5. ASSUME NEW r, Become(o, r), r.call = "send", r.sid = op[o].sid,
             r.from = op[o].from,
             \/ r.pc = "stream"
             \/ r.pc = "spawn" /\ r.ret = "request"
             \/ r.pc = "killProcess" /\ r.ret = "remint"
      PROVE  Onward(o)
  <2>1. TurnFlow(r)
    BY <1>2, <1>5 DEF TurnFlow, Spawning, Killing
  <2>2. ~ Rotating(r)
    BY <1>5 DEF Rotating, Retiring
  <2>3. r.call = op[o].call
    BY <1>2, <1>5 DEF TurnFlow
  <2>4. QED
    BY <1>1, <1>2, <1>5, <2>1, <2>2, <2>3, MoveLife DEF Flow
<1>6. CASE Request(o)
  <2> DEFINE r == [op[o] EXCEPT !.pc = "stream", !.posted = TRUE]
  <2>1. r.call = "send" /\ r.sid = op[o].sid /\ r.from = op[o].from /\ r.pc = "stream"
    BY <1>2 DEF OpType, TurnFlow
  <2>2. QED
    BY <1>4, <1>5, <1>6, <2>1 DEF Request
<1>7. CASE NotFound(o)
  <2> DEFINE r == [op[o] EXCEPT !.pc = "spawn", !.ret = "request", !.retried = TRUE]
  <2>1. /\ r.call = "send" /\ r.sid = op[o].sid /\ r.from = op[o].from
        /\ r.pc = "spawn" /\ r.ret = "request"
    BY <1>2 DEF OpType, TurnFlow
  <2>2. QED
    BY <1>3, <1>5, <1>7, <2>1 DEF NotFound
<1>8. CASE StaleResume(o)
  <2> DEFINE r == [op[o] EXCEPT !.pc = "killProcess", !.ret = "remint",
                                !.retried = TRUE, !.posted = FALSE]
  <2>1. /\ r.call = "send" /\ r.sid = op[o].sid /\ r.from = op[o].from
        /\ r.pc = "killProcess" /\ r.ret = "remint"
    BY <1>2 DEF OpType, TurnFlow
  <2>2. QED
    BY <1>5, <1>8, <2>1 DEF StaleResume
<1>9. QED
  BY <1>6, <1>7, <1>8

(* Statements on a row that leave it as open as it is. *)
LEMMA RowsLife ==
  ASSUME IInv, LifeInv, NEW o \in Op, Arm(o) \/ Disarm(o) \/ Mark(o) \/ Remint(o)
  PROVE  Onward(o)
<1> DEFINE s == op[o].sid
<1>1. s \in Sid /\ row[s] \in RowType /\ TypeInv
  BY OpHas, RowHas DEF Arm, Disarm, Mark, Remint, At, IInv, Shape, NoSession
<1>2. UNCHANGED reaper
  BY DEF Arm, Disarm, Mark, Remint
<1>3. CASE Arm(o)
  <2> DEFINE r == [row[s] EXCEPT !.armed = TRUE]
  <2>1. r.from = row[s].from /\ r.status = row[s].status
    BY <1>1 DEF RowType
  <2>2. SteadyLife
    BY <1>1, <1>3, <2>1, RowsUpdate DEF Arm
  <2>3. ArmFlow(op[o])
    BY <1>3, Where DEF Arm, At
  <2>4. QED
    BY <1>2, <1>3, <2>2, <2>3, GotoLife DEF Edge, Arm
<1>4. CASE ~ Arm(o)
  <2>1. TurnFlow(op[o]) /\ op[o].pc \notin {"acquire", "read"}
    BY <1>4, Where DEF Disarm, Mark, Remint, At
  <2>2. Open(s)
    BY <2>1 DEF LifeInv, Life
  <2>3. CASE Disarm(o)
    <3> DEFINE r == [row[s] EXCEPT !.armed = FALSE]
    <3>1. r.from = row[s].from /\ r.status = row[s].status
      BY <1>1 DEF RowType
    <3>2. SteadyLife
      BY <1>1, <2>3, <3>1, RowsUpdate DEF Disarm
    <3>3. QED
      BY <1>2, <2>1, <2>3, <3>2, GotoLife DEF Edge, TurnPcs, Disarm
  <2>4. CASE Mark(o)
    <3> DEFINE r == [row[s] EXCEPT !.status = "running", !.old = FALSE]
    <3>1. r.from = row[s].from /\ r.status = "running"
      BY <1>1 DEF RowType
    <3>2. SteadyLife
      BY <1>1, <2>2, <2>4, <3>1, RowsUpdate DEF Mark
    <3>3. QED
      BY <1>2, <2>1, <2>4, <3>2, GotoLife DEF Edge, TurnPcs, Mark
  <2>5. CASE Remint(o)
    <3> DEFINE r == [row[s] EXCEPT !.conv = row[s].conv + 1]
    <3>1. r.from = row[s].from /\ r.status = row[s].status
      BY <1>1 DEF RowType
    <3>2. SteadyLife
      BY <1>1, <2>5, <3>1, RowsUpdate DEF Remint
    <3>3. QED
      BY <1>2, <2>1, <2>5, <3>2, SpawnLife DEF Remint
  <2>6. QED
    BY <1>4, <2>3, <2>4, <2>5
<1>5. QED
  BY <1>3, <1>4

(* A call that does not fail where it stands goes on from there. *)
LEMMA MovingLife ==
  ASSUME IInv, LifeInv, NEW o \in Op,
         \/ SpawnOnMind(o) \/ Spawned(o) \/ KillProcess(o) \/ KillOnMind(o)
         \/ UnbindClosed(o) \/ DeleteTurns(o) \/ DeleteBinding(o) \/ Finish(o)
  PROVE  Onward(o)
<1>1. UNCHANGED <<row, reaper>> /\ SteadyLife
  BY SameRows DEF SpawnOnMind, Spawned, KillProcess, KillOnMind, UnbindClosed,
     DeleteTurns, DeleteBinding, Finish, tables
<1>2. Life(op[o]) /\ Flow(op[o])
  BY DEF LifeInv, Life
<1>3. SUFFICES \E pc : Goto(o, pc) /\ Edge(op[o], pc)
  BY <1>1, GotoLife
<1>4. CASE SpawnOnMind(o)
  BY <1>4 DEF SpawnOnMind, At, Edge
<1>5. CASE Spawned(o)
  <2>1. op[o].pc = "spawned" /\ Goto(o, op[o].ret)
    BY <1>5 DEF Spawned, At
  <2>2. Edge(op[o], op[o].ret)
    BY <1>2, <2>1 DEF Flow, CreateFlow, ArmFlow, InterruptFlow, TurnFlow, SwapFlow,
       Spawning, Killing, Rotating, Retiring, Edge, TurnPcs
  <2>3. QED
    BY <2>1, <2>2
<1>6. CASE KillProcess(o)
  BY <1>6 DEF KillProcess, At, Edge
<1>7. CASE KillOnMind(o)
  <2>1. op[o].pc = "killOnMind" /\ Goto(o, op[o].ret)
    BY <1>7 DEF KillOnMind, At
  <2>2. Edge(op[o], op[o].ret)
    BY <1>2, <2>1 DEF Flow, CreateFlow, ArmFlow, InterruptFlow, TurnFlow, SwapFlow,
       Spawning, Killing, Rotating, Retiring, Edge, TurnPcs
  <2>3. QED
    BY <2>1, <2>2
<1>8. CASE UnbindClosed(o)
  <2>1. SwapFlow(op[o]) /\ op[o].pc = "unbind"
    BY <1>8, Where DEF UnbindClosed, At
  <2>2. Goto(o, "insert")
    BY <1>8, <2>1 DEF UnbindClosed, AfterKill, SwapFlow
  <2>3. QED
    BY <2>1, <2>2 DEF Edge
<1>9. CASE DeleteTurns(o) \/ DeleteBinding(o)
  <2>1. SwapFlow(op[o]) /\ op[o].pc \in {"deleteTurns", "deleteBinding"}
    BY <1>9, Where DEF DeleteTurns, DeleteBinding, At
  <2>2. Goto(o, "deleteBinding") \/ Goto(o, "deleteRow")
    BY <1>9 DEF DeleteTurns, DeleteBinding
  <2>3. QED
    BY <2>1, <2>2 DEF Edge, Rotating, Retiring
<1>10. CASE Finish(o)
  <2>1. TurnFlow(op[o]) /\ op[o].pc = "stream"
    BY <1>10, Where DEF Finish, At
  <2>2. Goto(o, "return")
    BY <1>10 DEF Finish
  <2>3. QED
    BY <2>1, <2>2 DEF Edge, TurnPcs
<1>11. QED
  BY <1>4, <1>5, <1>6, <1>7, <1>8, <1>9, <1>10

(* A call that goes on unless it fails. *)
LEMMA TryingLife ==
  ASSUME IInv, LifeInv, NEW o \in Op,
         \/ BindNew(o) \/ Kill(o) \/ Interrupt(o)
         \/ NeedsRespawn(o) \/ StoreTurn(o) \/ CheckProc(o)
  PROVE  Onward(o)
<1>1. UNCHANGED <<row, reaper>> /\ SteadyLife
  BY SameRows DEF BindNew, Kill, Interrupt, NeedsRespawn, StoreTurn, CheckProc, tables
<1>2. CASE End(o)
  BY <1>1, <1>2, EndLife
<1>3. CASE BindNew(o) /\ ~ End(o)
  <2>1. CreateFlow(op[o]) \/ SwapFlow(op[o])
    BY <1>3, Where DEF BindNew, At
  <2>2. CallSpawn(o, 0, IF op[o].call = "send" THEN "forward" ELSE "return")
    BY <1>3 DEF BindNew
  <2>3. CreateFlow(op[o]) => op[o].call # "send"
    BY DEF CreateFlow
  <2>4. SwapFlow(op[o]) => op[o].call = "send"
    BY DEF SwapFlow
  <2>5. QED
    BY <1>1, <2>1, <2>2, <2>3, <2>4, SpawnLife
<1>4. CASE Kill(o) /\ ~ End(o)
  <2>1. SwapFlow(op[o]) /\ op[o].pc = "kill"
    BY <1>4, Where DEF Kill, At
  <2>2. CallKillProcess(o, "close") \/ CallKillProcess(o, "deleteTurns")
    BY <1>4 DEF Kill
  <2>3. QED
    BY <1>1, <2>1, <2>2, KillLife
<1>5. CASE Interrupt(o) /\ ~ End(o)
  <2>1. InterruptFlow(op[o])
    BY <1>5, Where DEF Interrupt, At
  <2>2. CallKillProcess(o, "return")
    BY <1>5 DEF Interrupt
  <2>3. QED
    BY <1>1, <2>1, <2>2, KillLife
<1>6. CASE NeedsRespawn(o)
  <2>1. TurnFlow(op[o]) /\ op[o].pc = "check"
    BY <1>6, Where DEF NeedsRespawn, At
  <2>2. CASE Goto(o, "mark")
    BY <1>1, <2>1, <2>2, GotoLife DEF Edge, TurnPcs
  <2>3. CASE CallSpawn(o, op[o].conv, "mark")
    BY <1>1, <2>1, <2>3, SpawnLife
  <2>4. QED
    BY <1>6, <2>2, <2>3 DEF NeedsRespawn
<1>7. CASE (StoreTurn(o) \/ CheckProc(o)) /\ ~ End(o)
  <2>1. TurnFlow(op[o]) /\ op[o].pc \in {"storeTurn", "post"}
    BY <1>7, Where DEF StoreTurn, CheckProc, At
  <2>2. Goto(o, "post") \/ Goto(o, "request")
    BY <1>7 DEF StoreTurn, CheckProc
  <2>3. QED
    BY <1>1, <2>1, <2>2, GotoLife DEF Edge, TurnPcs
<1>8. QED
  BY <1>2, <1>3, <1>4, <1>5, <1>6, <1>7

(* A rotation whose session is killed closes it or deletes it. *)
Retires(o) ==
  /\ SwapFlow(op[o]) /\ op[o].pc \in {"close", "deleteRow"}
  /\ \E status \in {"closed", "deleted"} : UpdateStatus(op[o].sid, status)
  /\ UNCHANGED reaper
  /\ \E r : /\ Become(o, r)
            /\ r.pc \in {"unbind", "insert"} /\ r.call = "send"
            /\ r.sid = op[o].sid /\ r.from = op[o].from

LEMMA ClosingLife ==
  ASSUME IInv, LifeInv, NEW o \in Op, Close(o) \/ DeleteRow(o)
  PROVE  Onward(o) \/ Retires(o)
<1>1. SwapFlow(op[o]) /\ op[o].pc \in {"close", "deleteRow"} /\ op[o] \in OpType
  BY Where, OpHas DEF Close, DeleteRow, At, IInv
<1>2. UNCHANGED reaper
  BY DEF Close, DeleteRow
<1>3. CASE Referenced(op[o].sid) /\ DeleteRow(o)
  <2>1. End(o) /\ UNCHANGED row
    BY <1>3 DEF DeleteRow
  <2>2. QED
    BY <1>2, <2>1, SameRows, EndLife
<1>4. CASE Close(o) \/ ~ Referenced(op[o].sid)
  <2>1. PICK pc \in {"unbind", "insert"} : Goto(o, pc)
    BY <1>1, <1>4 DEF Close, DeleteRow, AfterKill, SwapFlow
  <2>2. UpdateStatus(op[o].sid, "closed") \/ UpdateStatus(op[o].sid, "deleted")
    BY <1>4 DEF Close, DeleteRow
  <2> DEFINE r == [op[o] EXCEPT !.pc = pc]
  <2>3. /\ Become(o, r) /\ r.pc \in {"unbind", "insert"} /\ r.call = "send"
        /\ r.sid = op[o].sid /\ r.from = op[o].from
    BY <1>1, <2>1 DEF Goto, OpType, SwapFlow
  <2>4. QED
    BY <1>1, <1>2, <2>2, <2>3 DEF Retires
<1>5. QED
  BY <1>3, <1>4

LEMMA StepLife ==
  ASSUME IInv, LifeInv, NEW o \in Op, Step(o)
  PROVE  Onward(o) \/ Insert(o) \/ Retires(o)
<1>1. CASE Return(o) \/ CreateRefused(o) \/ SpawnFails(o)
  <2>1. End(o) /\ UNCHANGED <<row, reaper>>
    BY <1>1 DEF Return, CreateRefused, SpawnFails, tables
  <2>2. QED
    BY <2>1, SameRows, EndLife
<1>2. CASE SetRunning(o) \/ Adopt(o) \/ AdoptUnbind(o) \/ Reread(o) \/ Bind(o) \/ RespawnIdle(o)
  BY <1>2, Where DEF SetRunning, Adopt, AdoptUnbind, Reread, Bind, RespawnIdle, At
<1>3. QED
  BY <1>1, <1>2, LookupLife, ReadingLife, FinalizeLife, ForwardLife, RequestLife, RowsLife,
     MovingLife, TryingLife, ClosingLife
  DEF Step

LEMMA NextLife ==
  ASSUME IInv, IInv', LifeInv, Calls \subseteq LockedCalls, [Next]_vars
  PROVE  \/ \E o \in Op : Onward(o) \/ Insert(o) \/ Retires(o)
         \/ Crash
         \/ UNCHANGED <<row, op, reaper>>
<1>1. CASE \E o \in Op : BeginCall(o)
  BY <1>1, BeginLife
<1>2. CASE \E o \in Op : Acquire(o) \/ Step(o)
  BY <1>2, StepLife, ReadingLife
<1>3. ASSUME NEW o \in Op, Cancel(o) PROVE Onward(o)
  BY <1>3, SameRows, EndLife DEF Cancel, tables
<1>4. ~ Reaper /\ \A s \in Sid : ~ Age(s)
  BY DEF Reaper, ReapSelect, ReapClose, ReapUnbind, Age, LifeInv, LockedCalls
<1>5. CASE (\E s \in Sid : MindDrops(s)) \/ UNCHANGED vars
  BY <1>5 DEF MindDrops, tables, vars
<1>6. QED
  BY <1>1, <1>2, <1>3, <1>4, <1>5 DEF Next

LEMMA InitLife == ASSUME Init PROVE LifeInv
<1>1. \A s \in Sid : row[s].from = NoSid
  BY DEF Init, NoRow
<1>2. QED
  BY <1>1, IdleLife DEF Init, LifeInv, Descent

LEMMA RetiresLife ==
  ASSUME IInv, IInv', LifeInv, NEW o \in Op, Retires(o)
  PROVE  LifeInv'
BY CloseLife DEF Retires

LEMMA LifeHolds ==
  ASSUME IInv, IInv', LifeInv, Calls \subseteq LockedCalls, [Next]_vars
  PROVE  LifeInv'
<1>1. CASE UNCHANGED <<row, op, reaper>>
  BY <1>1 DEF LifeInv, Life, Flow, CreateFlow, ArmFlow, InterruptFlow, TurnFlow,
     SwapFlow, Rotating, Open, Closed, Descent
<1>2. QED
  BY <1>1, NextLife, OnwardLife, InsertLife, RetiresLife, CrashLife

-----------------------------------------------------------------------------
(* What the abstract specification sees *)

State == [s \in Sid |-> IF row[s].status = "none" THEN "absent"
                        ELSE IF Open(s) THEN "open" ELSE "closed"]
From == [s \in Sid |-> row[s].from]
Busy == {op[o].sid : o \in {x \in Op : Delivering(x)}}

LEMMA SteadyView ==
  ASSUME TypeInv, TypeInv', SteadyLife
  PROVE  State' = State /\ From' = From
<1>1. \A s \in Sid : (row'[s].status = "none") = (row[s].status = "none")
  <2>1. \A s \in Sid : row[s].status \in RowStatus /\ row'[s].status \in RowStatus
    BY DEF TypeInv, TypeOK, RowType
  <2>2. QED
    BY <2>1 DEF SteadyLife, Open, Closed, RowStatus
<1>2. \A s \in Sid : Open(s)' = Open(s) /\ row'[s].from = row[s].from
  BY DEF SteadyLife, Open
<1>3. From' = From
  BY <1>2 DEF From
<1>4. \A s \in Sid : State'[s] = State[s]
  BY <1>1, <1>2 DEF State
<1>5. QED
  BY <1>3, <1>4 DEF State

LEMMA EndTurnsView ==
  ASSUME State' = State, From' = From, Busy' \subseteq Busy
  PROVE  Lifecycle!Next
<1>1. Busy \ Busy' \in SUBSET Busy /\ Busy' = Busy \ (Busy \ Busy')
  OBVIOUS
<1>2. Lifecycle!EndTurns
  BY <1>1 DEF Lifecycle!EndTurns, State, From, Busy
<1>3. QED
  BY <1>2 DEF Lifecycle!Next

LEMMA BeginTurnView ==
  ASSUME NEW s \in Sid, State' = State, From' = From,
         State[s] = "open", s \notin Busy, Busy' = Busy \cup {s}
  PROVE  Lifecycle!Next
<1>1. Lifecycle!BeginTurn(s)
  BY DEF Lifecycle!BeginTurn, State, From, Busy
<1>2. QED
  BY <1>1 DEF Lifecycle!Next

LEMMA CloseView ==
  ASSUME NEW s \in Sid, State[s] = "open", s \notin Busy,
         State' = [State EXCEPT ![s] = "closed"], From' = From, Busy' = Busy
  PROVE  Lifecycle!Next
<1>1. Lifecycle!Close(s)
  BY DEF Lifecycle!Close, State, From, Busy
<1>2. QED
  BY <1>1 DEF Lifecycle!Next

LEMMA OpenView ==
  ASSUME NEW s \in Sid, State[s] = "absent",
         State' = [State EXCEPT ![s] = "open"], Busy' = Busy,
         \/ From' = From
         \/ \E p \in Sid : /\ State[p] = "closed"
                           /\ \A t \in Sid : From[t] # p
                           /\ From' = [From EXCEPT ![s] = p]
  PROVE  Lifecycle!Next
<1>1. Lifecycle!Open(s)
  BY DEF Lifecycle!Open, State, From, Busy
<1>2. QED
  BY <1>1 DEF Lifecycle!Next

Delivers(r) ==
  /\ r.call = "send" /\ r.pc # "acquire" /\ r.from = NoSid
  /\ r.pc \notin {"read", "finalize"}

LEMMA BusyView ==
  ASSUME IInv, NEW o \in Op, NEW r, Become(o, r), ~ Delivers(r)
  PROVE  Busy' \subseteq Busy /\ (~ Delivering(o) => Busy' = Busy)
<1>1. op'[o] = r /\ \A x \in Op \ {o} : op'[x] = op[x]
  BY DEF Become, IInv, TypeInv, OpInv
<1>2. ~ Delivering(o)' /\ \A x \in Op \ {o} : Delivering(x)' = Delivering(x)
  BY <1>1 DEF Delivering, Sending, Delivers
<1>3. QED
  BY <1>1, <1>2 DEF Busy

LEMMA NotBusy ==
  ASSUME IInv, NEW o \in Op, Sending(o), ~ Delivering(o)
  PROVE  Target(o) \notin Busy
<1>1. ASSUME NEW x \in Op, Delivering(x), op[x].sid = Target(o) PROVE FALSE
  <2>1. x # o /\ Sending(x) /\ Target(x) = op[x].sid
    BY <1>1 DEF Delivering, Target
  <2>2. QED
    BY <1>1, <2>1, Elsewhere
<1>2. QED
  BY <1>1 DEF Busy

(* A call that opens and closes nothing begins a turn or ends one.         *)
LEMMA OnwardView ==
  ASSUME IInv, IInv', LifeInv, NEW o \in Op, Onward(o)
  PROVE  Lifecycle!Next
<1>1. PICK r : Become(o, r) /\ Life(r) /\ Keeps(op[o], r)
  BY DEF Onward
<1>2. State' = State /\ From' = From
  BY SteadyView DEF Onward, IInv
<1>3. CASE ~ Delivers(r)
  BY <1>1, <1>2, <1>3, BusyView, EndTurnsView
<1>4. CASE Delivers(r)
  <2> DEFINE s == r.sid
  <2>1. Sending(o) /\ op[o].from = NoSid /\ op[o].sid = s /\ Target(o) = s
    BY <1>1, <1>4 DEF Keeps, Delivers, Sending, Target
  <2>2. s \in Sid
    BY <2>1 DEF IInv, LockInv, LockShape, Sending
  <2>3. TurnFlow(r) /\ r.pc \notin {"acquire", "read"}
    BY <1>1, <1>4, ConstantsAssumption
    DEF Life, Flow, CreateFlow, ArmFlow, InterruptFlow, SwapFlow, Delivers
  <2>4. Open(s)
    BY <1>1, <2>3 DEF Life
  <2>5. op'[o] = r /\ \A x \in Op \ {o} : op'[x] = op[x]
    BY <1>1 DEF Become, IInv, TypeInv, OpInv
  <2>6. Delivering(o)' /\ \A x \in Op \ {o} : Delivering(x)' = Delivering(x)
    BY <1>4, <2>5 DEF Delivering, Sending, Delivers
  <2>7. Busy' = Busy \cup {s}
    BY <2>1, <2>5, <2>6 DEF Busy
  <2>8. CASE Delivering(o)
    <3>1. s \in Busy
      BY <2>1, <2>8 DEF Busy
    <3>2. QED
      BY <1>2, <2>7, <3>1, EndTurnsView
  <2>9. CASE ~ Delivering(o)
    <3>1. s \notin Busy
      BY <2>1, <2>9, NotBusy
    <3>2. State[s] = "open"
      BY <2>2, <2>4 DEF State, Open
    <3>3. QED
      BY <1>2, <2>2, <2>7, <3>1, <3>2, BeginTurnView
  <2>10. QED
    BY <2>8, <2>9
<1>5. QED
  BY <1>3, <1>4

LEMMA RetiresView ==
  ASSUME IInv, IInv', LifeInv, NEW o \in Op, Retires(o)
  PROVE  Lifecycle!Next
<1>1. PICK r : /\ Become(o, r) /\ r.pc \in {"unbind", "insert"} /\ r.call = "send"
               /\ r.sid = op[o].sid /\ r.from = op[o].from
  BY DEF Retires
<1>2. PICK status \in {"closed", "deleted"} : UpdateStatus(op[o].sid, status)
  BY DEF Retires
<1>3. PICK p \in Sid : p = op[o].from /\ p = op[o].sid
  BY DEF Retires, SwapFlow, Rotating, Retiring, Spawning, Killing
<1>4. SwapFlow(op[o]) /\ Rotating(op[o]) /\ op[o].pc \in {"close", "deleteRow"}
  BY DEF Retires, Rotating, Retiring
<1>5. Open(p)
  BY <1>3, <1>4 DEF LifeInv, Life
<1>6. /\ row'[p].status = status /\ row'[p].from = row[p].from
      /\ \A t \in Sid \ {p} : row'[t] = row[t]
  <2>1. /\ [row[p] EXCEPT !.status = status].status = status
        /\ [row[p] EXCEPT !.status = status].from = row[p].from
    BY <1>3, RowHas DEF IInv, RowType
  <2>2. row' = [row EXCEPT ![p] = [row[p] EXCEPT !.status = status]]
    BY <1>2, <1>3, <1>5 DEF UpdateStatus, Update, Exists, Open
  <2>3. QED
    BY <1>3, <2>1, <2>2 DEF IInv, TypeInv, TypeOK
<1>7. State[p] = "open" /\ State' = [State EXCEPT ![p] = "closed"]
  BY <1>5, <1>6 DEF State, Open
<1>8. From' = From
  BY <1>6 DEF From
<1>9. p # NoSid /\ Sending(o) /\ Target(o) = p /\ ~ Delivering(o)
  BY <1>3, <1>4, ConstantsAssumption DEF Sending, Target, Delivering, SwapFlow
<1>10. ~ Delivers(r)
  BY <1>1, <1>3, <1>9 DEF Delivers
<1>11. Busy' = Busy /\ p \notin Busy
  BY <1>1, <1>9, <1>10, BusyView, NotBusy
<1>12. QED
  BY <1>7, <1>8, <1>11, CloseView

LEMMA InsertView ==
  ASSUME IInv, IInv', LifeInv, NEW o \in Op, Insert(o)
  PROVE  Lifecycle!Next
<1>1. PICK s \in Sid :
        /\ row[s].status = "none"
        /\ row' = [row EXCEPT ![s] = [NoRow EXCEPT !.status = "running",
                                        !.owner = op[o].owner, !.from = op[o].from]]
        /\ Become(o, [op[o] EXCEPT !.sid = s, !.pc = "bindNew"])
  BY DEF Insert
<1>2. op[o] \in OpType /\ op[o].pc = "insert" /\ Life(op[o])
  BY OpHas DEF Insert, At, IInv, LifeInv
<1>3. PICK p : p = op[o].from
  OBVIOUS
<1>4. /\ row'[s].status = "running" /\ row'[s].from = p
      /\ \A t \in Sid \ {s} : row'[t] = row[t]
  <2> DEFINE new == [NoRow EXCEPT !.status = "running",
                                  !.owner = op[o].owner, !.from = op[o].from]
  <2>1. new.status = "running" /\ new.from = p
    BY <1>3 DEF NoRow
  <2>2. row'[s] = new /\ \A t \in Sid \ {s} : row'[t] = row[t]
    BY <1>1 DEF IInv, TypeInv, TypeOK
  <2>3. QED
    BY <2>1, <2>2
<1>5. State[s] = "absent" /\ State' = [State EXCEPT ![s] = "open"]
  BY <1>1, <1>4 DEF State, Open
<1>6. From' = [From EXCEPT ![s] = p]
  BY <1>4 DEF From
<1>7. CreateFlow(op[o]) \/ SwapFlow(op[o])
  BY <1>2, Where
<1>8. ~ Delivering(o)
  BY <1>7, ConstantsAssumption DEF Delivering, Sending, CreateFlow, SwapFlow
<1>9. Busy' = Busy
  <2> DEFINE r == [op[o] EXCEPT !.sid = s, !.pc = "bindNew"]
  <2>1. r.call = op[o].call /\ r.from = op[o].from
    BY <1>2 DEF OpType
  <2>2. ~ Delivers(r)
    BY <1>7, <2>1, ConstantsAssumption DEF Delivers, CreateFlow, SwapFlow
  <2>3. QED
    BY <1>1, <1>8, <2>2, BusyView
<1>10. CASE CreateFlow(op[o])
  <2>1. p = NoSid
    BY <1>3, <1>10 DEF CreateFlow
  <2>2. row[s].from = NoSid
    BY <1>1 DEF LifeInv, Descent
  <2>3. QED
    BY <1>5, <1>6, <1>9, <2>1, <2>2, OpenView DEF From
<1>11. CASE SwapFlow(op[o])
  <2>1. p \in Sid /\ Closed(p) /\ \A t \in Sid : row[t].from # p
    BY <1>2, <1>3, <1>11 DEF Life, SwapFlow, Rotating, Retiring
  <2>2. State[p] = "closed" /\ \A t \in Sid : From[t] # p
    BY <2>1 DEF State, From, Open, Closed
  <2>3. QED
    BY <1>5, <1>6, <1>9, <2>1, <2>2, OpenView
<1>12. QED
  BY <1>7, <1>10, <1>11

LEMMA LifecycleInit == Init => Lifecycle!Init
<1> SUFFICES ASSUME Init PROVE Lifecycle!Init
  OBVIOUS
<1>1. \A s \in Sid : row[s].status = "none" /\ row[s].from = NoSid
  BY DEF Init, NoRow
<1>2. \A o \in Op : ~ Delivering(o)
  BY DEF Init, Idle, Delivering, Sending
<1>3. QED
  BY <1>1, <1>2 DEF Lifecycle!Init

LEMMA LifecycleStep ==
  ASSUME IInv, IInv', LifeInv, Calls \subseteq LockedCalls, [Next]_vars
  PROVE  [Lifecycle!Next]_(Lifecycle!lvars)
<1>1. CASE Crash
  <2>1. State' = State /\ From' = From
    BY <1>1, CrashLife, SteadyView DEF IInv
  <2>2. Busy' \subseteq Busy
    <3>1. \A o \in Op : op'[o] = Idle
      BY <1>1 DEF Crash
    <3>2. QED
      BY <3>1 DEF Busy, Delivering, Sending, Idle
  <2>3. QED
    BY <2>1, <2>2, EndTurnsView
<1>2. CASE UNCHANGED <<row, op, reaper>>
  BY <1>2 DEF Lifecycle!lvars, Open, Delivering, Sending
<1>3. QED
  BY <1>1, <1>2, NextLife, OnwardView, InsertView, RetiresView

LEMMA LifeAlways ==
  ASSUME Calls \subseteq LockedCalls
  PROVE  Spec => [](IInv /\ LifeInv)
<1>1. Init => LifeInv
  BY InitLife
<1>2. IInv /\ IInv' /\ LifeInv /\ [Next]_vars => LifeInv'
  BY LifeHolds
<1>3. QED
  BY <1>1, <1>2, LocksInvariant, PTL DEF Spec

(* What surfaces rely on (SessionLifecycle), for every set of sessions,    *)
(* surfaces and concurrent calls, whatever fails and whenever the gateway  *)
(* dies, while sessions are created, talked to, armed and interrupted:     *)
(* send_message delivers turns one at a time and to open sessions, and     *)
(* _finalize_armed_rotation closes a session under no turn and gives it    *)
(* one successor.                                                          *)
THEOREM LifecycleKept ==
  ASSUME Calls \subseteq LockedCalls
  PROVE  Spec => KeepsLifecycle
<1>1. IInv /\ IInv' /\ LifeInv /\ [Next]_vars => [Lifecycle!Next]_(Lifecycle!lvars)
  BY LifecycleStep
<1>2. QED
  BY <1>1, LifeAlways, LifecycleInit, PTL DEF Spec, KeepsLifecycle, Lifecycle!Spec

-----------------------------------------------------------------------------
(* What a rotation relies on *)

LEMMA OpensOnly ==
  ASSUME [Lifecycle!Next]_(Lifecycle!lvars)
  PROVE  \/ UNCHANGED <<State, From>>
         \/ \E s \in Sid : State[s] = "open" /\ From' = From /\ State' = [State EXCEPT ![s] = "closed"]
         \/ \E s \in Sid :
              /\ State[s] = "absent" /\ State' = [State EXCEPT ![s] = "open"]
              /\ From' = From \/ \E p \in Sid : (\A t \in Sid : From[t] # p) /\ From' = [From EXCEPT ![s] = p]
BY DEF State, From, Lifecycle!Next, Lifecycle!lvars, Lifecycle!Open, Lifecycle!Close,
       Lifecycle!BeginTurn, Lifecycle!EndTurns

(* A session is consumed by one rotation and has one successor             *)
(* (sessions.py:596), as long as nobody adopts it after it was rotated.    *)
THEOREM SucceededOnce ==
  ASSUME Calls \subseteq LockedCalls
  PROVE  Spec => []OneSuccessor
<1>1. Init => OneSuccessor
  BY DEF Init, NoRow, OneSuccessor
<1>2. IInv /\ IInv' /\ LifeInv /\ OneSuccessor /\ [Next]_vars => OneSuccessor'
  <2> SUFFICES ASSUME IInv, IInv', LifeInv, OneSuccessor, [Next]_vars
               PROVE  OneSuccessor'
    OBVIOUS
  <2>1. [Lifecycle!Next]_(Lifecycle!lvars)
    BY LifecycleStep
  <2>2. From \in [Sid -> {row[s].from : s \in Sid}] /\ \A s \in Sid : From[s] = row[s].from
    BY DEF From
  <2>3. \A s \in Sid : From'[s] = row'[s].from
    BY DEF From
  <2>4. From' = From \/ \E s, p \in Sid : (\A t \in Sid : From[t] # p) /\ From' = [From EXCEPT ![s] = p]
    BY <2>1, OpensOnly
  <2>5. QED
    BY <2>2, <2>3, <2>4 DEF OneSuccessor
<1>3. QED
  BY <1>1, <1>2, LifeAlways, PTL DEF Spec
=============================================================================
