--------------------------- MODULE SessionManager ---------------------------
(***************************************************************************)
(* The session core of the gateway: comms/sessions.py and the commands of  *)
(* comms/server.py that drive it.                                          *)
(*                                                                         *)
(* Every API call is a coroutine (an op) of one event loop, so a step here *)
(* is what happens between two awaits.  Only send_message takes the        *)
(* session's lock, and holds it for the whole turn; every other call       *)
(* changes rows, bindings and processes without it.  The processes         *)
(* themselves run in the mind containers; the gateway knows of them        *)
(* through _procs, which it loses in a crash while the processes live on.  *)
(*                                                                         *)
(* A local variable of the code that holds a row read before an await is a *)
(* field of the op.  Statements take effect, and are durable, one by one.  *)
(* Left out: the turns' texts and events, models, Remote Control,          *)
(* terminals attached straight to a mind, group sessions, SQLite errors    *)
(* other than foreign keys.  All surfaces are of one client type.          *)
(***************************************************************************)
EXTENDS Naturals, FiniteSets

CONSTANTS
  Sid,        \* session ids; a uuid4 is a fresh one
  Client,     \* surfaces: (client_type, client_ref) and their owner
  Scheduler,  \* the clients whose owner_type is "scheduler"
  Op,         \* slots for concurrent API calls
  Calls,      \* the calls that are made
  Faults,     \* the faults that happen
  MaxConv,    \* bound on the conversation ids minted for a session
  MaxCrashes, \* bound on the number of crashes
  NoSid, NoClient, Free

AllCalls == {"create", "new", "send", "kill", "activate", "adopt", "respawn",
             "interrupt", "arm", "reap"}
AllFaults == {"refuse", "delete", "drop", "stale", "cancel"}

ASSUME ConstantsAssumption ==
  /\ Scheduler \subseteq Client
  /\ Calls \subseteq AllCalls
  /\ Faults \subseteq AllFaults
  /\ MaxConv \in Nat /\ MaxCrashes \in Nat
  /\ NoSid \notin Sid /\ NoClient \notin Client /\ Free \notin Op

VARIABLES
  row,     \* the sessions table
  active,  \* the active_sessions table: the session each surface is bound to
  turns,   \* the scheduler sessions that have rows in session_turns
  procs,   \* _procs: the sessions the gateway believes to have a process
  mind,    \* the conversation each session's process in its mind resumed
  lock,    \* _locks: the op that holds each session's lock
  op,      \* the API calls in progress
  reaper,  \* the sweep of reap_stale_sessions
  crashes

vars == <<row, active, turns, procs, mind, lock, op, reaper, crashes>>
tables == <<row, active, turns>>

NoProc == MaxConv + 1
Conv == 0..MaxConv

NoRow == [status |-> "none", owner |-> NoClient, conv |-> 0, armed |-> FALSE,
          from |-> NoSid, old |-> FALSE]

Idle == [pc |-> "idle", call |-> "none", sid |-> NoSid, client |-> NoClient,
         owner |-> NoClient, from |-> NoSid, conv |-> 0, status |-> "none",
         ret |-> "none", retried |-> FALSE, posted |-> FALSE]

Exists(s) == row[s].status \notin {"none", "deleted"}
Open(s) == row[s].status \in {"running", "idle"}

-----------------------------------------------------------------------------
(* Steps of an op *)

At(o, pc) == op[o].pc = pc
Become(o, r) == op' = [op EXCEPT ![o] = r]
Goto(o, pc) == Become(o, [op[o] EXCEPT !.pc = pc])

(* A variant that forgets the lock of a session rotated away. *)
EndKeepsOldLock(o) ==
  /\ Become(o, Idle)
  /\ lock' = [s \in Sid |-> IF s = op[o].sid THEN Free ELSE lock[s]]

(* Return or raise: the generator is closed, async with releases the lock, *)
(* that of the session a turn was forwarded to and that of the old one.    *)
End(o) ==
  /\ Become(o, Idle)
  /\ lock' = [s \in Sid |-> IF lock[s] = o THEN Free ELSE lock[s]]

(* await self._spawn(...), then on to ret *)
CallSpawn(o, conv, ret) ==
  Become(o, [op[o] EXCEPT !.pc = "spawn", !.conv = conv, !.ret = ret])

(* await self._kill_process(...), then on to ret *)
CallKillProcess(o, ret) ==
  Become(o, [op[o] EXCEPT !.pc = "killProcess", !.ret = ret])

(* UPDATE sessions SET ... WHERE id = ? *)
Update(s, r) == row' = IF Exists(s) THEN [row EXCEPT ![s] = r] ELSE row
UpdateStatus(s, status) == Update(s, [row[s] EXCEPT !.status = status])

Unbind(s) ==
  active' = [c \in Client |-> IF active[c] = s THEN NoSid ELSE active[c]]

-----------------------------------------------------------------------------
(* The API calls *)

Begin(o, call, pc, s, c) ==
  /\ call \in Calls
  /\ At(o, "idle")
  /\ Become(o, [Idle EXCEPT !.call = call, !.pc = pc,
                             !.sid = s, !.client = c, !.owner = c])

(* Calls on a session a client has learnt the id of, and calls on whatever *)
(* session a surface is bound to.                                          *)
BeginOnSession(o, s) ==
  /\ row[s].status # "none"
  /\ \/ Begin(o, "send", "acquire", s, NoClient)
     \/ Begin(o, "kill", "kill", s, NoClient)
     \/ Begin(o, "respawn", "readRow", s, NoClient)
     \/ Begin(o, "interrupt", "readRow", s, NoClient)
     \/ \E c \in Client : \/ Begin(o, "activate", "readRow", s, c)
                          \/ Begin(o, "adopt", "readRow", s, c)
  /\ UNCHANGED <<tables, procs, mind, lock, reaper, crashes>>

BeginOnSurface(o, c) ==
  /\ \/ Begin(o, "create", "insert", NoSid, c)
     \/ Begin(o, "new", "lookup", NoSid, c)
     \/ Begin(o, "arm", "lookup", NoSid, c)
  /\ UNCHANGED <<tables, procs, mind, lock, reaper, crashes>>

Return(o) ==
  /\ At(o, "return")
  /\ End(o)
  /\ UNCHANGED <<tables, procs, mind, reaper, crashes>>

(* get_active_session: the binding, unless the session is closed. /new     *)
(* and /clear then kill it and create another; arm_rotation arms it.       *)
Lookup(o) ==
  LET s == active[op[o].client]
      found == s # NoSid /\ Open(s)
  IN /\ At(o, "lookup")
     /\ \/ /\ found
           /\ Become(o, [op[o] EXCEPT !.sid = s,
                                      !.pc = IF op[o].call = "new" THEN "kill" ELSE "arm"])
        \/ /\ ~ found
           /\ Goto(o, IF op[o].call = "new" THEN "insert" ELSE "return")
     /\ UNCHANGED <<tables, procs, mind, lock, reaper, crashes>>

Arm(o) ==
  /\ At(o, "arm")
  /\ Update(op[o].sid, [row[op[o].sid] EXCEPT !.armed = TRUE])
  /\ Goto(o, "return")
  /\ UNCHANGED <<active, turns, procs, mind, lock, reaper, crashes>>

-----------------------------------------------------------------------------
(* create_session *)

Insert(o) ==
  /\ At(o, "insert")
  /\ \E s \in Sid :
       /\ row[s].status = "none"
       /\ row' = [row EXCEPT ![s] = [NoRow EXCEPT !.status = "running",
                                       !.owner = op[o].owner, !.from = op[o].from]]
       /\ Become(o, [op[o] EXCEPT !.sid = s, !.pc = "bindNew"])
  /\ UNCHANGED <<active, turns, procs, mind, lock, reaper, crashes>>

(* No model: the mind is not registered.  Nothing has been inserted. *)
CreateRefused(o) ==
  /\ "refuse" \in Faults
  /\ At(o, "insert")
  /\ End(o)
  /\ UNCHANGED <<tables, procs, mind, reaper, crashes>>

(* INSERT OR REPLACE INTO active_sessions, under the foreign key. A turn   *)
(* that finalizes a rotation goes on to the new session's lock.            *)
BindNew(o) ==
  LET s == op[o].sid
  IN /\ At(o, "bindNew")
     /\ \/ /\ Exists(s)
           /\ active' = [active EXCEPT ![op[o].client] = s]
           /\ CallSpawn(o, 0, IF op[o].call = "send" THEN "forward" ELSE "return")
           /\ UNCHANGED lock
        \/ /\ ~ Exists(s)
           /\ End(o)
           /\ UNCHANGED active
     /\ UNCHANGED <<row, turns, procs, mind, reaper, crashes>>

-----------------------------------------------------------------------------
(* _spawn *)

(* POST /sessions: the mind has a process for the session, one it starts   *)
(* now or (its own affair) the one it already had.                         *)
SpawnOnMind(o) ==
  LET s == op[o].sid
  IN /\ At(o, "spawn")
     /\ \/ mind' = [mind EXCEPT ![s] = op[o].conv]
        \/ mind[s] # NoProc /\ UNCHANGED mind
     /\ Goto(o, "spawned")
     /\ UNCHANGED <<tables, procs, lock, reaper, crashes>>

(* The mind is unknown, unreachable, refuses, or answers after the 10 s    *)
(* timeout (and has started the process): _spawn raises.                   *)
SpawnFails(o) ==
  /\ "refuse" \in Faults
  /\ At(o, "spawn")
  /\ \/ mind' = [mind EXCEPT ![op[o].sid] = op[o].conv]
     \/ UNCHANGED mind
  /\ End(o)
  /\ UNCHANGED <<tables, procs, reaper, crashes>>

Spawned(o) ==
  /\ At(o, "spawned")
  /\ procs' = procs \cup {op[o].sid}
  /\ Goto(o, op[o].ret)
  /\ UNCHANGED <<tables, mind, lock, reaper, crashes>>

-----------------------------------------------------------------------------
(* _kill_process *)

KillProcess(o) ==
  /\ At(o, "killProcess")
  /\ procs' = procs \ {op[o].sid}
  /\ Goto(o, "killOnMind")
  /\ UNCHANGED <<tables, mind, lock, reaper, crashes>>

(* DELETE /sessions/{id}; a failure is logged and swallowed. *)
KillOnMind(o) ==
  /\ At(o, "killOnMind")
  /\ \/ mind' = [mind EXCEPT ![op[o].sid] = NoProc]
     \/ "delete" \in Faults /\ UNCHANGED mind
  /\ Goto(o, op[o].ret)
  /\ UNCHANGED <<tables, procs, lock, reaper, crashes>>

-----------------------------------------------------------------------------
(* kill_session *)

Kill(o) ==
  LET s == op[o].sid
  IN /\ At(o, "kill")
     /\ \/ /\ Exists(s)
           /\ CallKillProcess(o, IF row[s].owner \in Scheduler THEN "deleteTurns"
                                                              ELSE "close")
           /\ UNCHANGED lock
        \/ ~ Exists(s) /\ End(o)
     /\ UNCHANGED <<tables, procs, mind, reaper, crashes>>

Close(o) ==
  /\ At(o, "close")
  /\ UpdateStatus(op[o].sid, "closed")
  /\ Goto(o, "unbind")
  /\ UNCHANGED <<active, turns, procs, mind, lock, reaper, crashes>>

(* A variant that knows only of the calls that kill and stop there. *)
AfterKillOnly(o) == IF op[o].call = "kill" THEN "return" ELSE "none"

(* Where a call goes once its session is killed. *)
AfterKill(o) == IF op[o].call = "kill" THEN "return" ELSE "insert"

UnbindClosed(o) ==
  /\ At(o, "unbind")
  /\ Unbind(op[o].sid)
  /\ Goto(o, AfterKill(o))
  /\ UNCHANGED <<row, turns, procs, mind, lock, reaper, crashes>>

DeleteTurns(o) ==
  /\ At(o, "deleteTurns")
  /\ turns' = turns \ {op[o].sid}
  /\ Goto(o, "deleteBinding")
  /\ UNCHANGED <<row, active, procs, mind, lock, reaper, crashes>>

DeleteBinding(o) ==
  /\ At(o, "deleteBinding")
  /\ Unbind(op[o].sid)
  /\ Goto(o, "deleteRow")
  /\ UNCHANGED <<row, turns, procs, mind, lock, reaper, crashes>>

Referenced(s) == s \in turns \/ \E c \in Client : active[c] = s

(* A variant without PRAGMA foreign_keys = ON. *)
DeleteRowUnchecked(o) ==
  /\ At(o, "deleteRow")
  /\ UpdateStatus(op[o].sid, "deleted")
  /\ Goto(o, AfterKill(o))
  /\ UNCHANGED <<active, turns, procs, mind, lock, reaper, crashes>>

(* The foreign keys refuse the DELETE if a turn or a binding has been      *)
(* written for the session meanwhile.                                      *)
DeleteRow(o) ==
  LET s == op[o].sid
  IN /\ At(o, "deleteRow")
     /\ \/ /\ ~ Referenced(s)
           /\ UpdateStatus(s, "deleted")
           /\ Goto(o, AfterKill(o))
           /\ UNCHANGED lock
        \/ /\ Referenced(s)
           /\ End(o)
           /\ UNCHANGED row
     /\ UNCHANGED <<active, turns, procs, mind, reaper, crashes>>

-----------------------------------------------------------------------------
(* switch_model and toggle_autopilot (call "respawn"), interrupt_session,  *)
(* activate_session without an owner (a surface picks a session up) and    *)
(* with one (call "adopt": it takes it over).                              *)

ReadRow(o) ==
  LET s == op[o].sid
      read == [op[o] EXCEPT !.conv = row[s].conv, !.status = row[s].status]
      adopting == op[o].call = "adopt" /\ row[s].owner # op[o].client
      next == CASE op[o].call = "respawn" -> [read EXCEPT !.pc = "killProcess",
                                                          !.ret = "setRunning"]
                [] op[o].call = "interrupt" ->
                     [read EXCEPT !.pc = IF s \in procs THEN "interrupt" ELSE "return"]
                [] OTHER -> [read EXCEPT !.pc = IF adopting THEN "adopt" ELSE "bind"]
  IN /\ At(o, "readRow")
     /\ \/ /\ Exists(s)
           /\ Become(o, next)
           /\ UNCHANGED lock
        \/ ~ Exists(s) /\ End(o)
     /\ UNCHANGED <<tables, procs, mind, reaper, crashes>>

(* POST /interrupt; an unreachable mind raises. *)
Interrupt(o) ==
  /\ At(o, "interrupt")
  /\ \/ CallKillProcess(o, "return") /\ UNCHANGED lock
     \/ "refuse" \in Faults /\ End(o)
  /\ UNCHANGED <<tables, procs, mind, reaper, crashes>>

(* The status is set, whatever it was when the row was read; switch_model  *)
(* goes on to spawn, activate_session has spawned already.                 *)
SetRunning(o) ==
  /\ At(o, "setRunning")
  /\ UpdateStatus(op[o].sid, "running")
  /\ IF op[o].call = "respawn" THEN CallSpawn(o, op[o].conv, "return")
                               ELSE Goto(o, "return")
  /\ UNCHANGED <<active, turns, procs, mind, lock, reaper, crashes>>

Adopt(o) ==
  LET s == op[o].sid
  IN /\ At(o, "adopt")
     /\ Update(s, [row[s] EXCEPT !.owner = op[o].client, !.status = "idle"])
     /\ Goto(o, "adoptUnbind")
     /\ UNCHANGED <<active, turns, procs, mind, lock, reaper, crashes>>

(* A variant that leaves the session bound where it was. *)
AdoptStaysBound(o) ==
  /\ At(o, "adoptUnbind")
  /\ Goto(o, "reread")
  /\ UNCHANGED <<tables, procs, mind, lock, reaper, crashes>>

AdoptUnbind(o) ==
  /\ At(o, "adoptUnbind")
  /\ Unbind(op[o].sid)
  /\ Goto(o, "reread")
  /\ UNCHANGED <<row, turns, procs, mind, lock, reaper, crashes>>

Reread(o) ==
  LET s == op[o].sid
  IN /\ At(o, "reread")
     /\ Become(o, [op[o] EXCEPT !.pc = "bind", !.conv = row[s].conv,
                                !.status = row[s].status])
     /\ UNCHANGED <<tables, procs, mind, lock, reaper, crashes>>

(* The foreign key refuses a binding to a deleted session. *)
Bind(o) ==
  LET s == op[o].sid
  IN /\ At(o, "bind")
     /\ \/ /\ Exists(s)
           /\ active' = [active EXCEPT ![op[o].client] = s]
           /\ Goto(o, "respawnIdle")
           /\ UNCHANGED lock
        \/ /\ ~ Exists(s)
           /\ End(o)
           /\ UNCHANGED active
     /\ UNCHANGED <<row, turns, procs, mind, reaper, crashes>>

(* if session["status"] == "idle" and session_id not in self._procs *)
RespawnIdle(o) ==
  /\ At(o, "respawnIdle")
  /\ IF op[o].status = "idle" /\ op[o].sid \notin procs
     THEN CallSpawn(o, op[o].conv, "setRunning")
     ELSE Goto(o, "return")
  /\ UNCHANGED <<tables, procs, mind, lock, reaper, crashes>>

-----------------------------------------------------------------------------
(* send_message *)

(* A variant without the lock's mutual exclusion. *)
AcquireAlways(o) ==
  /\ At(o, "acquire")
  /\ lock' = [lock EXCEPT ![op[o].sid] = o]
  /\ Goto(o, "read")
  /\ UNCHANGED <<tables, procs, mind, reaper, crashes>>

Acquire(o) ==
  LET s == op[o].sid
  IN /\ At(o, "acquire")
     /\ lock[s] = Free
     /\ lock' = [lock EXCEPT ![s] = o]
     /\ Goto(o, "read")
     /\ UNCHANGED <<tables, procs, mind, reaper, crashes>>

(* A variant that does not look at the status. *)
ReadAnyStatus(o) ==
  LET s == op[o].sid
  IN /\ At(o, "read")
     /\ Become(o, [op[o] EXCEPT
                         !.conv = row[s].conv, !.owner = row[s].owner,
                         !.pc = IF row[s].armed THEN "finalize" ELSE "check"])
     /\ UNCHANGED <<tables, procs, mind, lock, reaper, crashes>>

(* A closed session is refused, an armed one is rotated first. *)
Read(o) ==
  LET s == op[o].sid
  IN /\ At(o, "read")
     /\ \/ ~ Open(s) /\ End(o)
        \/ /\ Open(s)
           /\ Become(o, [op[o] EXCEPT
                         !.conv = row[s].conv, !.owner = row[s].owner,
                         !.pc = IF row[s].armed THEN "finalize" ELSE "check"])
           /\ UNCHANGED lock
     /\ UNCHANGED <<tables, procs, mind, reaper, crashes>>

(* _finalize_armed_rotation: kill the session and create its successor for *)
(* the surface it is bound to.                                             *)
Finalize(o) ==
  LET s == op[o].sid
  IN /\ At(o, "finalize")
     /\ \/ \E c \in Client :
             /\ active[c] = s
             /\ Become(o, [op[o] EXCEPT !.pc = "kill", !.client = c, !.from = s])
        \/ /\ \A c \in Client : active[c] # s
           /\ Goto(o, "disarm")
     /\ UNCHANGED <<tables, procs, mind, lock, reaper, crashes>>

(* No surface to rebind: the turn is delivered on the session as it is. *)
Disarm(o) ==
  LET s == op[o].sid
  IN /\ At(o, "disarm")
     /\ Update(s, [row[s] EXCEPT !.armed = FALSE])
     /\ Goto(o, "check")
     /\ UNCHANGED <<active, turns, procs, mind, lock, reaper, crashes>>

(* _forward_to_session: send_message again, for the successor, inside the  *)
(* old session's lock.                                                     *)
Forward(o) ==
  /\ At(o, "forward")
  /\ Become(o, [Idle EXCEPT !.call = "send", !.pc = "acquire", !.sid = op[o].sid])
  /\ UNCHANGED <<tables, procs, mind, lock, reaper, crashes>>

NeedsRespawn(o) ==
  /\ At(o, "check")
  /\ IF op[o].sid \in procs THEN Goto(o, "mark")
                            ELSE CallSpawn(o, op[o].conv, "mark")
  /\ UNCHANGED <<tables, procs, mind, lock, reaper, crashes>>

(* UPDATE ... status = 'running', last_active = now, whatever the status   *)
(* is by now.                                                              *)
Mark(o) ==
  LET s == op[o].sid
  IN /\ At(o, "mark")
     /\ Update(s, [row[s] EXCEPT !.status = "running", !.old = FALSE])
     /\ Goto(o, "storeTurn")
     /\ UNCHANGED <<active, turns, procs, mind, lock, reaper, crashes>>

AddTurn(s) == turns' = IF row[s].owner \in Scheduler THEN turns \cup {s} ELSE turns

StoreTurn(o) ==
  LET s == op[o].sid
  IN /\ At(o, "storeTurn")
     /\ \/ Exists(s) /\ AddTurn(s) /\ Goto(o, "post") /\ UNCHANGED lock
        \/ ~ Exists(s) /\ End(o) /\ UNCHANGED turns
     /\ UNCHANGED <<row, active, procs, mind, reaper, crashes>>

(* proc_info = self._procs.get(session_id), or raise *)
CheckProc(o) ==
  /\ At(o, "post")
  /\ \/ op[o].sid \in procs /\ Goto(o, "request") /\ UNCHANGED lock
     \/ op[o].sid \notin procs /\ End(o)
  /\ UNCHANGED <<tables, procs, mind, reaper, crashes>>

(* POST /sessions/{id}/message.  A mind that is unreachable or answers     *)
(* with an error ends the turn with an error for a result.                 *)
Request(o) ==
  /\ At(o, "request")
  /\ \/ /\ mind[op[o].sid] # NoProc
        /\ Become(o, [op[o] EXCEPT !.pc = "stream", !.posted = TRUE])
     \/ /\ mind[op[o].sid] = NoProc
        /\ Goto(o, "notFound")
     \/ "refuse" \in Faults /\ Goto(o, "return")
  /\ UNCHANGED <<tables, procs, mind, lock, reaper, crashes>>

(* 404: the row is read again; unless closed, one respawn and one retry. *)
NotFound(o) ==
  LET s == op[o].sid
      retry == row[s].status # "closed" /\ ~ op[o].retried
  IN /\ At(o, "notFound")
     /\ \/ /\ retry
           /\ Become(o, [op[o] EXCEPT !.pc = "spawn", !.ret = "request",
                                      !.retried = TRUE])
           /\ UNCHANGED lock
        \/ ~ retry /\ End(o)
     /\ UNCHANGED <<tables, procs, mind, reaper, crashes>>

(* The result, an error event, or the end of the stream. *)
Finish(o) ==
  LET s == op[o].sid
  IN /\ At(o, "stream")
     /\ \/ Exists(s) /\ AddTurn(s)
        \/ UNCHANGED turns
     /\ Goto(o, "return")
     /\ UNCHANGED <<row, active, procs, mind, lock, reaper, crashes>>

(* "No conversation found": the process is replaced by one on a new        *)
(* conversation.  The turn the old one refused is not posted again.        *)
StaleResume(o) ==
  /\ "stale" \in Faults
  /\ At(o, "stream")
  /\ ~ op[o].retried
  /\ row[op[o].sid].conv < MaxConv
  /\ Become(o, [op[o] EXCEPT !.pc = "killProcess", !.ret = "remint",
                             !.retried = TRUE, !.posted = FALSE])
  /\ UNCHANGED <<tables, procs, mind, lock, reaper, crashes>>

(* A variant that does not record the new conversation. *)
RemintUnrecorded(o) ==
  /\ At(o, "remint")
  /\ row[op[o].sid].conv + 1 <= MaxConv
  /\ CallSpawn(o, row[op[o].sid].conv + 1, "return")
  /\ UNCHANGED <<tables, procs, mind, lock, reaper, crashes>>

Remint(o) ==
  LET s == op[o].sid
      fresh == row[s].conv + 1
  IN /\ At(o, "remint")
     /\ fresh <= MaxConv
     /\ Update(s, [row[s] EXCEPT !.conv = fresh])
     /\ CallSpawn(o, fresh, "return")
     /\ UNCHANGED <<active, turns, procs, mind, lock, reaper, crashes>>

(* The client of the stream goes away, or the broker's backstop expires:   *)
(* the generator is closed at whatever await it stands.                    *)
Cancel(o) ==
  /\ "cancel" \in Faults
  /\ op[o].call = "send"
  /\ End(o)
  /\ UNCHANGED <<tables, procs, mind, reaper, crashes>>

-----------------------------------------------------------------------------
(* The reaper, the minds, time, crashes *)

(* A variant that takes the sessions in use for the abandoned ones. *)
StaleIsRunning ==
  {s \in Sid : row[s].status = "running" /\ row[s].old /\ s \notin procs}

(* SELECT the idle and old; drop those with a process at hand. *)
Stale == {s \in Sid : row[s].status = "idle" /\ row[s].old /\ s \notin procs}

ReapSelect ==
  /\ "reap" \in Calls
  /\ reaper.pc = "sleep"
  /\ Stale # {}
  /\ reaper' = [reaper EXCEPT !.pc = "close", !.stale = Stale]
  /\ UNCHANGED <<tables, procs, mind, lock, op, crashes>>

ReapClose(s) ==
  /\ reaper.pc = "close"
  /\ s \in reaper.stale
  /\ UpdateStatus(s, "closed")
  /\ reaper' = [reaper EXCEPT !.pc = "unbind", !.sid = s]
  /\ UNCHANGED <<active, turns, procs, mind, lock, op, crashes>>

ReapUnbind ==
  LET rest == reaper.stale \ {reaper.sid}
  IN /\ reaper.pc = "unbind"
     /\ Unbind(reaper.sid)
     /\ reaper' = [pc |-> IF rest = {} THEN "sleep" ELSE "close",
                   stale |-> rest, sid |-> NoSid]
     /\ UNCHANGED <<row, turns, procs, mind, lock, op, crashes>>

(* Seven days pass without a message: far longer than any call takes. *)
Age(s) ==
  /\ "reap" \in Calls
  /\ \A o \in Op : At(o, "idle")
  /\ reaper.pc = "sleep"
  /\ Open(s) /\ ~ row[s].old
  /\ Update(s, [row[s] EXCEPT !.old = TRUE])
  /\ UNCHANGED <<active, turns, procs, mind, lock, op, reaper, crashes>>

(* A mind evicts a process or restarts. *)
MindDrops(s) ==
  /\ "drop" \in Faults
  /\ mind[s] # NoProc
  /\ mind' = [mind EXCEPT ![s] = NoProc]
  /\ UNCHANGED <<tables, procs, lock, op, reaper, crashes>>

(* The gateway dies and starts again: memory is lost, rows said to be      *)
(* running are set idle, the minds' processes are still there.             *)
Crash ==
  /\ crashes < MaxCrashes
  /\ crashes' = crashes + 1
  /\ row' = [s \in Sid |-> IF row[s].status = "running"
                           THEN [row[s] EXCEPT !.status = "idle"] ELSE row[s]]
  /\ procs' = {}
  /\ lock' = [s \in Sid |-> Free]
  /\ op' = [o \in Op |-> Idle]
  /\ reaper' = [pc |-> "sleep", stale |-> {}, sid |-> NoSid]
  /\ UNCHANGED <<active, turns, mind>>

-----------------------------------------------------------------------------
Init ==
  /\ row = [s \in Sid |-> NoRow]
  /\ active = [c \in Client |-> NoSid]
  /\ turns = {}
  /\ procs = {}
  /\ mind = [s \in Sid |-> NoProc]
  /\ lock = [s \in Sid |-> Free]
  /\ op = [o \in Op |-> Idle]
  /\ reaper = [pc |-> "sleep", stale |-> {}, sid |-> NoSid]
  /\ crashes = 0

BeginCall(o) ==
  \/ \E s \in Sid : BeginOnSession(o, s)
  \/ \E c \in Client : BeginOnSurface(o, c)

(* What an op does once it has begun, but for waiting for a lock. *)
Step(o) ==
  \/ Return(o) \/ Lookup(o) \/ Arm(o)
  \/ Insert(o) \/ CreateRefused(o) \/ BindNew(o)
  \/ SpawnOnMind(o) \/ SpawnFails(o) \/ Spawned(o)
  \/ KillProcess(o) \/ KillOnMind(o)
  \/ Kill(o) \/ Close(o) \/ UnbindClosed(o)
  \/ DeleteTurns(o) \/ DeleteBinding(o) \/ DeleteRow(o)
  \/ ReadRow(o) \/ Interrupt(o) \/ SetRunning(o)
  \/ Adopt(o) \/ AdoptUnbind(o) \/ Reread(o) \/ Bind(o) \/ RespawnIdle(o)
  \/ Read(o) \/ Finalize(o) \/ Disarm(o) \/ Forward(o)
  \/ NeedsRespawn(o) \/ Mark(o) \/ StoreTurn(o) \/ CheckProc(o)
  \/ Request(o) \/ NotFound(o) \/ Finish(o) \/ StaleResume(o) \/ Remint(o)

Reaper == ReapSelect \/ (\E s \in Sid : ReapClose(s)) \/ ReapUnbind

Next ==
  \/ \E o \in Op : BeginCall(o) \/ Acquire(o) \/ Step(o) \/ Cancel(o)
  \/ Reaper
  \/ \E s \in Sid : Age(s) \/ MindDrops(s)
  \/ Crash

Spec == Init /\ [][Next]_vars

(* The loop runs what can run, minds answer or time out, asyncio.Lock is   *)
(* first in, first out.  Nobody has to call, no mind has to fail.          *)
Fairness ==
  /\ \A o \in Op : WF_vars(Step(o)) /\ SF_vars(Acquire(o))
  /\ WF_vars(Reaper)

FairSpec == Spec /\ Fairness

-----------------------------------------------------------------------------
(* Correctness *)

OpPc == {"idle", "return", "lookup", "arm", "insert", "bindNew", "spawn", "spawned",
         "killProcess", "killOnMind", "kill", "close", "unbind", "deleteTurns",
         "deleteBinding", "deleteRow", "readRow", "interrupt", "setRunning", "adopt",
         "adoptUnbind", "reread", "bind", "respawnIdle", "acquire", "read", "finalize",
         "disarm", "forward", "check", "mark", "storeTurn", "post", "request",
         "notFound", "stream", "remint"}

RowStatus == {"none", "running", "idle", "closed", "deleted"}

RowType == [status : RowStatus, owner : Client \cup {NoClient}, conv : Conv,
            armed : BOOLEAN, from : Sid \cup {NoSid}, old : BOOLEAN]

OpType == [pc : OpPc, call : AllCalls \cup {"none"}, sid : Sid \cup {NoSid},
           client : Client \cup {NoClient}, owner : Client \cup {NoClient},
           from : Sid \cup {NoSid}, conv : Conv, status : RowStatus,
           ret : OpPc \cup {"none"}, retried : BOOLEAN, posted : BOOLEAN]

(* The shape of the tables, the processes and the calls in progress. *)
TypeOK ==
  /\ row \in [Sid -> RowType]
  /\ active \in [Client -> Sid \cup {NoSid}]
  /\ turns \subseteq Sid
  /\ procs \subseteq Sid
  /\ mind \in [Sid -> Conv \cup {NoProc}]
  /\ lock \in [Sid -> Op \cup {Free}]
  /\ op \in [Op -> OpType]
  /\ reaper \in [pc : {"sleep", "close", "unbind"}, stale : SUBSET Sid,
                 sid : Sid \cup {NoSid}]
  /\ crashes \in 0..MaxCrashes

(* An op inside send_message, past its lock, and the session it works on:  *)
(* while it rotates, the one it retires.                                   *)
Sending(o) == op[o].call = "send" /\ op[o].pc # "acquire"
Target(o) == IF op[o].from # NoSid THEN op[o].from ELSE op[o].sid

(* Turns of one session are delivered one at a time, and a rotation        *)
(* retires a session only while none is: the lock covers the whole of a    *)
(* turn, the swap, and the turn forwarded to the successor.                *)
OneTurnPerSession ==
  \A o1, o2 \in Op :
    Sending(o1) /\ Sending(o2) /\ o1 # o2 => Target(o1) # Target(o2)

(* A lock is held by a send in progress and by nothing else: however a     *)
(* turn ends (refused, rotated, failed to spawn), the locks of both        *)
(* sessions it went through are free again.                                *)
LocksReleased ==
  \A s \in Sid : lock[s] # Free => op[lock[s]].call = "send"

(* Foreign keys: no binding or turn of a session that is gone. *)
NothingDangles ==
  /\ \A c \in Client : active[c] # NoSid => Exists(active[c])
  /\ \A s \in turns : Exists(s)

(* Delivering a turn: past the checks of send_message. *)
Delivering(o) ==
  /\ Sending(o)
  /\ op[o].from = NoSid
  /\ op[o].pc \notin {"read", "finalize"}

(* What surfaces rely on, as SessionLifecycle says it. *)
Lifecycle == INSTANCE SessionLifecycle WITH
  state <- [s \in Sid |-> IF row[s].status = "none" THEN "absent"
                          ELSE IF Open(s) THEN "open" ELSE "closed"],
  from <- [s \in Sid |-> row[s].from],
  busy <- {op[o].sid : o \in {x \in Op : Delivering(x)}}

KeepsLifecycle == Lifecycle!Spec

(* With no call on it in progress, the process of an open session runs the *)
(* conversation its row is pinned to.                                      *)
ConversationPinned ==
  \A s \in Sid :
    Open(s) /\ (\A o \in Op : op[o].sid # s) => mind[s] \in {row[s].conv, NoProc}

(* No process runs a conversation its session's row was never pinned to:   *)
(* "an invented id is a conversation only that process knows about".  With *)
(* calls that interleave it may run an earlier one than the row's, when a  *)
(* call that read the row before a stale resume spawns after it.           *)
ConversationRecorded ==
  \A s \in Sid : Exists(s) /\ mind[s] # NoProc => mind[s] <= row[s].conv

(* Between calls made one after the other, an open session is bound to no  *)
(* surface but its owner's: adoption, which moves both, leaves neither     *)
(* behind (unless the gateway dies in the middle of it), and a rotation    *)
(* carries both over to the successor.                                     *)
BoundToOwner ==
  crashes = 0 /\ (\A o \in Op : At(o, "idle")) =>
     \A c \in Client : active[c] # NoSid /\ Open(active[c]) => row[active[c]].owner = c

(* A session nobody has come back to (idle for longer than the cutoff,     *)
(* without a process) does not stay so: it is reaped or taken up again.    *)
Abandoned(s) == row[s].status = "idle" /\ row[s].old /\ s \notin procs
AbandonedIsReaped == \A s \in Sid : Abandoned(s) ~> ~ Abandoned(s)

(* Every call ends, also one that waits for a lock or for two in a row. *)
EveryCallEnds == \A o \in Op : op[o].pc # "idle" ~> op[o].pc = "idle"

(* send_message refuses closed sessions so that no respawn resurrects one. *)
ClosedNotResurrected ==
  [][\A s \in Sid : row[s].status = "closed" => row'[s].status # "running"]_vars

(* kill_session kills the process and closes the row: once no call is in   *)
(* progress a closed session has no process the gateway tracks.            *)
ClosedHasNoProcess ==
  (\A o \in Op : At(o, "idle")) =>
     \A s \in procs : row[s].status # "closed"

(* A session is consumed by one rotation and has one successor. *)
OneSuccessor ==
  \A s1, s2 \in Sid : row[s1].from # NoSid /\ row[s1].from = row[s2].from => s1 = s2

(* A turn that returns normally has been posted to the process that is to  *)
(* answer it ("Stale resume ... - retrying").                              *)
ReturnedTurnWasPosted ==
  \A o \in Op : op[o].call = "send" /\ At(o, "return") => op[o].posted
=============================================================================
