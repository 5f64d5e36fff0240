---------------------------- MODULE RemoteControl ----------------------------
(***************************************************************************)
(* The Remote Control processes of one session (comms/sessions.py,         *)
(* spawn_rc_process and kill_rc_process): subprocesses of the gateway that *)
(* hold the session's conversation open to a browser.                      *)
(*                                                                         *)
(* A stop is DELETE .../remote-control, or the end of _kill_process when   *)
(* the session is killed, switched or interrupted.  A process prints its   *)
(* URL or not, ignores SIGTERM or not, and may exit at any time.           *)
(*                                                                         *)
(* Left out: the URL, and shutdown, which stops what is tracked.           *)
(***************************************************************************)
EXTENDS Naturals, FiniteSets

CONSTANTS
  Proc,       \* subprocesses
  Call,       \* spawn_rc_process and kill_rc_process calls in progress
  MaxSpawns,  \* how many of them may be spawns
  NoProc

ASSUME RemoteAssumption ==
  /\ MaxSpawns \in Nat /\ NoProc \notin Proc /\ IsFiniteSet(Call)

VARIABLES
  tracked,  \* _rc_procs[session]
  proc,     \* "unused", "alive" or "dead"
  call      \* pc, op and the process in the call's hands

vars == <<tracked, proc, call>>

Idle == [pc |-> "idle", op |-> "none", p |-> NoProc]

Init ==
  /\ tracked = NoProc
  /\ proc = [p \in Proc |-> "unused"]
  /\ call = [c \in Call |-> Idle]

Goto(c, pc, p) == call' = [call EXCEPT ![c] = [pc |-> pc, op |-> @.op, p |-> p]]

End(c) == call' = [call EXCEPT ![c] = Idle]

(* A variant that starts no process in the place of the one it stopped. *)
ResumeWithout(c) == IF call[c].op = "spawn" THEN Goto(c, "url", NoProc) ELSE End(c)

(* What a stop is followed by. *)
Resume(c) == IF call[c].op = "spawn" THEN Goto(c, "exec", NoProc) ELSE End(c)

-----------------------------------------------------------------------------
(* kill_rc_process: the entry is popped before the process is signalled.   *)

Spawning == {c \in Call : call[c].op = "spawn"}

Pop(c, op) ==
  /\ tracked' = NoProc
  /\ IF tracked # NoProc /\ proc[tracked] = "alive"
     THEN call' = [call EXCEPT ![c] = [pc |-> "term", op |-> op, p |-> tracked]]
     ELSE call' = [call EXCEPT ![c] = [pc |-> "resume", op |-> op, p |-> NoProc]]
  /\ UNCHANGED proc

Stop(c) == call[c].pc = "idle" /\ Pop(c, "stop")

Resumes(c) ==
  /\ call[c].pc = "resume" \/ (call[c].pc = "term" /\ proc[call[c].p] = "dead")
  /\ Resume(c)
  /\ UNCHANGED <<tracked, proc>>

(* A variant that waits until the process exits by itself. *)
WaitsOn(c) ==
  /\ call[c].pc = "term" /\ proc[call[c].p] = "dead"
  /\ Resume(c)
  /\ UNCHANGED <<tracked, proc>>

(* SIGKILL, 5 s after a SIGTERM that was ignored. *)
KillsHard(c) ==
  /\ call[c].pc = "term" /\ proc[call[c].p] = "alive"
  /\ proc' = [proc EXCEPT ![call[c].p] = "dead"]
  /\ Resume(c)
  /\ UNCHANGED tracked

-----------------------------------------------------------------------------
(* spawn_rc_process: whatever is tracked is killed first. *)

Spawn(c) ==
  /\ call[c].pc = "idle" /\ Cardinality(Spawning) < MaxSpawns
  /\ Pop(c, "spawn")

(* The row may be gone, or the program not be there. *)
Exec(c) ==
  /\ call[c].pc = "exec"
  /\ \/ \E p \in Proc : /\ proc[p] = "unused"
                        /\ proc' = [proc EXCEPT ![p] = "alive"]
                        /\ Goto(c, "url", p)
     \/ End(c) /\ UNCHANGED proc
  /\ UNCHANGED tracked

(* The URL was read; the process may have exited since. *)
Registers(c) ==
  /\ call[c].pc = "url"
  /\ tracked' = call[c].p
  /\ End(c)
  /\ UNCHANGED proc

(* A variant that leaves a process without a URL alone. *)
GivesUpSoftly(c) ==
  /\ call[c].pc = "url"
  /\ End(c)
  /\ UNCHANGED <<tracked, proc>>

(* No URL within 10 s, the end of the output, or an error. *)
GivesUp(c) ==
  /\ call[c].pc = "url"
  /\ proc' = [proc EXCEPT ![call[c].p] = "dead"]
  /\ End(c)
  /\ UNCHANGED tracked

Exits(p) ==
  /\ proc[p] = "alive"
  /\ proc' = [proc EXCEPT ![p] = "dead"]
  /\ UNCHANGED <<tracked, call>>

Next ==
  \/ \E c \in Call : \/ Spawn(c) \/ Stop(c) \/ Resumes(c) \/ KillsHard(c)
                     \/ Exec(c) \/ Registers(c) \/ GivesUp(c)
  \/ \E p \in Proc : Exits(p)

(* The event loop runs, and every wait in a call has a timeout. *)
Spec ==
  /\ Init /\ [][Next]_vars
  /\ \A c \in Call : WF_vars(Resumes(c) \/ KillsHard(c) \/ Exec(c) \/ Registers(c) \/ GivesUp(c))

-----------------------------------------------------------------------------

TypeOK ==
  /\ tracked \in Proc \cup {NoProc}
  /\ proc \in [Proc -> {"unused", "alive", "dead"}]
  /\ call \in [Call -> [pc : {"idle", "resume", "term", "exec", "url"},
                        op : {"none", "spawn", "stop"}, p : Proc \cup {NoProc}]]
  /\ \A c \in Call : (call[c].p # NoProc) <=> (call[c].pc \in {"term", "url"})

(* As long as spawns do not overlap, every process that lives is tracked,  *)
(* or in the hands of the one call that starts or stops it: stops that     *)
(* come in the middle of a spawn leave none behind (sessions.py:1346-1348, *)
(* 1410-1422, 1434).                                                       *)
NoStray ==
  \A p \in Proc : proc[p] = "alive" =>
    Cardinality({c \in Call : call[c].p = p}) = IF tracked = p THEN 0 ELSE 1

(* A process that is to be stopped dies, also if it ignores SIGTERM        *)
(* (sessions.py:1438-1445).                                                *)
StoppedDies ==
  \A p \in Proc :
    (\E c \in Call : call[c].pc = "term" /\ call[c].p = p) ~> (proc[p] = "dead")
=============================================================================
