-------------------------- MODULE MCSessionManager --------------------------
(* Small instances of SessionManager. *)
EXTENDS SessionManager, TLC

Symmetric == Permutations(Sid) \cup Permutations(Op)

(* A session at work on a surface, as after a create. *)
first == CHOOSE s \in Sid : TRUE

AtWork ==
  /\ \E c \in Client :
       /\ row = [s \in Sid |-> IF s # first THEN NoRow
                     ELSE [NoRow EXCEPT !.status = "running", !.owner = c]]
       /\ active = [d \in Client |-> IF d = c THEN first ELSE NoSid]
  /\ turns = {}
  /\ procs = {first}
  /\ mind = [s \in Sid |-> IF s = first THEN 0 ELSE NoProc]
  /\ lock = [s \in Sid |-> Free]
  /\ op = [o \in Op |-> Idle]
  /\ reaper = [pc |-> "sleep", stale |-> {}, sid |-> NoSid]
  /\ crashes = 0

AtWorkSpec == AtWork /\ [][Next]_vars /\ Fairness
=============================================================================
