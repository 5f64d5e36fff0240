-------------------------- MODULE SessionLifecycle --------------------------
(***************************************************************************)
(* What a surface relies on: a session is opened once and closed for good; *)
(* turns are delivered one at a time and only to an open session; a        *)
(* session is not closed under a turn; and a closed session is followed by *)
(* at most one successor, opened after it was closed.                      *)
(***************************************************************************)
CONSTANTS Sid, NoSid

VARIABLES
  state,  \* "absent", "open" or "closed"
  from,   \* the session each session is the successor of
  busy    \* the sessions a turn is being delivered to

lvars == <<state, from, busy>>

Init ==
  /\ state = [s \in Sid |-> "absent"]
  /\ from = [s \in Sid |-> NoSid]
  /\ busy = {}

Open(s) ==
  /\ state[s] = "absent"
  /\ state' = [state EXCEPT ![s] = "open"]
  /\ \/ UNCHANGED from
     \/ \E p \in Sid :
          /\ state[p] = "closed"
          /\ \A t \in Sid : from[t] # p
          /\ from' = [from EXCEPT ![s] = p]
  /\ UNCHANGED busy

Close(s) ==
  /\ state[s] = "open"
  /\ s \notin busy
  /\ state' = [state EXCEPT ![s] = "closed"]
  /\ UNCHANGED <<from, busy>>

BeginTurn(s) ==
  /\ state[s] = "open"
  /\ s \notin busy
  /\ busy' = busy \cup {s}
  /\ UNCHANGED <<state, from>>

(* One turn ends, or all of them in a crash. *)
EndTurns ==
  /\ \E S \in SUBSET busy : busy' = busy \ S
  /\ UNCHANGED <<state, from>>

Next == EndTurns \/ \E s \in Sid : Open(s) \/ Close(s) \/ BeginTurn(s)

Spec == Init /\ [][Next]_lvars
=============================================================================
