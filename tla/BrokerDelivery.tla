--------------------------- MODULE BrokerDelivery ---------------------------
(***************************************************************************)
(* What the broker promises about a message, whatever it is made of: its   *)
(* status only moves forward along                                         *)
(*                                                                         *)
(*   absent -> pending -> dispatched -> completed | timed_out | failed     *)
(*                                                                         *)
(* and while it is dispatched, never before and never after, it may be     *)
(* taken up by its mind once and answered by one reply.  A message that    *)
(* timed out has no reply.  Neither is promised of a completed one.        *)
(***************************************************************************)
EXTENDS Naturals

CONSTANT MsgId

VARIABLES
  status,    \* the recorded status of each message
  delivered, \* how often its wakeup prompt has been taken up
  answers    \* how many replies to it are recorded

dvars == <<status, delivered, answers>>

Settled == {"completed", "timed_out", "failed"}
Status == {"absent", "pending", "dispatched"} \cup Settled

Init ==
  /\ status = [m \in MsgId |-> "absent"]
  /\ delivered = [m \in MsgId |-> 0]
  /\ answers = [m \in MsgId |-> 0]

Forward(m) ==
  /\ \/ status[m] = "absent" /\ status'[m] = "pending"
     \/ status[m] = "pending" /\ status'[m] = "dispatched"
     \/ status[m] = "dispatched" /\ status'[m] \in Settled \ {"timed_out"}
     \/ status[m] = "dispatched" /\ status'[m] = "timed_out" /\ answers[m] = 0
  /\ answers'[m] = answers[m]

Answer(m) ==
  /\ status[m] = "dispatched" /\ answers[m] = 0
  /\ status'[m] = status[m]
  /\ answers'[m] = answers[m] + 1

Still(m) == status'[m] = status[m] /\ answers'[m] = answers[m]

(* One commit may record a step of several messages at once. *)
Record ==
  /\ status' \in [MsgId -> Status]
  /\ answers' \in [MsgId -> Nat]
  /\ \A m \in MsgId : Forward(m) \/ Answer(m) \/ Still(m)
  /\ UNCHANGED delivered

Deliver(m) ==
  /\ status[m] = "dispatched"
  /\ delivered[m] = 0
  /\ delivered' = [delivered EXCEPT ![m] = @ + 1]
  /\ UNCHANGED <<status, answers>>

Next == Record \/ \E m \in MsgId : Deliver(m)

Spec == Init /\ [][Next]_dvars
=============================================================================
