------------------------------ MODULE MCBroker ------------------------------
(* Small instances of Broker: one conversation, so that numbers collide.   *)
EXTENDS Broker, TLC

CONSTANTS c1

OneConversation == [m \in MsgId |-> c1]

Symmetric == Permutations(MsgId) \cup Permutations(ReplyId) \cup Permutations(Req)
             \cup Permutations(Task) \cup Permutations(Session)
=============================================================================
