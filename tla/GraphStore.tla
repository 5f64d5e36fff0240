------------------------------ MODULE GraphStore ------------------------------
(***************************************************************************)
(* What a client of the knowledge graph is promised: each change that      *)
(* becomes visible is one operation of the graph, made as a whole.         *)
(***************************************************************************)
EXTENDS Naturals

VARIABLES
  node,  \* node ids in use, to what identifies them
  body,  \* node ids in use, to what may be edited
  edge,
  last   \* the highest id ever used

Init ==
  /\ DOMAIN node \subseteq 1..last
  /\ DOMAIN body = DOMAIN node
  /\ \A e \in edge : {e.source, e.target} \subseteq DOMAIN node

(* A new node gets a new id and changes no other. *)
Create ==
  /\ last' = last + 1
  /\ DOMAIN node' = DOMAIN node \cup {last'}
  /\ DOMAIN body' = DOMAIN node'
  /\ \A i \in DOMAIN node : node'[i] = node[i] /\ body'[i] = body[i]
  /\ edge' = edge

(* Editing changes the body of one node and never what identifies it. *)
Edit(i) ==
  /\ DOMAIN body' = DOMAIN body
  /\ \A j \in DOMAIN body \ {i} : body'[j] = body[j]
  /\ UNCHANGED <<node, edge, last>>

(* A node goes with every edge that touches it, and nothing else. *)
Drop(i) ==
  /\ node' = [j \in DOMAIN node \ {i} |-> node[j]]
  /\ body' = [j \in DOMAIN node \ {i} |-> body[j]]
  /\ edge' = {e \in edge : e.source # i /\ e.target # i}
  /\ last' = last

Link ==
  /\ \E e \in edge' : edge' = edge \cup {e} /\ e.source \in 1..last /\ e.target \in 1..last
  /\ UNCHANGED <<node, body, last>>

Unlink == (\E e \in edge : edge' = edge \ {e}) /\ UNCHANGED <<node, body, last>>

Next == Create \/ (\E i \in DOMAIN body : Edit(i)) \/ (\E i \in 1..last : Drop(i))
          \/ Link \/ Unlink

Spec == Init /\ [][Next]_<<node, body, edge, last>>
=============================================================================
