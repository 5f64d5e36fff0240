-------------------------------- MODULE Lucent --------------------------------
(***************************************************************************)
(* The lucent-api service: the knowledge graph and the vector memory on    *)
(* one file and one pool of threads, with the nightly pruner beside them.  *)
(* Both kinds of requests meet in the connections: what one leaves behind  *)
(* in its thread, the next request of that thread finds.                   *)
(***************************************************************************)
EXTENDS LucentGraph, LucentMemory

CONSTANT Initial  \* the tables when the service starts

vars == <<store, pruner>>

EmptyDb == [f \in DOMAIN NoGraph \cup DOMAIN NoMemories |->
              IF f \in DOMAIN NoGraph THEN NoGraph[f] ELSE NoMemories[f]]

Init == StoreInit(Initial) /\ PrunerInit

Restart == Crash /\ prune' = NoPrune /\ UNCHANGED <<clock, vanished>>

Step(t) == (GraphStep(t) /\ UNCHANGED pruner) \/ MemoryStep(t)

Call(t, r) == (GraphRequest(t, r) /\ UNCHANGED pruner) \/ MemoryRequest(t, r)

Next ==
  \/ \E t \in Thread : Step(t) \/ \E r \in Request : Call(t, r)
  \/ PruneStart \/ PruneStep \/ PruneTimeout
  \/ Tick \/ CodeVanishes \/ Restart

(* Threads run, each wait for the write lock ends after 5 s, and the       *)
(* scheduler starts the pruner again.                                      *)
Spec ==
  /\ Init /\ [][Next]_vars
  /\ \A t \in Thread : WF_vars(Step(t))
  /\ WF_vars(PruneStart) /\ WF_vars(PruneStep)

-----------------------------------------------------------------------------
(* Types *)

Rows == [mind : STRING, type : STRING, name : STRING,
         columns : SUBSET {"first_name", "last_name"}, keys : SUBSET STRING, by : STRING]

Memories == [content : STRING, class : DataClass, tier : Tiers, ref : BOOLEAN,
             expires : Nat, born : 0..MaxClock, edits : Nat]

TablesOK(v) ==
  /\ v \in [node : {v.node}, edge : {v.edge}, last : Nat, types : SUBSET DOMAIN AdminTypes,
            relations : SUBSET DOMAIN AdminEdges, mem : {v.mem}, last_mem : Nat]
  /\ v.node \in [DOMAIN v.node -> Rows] /\ DOMAIN v.node \subseteq 1..v.last
  /\ \A i, j \in DOMAIN v.node :
       v.node[i].mind = v.node[j].mind /\ v.node[i].name = v.node[j].name => i = j
  /\ \A e \in v.edge : e.source \in 1..v.last /\ e.target \in 1..v.last
  /\ v.mem \in [DOMAIN v.mem -> Memories] /\ DOMAIN v.mem \subseteq 1..v.last_mem

(* The service starts on tables as it leaves them; persons have a first    *)
(* and a last name; what an administrator may add is specified; only the   *)
(* pruner's requests are called its own.                                   *)
ASSUME LucentAssumption ==
  /\ MaxClock \in Nat
  /\ TablesOK(Initial)
  /\ \A e \in Initial.edge : {e.source, e.target} \subseteq DOMAIN Initial.node
  /\ \A r \in Request :
       /\ r.op \in GraphOps =>
            /\ {r.mind, r.type, r.name, r.tname, r.ttype} \subseteq STRING
            /\ Fields(r) \subseteq STRING
       /\ r.op = "name" => Fields(r) \subseteq {"first_name", "last_name"}
       /\ r.op = "add_type" => r.type \in DOMAIN SchemaTypes \cup DOMAIN AdminTypes
       /\ r.op = "add_relation" => r.rel \in DOMAIN SchemaEdges \cup DOMAIN AdminEdges
       /\ r.op = "store" => r.content \in STRING /\ r.ref \in BOOLEAN /\ r.expires \in Nat
       /\ r.op = "revise" => r.content \in STRING
       /\ r.op = "forget" => r.origin # "pruner"

(* The tables, also as a transaction sees them, refer to ids that were     *)
(* handed out and keep UNIQUE(mind_id, name), which the handlers leave to  *)
(* the database, and at most one connection holds the write lock.          *)
TypeOK ==
  /\ TablesOK(db)
  /\ \A t \in Thread :
       /\ conn[t].tx \in {"none", "begun", "read", "write"}
       /\ IF conn[t].tx \in {"read", "write"} THEN TablesOK(conn[t].view)
          ELSE conn[t].view = NoDb
       /\ req[t].in \in Request \cup {NoRequest} \cup {DeleteRequest(i) : i \in 1..db.last_mem}
  /\ \A t, u \in Thread : conn[t].tx = "write" /\ conn[u].tx = "write" => t = u
  /\ prune.pick \in 0..db.last_mem

-----------------------------------------------------------------------------
(* Safety *)

Pending(t) == conn[t].tx = "write" /\ req[t].pc # "idle"

(* A request that ends leaves nothing uncommitted in its thread's          *)
(* connection, however it ends, so no later request of the thread commits  *)
(* a part of it (no handler rolls back: lucent_graph.py:269, 830, 895,     *)
(* 1029, 1071).                                                            *)
NothingPending ==
  \A t \in Thread : conn[t].tx = "write" /\ req[t].pc = "idle" => conn[t].view = db

(* An edge that a request is about to store never joins a node that was    *)
(* already deleted when the request began: the ids it read are no older    *)
(* than that, even from a pinned snapshot (lucent_graph.py:997-1027 and    *)
(* 197-257).                                                               *)
NoLateEdge ==
  \A t \in Thread : Pending(t) =>
    \A e \in conn[t].view.edge \ db.edge : \A i \in {e.source, e.target} :
      i > req[t].before.last \/ i \in DOMAIN req[t].before.node

(* The identity nodes a guard takes for the one of the request. *)
NamedAlike(r, v) ==
  {i \in DOMAIN v.node : v.node[i].type = "Mind" /\ Lower[v.node[i].name] = Lower[r.name]}

Written(t) == At(t, Upserts, "commit_node") \/ At(t, {"create"}, "commit")

(* As long as an identity node stands, there when a request began and      *)
(* still there, an upsert or creation under its name, case aside, that has *)
(* written its node and is about to commit it is its owner's: what         *)
(* _check_identity_guard found, in another transaction and perhaps in a    *)
(* pinned snapshot, still holds (lucent_graph.py:76-94).                   *)
IdentityKept ==
  \A t \in Thread :
    LET r == req[t].in
        before == req[t].before
    IN /\ Pending(t) /\ Written(t)
       /\ NamedAlike(r, before) \cap DOMAIN db.node # {}
       => \E j \in NamedAlike(r, before) : before.node[j].mind = r.mind

(* A memory that is about to be stored is not close to an entry of its     *)
(* class that was there before the request and that nobody revised since:  *)
(* dedup misses only what was stored or revised meanwhile                  *)
(* (lucent_memory.py:181-188).                                             *)
DedupOfSettled ==
  \A t \in Thread : Pending(t) /\ req[t].in.op = "store" =>
    LET v == conn[t].view
    IN \A n \in DOMAIN v.mem \ DOMAIN db.mem :
         \A i \in DOMAIN db.mem \cap DOMAIN req[t].before.mem :
           (db.mem[i] = req[t].before.mem[i] /\ db.mem[i].class = v.mem[n].class)
             => <<db.mem[i].content, v.mem[n].content>> \notin Close

(* The pruner never deletes a standing entry, though it decides on rows    *)
(* read earlier (prune_memory.py:22, "Standing-tier entries are exempt").  *)
StandingSpared ==
  \A t \in Thread :
    (Pending(t) /\ req[t].in.op = "forget" /\ req[t].in.origin = "pruner") =>
      \A i \in DOMAIN db.mem \ DOMAIN conn[t].view.mem : db.mem[i].tier = "contextual"

(* Every change of the published graph is one whole operation of           *)
(* GraphStore.                                                             *)
Abstract == INSTANCE GraphStore WITH
  node <- [i \in DOMAIN db.node |-> <<db.node[i].mind, db.node[i].type, db.node[i].name>>],
  body <- [i \in DOMAIN db.node |-> <<db.node[i].columns, db.node[i].keys, db.node[i].by>>],
  edge <- db.edge,
  last <- db.last

WholeOperations == Abstract!Spec

(* What _check_identity_guard says: "Only the mind whose mind_id matches   *)
(* the existing node's mind_id (the original creator) may update it", also *)
(* when the node was made after the guard looked (lucent_graph.py:79-81).  *)
IdentityOwned ==
  \A t \in Thread : Pending(t) /\ req[t].in.op \in Upserts =>
    \A i \in DOMAIN db.node \cap DOMAIN conn[t].view.node :
      LET row == db.node[i]
      IN row.type = "Mind" /\ conn[t].view.node[i].by # row.by => row.mind = req[t].in.mind

(* What the documentation of /properties/merge says: keys that are not in  *)
(* the request are preserved (lucent_graph.py:845).                        *)
KeysPreserved ==
  \A t \in Thread : Pending(t) /\ req[t].in.op = "merge" =>
    \A i \in DOMAIN db.node \cap DOMAIN conn[t].view.node :
      db.node[i].keys \subseteq conn[t].view.node[i].keys

(* What the pruner reports: an entry that it counts as deleted is gone     *)
(* (prune_memory.py:116).                                                  *)
ReportTrue == [][PruneAnswered => prune.pick \notin DOMAIN db.mem]_vars

-----------------------------------------------------------------------------
(* Liveness *)

(* Every request is answered, however long others hold the write lock. *)
RequestsEnd == \A t \in Thread : (req[t].pc # "idle") ~> (req[t].pc = "idle")

(* No connection is left holding the write lock or a dead snapshot. *)
Healthy ==
  \A t \in Thread : ~ conn[t].stale /\ (conn[t].tx = "write" => req[t].pc # "idle")

Overdue(i) ==
  /\ i \in DOMAIN db.mem
  /\ db.mem[i].class = "feedback" /\ db.mem[i].tier = "contextual"
  /\ Decayed(db.mem[i], "feedback", clock)

(* As long as the connections stay healthy, a contextual feedback entry    *)
(* that has decayed is deleted in the end (prune_feedback), whatever       *)
(* requests and restarts come in between.                                  *)
OverduePruned ==
  (<>[]Healthy) => \A i \in 1..MaxRequests : Overdue(i) ~> ~ Overdue(i)
=============================================================================
