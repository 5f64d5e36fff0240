----------------------------- MODULE LucentGraph -----------------------------
(***************************************************************************)
(* The knowledge graph: lucent_api/lucent_graph.py, the guards of          *)
(* kg_guards.py and the routes of routers/graph.py.                        *)
(*                                                                         *)
(* A request is a record: op, the node's type, name and mind, its props    *)
(* (a function from fields to values), and for edges rel, attrs, ttype and *)
(* tname.  Every SELECT, every statement and every commit is a step.       *)
(* SELECTs of the schema are merged with the next one: the schema only     *)
(* grows, so the moment one of them is made cannot matter.                 *)
(*                                                                         *)
(* Left out: values of properties, timestamps and provenance columns, the  *)
(* searches other than graph_query, the Telegram message, and graph_upsert *)
(* with its HITL gate, which no route of the service reaches.              *)
(***************************************************************************)
EXTENDS LucentStore, SchemaRegistry

CONSTANTS
  Lower,      \* LOWER() on the names in use
  Contains,   \* the pairs of names one of which contains the other (LIKE)
  Capitals,   \* the relations written in capitals (_RELATION_RE)
  AdminTypes, \* specification of each type an administrator may add
  AdminEdges  \* and of each relation

(* A row of nodes.  columns are the name columns that are set, keys the    *)
(* fields of the properties blob, by the mind that wrote the blob.         *)
Node(mind, type, name, fields) ==
  LET columns == {"first_name", "last_name"}
  IN [mind |-> mind, type |-> type, name |-> name, columns |-> fields \cap columns,
      keys |-> fields \ columns, by |-> mind]

NoGraph == [node |-> <<>>, edge |-> {}, last |-> 0, types |-> {}, relations |-> {}]

(* The schema tables: the seed and what was added to it. *)
Registered(v, type) == type \in DOMAIN SchemaTypes \cup v.types
Related(v, rel) == rel \in DOMAIN SchemaEdges \cup v.relations
TypeSpec(type) ==
  IF type \in DOMAIN SchemaTypes THEN SchemaTypes[type] ELSE AdminTypes[type]
EdgeSpec(rel) == IF rel \in DOMAIN SchemaEdges THEN SchemaEdges[rel] ELSE AdminEdges[rel]

(* SELECT ... LIMIT 1 takes the first row in the order of ids; 0 is none.  *)
First(S) == IF S = {} THEN 0 ELSE Min(S)

NodeOf(v, name, type) ==
  First({i \in DOMAIN v.node : v.node[i].name = name /\ v.node[i].type = type})

(* UNIQUE(mind_id, name) *)
Taken(v, mind, name) ==
  \E i \in DOMAIN v.node : v.node[i].mind = mind /\ v.node[i].name = name

(* A variant without AUTOINCREMENT's sequence. *)
InsertUnsequenced(v, row) ==
  [v EXCEPT !.node = [i \in DOMAIN @ \cup {v.last + 1} |->
                        IF i \in DOMAIN @ THEN @[i] ELSE row]]

InsertNode(v, row) ==
  [v EXCEPT !.last = @ + 1,
            !.node = [i \in DOMAIN @ \cup {v.last + 1} |->
                        IF i \in DOMAIN @ THEN @[i] ELSE row]]

UpdateNode(v, i, row) ==
  [v EXCEPT !.node = [j \in DOMAIN @ |-> IF j = i THEN row ELSE @[j]]]

(* A variant that forgets the edges that lead to the node. *)
Outgoing(v, i) == {e \in v.edge : e.source = i}

Touching(v, i) == {e \in v.edge : e.source = i \/ e.target = i}

Fields(r) == DOMAIN r.props

(* A variant that compares the names as they are. *)
GuardedExactly(v, r) ==
  LET i == NodeOf(v, r.name, "Mind")
  IN i # 0 /\ v.node[i].mind # r.mind

(* _check_identity_guard: a Mind node of that name, case aside, that       *)
(* belongs to another mind.                                                *)
Guarded(v, r) ==
  LET i == First({j \in DOMAIN v.node : /\ v.node[j].type = "Mind"
                                        /\ Lower[v.node[j].name] = Lower[r.name]})
  IN i # 0 /\ v.node[i].mind # r.mind

-----------------------------------------------------------------------------
(* Upserts.  /graph/upsert validates against the schema, /upsert-backup    *)
(* only runs the guards, /upsert-direct writes at once.                    *)

Upserts == {"upsert", "upsert_backup", "upsert_direct"}

Objection(v, r) ==
  LET node == ValidateNode(Registered(v, r.type), TypeSpec(r.type), r.props)
  IN IF node # "ok" \/ r.rel = "" THEN node
     ELSE ValidateEdge(Related(v, r.rel), EdgeSpec(r.rel), r.type, r.ttype, r.attrs)

Orphan(r) == r.rel = "" \/ r.tname = ""

UpsertValidate(t) ==
  LET r == req[t].in
  IN /\ At(t, {"upsert"}, "validate")
     /\ Reads(t, IF Objection(Seen(t), r) # "ok" \/ Orphan(r)
                 THEN Answer(t) ELSE Goto(t, "similar"))

(* check_disambiguation: names alike, but none the same up to case. *)
Ambiguous(v, r) ==
  LET names == {v.node[i].name : i \in DOMAIN v.node}
  IN /\ \E n \in names : <<n, r.name>> \in Contains
     /\ \A n \in names : Lower[n] # Lower[r.name]

UpsertSimilar(t) ==
  LET r == req[t].in
  IN /\ At(t, {"upsert", "upsert_backup"}, "similar")
     /\ Reads(t, IF Orphan(r) \/ Ambiguous(Seen(t), r)
                 THEN Answer(t) ELSE Goto(t, "guard"))

UpsertGuard(t) ==
  LET r == req[t].in
  IN /\ At(t, Upserts, "guard")
     /\ Reads(t, IF ~ Registered(Seen(t), r.type) \/ Guarded(Seen(t), r)
                 THEN Answer(t) ELSE Goto(t, "find"))

UpsertFind(t) ==
  LET r == req[t].in
  IN /\ At(t, Upserts, "find")
     /\ Reads(t, Find(t, "node", NodeOf(Seen(t), r.name, r.type)))

(* The whole blob is replaced; the name columns are only ever set.  A node *)
(* deleted since it was found is not updated, and the request goes on.     *)
UpsertNode(t) ==
  LET r == req[t].in
      v == Seen(t)
      i == req[t].id
      new == Node(r.mind, r.type, r.name, Fields(r))
      kept == [v.node[i] EXCEPT !.keys = new.keys, !.columns = @ \cup new.columns,
                                !.by = r.mind]
  IN /\ At(t, Upserts, "node")
     /\ \/ /\ i # 0 /\ i \in DOMAIN v.node
           /\ Writes(t, UpdateNode(v, i, kept), TRUE, Goto(t, "commit_node"))
        \/ /\ i # 0 /\ i \notin DOMAIN v.node
           /\ Writes(t, v, FALSE, Goto(t, "commit_node"))
        \/ /\ i = 0 /\ ~ Taken(v, r.mind, r.name)
           /\ Writes(t, InsertNode(v, new), TRUE,
                     Find(t, "commit_node", v.last + 1))
        \/ /\ i = 0 /\ Taken(v, r.mind, r.name)
           /\ Breaks(t)

(* A variant that commits the node with the edge. *)
UpsertKeepNode(t) ==
  /\ At(t, Upserts, "commit_node")
  /\ IF Orphan(req[t].in) THEN Commits(t, Answer(t))
     ELSE Goto(t, "find_target") /\ UNCHANGED <<db, conn, served, crashes>>

UpsertCommitNode(t) ==
  /\ At(t, Upserts, "commit_node")
  /\ Commits(t, IF Orphan(req[t].in) THEN Answer(t) ELSE Goto(t, "find_target"))

(* A relation that is not in capitals, or an unknown type, fails here: the *)
(* node stays.                                                             *)
UpsertFindTarget(t) ==
  LET r == req[t].in
      type == IF r.ttype = "" THEN r.type ELSE r.ttype
  IN /\ At(t, Upserts, "find_target")
     /\ Reads(t, IF r.rel \notin Capitals \/ ~ Registered(Seen(t), type)
                 THEN Answer(t)
                 ELSE Aim(t, "target", NodeOf(Seen(t), r.tname, type)))

(* A target that exists gets new provenance columns only. *)
UpsertTarget(t) ==
  LET r == req[t].in
      v == Seen(t)
      i == req[t].target
      new == Node(r.mind, IF r.ttype = "" THEN r.type ELSE r.ttype, r.tname, {})
  IN /\ At(t, Upserts, "target")
     /\ \/ /\ i # 0
           /\ Writes(t, v, i \in DOMAIN v.node, Goto(t, "commit_target"))
        \/ /\ i = 0 /\ ~ Taken(v, r.mind, r.tname)
           /\ Writes(t, InsertNode(v, new), TRUE,
                     Aim(t, "commit_target", v.last + 1))
        \/ /\ i = 0 /\ Taken(v, r.mind, r.tname)
           /\ Breaks(t)

UpsertCommitTarget(t) ==
  /\ At(t, Upserts, "commit_target")
  /\ Commits(t, Goto(t, "edge"))

(* INSERT ... ON CONFLICT DO UPDATE *)
UpsertEdge(t) ==
  LET e == [source |-> req[t].id, target |-> req[t].target, rel |-> req[t].in.rel]
  IN /\ At(t, Upserts, "edge")
     /\ Writes(t, [Seen(t) EXCEPT !.edge = @ \cup {e}], TRUE, Goto(t, "commit"))

-----------------------------------------------------------------------------
(* The endpoints of the second version *)

CreateFind(t) ==
  LET r == req[t].in
  IN /\ At(t, {"create"}, "find")
     /\ Reads(t, IF ~ Registered(Seen(t), r.type) \/ NodeOf(Seen(t), r.name, r.type) # 0
                 THEN Answer(t) ELSE Goto(t, "guard"))

CreateGuard(t) ==
  /\ At(t, {"create"}, "guard")
  /\ Reads(t, IF Guarded(Seen(t), req[t].in) THEN Answer(t) ELSE Goto(t, "insert"))

CreateInsert(t) ==
  LET r == req[t].in
      v == Seen(t)
  IN /\ At(t, {"create"}, "insert")
     /\ IF Taken(v, r.mind, r.name)
        THEN Breaks(t)
        ELSE Writes(t, InsertNode(v, Node(r.mind, r.type, r.name, Fields(r))), TRUE,
                    Goto(t, "commit"))

(* /properties/merge and /properties/remove read the blob ... *)
Protected == {"name", "type", "created_at", "updated_at", "as_of", "superseded"}

EditRead(t) ==
  LET r == req[t].in
      i == NodeOf(Seen(t), r.name, r.type)
  IN /\ At(t, {"merge", "remove"}, "read")
     /\ Reads(t, IF i = 0 \/ (r.op = "remove" /\ Fields(r) \cap Protected # {})
                 THEN Answer(t)
                 ELSE req' = [req EXCEPT ![t] =
                        [@ EXCEPT !.pc = "write", !.id = i, !.keys = Seen(t).node[i].keys]])

(* ... and write back what they read, changed.  The columns are set in the *)
(* statement itself.                                                       *)
EditWrite(t) ==
  LET r == req[t].in
      v == Seen(t)
      i == req[t].id
      given == Node(r.mind, r.type, r.name, Fields(r))
      row == IF r.op = "merge"
             THEN [v.node[i] EXCEPT !.keys = req[t].keys \cup given.keys,
                                    !.columns = @ \cup given.columns]
             ELSE [v.node[i] EXCEPT !.keys = req[t].keys \ given.keys,
                                    !.columns = @ \ given.columns]
  IN /\ At(t, {"merge", "remove"}, "write")
     /\ IF i \in DOMAIN v.node
        THEN Writes(t, UpdateNode(v, i, row), TRUE, Goto(t, "commit"))
        ELSE Writes(t, v, FALSE, Goto(t, "commit"))

Named(row, fields) == [row EXCEPT !.columns = @ \cup fields]

(* update_person_names: one statement. *)
NamePersons(t) ==
  LET r == req[t].in
      v == Seen(t)
      S == {i \in DOMAIN v.node : /\ v.node[i].type = "Person"
                                  /\ v.node[i].name = r.name /\ v.node[i].mind = r.mind}
  IN /\ At(t, {"name"}, "write")
     /\ Writes(t, [v EXCEPT !.node = [i \in DOMAIN @ |->
                     IF i \in S THEN Named(@[i], Fields(r)) ELSE @[i]]],
               S # {}, Goto(t, "commit"))

(* /edges (POST and DELETE): the two ends are read one after the other. *)
EdgeSource(t) ==
  LET r == req[t].in
      i == NodeOf(Seen(t), r.name, r.type)
  IN /\ At(t, {"link", "unlink"}, "source")
     /\ Reads(t, IF r.rel \notin Capitals \/ (r.op = "link" /\ i = 0)
                 THEN Answer(t)
                 ELSE Find(t, "target", i))

(* A variant that trusts the target to be there. *)
EdgeTargetTrusted(t) ==
  LET r == req[t].in
  IN /\ At(t, {"link", "unlink"}, "target")
     /\ Reads(t, IF req[t].id = 0 THEN Answer(t)
                 ELSE Aim(t, "edge", NodeOf(Seen(t), r.tname, r.ttype)))

EdgeTarget(t) ==
  LET r == req[t].in
      i == NodeOf(Seen(t), r.tname, r.ttype)
  IN /\ At(t, {"link", "unlink"}, "target")
     /\ Reads(t, IF i = 0 \/ req[t].id = 0 THEN Answer(t)
                 ELSE Aim(t, "edge", i))

(* An edge that exists breaks UNIQUE(source_id, target_id, type). *)
EdgeWrite(t) ==
  LET r == req[t].in
      v == Seen(t)
      e == [source |-> req[t].id, target |-> req[t].target, rel |-> r.rel]
  IN /\ At(t, {"link", "unlink"}, "edge")
     /\ \/ /\ r.op = "link" /\ e \in v.edge
           /\ Breaks(t)
        \/ /\ r.op = "link" /\ e \notin v.edge
           /\ Writes(t, [v EXCEPT !.edge = @ \cup {e}], TRUE, Goto(t, "commit"))
        \/ /\ r.op = "unlink"
           /\ Writes(t, [v EXCEPT !.edge = @ \ {e}], e \in v.edge, Goto(t, "commit"))

DeleteFind(t) ==
  LET i == NodeOf(Seen(t), req[t].in.name, req[t].in.type)
  IN /\ At(t, {"delete"}, "find")
     /\ Reads(t, IF i = 0 THEN Answer(t)
                 ELSE Find(t, "edges", i))

DeleteEdges(t) ==
  LET touching == Touching(Seen(t), req[t].id)
  IN /\ At(t, {"delete"}, "edges")
     /\ Writes(t, [Seen(t) EXCEPT !.edge = @ \ touching], touching # {}, Goto(t, "node"))

DeleteNode(t) ==
  LET v == Seen(t)
  IN /\ At(t, {"delete"}, "node")
     /\ Writes(t, [v EXCEPT !.node = Restrict(@, DOMAIN @ \ {req[t].id})],
               req[t].id \in DOMAIN v.node, Goto(t, "commit"))

(* /schema/types and /schema/edges: an INSERT; a name that exists breaks    *)
(* the primary key.                                                        *)
AddType(t) ==
  LET r == req[t].in
      v == Seen(t)
  IN /\ At(t, {"add_type"}, "write")
     /\ IF Registered(v, r.type)
        THEN Breaks(t)
        ELSE Writes(t, [v EXCEPT !.types = @ \cup {r.type}], TRUE, Goto(t, "commit"))

AddRelation(t) ==
  LET r == req[t].in
      v == Seen(t)
  IN /\ At(t, {"add_relation"}, "write")
     /\ IF Related(v, r.rel)
        THEN Breaks(t)
        ELSE Writes(t, [v EXCEPT !.relations = @ \cup {r.rel}], TRUE, Goto(t, "commit"))

GraphCommit(t) ==
  /\ At(t, Upserts \cup {"create", "merge", "remove", "name", "link", "unlink", "delete",
                         "add_type", "add_relation"}, "commit")
  /\ Commits(t, Answer(t))

-----------------------------------------------------------------------------
(* graph_query reads the matching nodes, then, node by node, its edges.    *)

QueryNodes(t) ==
  LET i == First({j \in DOMAIN Seen(t).node :
                    Lower[Seen(t).node[j].name] = Lower[req[t].in.name]})
  IN /\ At(t, {"query"}, "nodes")
     /\ Reads(t, IF i = 0 THEN Answer(t)
                 ELSE Find(t, "edges", i))

QueryEdges(t) ==
  /\ At(t, {"query"}, "edges")
  /\ Reads(t, Answer(t))

FirstStep(op) ==
  CASE op = "upsert" -> "validate"
    [] op = "upsert_backup" -> "similar"
    [] op = "upsert_direct" -> "guard"
    [] op \in {"create", "delete"} -> "find"
    [] op \in {"merge", "remove"} -> "read"
    [] op \in {"name", "add_type", "add_relation"} -> "write"
    [] op \in {"link", "unlink"} -> "source"
    [] op = "query" -> "nodes"

GraphOps == Upserts \cup {"create", "delete", "merge", "remove", "name", "add_type",
                          "add_relation", "link", "unlink", "query"}

GraphRequest(t, r) ==
  /\ r.op \in GraphOps
  /\ served < MaxRequests
  /\ served' = served + 1
  /\ Begin(t, r, FirstStep(r.op))

GraphStep(t) ==
  \/ UpsertValidate(t) \/ UpsertSimilar(t) \/ UpsertGuard(t) \/ UpsertFind(t)
  \/ UpsertNode(t) \/ UpsertCommitNode(t) \/ UpsertFindTarget(t) \/ UpsertTarget(t)
  \/ UpsertCommitTarget(t) \/ UpsertEdge(t)
  \/ CreateFind(t) \/ CreateGuard(t) \/ CreateInsert(t)
  \/ EditRead(t) \/ EditWrite(t) \/ NamePersons(t)
  \/ EdgeSource(t) \/ EdgeTarget(t) \/ EdgeWrite(t)
  \/ DeleteFind(t) \/ DeleteEdges(t) \/ DeleteNode(t)
  \/ AddType(t) \/ AddRelation(t) \/ GraphCommit(t)
  \/ QueryNodes(t) \/ QueryEdges(t)
=============================================================================
