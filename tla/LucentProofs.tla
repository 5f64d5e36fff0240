----------------------------- MODULE LucentProofs -----------------------------
(***************************************************************************)
(* Proofs about the lucent-api service, for any threads, requests and      *)
(* tables to start from.                                                   *)
(*                                                                         *)
(* The invariant LInv has three layers:                                    *)
(*  - StoreInv, what connections are: a transaction that reads sees the    *)
(*    published tables until somebody else commits, one that writes has    *)
(*    something of its own only between a handler's write and its commit;  *)
(*  - Known and Drafted, what a handler knows and what it has written: the *)
(*    ids it found were there when its request began or are younger        *)
(*    (Placed), what its checks found holds as long as it can still write  *)
(*    (Cleared), and its draft is one operation of GraphStore;             *)
(*  - PrunerInv, what the pruner has picked.                               *)
(* All of it holds on under Later, which says what commits of others may   *)
(* do to the tables: ids are not reused, and a row stays what it is.       *)
(***************************************************************************)
EXTENDS Lucent, TLAPS, WellFoundedInduction, NaturalsInduction

-----------------------------------------------------------------------------
(* Tables: b is a later state of a                                         *)

(* Ids of nodes are not reused, and an id stays the node it was. *)
LaterNodes(a, b) ==
  /\ a.last <= b.last
  /\ \A i \in DOMAIN b.node : i > a.last \/ i \in DOMAIN a.node
  /\ \A i \in DOMAIN b.node \cap DOMAIN a.node :
       /\ b.node[i].mind = a.node[i].mind /\ b.node[i].type = a.node[i].type
       /\ b.node[i].name = a.node[i].name

(* A memory whose revisions have the same number is the same. *)
LaterMemories(a, b) ==
  /\ a.last_mem <= b.last_mem
  /\ \A i \in DOMAIN b.mem : i > a.last_mem \/ i \in DOMAIN a.mem
  /\ \A i \in DOMAIN b.mem \cap DOMAIN a.mem :
       /\ b.mem[i] = a.mem[i] \/ b.mem[i].edits > a.mem[i].edits
       /\ a.mem[i].tier = "contextual" => b.mem[i].tier = "contextual"

Later(a, b) == LaterNodes(a, b) /\ LaterMemories(a, b)

LEMMA LaterSame ==
  ASSUME NEW a, TablesOK(a)
  PROVE  Later(a, a)
BY DEF TablesOK, Later, LaterNodes, LaterMemories

LEMMA Ids ==
  ASSUME NEW v, TablesOK(v)
  PROVE  /\ v.last \in Nat /\ v.last_mem \in Nat
         /\ \A i \in DOMAIN v.node : i \in Nat /\ i <= v.last /\ i >= 1 /\ v.node[i] \in Rows
         /\ \A i \in DOMAIN v.mem : i \in Nat /\ i <= v.last_mem /\ i >= 1 /\ v.mem[i] \in Memories
BY DEF TablesOK

LEMMA LaterChain ==
  ASSUME NEW a, NEW b, NEW c, TablesOK(a), TablesOK(b), TablesOK(c), Later(a, b), Later(b, c)
  PROVE  Later(a, c)
<1>1. LaterNodes(a, c)
  BY Ids DEF Later, LaterNodes
<1>2. LaterMemories(a, c)
  <2>1. \A i \in DOMAIN a.mem \cup DOMAIN b.mem \cup DOMAIN c.mem : i \in Nat
    BY Ids
  <2>2. a.last_mem <= c.last_mem /\ \A i \in DOMAIN c.mem : i > a.last_mem \/ i \in DOMAIN a.mem
    BY <2>1, Ids DEF Later, LaterMemories
  <2>3. ASSUME NEW i \in DOMAIN c.mem \cap DOMAIN a.mem
        PROVE  /\ c.mem[i] = a.mem[i] \/ c.mem[i].edits > a.mem[i].edits
               /\ a.mem[i].tier = "contextual" => c.mem[i].tier = "contextual"
    <3>1. i \in DOMAIN b.mem
      BY Ids DEF Later, LaterMemories
    <3>2. a.mem[i].edits \in Nat /\ b.mem[i].edits \in Nat /\ c.mem[i].edits \in Nat
      BY <3>1, Ids DEF Memories
    <3>3. QED
      BY <3>1, <3>2 DEF Later, LaterMemories
  <2>4. QED
    BY <2>2, <2>3 DEF LaterMemories
<1>3. QED
  BY <1>1, <1>2 DEF Later

-----------------------------------------------------------------------------
(* The smallest id *)

LEMMA SmallestId ==
  ASSUME NEW S, S \subseteq Nat, S # {}
  PROVE  Min(S) \in S /\ \A j \in S : Min(S) <= j
<1>1. \E x \in S : \A y \in S : ~ (<<y, x>> \in OpToRel(<, Nat))
  BY NatLessThanWellFounded, WFMin
<1>2. \A x, y \in S : y < x => <<y, x>> \in OpToRel(<, Nat)
  BY Zenon DEF OpToRel
<1>3. \E x \in S : \A y \in S : ~ (y < x)
  BY <1>1, <1>2, Zenon
<1>4. \E x \in S : \A y \in S : x <= y
  BY <1>3
<1>5. QED
  BY <1>4 DEF Min

LEMMA FirstId ==
  ASSUME NEW S, S \subseteq Nat
  PROVE  First(S) \in S \cup {0} /\ (0 \notin S /\ S # {} => First(S) # 0)
BY SmallestId DEF First

LEMMA NodeFound ==
  ASSUME NEW v, TablesOK(v), NEW name, NEW type
  PROVE  /\ NodeOf(v, name, type) \in Nat /\ NodeOf(v, name, type) <= v.last
         /\ NodeOf(v, name, type) # 0 => NodeOf(v, name, type) \in DOMAIN v.node
<1> DEFINE S == {i \in DOMAIN v.node : v.node[i].name = name /\ v.node[i].type = type}
<1>1. S \subseteq DOMAIN v.node /\ S \subseteq Nat
  BY Ids
<1>2. First(S) \in S \cup {0}
  BY <1>1, FirstId
<1>3. QED
  BY <1>1, <1>2, Ids DEF NodeOf

-----------------------------------------------------------------------------
(* Statements on the tables.  Each is one operation of GraphStore, made in *)
(* one step, or leaves the graph alone; SameGraph and SameMemories say     *)
(* which part it leaves alone.                                             *)

SameGraph(v, w) == w.node = v.node /\ w.edge = v.edge /\ w.last = v.last

SameMemories(v, w) == w.mem = v.mem /\ w.last_mem = v.last_mem

Identity(row) == <<row.mind, row.type, row.name>>
Body(row) == <<row.columns, row.keys, row.by>>

Created(v, w) ==
  /\ w.last = v.last + 1 /\ w.edge = v.edge
  /\ DOMAIN w.node = DOMAIN v.node \cup {w.last}
  /\ \A i \in DOMAIN v.node : w.node[i] = v.node[i]

Edited(v, w) ==
  /\ w.last = v.last /\ w.edge = v.edge
  /\ w.node = [i \in DOMAIN v.node |-> w.node[i]]
  /\ \A i \in DOMAIN v.node : Identity(w.node[i]) = Identity(v.node[i])
  /\ \E i \in DOMAIN v.node : \A j \in DOMAIN v.node \ {i} : w.node[j] = v.node[j]

Linked(v, w) ==
  /\ w.node = v.node /\ w.last = v.last
  /\ \E e \in w.edge : w.edge = v.edge \cup {e}

Unlinked(v, w) ==
  /\ w.node = v.node /\ w.last = v.last
  /\ \E e \in v.edge : w.edge = v.edge \ {e}

Dropped(i, v, w) ==
  /\ i \in 1..v.last /\ w.last = v.last
  /\ w.node = [j \in DOMAIN v.node \ {i} |-> v.node[j]]
  /\ w.edge = {e \in v.edge : e.source # i /\ e.target # i}

Operation(v, w) ==
  \/ SameGraph(v, w)
  \/ Created(v, w)
  \/ Edited(v, w)
  \/ Linked(v, w)
  \/ Unlinked(v, w)
  \/ \E i \in 1..v.last : Dropped(i, v, w)

LEMMA NodeInserted ==
  ASSUME NEW v, TablesOK(v), NEW row \in Rows, ~ Taken(v, row.mind, row.name)
  PROVE  LET w == InsertNode(v, row)
         IN /\ TablesOK(w) /\ Later(v, w) /\ Created(v, w) /\ SameMemories(v, w)
<1> DEFINE w == InsertNode(v, row)
           n == v.last + 1
<1>1. n \in Nat /\ n \in 1..n /\ n \notin DOMAIN v.node /\ \A i \in DOMAIN v.node : i < n /\ i \in 1..n
  BY Ids
<1>2. /\ w.last = n /\ w.edge = v.edge /\ w.types = v.types /\ w.relations = v.relations
      /\ w.mem = v.mem /\ w.last_mem = v.last_mem
      /\ w.node = [i \in DOMAIN v.node \cup {n} |-> IF i \in DOMAIN v.node THEN v.node[i] ELSE row]
  BY DEF InsertNode, TablesOK
<1>3. w \in [node : {w.node}, edge : {w.edge}, last : Nat, types : SUBSET DOMAIN AdminTypes,
             relations : SUBSET DOMAIN AdminEdges, mem : {w.mem}, last_mem : Nat]
  BY <1>1 DEF InsertNode, TablesOK
<1> HIDE DEF w, n
<1>4. Created(v, w)
  BY <1>1, <1>2, Ids DEF Created, n
<1>5. w.node \in [DOMAIN w.node -> Rows] /\ DOMAIN w.node \subseteq 1..w.last
  BY <1>1, <1>2, Ids
<1>6. ASSUME NEW i \in DOMAIN w.node, NEW j \in DOMAIN w.node,
             w.node[i].mind = w.node[j].mind, w.node[i].name = w.node[j].name
      PROVE  i = j
  BY <1>1, <1>2, <1>6 DEF TablesOK, Taken
<1>7. \A e \in w.edge : e.source \in 1..w.last /\ e.target \in 1..w.last
  BY <1>2, Ids DEF TablesOK, n
<1>8. TablesOK(w)
  BY <1>2, <1>3, <1>5, <1>6, <1>7 DEF TablesOK
<1>9. LaterNodes(v, w)
  BY <1>1, <1>2, Ids DEF LaterNodes, n
<1>10. SameMemories(v, w) /\ LaterMemories(v, w)
  BY <1>2, LaterSame DEF SameMemories, Later, LaterMemories
<1>11. QED
  BY <1>4, <1>8, <1>9, <1>10 DEF Later, w

LEMMA NodesRewritten ==
  ASSUME NEW v, TablesOK(v), NEW w,
         w \in [node : {w.node}, edge : {v.edge}, last : {v.last}, types : {v.types},
                relations : {v.relations}, mem : {v.mem}, last_mem : {v.last_mem}],
         w.node \in [DOMAIN v.node -> Rows],
         \A i \in DOMAIN v.node : /\ w.node[i].mind = v.node[i].mind
                                  /\ w.node[i].type = v.node[i].type
                                  /\ w.node[i].name = v.node[i].name
  PROVE  TablesOK(w) /\ Later(v, w) /\ SameMemories(v, w) /\ w.last = v.last /\ w.edge = v.edge
<1>1. TablesOK(w)
  BY DEF TablesOK
<1>2. LaterNodes(v, w)
  BY Ids DEF LaterNodes
<1>3. SameMemories(v, w) /\ LaterMemories(v, w)
  BY LaterSame DEF SameMemories, Later, LaterMemories
<1>4. QED
  BY <1>1, <1>2, <1>3 DEF Later

LEMMA NodeUpdated ==
  ASSUME NEW v, TablesOK(v), NEW i \in DOMAIN v.node, NEW row \in Rows,
         row.mind = v.node[i].mind, row.type = v.node[i].type, row.name = v.node[i].name
  PROVE  LET w == UpdateNode(v, i, row)
         IN /\ TablesOK(w) /\ Later(v, w) /\ Edited(v, w) /\ SameMemories(v, w)
            /\ \A j \in DOMAIN v.node \ {i} : w.node[j] = v.node[j]
<1> DEFINE w == UpdateNode(v, i, row)
<1>1. w.node = [j \in DOMAIN v.node |-> IF j = i THEN row ELSE v.node[j]]
  BY DEF UpdateNode, TablesOK
<1>2. w \in [node : {w.node}, edge : {v.edge}, last : {v.last}, types : {v.types},
             relations : {v.relations}, mem : {v.mem}, last_mem : {v.last_mem}]
  BY DEF UpdateNode, TablesOK
<1> HIDE DEF w
<1>3. /\ w.node \in [DOMAIN v.node -> Rows]
      /\ \A j \in DOMAIN v.node : /\ w.node[j].mind = v.node[j].mind
                                   /\ w.node[j].type = v.node[j].type
                                   /\ w.node[j].name = v.node[j].name
      /\ \A j \in DOMAIN v.node \ {i} : w.node[j] = v.node[j]
  BY <1>1, Ids
<1>4. TablesOK(w) /\ Later(v, w) /\ SameMemories(v, w) /\ w.last = v.last /\ w.edge = v.edge
  BY <1>2, <1>3, NodesRewritten
<1>5. Edited(v, w)
  BY <1>1, <1>3, <1>4 DEF Edited, Identity
<1>6. QED
  BY <1>3, <1>4, <1>5 DEF w

LEMMA EdgesSet ==
  ASSUME NEW v, TablesOK(v), NEW E, \A e \in E : e.source \in 1..v.last /\ e.target \in 1..v.last
  PROVE  LET w == [v EXCEPT !.edge = E]
         IN /\ TablesOK(w) /\ Later(v, w) /\ SameMemories(v, w)
            /\ w.node = v.node /\ w.last = v.last /\ w.edge = E
<1> DEFINE w == [v EXCEPT !.edge = E]
<1>1. /\ w \in [node : {v.node}, edge : {E}, last : Nat, types : SUBSET DOMAIN AdminTypes,
                relations : SUBSET DOMAIN AdminEdges, mem : {v.mem}, last_mem : Nat]
      /\ w.last = v.last /\ w.last_mem = v.last_mem
  BY DEF TablesOK
<1> HIDE DEF w
<1>2. w.edge = E /\ w.node = v.node /\ w.mem = v.mem
  BY <1>1
<1>3. TablesOK(w)
  BY <1>1, <1>2 DEF TablesOK
<1>4. Later(v, w)
  BY <1>1, <1>2, LaterSame DEF Later, LaterNodes, LaterMemories
<1>5. QED
  BY <1>1, <1>2, <1>3, <1>4 DEF SameMemories, w

LEMMA NodeRemoved ==
  ASSUME NEW v, TablesOK(v), NEW i
  PROVE  LET w == [v EXCEPT !.node = Restrict(@, DOMAIN @ \ {i})]
         IN /\ TablesOK(w) /\ Later(v, w) /\ SameMemories(v, w)
            /\ w.node = [j \in DOMAIN v.node \ {i} |-> v.node[j]]
            /\ w.last = v.last /\ w.edge = v.edge
            /\ i \notin DOMAIN v.node => w = v
<1> DEFINE N == [j \in DOMAIN v.node \ {i} |-> v.node[j]]
           w == [v EXCEPT !.node = Restrict(@, DOMAIN @ \ {i})]
<1>1. Restrict(v.node, DOMAIN v.node \ {i}) = N
  BY DEF Restrict
<1>2. /\ w \in [node : {N}, edge : {v.edge}, last : Nat, types : SUBSET DOMAIN AdminTypes,
                relations : SUBSET DOMAIN AdminEdges, mem : {v.mem}, last_mem : Nat]
      /\ w.last = v.last /\ w.last_mem = v.last_mem
  BY <1>1 DEF TablesOK
<1>3. i \notin DOMAIN v.node => w = v
  <2>1. i \notin DOMAIN v.node => N = v.node
    <3>1. v.node = [j \in DOMAIN v.node |-> v.node[j]]
      BY DEF TablesOK
    <3>2. i \notin DOMAIN v.node => DOMAIN v.node \ {i} = DOMAIN v.node
      OBVIOUS
    <3>3. QED
      BY <3>1, <3>2, Zenon
  <2>2. QED
    BY <1>1, <2>1 DEF TablesOK
<1> HIDE DEF w
<1>4. w.edge = v.edge /\ w.node = N /\ w.mem = v.mem
  BY <1>2
<1>5. TablesOK(w)
  BY <1>2, <1>4 DEF TablesOK
<1>6. Later(v, w)
  BY <1>2, <1>4, LaterSame DEF Later, LaterNodes, LaterMemories
<1>7. QED
  BY <1>2, <1>3, <1>4, <1>5, <1>6 DEF SameMemories, w

LEMMA SchemaGrown ==
  ASSUME NEW v, TablesOK(v), NEW w,
         w \in [node : {v.node}, edge : {v.edge}, last : {v.last}, types : SUBSET DOMAIN AdminTypes,
                relations : SUBSET DOMAIN AdminEdges, mem : {v.mem}, last_mem : {v.last_mem}]
  PROVE  TablesOK(w) /\ Later(v, w) /\ SameMemories(v, w) /\ SameGraph(v, w)
<1>1. w.node = v.node /\ w.edge = v.edge /\ w.last = v.last /\ w.mem = v.mem
      /\ w.last_mem = v.last_mem
  OBVIOUS
<1>2. TablesOK(w)
  BY <1>1 DEF TablesOK
<1>3. Later(v, w)
  BY <1>1, LaterSame DEF Later, LaterNodes, LaterMemories
<1>4. QED
  BY <1>1, <1>2, <1>3 DEF SameMemories, SameGraph

LEMMA MemoryInserted ==
  ASSUME NEW v, TablesOK(v), NEW row \in Memories
  PROVE  LET w == InsertMemory(v, row)
         IN /\ TablesOK(w) /\ Later(v, w) /\ SameGraph(v, w)
            /\ \A n \in DOMAIN w.mem \ DOMAIN v.mem : w.mem[n] = row
            /\ DOMAIN v.mem \subseteq DOMAIN w.mem
<1> DEFINE w == InsertMemory(v, row)
           n == v.last_mem + 1
           M == [i \in DOMAIN v.mem \cup {n} |-> IF i \in DOMAIN v.mem THEN v.mem[i] ELSE row]
<1>1. n \in Nat /\ n \in 1..n /\ n \notin DOMAIN v.mem /\ \A i \in DOMAIN v.mem : i < n /\ i \in 1..n
  BY Ids
<1>2. /\ w \in [node : {v.node}, edge : {v.edge}, last : Nat, types : SUBSET DOMAIN AdminTypes,
                relations : SUBSET DOMAIN AdminEdges, mem : {M}, last_mem : {n}]
      /\ w.last = v.last
  BY DEF InsertMemory, TablesOK
<1> HIDE DEF w
<1>3. w.node = v.node /\ w.edge = v.edge /\ w.mem = M /\ w.last_mem = n
  BY <1>2
<1>4. /\ DOMAIN w.mem = DOMAIN v.mem \cup {n} /\ w.mem[n] = row
      /\ \A i \in DOMAIN v.mem : w.mem[i] = v.mem[i]
  BY <1>1, <1>3
<1>5. M \in [DOMAIN v.mem \cup {n} -> Memories] /\ DOMAIN w.mem \subseteq 1..w.last_mem
  BY <1>1, <1>3, <1>4, Ids
<1> HIDE DEF M
<1>6. TablesOK(w)
  BY <1>1, <1>2, <1>3, <1>4, <1>5 DEF TablesOK
<1>7. LaterMemories(v, w)
  BY <1>1, <1>3, <1>4, Ids DEF LaterMemories, n
<1>8. LaterNodes(v, w)
  BY <1>2, <1>3, LaterSame DEF Later, LaterNodes
<1>9. QED
  BY <1>2, <1>3, <1>4, <1>6, <1>7, <1>8 DEF Later, SameGraph, w

LEMMA MemoryRemoved ==
  ASSUME NEW v, TablesOK(v), NEW i
  PROVE  LET w == [v EXCEPT !.mem = Restrict(@, DOMAIN @ \ {i})]
         IN /\ TablesOK(w) /\ Later(v, w) /\ SameGraph(v, w)
            /\ DOMAIN w.mem = DOMAIN v.mem \ {i}
            /\ i \notin DOMAIN v.mem => w = v
<1> DEFINE M == [j \in DOMAIN v.mem \ {i} |-> v.mem[j]]
           w == [v EXCEPT !.mem = Restrict(@, DOMAIN @ \ {i})]
<1>1. Restrict(v.mem, DOMAIN v.mem \ {i}) = M
  BY DEF Restrict
<1>2. /\ w \in [node : {v.node}, edge : {v.edge}, last : Nat, types : SUBSET DOMAIN AdminTypes,
                relations : SUBSET DOMAIN AdminEdges, mem : {M}, last_mem : Nat]
      /\ w.last = v.last /\ w.last_mem = v.last_mem
  BY <1>1 DEF TablesOK
<1>3. i \notin DOMAIN v.mem => w = v
  <2>1. i \notin DOMAIN v.mem => M = v.mem
    <3>1. v.mem = [j \in DOMAIN v.mem |-> v.mem[j]]
      BY DEF TablesOK
    <3>2. i \notin DOMAIN v.mem => DOMAIN v.mem \ {i} = DOMAIN v.mem
      OBVIOUS
    <3>3. QED
      BY <3>1, <3>2, Zenon
  <2>2. QED
    BY <1>1, <2>1 DEF TablesOK
<1> HIDE DEF w
<1>4. w.edge = v.edge /\ w.node = v.node /\ w.mem = M
  BY <1>2
<1>5. TablesOK(w)
  BY <1>2, <1>4 DEF TablesOK
<1>6. Later(v, w)
  BY <1>2, <1>4, LaterSame DEF Later, LaterNodes, LaterMemories
<1>7. QED
  BY <1>2, <1>3, <1>4, <1>5, <1>6 DEF SameGraph, w

Revisable(r) == r.content \in STRING /\ r.class \in DataClass \cup {""}

LEMMA MemoryRevised ==
  ASSUME NEW v, TablesOK(v), NEW i \in DOMAIN v.mem, NEW r, Revisable(r)
  PROVE  LET w == [v EXCEPT !.mem[i] = Revised(@, r)]
         IN /\ TablesOK(w) /\ Later(v, w) /\ SameGraph(v, w) /\ DOMAIN w.mem = DOMAIN v.mem
<1> DEFINE row == Revised(v.mem[i], r)
           M == [v.mem EXCEPT ![i] = row]
           w == [v EXCEPT !.mem[i] = Revised(@, r)]
<1>1. v.mem[i] \in Memories
  BY Ids
<1>2. /\ row \in Memories /\ row.edits = v.mem[i].edits + 1
      /\ v.mem[i].tier = "contextual" => row.tier = "contextual"
  <2> DEFINE content == IF r.content = "" THEN v.mem[i].content ELSE r.content
             class == IF r.class = "" THEN v.mem[i].class ELSE r.class
             tier == IF r.class = "" THEN v.mem[i].tier ELSE TierOf(r.class)
  <2>1. /\ v.mem[i].content \in STRING /\ v.mem[i].class \in DataClass
        /\ v.mem[i].edits \in Nat
    BY <1>1 DEF Memories
  <2>2. content \in STRING /\ class \in DataClass /\ v.mem[i].edits + 1 \in Nat
    <3>1. content \in STRING
      BY <2>1, Zenon DEF Revisable
    <3>2. class \in DataClass
      BY <2>1, Zenon DEF Revisable
    <3> HIDE DEF content, class
    <3>3. QED
      BY <2>1, <3>1, <3>2
  <2>3. tier \in Tiers /\ (v.mem[i].tier = "contextual" => tier = "contextual")
    BY <1>1 DEF Memories, Tiers, TierOf
  <2>4. row = [v.mem[i] EXCEPT !.content = content, !.class = class, !.tier = tier,
                               !.edits = v.mem[i].edits + 1]
    BY DEF Revised
  <2> HIDE DEF content, class, tier, row
  <2>5. QED
    BY <1>1, <2>2, <2>3, <2>4 DEF Memories
<1> HIDE DEF row
<1>3. /\ w \in [node : {v.node}, edge : {v.edge}, last : Nat, types : SUBSET DOMAIN AdminTypes,
                relations : SUBSET DOMAIN AdminEdges, mem : {M}, last_mem : Nat]
      /\ w.last = v.last /\ w.last_mem = v.last_mem
  <2>1. [v.mem EXCEPT ![i] = Revised(@, r)] = M
    BY DEF row
  <2>2. w = [v EXCEPT !.mem = M]
    BY <2>1
  <2>3. QED
    BY <2>2 DEF TablesOK
<1>4. /\ M \in [DOMAIN v.mem -> Memories] /\ DOMAIN M = DOMAIN v.mem /\ M[i] = row
      /\ \A j \in DOMAIN v.mem \ {i} : M[j] = v.mem[j]
  BY <1>2 DEF TablesOK
<1> HIDE DEF w
<1>5. w.edge = v.edge /\ w.node = v.node /\ w.mem = M
  BY <1>3
<1> HIDE DEF M
<1>6. TablesOK(w)
  BY <1>3, <1>4, <1>5 DEF TablesOK
<1>7. LaterMemories(v, w)
  <2>1. v.mem[i].edits \in Nat
    BY <1>1 DEF Memories
  <2>2. \A j \in DOMAIN v.mem : /\ w.mem[j] = v.mem[j] \/ w.mem[j].edits > v.mem[j].edits
                                /\ v.mem[j].tier = "contextual" => w.mem[j].tier = "contextual"
    BY <1>2, <1>4, <1>5, <2>1
  <2>3. v.last_mem \in Nat /\ v.last_mem <= w.last_mem
    BY <1>3, Ids
  <2>4. DOMAIN w.mem = DOMAIN v.mem
    BY <1>4, <1>5
  <2>5. QED
    BY <2>2, <2>3, <2>4 DEF LaterMemories
<1>8. LaterNodes(v, w)
  BY <1>3, <1>5, LaterSame DEF Later, LaterNodes
<1>9. QED
  BY <1>3, <1>4, <1>5, <1>6, <1>7, <1>8 DEF Later, SameGraph, w

Persons(v, mind, name) ==
  {i \in DOMAIN v.node : /\ v.node[i].type = "Person"
                         /\ v.node[i].name = name /\ v.node[i].mind = mind}

Renamed(v, S, columns) ==
  [v EXCEPT !.node = [i \in DOMAIN @ |-> IF i \in S THEN Named(@[i], columns) ELSE @[i]]]

(* update_person_names: one row at most has this mind and this name. *)
LEMMA PersonsNamed ==
  ASSUME NEW v, TablesOK(v), NEW mind, NEW name, NEW columns \in SUBSET {"first_name", "last_name"}
  PROVE  LET S == Persons(v, mind, name)
             w == Renamed(v, S, columns)
         IN /\ TablesOK(w) /\ Later(v, w) /\ SameMemories(v, w)
            /\ w.edge = v.edge /\ (SameGraph(v, w) \/ Edited(v, w))
            /\ S = {} => w = v
<1> DEFINE S == Persons(v, mind, name)
           N == [i \in DOMAIN v.node |->
                   IF i \in S THEN Named(v.node[i], columns) ELSE v.node[i]]
           w == Renamed(v, S, columns)
<1>1. w \in [node : {N}, edge : {v.edge}, last : {v.last}, types : {v.types},
             relations : {v.relations}, mem : {v.mem}, last_mem : {v.last_mem}]
  <2>1. w = [v EXCEPT !.node = N]
    BY DEF Renamed
  <2> HIDE DEF w, N
  <2>2. QED
    BY <2>1 DEF TablesOK
<1>2. ASSUME NEW i \in DOMAIN v.node
      PROVE  /\ N[i] \in Rows /\ Identity(N[i]) = Identity(v.node[i])
             /\ N[i].mind = v.node[i].mind /\ N[i].type = v.node[i].type
             /\ N[i].name = v.node[i].name
             /\ i \notin S => N[i] = v.node[i]
  <2>1. v.node[i] \in Rows
    BY Ids
  <2>2. QED
    BY <2>1 DEF Rows, Identity, Named
<1>3. S = {} => w = v
  <2>1. S = {} => N = v.node
    BY DEF TablesOK
  <2>2. QED
    BY <2>1 DEF TablesOK, Renamed
<1> HIDE DEF w
<1>4. w.node = N
  BY <1>1
<1>5. N \in [DOMAIN v.node -> Rows] /\ DOMAIN N = DOMAIN v.node
  BY <1>2
<1> HIDE DEF N
<1>6. TablesOK(w) /\ Later(v, w) /\ SameMemories(v, w) /\ w.last = v.last /\ w.edge = v.edge
  BY <1>1, <1>2, <1>4, <1>5, NodesRewritten
<1>7. SameGraph(v, w) \/ Edited(v, w)
  <2>1. CASE S = {}
    BY <1>3, <2>1 DEF SameGraph
  <2>2. CASE S # {}
    <3>1. \A i, j \in S : i = j
      BY DEF TablesOK, Persons
    <3>2. PICK i \in S : TRUE
      BY <2>2
    <3>3. i \in DOMAIN v.node /\ \A j \in DOMAIN v.node \ {i} : w.node[j] = v.node[j]
      BY <1>2, <1>4, <3>1, <3>2 DEF Persons
    <3>4. QED
      BY <1>2, <1>4, <1>5, <1>6, <3>3 DEF Edited
  <2>3. QED
    BY <2>1, <2>2
<1>8. QED
  BY <1>2, <1>3, <1>4, <1>5, <1>6, <1>7 DEF w

-----------------------------------------------------------------------------
(* The connections.  A connection that is not stale sees the tables as     *)
(* they are published, unless its thread is between a statement and its    *)
(* commit; and only then it has written something.                         *)

Txs == {"none", "begun", "read", "write"}

IsConn(c) ==
  /\ c \in [tx : Txs, view : {c.view}, stale : BOOLEAN, dirty : BOOLEAN]
  /\ IF c.tx \in {"read", "write"} THEN TablesOK(c.view) ELSE c.view = NoDb
  /\ c.stale => c.tx = "read"

IsReq(r) ==
  r \in [pc : {r.pc}, in : {r.in}, id : Nat, target : Nat, keys : SUBSET STRING,
         before : {r.before}]

Unsaved(pc, in) ==
  \/ pc \in {"commit_node", "commit_target", "commit"}
  \/ pc = "node" /\ in.op = "delete"

Sound(t) ==
  /\ conn[t].tx = "read" /\ ~ conn[t].stale => conn[t].view = db
  /\ conn[t].tx = "write" /\ ~ conn[t].dirty => conn[t].view = db
  /\ conn[t].tx = "write" /\ ~ Unsaved(req[t].pc, req[t].in) => conn[t].view = db
  /\ Unsaved(req[t].pc, req[t].in) => conn[t].tx = "write"

OneWriter ==
  \A t, u \in Thread : conn[t].tx = "write" /\ conn[u].tx = "write" => t = u

Shapes ==
  /\ TablesOK(db)
  /\ conn = [t \in Thread |-> conn[t]] /\ \A t \in Thread : IsConn(conn[t])
  /\ req = [t \in Thread |-> req[t]] /\ \A t \in Thread : IsReq(req[t])

StoreInv == Shapes /\ OneWriter /\ \A t \in Thread : Sound(t)

LEMMA ConnSet ==
  ASSUME Shapes, NEW t \in Thread, NEW c, conn' = [conn EXCEPT ![t] = c]
  PROVE  conn'[t] = c /\ \A u \in Thread \ {t} : conn'[u] = conn[u]
BY DEF Shapes

LEMMA ReqSet ==
  ASSUME Shapes, NEW t \in Thread, NEW r, req' = [req EXCEPT ![t] = r]
  PROVE  req'[t] = r /\ \A u \in Thread \ {t} : req'[u] = req[u]
BY DEF Shapes

LEMMA SetStore ==
  ASSUME StoreInv, NEW t \in Thread, UNCHANGED db,
         NEW c, IsConn(c), conn' = [conn EXCEPT ![t] = c],
         NEW r, IsReq(r), req' = [req EXCEPT ![t] = r],
         c.tx = "write" => \A u \in Thread \ {t} : conn[u].tx # "write",
         c.tx = "read" /\ ~ c.stale => c.view = db,
         c.tx = "write" /\ ~ c.dirty => c.view = db,
         c.tx = "write" /\ ~ Unsaved(r.pc, r.in) => c.view = db,
         Unsaved(r.pc, r.in) => c.tx = "write"
  PROVE  StoreInv'
<1>1. Shapes
  BY DEF StoreInv
<1>2. conn'[t] = c /\ \A u \in Thread \ {t} : conn'[u] = conn[u]
  BY <1>1, ConnSet
<1>3. req'[t] = r /\ \A u \in Thread \ {t} : req'[u] = req[u]
  BY <1>1, ReqSet
<1>4. \A u \in Thread : IsConn(conn'[u]) /\ IsReq(req'[u])
  BY <1>1, <1>2, <1>3 DEF Shapes
<1>5. conn' = [u \in Thread |-> conn'[u]] /\ req' = [u \in Thread |-> req'[u]]
  BY <1>1 DEF Shapes
<1>6. Shapes'
  BY <1>1, <1>4, <1>5 DEF Shapes
<1>7. OneWriter'
  BY <1>2 DEF StoreInv, OneWriter
<1>8. \A u \in Thread \ {t} : Sound(u)'
  BY <1>2, <1>3 DEF StoreInv, Sound
<1>9. Sound(t)'
  BY <1>2, <1>3 DEF Sound
<1>10. QED
  BY <1>6, <1>7, <1>8, <1>9 DEF StoreInv

LEMMA SelectStore ==
  ASSUME StoreInv, NEW t \in Thread, Select(t), UNCHANGED db,
         NEW r, IsReq(r), req' = [req EXCEPT ![t] = r],
         ~ Unsaved(req[t].pc, req[t].in), ~ Unsaved(r.pc, r.in)
  PROVE  /\ StoreInv'
         /\ Seen(t)' = Seen(t) /\ conn'[t].stale = conn[t].stale
         /\ \A u \in Thread \ {t} : conn'[u] = conn[u]
<1> DEFINE read == [Free EXCEPT !.tx = "read", !.view = db]
           c == IF conn[t].tx = "begun" THEN read ELSE conn[t]
<1>1. IsConn(read) /\ read.tx = "read" /\ read.view = db /\ read.stale = FALSE
  <2>1. /\ read \in [tx : Txs, view : {db}, stale : BOOLEAN, dirty : BOOLEAN]
        /\ read.tx = "read" /\ read.view = db /\ read.stale = FALSE
    BY DEF Free, Txs
  <2>2. QED
    BY <2>1 DEF StoreInv, Shapes, IsConn
<1>2. IsConn(conn[t]) /\ Sound(t) /\ conn = [u \in Thread |-> conn[u]] /\ Shapes
  BY DEF StoreInv, Shapes
<1>3. conn' = [conn EXCEPT ![t] = c]
  BY <1>2 DEF Select
<1> HIDE DEF read
<1>4. IsConn(c)
  BY <1>1, <1>2
<1>5. c.tx = "write" => c = conn[t] /\ conn[t].tx = "write"
  BY <1>1
<1>6. c.tx = "read" => c = read \/ c = conn[t]
  OBVIOUS
<1>7. /\ c.stale = conn[t].stale
      /\ c.tx \in {"read", "write"} =>
           c.view = IF conn[t].tx \in {"read", "write"} THEN conn[t].view ELSE db
      /\ conn[t].tx \in {"read", "write"} => c = conn[t]
  BY <1>1, <1>2 DEF IsConn
<1> HIDE DEF c
<1>8. conn'[t] = c /\ \A u \in Thread \ {t} : conn'[u] = conn[u]
  BY <1>2, <1>3, ConnSet
<1>9. Seen(t)' = Seen(t)
  BY <1>7, <1>8 DEF Seen
<1>10. /\ c.tx = "read" /\ ~ c.stale => c.view = db
       /\ c.tx = "write" => c.view = db
       /\ c.tx = "write" => \A u \in Thread \ {t} : conn[u].tx # "write"
  BY <1>1, <1>2, <1>5, <1>6 DEF Sound, StoreInv, OneWriter
<1>11. StoreInv'
  BY <1>3, <1>4, <1>10, SetStore
<1>12. QED
  BY <1>7, <1>8, <1>9, <1>11

LEMMA ExecuteStore ==
  ASSUME StoreInv, NEW t \in Thread, UNCHANGED db,
         NEW new, NEW changed \in BOOLEAN, Execute(t, new, changed), TablesOK(new),
         ~ changed => new = Seen(t),
         NEW r, IsReq(r), req' = [req EXCEPT ![t] = r],
         Unsaved(r.pc, r.in) \/ (~ changed /\ ~ Unsaved(req[t].pc, req[t].in))
  PROVE  /\ StoreInv'
         /\ Seen(t)' = new /\ conn'[t].stale = FALSE
         /\ \A u \in Thread \ {t} : conn'[u] = conn[u]
<1> DEFINE c == [tx |-> "write", view |-> new, stale |-> FALSE,
                 dirty |-> conn[t].dirty \/ changed]
<1>1. IsConn(conn[t]) /\ Sound(t) /\ conn = [u \in Thread |-> conn[u]] /\ Shapes
  BY DEF StoreInv, Shapes
<1>2. conn' = [conn EXCEPT ![t] = c]
  BY DEF Execute
<1>3. IsConn(c)
  BY <1>1 DEF IsConn, Txs
<1>4. CanWrite(t)
  BY DEF Execute
<1>5. ~ conn[t].dirty \/ ~ Unsaved(req[t].pc, req[t].in) => Seen(t) = db
  BY <1>1, <1>4 DEF Sound, CanWrite, Seen
<1>6. ~ c.dirty => c.view = db
  BY <1>5
<1>7. ~ Unsaved(r.pc, r.in) => c.view = db
  BY <1>5
<1>8. /\ c.tx = "write" /\ ~ c.stale /\ c.view = new /\ c.stale = FALSE
      /\ \A u \in Thread \ {t} : conn[u].tx # "write"
  BY <1>4 DEF CanWrite
<1> HIDE DEF c
<1>9. conn'[t] = c /\ \A u \in Thread \ {t} : conn'[u] = conn[u]
  BY <1>1, <1>2, ConnSet
<1>10. StoreInv'
  BY <1>2, <1>3, <1>6, <1>7, <1>8, SetStore
<1>11. QED
  BY <1>8, <1>9, <1>10 DEF Seen

LEMMA IdleReq == IsReq(Idle) /\ \A in : ~ Unsaved(Idle.pc, in)
<1>1. Idle \in [pc : {"idle"}, in : {NoRequest}, id : Nat, target : Nat, keys : SUBSET STRING,
               before : {NoDb}]
  BY DEF Idle
<1>2. Idle.pc = "idle" /\ Idle.in = NoRequest /\ Idle.before = NoDb
  BY DEF Idle
<1>3. QED
  BY <1>1, <1>2 DEF IsReq, Unsaved

LEMMA LockedStore ==
  ASSUME StoreInv, NEW t \in Thread, Locked(t), Answer(t), UNCHANGED db
  PROVE  /\ StoreInv'
         /\ Seen(t)' = Seen(t) /\ conn'[t].stale = conn[t].stale
         /\ \A u \in Thread \ {t} : conn'[u] = conn[u]
<1> DEFINE c == [conn[t] EXCEPT !.tx = IF conn[t].tx = "none" THEN "begun" ELSE conn[t].tx]
<1>1. IsConn(conn[t]) /\ Sound(t) /\ conn = [u \in Thread |-> conn[u]] /\ Shapes
  BY DEF StoreInv, Shapes
<1>2. conn' = [conn EXCEPT ![t] = c]
  BY DEF Locked
<1>3. conn[t].tx # "write"
  BY <1>1 DEF Locked, CanWrite, StoreInv, OneWriter, IsConn
<1>4. /\ c.tx = IF conn[t].tx = "none" THEN "begun" ELSE conn[t].tx
      /\ c.view = conn[t].view /\ c.stale = conn[t].stale /\ c.dirty = conn[t].dirty
  BY <1>1 DEF IsConn
<1>5. IsConn(c)
  BY <1>1, <1>4 DEF IsConn, Txs
<1>6. /\ req' = [req EXCEPT ![t] = Idle]
      /\ c.tx # "write"
      /\ c.tx = "read" /\ ~ c.stale => c.view = db
  BY <1>1, <1>3, <1>4 DEF Answer, Sound
<1> HIDE DEF c
<1>7. conn'[t] = c /\ \A u \in Thread \ {t} : conn'[u] = conn[u]
  BY <1>1, <1>2, ConnSet
<1>8. StoreInv'
  BY <1>2, <1>5, <1>6, IdleReq, SetStore
<1>9. QED
  BY <1>3, <1>4, <1>7, <1>8 DEF Seen

LEMMA CommitStore ==
  ASSUME StoreInv, NEW t \in Thread, Commit(t), Unsaved(req[t].pc, req[t].in),
         NEW r, IsReq(r), req' = [req EXCEPT ![t] = r], ~ Unsaved(r.pc, r.in)
  PROVE  /\ StoreInv'
         /\ db' = Seen(t) /\ Seen(t)' = Seen(t) /\ conn'[t].stale = FALSE
         /\ \A u \in Thread \ {t} :
              /\ Seen(u)' = IF conn[u].tx = "read" THEN Seen(u) ELSE db'
              /\ conn[u].tx # "read" => ~ conn[u].stale /\ Seen(u) = db
              /\ ~ Unsaved(req[u].pc, req[u].in)
              /\ (conn'[u].stale = conn[u].stale /\ db' = db) \/ conn[u].tx # "read" \/ conn'[u].stale
              /\ conn[u].tx # "read" => conn'[u].stale = FALSE
<1>1. /\ Shapes /\ OneWriter /\ \A u \in Thread : Sound(u)
      /\ \A u \in Thread : IsConn(conn[u])
  BY DEF StoreInv, Shapes
<1>2. req'[t] = r /\ \A u \in Thread \ {t} : req'[u] = req[u]
  BY <1>1, ReqSet
<1>3. conn[t].tx = "write" /\ db' = conn[t].view /\ db' = Seen(t)
  BY <1>1 DEF Sound, Commit, Seen
<1>4. conn'[t] = Free /\ IsConn(Free) /\ Free.tx = "none" /\ Free.stale = FALSE
  BY DEF Commit, IsConn, Free, Txs
<1>5. ASSUME NEW u \in Thread \ {t}
      PROVE  /\ IsConn(conn'[u])
             /\ conn'[u].tx = conn[u].tx /\ conn'[u].view = conn[u].view
             /\ conn'[u].dirty = conn[u].dirty
             /\ conn'[u].stale = (conn[u].stale \/ (conn[t].dirty /\ conn[u].tx = "read"))
             /\ conn[u].tx # "write"
  BY <1>1, <1>3 DEF Commit, IsConn, OneWriter
<1>6. Shapes'
  <2>1. conn' = [u \in Thread |-> conn'[u]] /\ req' = [u \in Thread |-> req'[u]]
    BY <1>1 DEF Commit, Shapes
  <2>2. \A u \in Thread : IsConn(conn'[u]) /\ IsReq(req'[u])
    BY <1>1, <1>2, <1>4, <1>5 DEF Shapes
  <2>3. TablesOK(db')
    BY <1>1, <1>3 DEF IsConn
  <2>4. QED
    BY <2>1, <2>2, <2>3 DEF Shapes
<1>7. OneWriter'
  BY <1>4, <1>5 DEF OneWriter
<1>8. Sound(t)'
  BY <1>2, <1>4 DEF Sound
<1>9. ~ conn[t].dirty => db' = db
  BY <1>1, <1>3 DEF Sound
<1>10. ASSUME NEW u \in Thread \ {t}
       PROVE  /\ Sound(u)'
              /\ Seen(u)' = IF conn[u].tx = "read" THEN Seen(u) ELSE db'
              /\ conn[u].tx # "read" => ~ conn[u].stale /\ Seen(u) = db
              /\ ~ Unsaved(req[u].pc, req[u].in)
              /\ (conn'[u].stale = conn[u].stale /\ db' = db) \/ conn[u].tx # "read" \/ conn'[u].stale
              /\ conn[u].tx # "read" => conn'[u].stale = FALSE
  <2>1. Sound(u) /\ IsConn(conn[u]) /\ IsConn(conn'[u]) /\ req'[u] = req[u]
    BY <1>1, <1>2, <1>5
  <2>2. QED
    BY <1>5, <1>9, <2>1 DEF Sound, Seen, IsConn, Txs
<1>11. Seen(t)' = Seen(t)
  BY <1>3, <1>4 DEF Seen
<1>12. QED
  BY <1>3, <1>4, <1>6, <1>7, <1>8, <1>10, <1>11 DEF StoreInv

LEMMA RequestStore ==
  ASSUME StoreInv, NEW t \in Thread, UNCHANGED <<db, conn>>,
         NEW r, IsReq(r), req' = [req EXCEPT ![t] = r],
         ~ Unsaved(req[t].pc, req[t].in), ~ Unsaved(r.pc, r.in)
  PROVE  StoreInv'
<1>1. IsConn(conn[t]) /\ Sound(t) /\ conn' = [conn EXCEPT ![t] = conn[t]]
  BY DEF StoreInv, Shapes
<1>2. /\ conn[t].tx = "write" => \A u \in Thread \ {t} : conn[u].tx # "write"
      /\ conn[t].tx = "write" => conn[t].view = db
      /\ conn[t].tx = "read" /\ ~ conn[t].stale => conn[t].view = db
  BY <1>1 DEF Sound, StoreInv, OneWriter
<1>3. QED
  BY <1>1, <1>2, SetStore

LEMMA OtherStore == ASSUME StoreInv, UNCHANGED <<db, conn, req>> PROVE StoreInv'
BY DEF StoreInv, Shapes, OneWriter, Sound

LEMMA CrashStore == ASSUME StoreInv, Crash PROVE StoreInv'
<1>1. /\ UNCHANGED db
      /\ conn' = [t \in Thread |-> Free] /\ req' = [t \in Thread |-> Idle]
  BY DEF Crash
<1>2. IsConn(Free) /\ IsReq(Idle) /\ ~ Unsaved(Idle.pc, Idle.in) /\ Free.tx = "none"
  BY IdleReq DEF IsConn, Free, Txs
<1>3. Shapes'
  BY <1>1, <1>2 DEF StoreInv, Shapes
<1>4. OneWriter' /\ \A t \in Thread : Sound(t)'
  BY <1>1, <1>2 DEF OneWriter, Sound
<1>5. QED
  BY <1>3, <1>4 DEF StoreInv

-----------------------------------------------------------------------------
(* What a handler knows.  r is its record, v the tables it sees, d the     *)
(* published ones; live says whether its connection can still write.       *)

(* The pruner asks for ids that are gone or contextual. *)
Contextual(d, i) ==
  /\ i \in 1..d.last_mem
  /\ i \in DOMAIN d.mem => d.mem[i].tier = "contextual"

Asked(in, d) ==
  \/ in \in Request
  \/ \E i \in 1..d.last_mem : in = DeleteRequest(i) /\ Contextual(d, i)

(* A node that was there when the request began, or a younger one. *)
Placed(before, i) == i > before.last \/ i \in DOMAIN before.node

Owned(in, before, d) ==
  NamedAlike(in, before) \cap DOMAIN d.node # {} =>
    \E j \in NamedAlike(in, before) : before.node[j].mind = in.mind

Novel(in, before, d) ==
  \A i \in DOMAIN d.mem \cap DOMAIN before.mem :
    d.mem[i] = before.mem[i] /\ d.mem[i].class = in.class
      => <<d.mem[i].content, in.content>> \notin Close

Cleared(in, before, pc, d) ==
  /\ in.op \in Upserts /\ pc \in {"find", "node", "commit_node"} => Owned(in, before, d)
  /\ in.op = "create" /\ pc \in {"insert", "commit"} => Owned(in, before, d)
  /\ in.op = "store" /\ pc \in {"insert", "commit"} => Novel(in, before, d)

Flow(in, pc, id, target) ==
  /\ in.op \in Upserts /\ pc \in {"commit_node", "find_target", "target", "commit_target", "edge"}
       => id # 0
  /\ in.op \in Upserts /\ pc \in {"commit_target", "edge"} => target # 0
  /\ in.op \in {"link", "unlink"} /\ pc = "edge" => id # 0 /\ target # 0
  /\ in.op = "delete" /\ pc \in {"edges", "node"} => id # 0
  /\ in.op = "store" /\ pc \in {"nearest", "insert"} => Storable(in)
  /\ in.op = "revise" /\ pc = "write" => in.class \in DataClass \cup {""}

Progress(in, before, pc, id, target, v, d, live) ==
  /\ id <= v.last /\ target <= v.last
  /\ Flow(in, pc, id, target)
  /\ live => /\ id # 0 => Placed(before, id)
             /\ target # 0 => Placed(before, target)
             /\ Cleared(in, before, pc, d)

Known(r, v, d, live) ==
  \/ r = Idle
  \/ /\ Asked(r.in, d)
     /\ TablesOK(r.before) /\ Later(r.before, d)
     /\ Progress(r.in, r.before, r.pc, r.id, r.target, v, d, live)

(* What a handler has written and not yet committed. *)
Cut(i, d, v) ==
  /\ i \in 1..d.last /\ v.node = d.node /\ v.last = d.last
  /\ v.edge = {e \in d.edge : e.source # i /\ e.target # i}

Draft(in, before, pc, id, v, d) ==
  /\ Later(d, v)
  /\ \A e \in v.edge \ d.edge : Placed(before, e.source) /\ Placed(before, e.target)
  /\ in.op = "store" =>
       \A n \in DOMAIN v.mem \ DOMAIN d.mem :
         v.mem[n].content = in.content /\ v.mem[n].class = in.class
  /\ in.op = "store" => pc = "commit"
  /\ in.op = "forget" => DOMAIN d.mem \ DOMAIN v.mem \subseteq {in.id}
  /\ IF pc = "node" THEN Cut(id, d, v) ELSE Operation(d, v)

Drafted(r, v, d) ==
  Unsaved(r.pc, r.in) => Draft(r.in, r.before, r.pc, r.id, v, d)

Knows(t) == Known(req[t], Seen(t), db, ~ conn[t].stale) /\ Drafted(req[t], Seen(t), db)

Threads == StoreInv /\ \A t \in Thread : Knows(t)

(* What a step does to the published tables. *)
Evolves == Later(db, db') /\ Operation(db, db')

LEMMA OwnedLater ==
  ASSUME NEW before, TablesOK(before), NEW d, TablesOK(d), NEW e, TablesOK(e),
         Later(before, d), Later(d, e), NEW in, Owned(in, before, d)
  PROVE  Owned(in, before, e)
<1>1. \A i \in DOMAIN before.node : i \in DOMAIN e.node => i \in DOMAIN d.node
  BY Ids DEF Later, LaterNodes
<1>2. QED
  BY <1>1 DEF Owned, NamedAlike

LEMMA NovelLater ==
  ASSUME NEW before, TablesOK(before), NEW d, TablesOK(d), NEW e, TablesOK(e),
         Later(before, d), Later(d, e), NEW in, Novel(in, before, d)
  PROVE  Novel(in, before, e)
<1> SUFFICES ASSUME NEW i \in DOMAIN e.mem \cap DOMAIN before.mem,
                    e.mem[i] = before.mem[i], e.mem[i].class = in.class
             PROVE  <<e.mem[i].content, in.content>> \notin Close
  BY DEF Novel
<1>1. i \in DOMAIN d.mem
  BY Ids DEF Later, LaterMemories
<1>2. before.mem[i].edits \in Nat /\ d.mem[i].edits \in Nat /\ e.mem[i].edits \in Nat
  BY <1>1, Ids DEF Memories
<1>3. d.mem[i] = before.mem[i]
  BY <1>1, <1>2 DEF Later, LaterMemories
<1>4. QED
  BY <1>1, <1>3 DEF Novel

LEMMA ContextualLater ==
  ASSUME NEW d, TablesOK(d), NEW e, TablesOK(e), Later(d, e), NEW i, Contextual(d, i)
  PROVE  Contextual(e, i) /\ i \in 1..e.last_mem
BY Ids DEF Contextual, Later, LaterMemories

LEMMA KnownMoves ==
  ASSUME NEW r, NEW v, TablesOK(v), NEW d, TablesOK(d), NEW live, IsReq(r), Known(r, v, d, live),
         NEW w, TablesOK(w), NEW e, TablesOK(e), NEW live2,
         v.last <= w.last, Later(d, e), live2 => live
  PROVE  Known(r, w, e, live2)
<1> SUFFICES ASSUME r # Idle
             PROVE  Known(r, w, e, live2)
  BY DEF Known
<1> DEFINE b == r.before
<1>1. Asked(r.in, d) /\ TablesOK(b) /\ Later(b, d)
      /\ Progress(r.in, b, r.pc, r.id, r.target, v, d, live)
  BY DEF Known
<1>2. Asked(r.in, e)
  BY <1>1, ContextualLater DEF Asked
<1>3. Later(b, e)
  BY <1>1, LaterChain
<1>4. Cleared(r.in, b, r.pc, d) => Cleared(r.in, b, r.pc, e)
  BY <1>1, OwnedLater, NovelLater DEF Cleared
<1>5. r.id <= w.last /\ r.target <= w.last
  <2>1. r.id \in Nat /\ r.target \in Nat /\ v.last \in Nat /\ w.last \in Nat
    BY Ids DEF IsReq
  <2>2. QED
    BY <1>1, <2>1 DEF Progress
<1>6. Progress(r.in, b, r.pc, r.id, r.target, w, e, live2)
  BY <1>1, <1>4, <1>5 DEF Progress
<1>7. QED
  BY <1>1, <1>2, <1>3, <1>6 DEF Known

-----------------------------------------------------------------------------
(* Kinds of steps *)

Moved(r, pc, id, target, keys) ==
  [r EXCEPT !.pc = pc, !.id = id, !.target = target, !.keys = keys]

LEMMA MovedReq ==
  ASSUME NEW r, IsReq(r), NEW pc, NEW id \in Nat, NEW target \in Nat, NEW keys \in SUBSET STRING
  PROVE  LET s == Moved(r, pc, id, target, keys)
         IN /\ IsReq(s) /\ s.pc = pc /\ s.in = r.in /\ s.id = id /\ s.target = target
            /\ s.before = r.before
<1> DEFINE s == Moved(r, pc, id, target, keys)
<1>1. s \in [pc : {pc}, in : {r.in}, id : Nat, target : Nat, keys : SUBSET STRING,
             before : {r.before}] /\ s.id = id /\ s.target = target
  BY DEF IsReq, Moved
<1> HIDE DEF s
<1>2. s.pc = pc /\ s.in = r.in /\ s.before = r.before
  BY <1>1
<1>3. IsReq(s)
  BY <1>1, <1>2 DEF IsReq
<1>4. QED
  BY <1>1, <1>2, <1>3 DEF s

LEMMA Moves ==
  ASSUME Shapes, NEW t \in Thread, NEW pc, NEW i
  PROVE  /\ Goto(t, pc) => req' = [req EXCEPT ![t] =
              Moved(req[t], pc, req[t].id, req[t].target, req[t].keys)]
         /\ Find(t, pc, i) => req' = [req EXCEPT ![t] =
              Moved(req[t], pc, i, req[t].target, req[t].keys)]
         /\ Aim(t, pc, i) => req' = [req EXCEPT ![t] =
              Moved(req[t], pc, req[t].id, i, req[t].keys)]
         /\ req[t].id \in Nat /\ req[t].target \in Nat /\ req[t].keys \in SUBSET STRING
<1>1. IsReq(req[t])
  BY DEF Shapes
<1> DEFINE r == req[t]
<1>2. /\ [r EXCEPT !.pc = pc] = Moved(r, pc, r.id, r.target, r.keys)
      /\ [r EXCEPT !.pc = pc, !.id = i] = Moved(r, pc, i, r.target, r.keys)
      /\ [r EXCEPT !.pc = pc, !.target = i] = Moved(r, pc, r.id, i, r.keys)
      /\ r.id \in Nat /\ r.target \in Nat /\ r.keys \in SUBSET STRING
  BY <1>1 DEF IsReq, Moved
<1>3. [req EXCEPT ![t].pc = pc] = [req EXCEPT ![t] = [r EXCEPT !.pc = pc]]
  OBVIOUS
<1>4. QED
  BY <1>2, <1>3, Zenon DEF Goto, Find, Aim

LEMMA OthersKeep ==
  ASSUME NEW u \in Thread, Knows(u), UNCHANGED db, conn'[u] = conn[u], req'[u] = req[u]
  PROVE  Knows(u)'
<1>1. Seen(u)' = Seen(u)
  BY DEF Seen
<1>2. QED
  BY <1>1 DEF Knows

LEMMA Unpublished ==
  ASSUME Threads, UNCHANGED db
  PROVE  Evolves
BY LaterSame DEF Evolves, Operation, SameGraph, Threads, StoreInv, Shapes

LEMMA ShapesOf ==
  ASSUME Threads, NEW t \in Thread
  PROVE  /\ Shapes /\ StoreInv /\ IsReq(req[t]) /\ IsConn(conn[t]) /\ Sound(t) /\ Knows(t)
         /\ TablesOK(db) /\ TablesOK(Seen(t))
         /\ req[t].in # NoRequest => /\ Asked(req[t].in, db)
                                     /\ TablesOK(req[t].before) /\ Later(req[t].before, db)
                                     /\ Progress(req[t].in, req[t].before, req[t].pc, req[t].id,
                                                 req[t].target, Seen(t), db, ~ conn[t].stale)
<1>1. Shapes /\ StoreInv /\ IsReq(req[t]) /\ IsConn(conn[t]) /\ Sound(t) /\ Knows(t) /\ TablesOK(db)
  BY DEF Threads, StoreInv, Shapes
<1>2. TablesOK(Seen(t))
  BY <1>1 DEF Seen, IsConn
<1>3. QED
  BY <1>1, <1>2 DEF Knows, Known, Idle

LEMMA IdleKnown == ASSUME NEW v, NEW d, NEW live PROVE Known(Idle, v, d, live) /\ Drafted(Idle, v, d)
BY IdleReq DEF Known, Drafted

(* A step that reads, or neither reads nor writes. *)
LEMMA LooksAnswer ==
  ASSUME Threads, NEW t \in Thread, Select(t) \/ UNCHANGED conn, UNCHANGED db, Answer(t),
         ~ Unsaved(req[t].pc, req[t].in)
  PROVE  Threads' /\ Evolves
<1>1. req' = [req EXCEPT ![t] = Idle] /\ Shapes /\ StoreInv
  BY ShapesOf DEF Answer
<1>2. StoreInv' /\ \A u \in Thread \ {t} : conn'[u] = conn[u]
  BY <1>1, IdleReq, SelectStore, RequestStore
<1>3. req'[t] = Idle /\ \A u \in Thread \ {t} : req'[u] = req[u]
  BY <1>1, ReqSet
<1>4. Knows(t)'
  BY <1>3, IdleKnown DEF Knows
<1>5. \A u \in Thread \ {t} : Knows(u)'
  BY <1>2, <1>3, OthersKeep DEF Threads
<1>6. QED
  BY <1>2, <1>4, <1>5, Unpublished DEF Threads

LEMMA LooksOn ==
  ASSUME Threads, NEW t \in Thread, Select(t) \/ UNCHANGED conn, UNCHANGED db,
         NEW pc, NEW id \in Nat, NEW target \in Nat, NEW keys \in SUBSET STRING,
         req' = [req EXCEPT ![t] = Moved(req[t], pc, id, target, keys)],
         req[t].in # NoRequest, ~ Unsaved(req[t].pc, req[t].in), ~ Unsaved(pc, req[t].in),
         Progress(req[t].in, req[t].before, pc, id, target, Seen(t), db, ~ conn[t].stale)
  PROVE  Threads' /\ Evolves
<1> DEFINE r == Moved(req[t], pc, id, target, keys)
<1>1. /\ IsReq(r) /\ r.pc = pc /\ r.in = req[t].in /\ r.id = id /\ r.target = target
      /\ r.before = req[t].before
  BY ShapesOf, MovedReq
<1> HIDE DEF r
<1>2. req' = [req EXCEPT ![t] = r] /\ Shapes /\ StoreInv
  BY ShapesOf DEF r
<1>3. /\ StoreInv' /\ \A u \in Thread \ {t} : conn'[u] = conn[u]
      /\ Seen(t)' = Seen(t) /\ conn'[t].stale = conn[t].stale
  <2>1. CASE Select(t)
    BY <1>1, <1>2, <2>1, SelectStore
  <2>2. CASE UNCHANGED conn
    BY <1>1, <1>2, <2>2, RequestStore DEF Seen
  <2>3. QED
    BY <2>1, <2>2
<1>4. req'[t] = r /\ \A u \in Thread \ {t} : req'[u] = req[u]
  BY <1>2, ReqSet
<1>5. Known(r, Seen(t), db, ~ conn[t].stale)
  BY <1>1, ShapesOf DEF Known
<1>6. Knows(t)'
  BY <1>1, <1>3, <1>4, <1>5 DEF Knows, Drafted
<1>7. \A u \in Thread \ {t} : Knows(u)'
  BY <1>3, <1>4, OthersKeep DEF Threads
<1>8. QED
  BY <1>3, <1>6, <1>7, Unpublished DEF Threads

(* A statement.  What it sees is what is published. *)
LEMMA WritesSeen ==
  ASSUME Threads, NEW t \in Thread, CanWrite(t)
  PROVE  /\ ~ conn[t].stale
         /\ ~ Unsaved(req[t].pc, req[t].in) => Seen(t) = db
<1>1. Sound(t) /\ IsConn(conn[t]) /\ ~ conn[t].stale
  BY ShapesOf DEF CanWrite
<1>2. QED
  BY <1>1 DEF Sound, Seen, IsConn

LEMMA LocksOut ==
  ASSUME Threads, NEW t \in Thread, Locked(t), Answer(t), UNCHANGED db
  PROVE  Threads' /\ Evolves
<1>1. req' = [req EXCEPT ![t] = Idle] /\ Shapes /\ StoreInv
  BY ShapesOf DEF Answer
<1>2. StoreInv' /\ \A u \in Thread \ {t} : conn'[u] = conn[u]
  BY <1>1, LockedStore
<1>3. req'[t] = Idle /\ \A u \in Thread \ {t} : req'[u] = req[u]
  BY <1>1, ReqSet
<1>4. Knows(t)'
  BY <1>3, IdleKnown DEF Knows
<1>5. \A u \in Thread \ {t} : Knows(u)'
  BY <1>2, <1>3, OthersKeep DEF Threads
<1>6. QED
  BY <1>2, <1>4, <1>5, Unpublished DEF Threads

LEMMA BreaksEnd ==
  ASSUME Threads, NEW t \in Thread, Breaks(t), ~ Unsaved(req[t].pc, req[t].in)
  PROVE  Threads' /\ Evolves
<1>1. CASE Locked(t) /\ Answer(t)
  BY <1>1, LocksOut DEF Breaks, Writes
<1>2. CASE Execute(t, Seen(t), FALSE) /\ Answer(t)
  <2>1. req' = [req EXCEPT ![t] = Idle] /\ Shapes /\ StoreInv /\ TablesOK(Seen(t)) /\ UNCHANGED db
    BY <1>2, ShapesOf DEF Answer, Breaks, Writes
  <2>2. StoreInv' /\ \A u \in Thread \ {t} : conn'[u] = conn[u]
    BY <1>2, <2>1, IdleReq, ExecuteStore
  <2>3. req'[t] = Idle /\ \A u \in Thread \ {t} : req'[u] = req[u]
    BY <2>1, ReqSet
  <2>4. Knows(t)'
    BY <2>3, IdleKnown DEF Knows
  <2>5. \A u \in Thread \ {t} : Knows(u)'
    BY <2>1, <2>2, <2>3, OthersKeep DEF Threads
  <2>6. QED
    BY <2>1, <2>2, <2>4, <2>5, Unpublished DEF Threads
<1>3. QED
  BY <1>1, <1>2 DEF Breaks, Writes

LEMMA WritesOn ==
  ASSUME Threads, NEW t \in Thread, NEW new, NEW changed \in BOOLEAN, UNCHANGED db,
         NEW pc, NEW id \in Nat, NEW target \in Nat,
         \/ /\ Execute(t, new, changed)
            /\ req' = [req EXCEPT ![t] = Moved(req[t], pc, id, target, req[t].keys)]
         \/ Locked(t) /\ Answer(t),
         ~ changed => new = Seen(t),
         req[t].in # NoRequest, Unsaved(pc, req[t].in),
         CanWrite(t) => /\ TablesOK(new)
                        /\ Progress(req[t].in, req[t].before, pc, id, target, new, db, TRUE)
                        /\ Draft(req[t].in, req[t].before, pc, id, new, db)
  PROVE  Threads' /\ Evolves
<1>1. CASE Locked(t) /\ Answer(t)
  BY <1>1, LocksOut
<1>2. CASE /\ Execute(t, new, changed)
           /\ req' = [req EXCEPT ![t] = Moved(req[t], pc, id, target, req[t].keys)]
  <2> DEFINE r == Moved(req[t], pc, id, target, req[t].keys)
  <2>1. /\ IsReq(r) /\ r.pc = pc /\ r.in = req[t].in /\ r.id = id /\ r.target = target
        /\ r.before = req[t].before
    BY ShapesOf, Moves, MovedReq
  <2> HIDE DEF r
  <2>2. req' = [req EXCEPT ![t] = r] /\ Shapes /\ StoreInv /\ CanWrite(t)
    BY <1>2, ShapesOf DEF Execute, r
  <2>3. Execute(t, new, changed) /\ TablesOK(new) /\ Unsaved(r.pc, r.in)
    BY <1>2, <2>1, <2>2, Zenon
  <2>4. /\ StoreInv' /\ \A u \in Thread \ {t} : conn'[u] = conn[u]
        /\ Seen(t)' = new /\ conn'[t].stale = FALSE
    BY <2>1, <2>2, <2>3, ExecuteStore
  <2>5. req'[t] = r /\ \A u \in Thread \ {t} : req'[u] = req[u]
    BY <2>2, ReqSet
  <2>6. Known(r, new, db, TRUE) /\ Drafted(r, new, db)
    BY <2>1, <2>2, ShapesOf DEF Known, Drafted
  <2>7. Knows(t)'
    BY <2>4, <2>5, <2>6 DEF Knows
  <2>8. \A u \in Thread \ {t} : Knows(u)'
    BY <2>4, <2>5, OthersKeep DEF Threads
  <2>9. QED
    BY <2>4, <2>7, <2>8, Unpublished DEF Threads
<1>3. QED
  BY <1>1, <1>2

(* A commit publishes the draft; the others see it or are stale. *)
LEMMA CommitKeeps ==
  ASSUME Threads, NEW t \in Thread, Commit(t), Unsaved(req[t].pc, req[t].in), req[t].pc # "node",
         NEW r, IsReq(r), req' = [req EXCEPT ![t] = r], ~ Unsaved(r.pc, r.in),
         Later(db, Seen(t)) => Known(r, Seen(t), Seen(t), TRUE)
  PROVE  Threads' /\ Evolves
<1>1. Shapes /\ StoreInv /\ TablesOK(db) /\ TablesOK(Seen(t)) /\ Knows(t)
  BY ShapesOf
<1>2. Later(db, Seen(t)) /\ Operation(db, Seen(t))
  BY <1>1 DEF Knows, Drafted, Draft
<1>3. /\ StoreInv' /\ db' = Seen(t) /\ Seen(t)' = Seen(t) /\ conn'[t].stale = FALSE
      /\ \A u \in Thread \ {t} :
           /\ Seen(u)' = IF conn[u].tx = "read" THEN Seen(u) ELSE db'
           /\ conn[u].tx # "read" => ~ conn[u].stale /\ Seen(u) = db
           /\ ~ Unsaved(req[u].pc, req[u].in)
           /\ (conn'[u].stale = conn[u].stale /\ db' = db) \/ conn[u].tx # "read" \/ conn'[u].stale
           /\ conn[u].tx # "read" => conn'[u].stale = FALSE
  BY <1>1, CommitStore
<1>4. req'[t] = r /\ \A u \in Thread \ {t} : req'[u] = req[u]
  BY <1>1, ReqSet
<1>5. Knows(t)'
  BY <1>2, <1>3, <1>4 DEF Knows, Drafted
<1>6. ASSUME NEW u \in Thread \ {t}
      PROVE  Knows(u)'
  <2>1. TablesOK(Seen(u)) /\ Known(req[u], Seen(u), db, ~ conn[u].stale) /\ IsReq(req[u])
    BY ShapesOf DEF Knows
  <2>2. TablesOK(db') /\ Later(db, db')
    BY <1>1, <1>2, <1>3
  <2>3. Seen(u).last <= Seen(u)'.last /\ TablesOK(Seen(u)')
    BY <1>3, <2>1, <2>2, Ids DEF Later, LaterNodes
  <2>4. ~ conn'[u].stale => ~ conn[u].stale
    BY <1>3
  <2>5. Known(req[u], Seen(u)', db', ~ conn'[u].stale)
    BY <1>1, <2>1, <2>2, <2>3, <2>4, KnownMoves
  <2>6. QED
    BY <1>3, <1>4, <2>5 DEF Knows, Drafted
<1>7. QED
  BY <1>2, <1>3, <1>5, <1>6 DEF Threads, Evolves

LEMMA CommitsAnswer ==
  ASSUME Threads, NEW t \in Thread, Commit(t), Unsaved(req[t].pc, req[t].in), req[t].pc # "node",
         Answer(t)
  PROVE  Threads' /\ Evolves
BY IdleReq, IdleKnown, CommitKeeps DEF Answer

LEMMA CommitsOn ==
  ASSUME Threads, NEW t \in Thread, Commit(t), Unsaved(req[t].pc, req[t].in), req[t].pc # "node",
         NEW pc, Goto(t, pc), req[t].in # NoRequest, ~ Unsaved(pc, req[t].in),
         Later(db, Seen(t)) /\ TablesOK(Seen(t)) =>
           Progress(req[t].in, req[t].before, pc, req[t].id, req[t].target, Seen(t), Seen(t), TRUE)
  PROVE  Threads' /\ Evolves
<1> DEFINE r == Moved(req[t], pc, req[t].id, req[t].target, req[t].keys)
<1>1. /\ IsReq(r) /\ r.pc = pc /\ r.in = req[t].in /\ r.id = req[t].id
      /\ r.target = req[t].target /\ r.before = req[t].before
  BY ShapesOf, Moves, MovedReq
<1>2. req' = [req EXCEPT ![t] = r]
  BY ShapesOf, Moves
<1> HIDE DEF r
<1>3. ASSUME Later(db, Seen(t))
      PROVE  Known(r, Seen(t), Seen(t), TRUE)
  <2>1. TablesOK(db) /\ TablesOK(Seen(t)) /\ Asked(req[t].in, db)
    BY ShapesOf
  <2>2. TablesOK(req[t].before) /\ Later(req[t].before, Seen(t))
    BY <1>3, <2>1, ShapesOf, LaterChain
  <2>3. Asked(req[t].in, Seen(t))
    BY <1>3, <2>1, ContextualLater DEF Asked
  <2>4. QED
    BY <1>1, <1>3, <2>1, <2>2, <2>3 DEF Known
<1>4. QED
  BY <1>1, <1>2, <1>3, CommitKeeps

LEMMA Begins ==
  ASSUME Threads, NEW t \in Thread, NEW r, NEW pc, Begin(t, r, pc), Asked(r, db),
         pc \in {"validate", "similar", "guard", "find", "read", "source", "nodes", "embed", "write"},
         pc = "find" => r.op \notin Upserts, pc = "write" => r.op # "revise"
  PROVE  Threads' /\ Evolves
<1> DEFINE s == [Idle EXCEPT !.pc = pc, !.in = r, !.before = db]
<1>1. IsReq(s) /\ s.pc = pc /\ s.in = r /\ s.id = 0 /\ s.target = 0 /\ s.before = db
  <2>1. s \in [pc : {pc}, in : {r}, id : {0}, target : {0}, keys : SUBSET STRING, before : {db}]
    BY DEF Idle
  <2> HIDE DEF s
  <2>2. s.pc = pc /\ s.in = r /\ s.id = 0 /\ s.target = 0 /\ s.before = db
    BY <2>1
  <2>3. QED
    BY <2>1, <2>2 DEF IsReq
<1>2. req' = [req EXCEPT ![t] = s] /\ UNCHANGED <<db, conn>> /\ req[t].pc = "idle"
  BY DEF Begin
<1> HIDE DEF s
<1>3. Shapes /\ StoreInv /\ ~ Unsaved(req[t].pc, req[t].in) /\ ~ Unsaved(s.pc, s.in)
      /\ TablesOK(db)
  BY <1>1, <1>2, ShapesOf DEF Unsaved
<1>4. StoreInv'
  BY <1>1, <1>2, <1>3, RequestStore
<1>5. req'[t] = s /\ \A u \in Thread \ {t} : req'[u] = req[u]
  BY <1>2, <1>3, ReqSet
<1>6. Cleared(r, db, pc, db) /\ Flow(r, pc, 0, 0)
  BY DEF Cleared, Flow
<1>7. 0 <= Seen(t).last /\ Later(db, db)
  BY <1>3, ShapesOf, Ids, LaterSame
<1>8. Known(s, Seen(t), db, ~ conn[t].stale)
  BY <1>1, <1>3, <1>6, <1>7 DEF Known, Progress
<1>9. Knows(t)'
  BY <1>1, <1>2, <1>3, <1>5, <1>8 DEF Knows, Drafted, Seen
<1>10. \A u \in Thread \ {t} : Knows(u)'
  BY <1>2, <1>5, OthersKeep DEF Threads
<1>11. QED
  BY <1>2, <1>4, <1>9, <1>10, Unpublished DEF Threads

LEMMA Crashes == ASSUME Threads, Crash PROVE Threads' /\ Evolves
<1>1. UNCHANGED db /\ req' = [t \in Thread |-> Idle]
  BY DEF Crash
<1>2. StoreInv'
  BY CrashStore DEF Threads
<1>3. \A t \in Thread : Knows(t)'
  BY <1>1, IdleKnown DEF Knows
<1>4. QED
  BY <1>1, <1>2, <1>3, Unpublished DEF Threads

-----------------------------------------------------------------------------
(* Going on after a SELECT *)

LEMMA LiveSeen ==
  ASSUME Threads, NEW t \in Thread, ~ conn[t].stale, ~ Unsaved(req[t].pc, req[t].in)
  PROVE  Seen(t) = db
<1>1. Sound(t) /\ IsConn(conn[t])
  BY ShapesOf
<1>2. QED
  BY <1>1 DEF Sound, Seen, IsConn

Going(t) ==
  /\ req[t].in # NoRequest /\ ~ Unsaved(req[t].pc, req[t].in)
  /\ UNCHANGED db /\ (Select(t) \/ UNCHANGED conn)

IsNode(i, v) == i \in Nat /\ (i # 0 => i \in DOMAIN v.node)

LEMMA GoesOn ==
  ASSUME Threads, NEW t \in Thread, Going(t), NEW pc, Goto(t, pc), ~ Unsaved(pc, req[t].in),
         Flow(req[t].in, pc, req[t].id, req[t].target),
         ~ conn[t].stale /\ Seen(t) = db => Cleared(req[t].in, req[t].before, pc, db)
  PROVE  Threads' /\ Evolves
<1>1. Progress(req[t].in, req[t].before, req[t].pc, req[t].id, req[t].target, Seen(t), db,
               ~ conn[t].stale)
  BY ShapesOf DEF Going
<1>2. Progress(req[t].in, req[t].before, pc, req[t].id, req[t].target, Seen(t), db,
               ~ conn[t].stale)
  BY <1>1, LiveSeen DEF Progress, Going
<1>3. /\ req[t].id \in Nat /\ req[t].target \in Nat /\ req[t].keys \in SUBSET STRING
      /\ req' = [req EXCEPT ![t] = Moved(req[t], pc, req[t].id, req[t].target, req[t].keys)]
  BY ShapesOf, Moves
<1>4. QED
  BY <1>2, <1>3, LooksOn DEF Going, IsNode

LEMMA Placing ==
  ASSUME Threads, NEW t \in Thread, Going(t), NEW i, IsNode(i, Seen(t))
  PROVE  i <= Seen(t).last /\ (~ conn[t].stale /\ i # 0 => Placed(req[t].before, i))
<1>1. TablesOK(Seen(t)) /\ Later(req[t].before, db) /\ TablesOK(req[t].before)
  BY ShapesOf DEF Going
<1>2. ~ conn[t].stale => Seen(t) = db
  BY LiveSeen DEF Going
<1>3. QED
  BY <1>1, <1>2, Ids DEF Later, LaterNodes, Placed, IsNode

LEMMA Finds ==
  ASSUME Threads, NEW t \in Thread, Going(t), NEW pc, NEW i, IsNode(i, Seen(t)), Find(t, pc, i),
         ~ Unsaved(pc, req[t].in), Flow(req[t].in, pc, i, req[t].target),
         ~ conn[t].stale /\ Seen(t) = db => Cleared(req[t].in, req[t].before, pc, db)
  PROVE  Threads' /\ Evolves
<1>1. Progress(req[t].in, req[t].before, req[t].pc, req[t].id, req[t].target, Seen(t), db,
               ~ conn[t].stale)
  BY ShapesOf DEF Going
<1>2. Progress(req[t].in, req[t].before, pc, i, req[t].target, Seen(t), db, ~ conn[t].stale)
  BY <1>1, LiveSeen, Placing DEF Progress, Going
<1>3. /\ req[t].id \in Nat /\ req[t].target \in Nat /\ req[t].keys \in SUBSET STRING
      /\ req' = [req EXCEPT ![t] = Moved(req[t], pc, i, req[t].target, req[t].keys)]
  BY ShapesOf, Moves
<1>4. QED
  BY <1>2, <1>3, LooksOn DEF Going, IsNode

LEMMA Aims ==
  ASSUME Threads, NEW t \in Thread, Going(t), NEW pc, NEW i, IsNode(i, Seen(t)), Aim(t, pc, i),
         ~ Unsaved(pc, req[t].in), Flow(req[t].in, pc, req[t].id, i),
         ~ conn[t].stale /\ Seen(t) = db => Cleared(req[t].in, req[t].before, pc, db)
  PROVE  Threads' /\ Evolves
<1>1. Progress(req[t].in, req[t].before, req[t].pc, req[t].id, req[t].target, Seen(t), db,
               ~ conn[t].stale)
  BY ShapesOf DEF Going
<1>2. Progress(req[t].in, req[t].before, pc, req[t].id, i, Seen(t), db, ~ conn[t].stale)
  BY <1>1, LiveSeen, Placing DEF Progress, Going
<1>3. /\ req[t].id \in Nat /\ req[t].target \in Nat /\ req[t].keys \in SUBSET STRING
      /\ req' = [req EXCEPT ![t] = Moved(req[t], pc, req[t].id, i, req[t].keys)]
  BY ShapesOf, Moves
<1>4. QED
  BY <1>2, <1>3, LooksOn DEF Going, IsNode

LEMMA GuardOwns ==
  ASSUME NEW before, TablesOK(before), NEW d, TablesOK(d), Later(before, d), NEW in,
         ~ Guarded(d, in)
  PROVE  Owned(in, before, d)
<1> SUFFICES ASSUME NEW i \in NamedAlike(in, before), i \in DOMAIN d.node
             PROVE  \E j \in NamedAlike(in, before) : before.node[j].mind = in.mind
  BY DEF Owned
<1> DEFINE S == NamedAlike(in, d)
           k == First(S)
<1>1. i \in S
  BY DEF Later, LaterNodes, NamedAlike
<1>2. S \subseteq DOMAIN d.node /\ S \subseteq Nat /\ 0 \notin S
  BY Ids DEF NamedAlike
<1>3. k \in S /\ k <= i
  BY <1>1, <1>2, SmallestId DEF First
<1>4. d.node[k].mind = in.mind
  BY <1>2, <1>3 DEF Guarded, NamedAlike
<1>5. k \in DOMAIN before.node
  <2>1. i <= before.last /\ i \in Nat /\ k \in Nat /\ k \in DOMAIN d.node /\ before.last \in Nat
    BY <1>2, <1>3, Ids DEF NamedAlike
  <2>2. QED
    BY <1>3, <2>1 DEF Later, LaterNodes
<1>6. k \in NamedAlike(in, before) /\ before.node[k].mind = in.mind
  BY <1>2, <1>3, <1>4, <1>5 DEF Later, LaterNodes, NamedAlike
<1>7. QED
  BY <1>6

LEMMA GraphTyped ==
  ASSUME NEW in, NEW d, Asked(in, d), in.op \in GraphOps
  PROVE  /\ in \in Request /\ {in.mind, in.type, in.name, in.tname, in.ttype} \subseteq STRING
         /\ Fields(in) \subseteq STRING
         /\ in.op \in {"name"} => Fields(in) \in SUBSET {"first_name", "last_name"}
         /\ in.op \in {"add_type"} => in.type \in DOMAIN SchemaTypes \cup DOMAIN AdminTypes
         /\ in.op \in {"add_relation"} => in.rel \in DOMAIN SchemaEdges \cup DOMAIN AdminEdges
<1>1. \A i : DeleteRequest(i).op = "forget"
  BY DEF DeleteRequest
<1>2. in \in Request
  BY <1>1 DEF Asked, GraphOps, Upserts
<1>3. QED
  BY <1>2, LucentAssumption, Zenon

LEMMA Founds ==
  ASSUME NEW v, TablesOK(v), NEW name, NEW type
  PROVE  IsNode(NodeOf(v, name, type), v)
BY NodeFound DEF IsNode

-----------------------------------------------------------------------------
(* The SELECTs of the graph's handlers *)

LEMMA UpsertValidateKeeps ==
  ASSUME Threads, NEW t \in Thread, UpsertValidate(t)
  PROVE  Threads' /\ Evolves
<1>1. Going(t) /\ (Answer(t) \/ Goto(t, "similar")) /\ req[t].in.op = "upsert"
  BY DEF UpsertValidate, At, Reads, Going, Unsaved
<1>2. CASE Answer(t)
  BY <1>1, <1>2, LooksAnswer DEF Going
<1>3. CASE Goto(t, "similar")
  BY <1>1, <1>3, GoesOn DEF Unsaved, Flow, Cleared
<1>4. QED
  BY <1>1, <1>2, <1>3

LEMMA UpsertSimilarKeeps ==
  ASSUME Threads, NEW t \in Thread, UpsertSimilar(t)
  PROVE  Threads' /\ Evolves
<1>1. Going(t) /\ (Answer(t) \/ Goto(t, "guard")) /\ req[t].in.op \in Upserts
  BY DEF UpsertSimilar, At, Reads, Going, Unsaved, Upserts
<1>2. CASE Answer(t)
  BY <1>1, <1>2, LooksAnswer DEF Going
<1>3. CASE Goto(t, "guard")
  BY <1>1, <1>3, GoesOn DEF Unsaved, Flow, Cleared
<1>4. QED
  BY <1>1, <1>2, <1>3

LEMMA UpsertGuardKeeps ==
  ASSUME Threads, NEW t \in Thread, UpsertGuard(t)
  PROVE  Threads' /\ Evolves
<1>1. Going(t) /\ (Answer(t) \/ Goto(t, "find")) /\ req[t].in.op \in Upserts
  BY DEF UpsertGuard, At, Reads, Going, Unsaved
<1>2. CASE Answer(t)
  BY <1>1, <1>2, LooksAnswer DEF Going
<1>3. CASE Goto(t, "find") /\ ~ Guarded(Seen(t), req[t].in)
  <2>1. Seen(t) = db => Owned(req[t].in, req[t].before, db)
    BY <1>1, <1>3, ShapesOf, GuardOwns DEF Going
  <2>2. ~ Unsaved("find", req[t].in) /\ Flow(req[t].in, "find", req[t].id, req[t].target)
    BY <1>1 DEF Unsaved, Flow, Upserts
  <2>3. Seen(t) = db => Cleared(req[t].in, req[t].before, "find", db)
    BY <2>1 DEF Cleared
  <2>4. QED
    BY <1>1, <1>3, <2>2, <2>3, GoesOn
<1>4. QED
  BY <1>1, <1>2, <1>3 DEF UpsertGuard, Reads

(* The identity guard's result holds on. *)
LEMMA StillCleared ==
  ASSUME Threads, NEW t \in Thread, req[t].in # NoRequest, ~ conn[t].stale
  PROVE  Cleared(req[t].in, req[t].before, req[t].pc, db)
BY ShapesOf DEF Progress

LEMMA UpsertFindKeeps ==
  ASSUME Threads, NEW t \in Thread, UpsertFind(t)
  PROVE  Threads' /\ Evolves
<1> DEFINE i == NodeOf(Seen(t), req[t].in.name, req[t].in.type)
<1>1. /\ Going(t) /\ Find(t, "node", i) /\ req[t].in.op \in Upserts /\ req[t].pc = "find"
      /\ req[t].in # NoRequest
  BY DEF UpsertFind, At, Reads, Going, Unsaved
<1>2. IsNode(i, Seen(t))
  BY ShapesOf, Founds
<1> HIDE DEF i
<1>3. ~ Unsaved("node", req[t].in) /\ Flow(req[t].in, "node", i, req[t].target)
  BY <1>1 DEF Unsaved, Flow, Upserts
<1>4. ~ conn[t].stale => Cleared(req[t].in, req[t].before, "node", db)
  BY <1>1, StillCleared DEF Cleared, Upserts
<1>5. QED
  BY <1>1, <1>2, <1>3, <1>4, Finds

LEMMA UpsertFindTargetKeeps ==
  ASSUME Threads, NEW t \in Thread, UpsertFindTarget(t)
  PROVE  Threads' /\ Evolves
<1> DEFINE type == IF req[t].in.ttype = "" THEN req[t].in.type ELSE req[t].in.ttype
           i == NodeOf(Seen(t), req[t].in.tname, type)
<1>1. /\ Going(t) /\ req[t].in # NoRequest
      /\ req[t].in.op \in Upserts /\ req[t].pc = "find_target"
      /\ Answer(t) \/ Aim(t, "target", i)
  BY DEF UpsertFindTarget, At, Reads, Going, Unsaved
<1>2. IsNode(i, Seen(t))
  BY ShapesOf, Founds
<1> HIDE DEF i
<1>3. CASE Answer(t)
  BY <1>1, <1>3, LooksAnswer DEF Going
<1>4. CASE Aim(t, "target", i)
  <2>1. req[t].id # 0
    BY <1>1, ShapesOf DEF Progress, Flow
  <2>2. ~ Unsaved("target", req[t].in) /\ Flow(req[t].in, "target", req[t].id, i)
    BY <1>1, <2>1 DEF Unsaved, Flow, Upserts
  <2>3. Cleared(req[t].in, req[t].before, "target", db)
    BY <1>1 DEF Cleared, Upserts
  <2>4. QED
    BY <1>1, <1>2, <1>4, <2>2, <2>3, Aims
<1>5. QED
  BY <1>1, <1>3, <1>4

LEMMA CreateFindKeeps ==
  ASSUME Threads, NEW t \in Thread, CreateFind(t)
  PROVE  Threads' /\ Evolves
<1>1. Going(t) /\ (Answer(t) \/ Goto(t, "guard")) /\ req[t].in.op = "create"
  BY DEF CreateFind, At, Reads, Going, Unsaved
<1>2. CASE Answer(t)
  BY <1>1, <1>2, LooksAnswer DEF Going
<1>3. CASE Goto(t, "guard")
  BY <1>1, <1>3, GoesOn DEF Unsaved, Flow, Cleared
<1>4. QED
  BY <1>1, <1>2, <1>3

LEMMA CreateGuardKeeps ==
  ASSUME Threads, NEW t \in Thread, CreateGuard(t)
  PROVE  Threads' /\ Evolves
<1>1. Going(t) /\ (Answer(t) \/ Goto(t, "insert")) /\ req[t].in.op = "create"
  BY DEF CreateGuard, At, Reads, Going, Unsaved
<1>2. CASE Answer(t)
  BY <1>1, <1>2, LooksAnswer DEF Going
<1>3. CASE Goto(t, "insert") /\ ~ Guarded(Seen(t), req[t].in)
  <2>1. Seen(t) = db => Owned(req[t].in, req[t].before, db)
    BY <1>1, <1>3, ShapesOf, GuardOwns DEF Going
  <2>2. ~ Unsaved("insert", req[t].in) /\ Flow(req[t].in, "insert", req[t].id, req[t].target)
    BY <1>1 DEF Unsaved, Flow, Upserts
  <2>3. Seen(t) = db => Cleared(req[t].in, req[t].before, "insert", db)
    BY <1>1, <2>1 DEF Cleared, Upserts
  <2>4. QED
    BY <1>1, <1>3, <2>2, <2>3, GoesOn
<1>4. QED
  BY <1>1, <1>2, <1>3 DEF CreateGuard, Reads

LEMMA EditReadKeeps ==
  ASSUME Threads, NEW t \in Thread, EditRead(t)
  PROVE  Threads' /\ Evolves
<1> DEFINE i == NodeOf(Seen(t), req[t].in.name, req[t].in.type)
           keys == Seen(t).node[i].keys
<1>1. /\ Going(t) /\ req[t].in.op \in {"merge", "remove"} /\ req[t].in # NoRequest
      /\ \/ Answer(t)
         \/ i # 0 /\ req' = [req EXCEPT ![t] = [req[t] EXCEPT !.pc = "write", !.id = i, !.keys = keys]]
  BY DEF EditRead, At, Reads, Going, Unsaved
<1>2. IsNode(i, Seen(t)) /\ TablesOK(Seen(t))
  BY ShapesOf, Founds
<1>3. CASE Answer(t)
  BY <1>1, <1>3, LooksAnswer DEF Going
<1>4. CASE i # 0 /\ req' = [req EXCEPT ![t] = [req[t] EXCEPT !.pc = "write", !.id = i, !.keys = keys]]
  <2>1. keys \in SUBSET STRING
    <3>1. Seen(t).node[i] \in Rows
      BY <1>2, <1>4, Ids DEF IsNode
    <3>2. QED
      BY <3>1 DEF Rows
  <2> HIDE DEF i, keys
  <2>2. [req[t] EXCEPT !.pc = "write", !.id = i, !.keys = keys]
          = Moved(req[t], "write", i, req[t].target, keys) /\ req[t].target \in Nat
    BY ShapesOf DEF IsReq, Moved
  <2>3. ~ Unsaved("write", req[t].in) /\ Flow(req[t].in, "write", i, req[t].target)
        /\ Cleared(req[t].in, req[t].before, "write", db)
    BY <1>1 DEF Unsaved, Flow, Cleared, Upserts
  <2>4. Progress(req[t].in, req[t].before, "write", i, req[t].target, Seen(t), db, ~ conn[t].stale)
    BY <1>1, <1>2, <2>3, ShapesOf, Placing DEF Progress
  <2>5. QED
    BY <1>1, <1>2, <1>4, <2>1, <2>2, <2>3, <2>4, LooksOn DEF Going, IsNode
<1>5. QED
  BY <1>1, <1>3, <1>4

LEMMA EdgeSourceKeeps ==
  ASSUME Threads, NEW t \in Thread, EdgeSource(t)
  PROVE  Threads' /\ Evolves
<1> DEFINE i == NodeOf(Seen(t), req[t].in.name, req[t].in.type)
<1>1. /\ Going(t) /\ req[t].in.op \in {"link", "unlink"}
      /\ Answer(t) \/ Find(t, "target", i)
  BY DEF EdgeSource, At, Reads, Going, Unsaved
<1>2. IsNode(i, Seen(t))
  BY ShapesOf, Founds
<1> HIDE DEF i
<1>3. CASE Answer(t)
  BY <1>1, <1>3, LooksAnswer DEF Going
<1>4. CASE Find(t, "target", i)
  <2>1. ~ Unsaved("target", req[t].in) /\ Flow(req[t].in, "target", i, req[t].target)
        /\ Cleared(req[t].in, req[t].before, "target", db)
    BY <1>1 DEF Unsaved, Flow, Cleared, Upserts
  <2>2. QED
    BY <1>1, <1>2, <1>4, <2>1, Finds
<1>5. QED
  BY <1>1, <1>3, <1>4

LEMMA EdgeTargetKeeps ==
  ASSUME Threads, NEW t \in Thread, EdgeTarget(t)
  PROVE  Threads' /\ Evolves
<1> DEFINE i == NodeOf(Seen(t), req[t].in.tname, req[t].in.ttype)
<1>1. /\ Going(t) /\ req[t].in.op \in {"link", "unlink"}
      /\ Answer(t) \/ (i # 0 /\ req[t].id # 0 /\ Aim(t, "edge", i))
  BY DEF EdgeTarget, At, Reads, Going, Unsaved
<1>2. IsNode(i, Seen(t))
  BY ShapesOf, Founds
<1> HIDE DEF i
<1>3. CASE Answer(t)
  BY <1>1, <1>3, LooksAnswer DEF Going
<1>4. CASE i # 0 /\ req[t].id # 0 /\ Aim(t, "edge", i)
  <2>1. ~ Unsaved("edge", req[t].in) /\ Flow(req[t].in, "edge", req[t].id, i)
        /\ Cleared(req[t].in, req[t].before, "edge", db)
    BY <1>1, <1>4 DEF Unsaved, Flow, Cleared, Upserts
  <2>2. QED
    BY <1>1, <1>2, <1>4, <2>1, Aims
<1>5. QED
  BY <1>1, <1>3, <1>4

LEMMA DeleteFindKeeps ==
  ASSUME Threads, NEW t \in Thread, DeleteFind(t)
  PROVE  Threads' /\ Evolves
<1> DEFINE i == NodeOf(Seen(t), req[t].in.name, req[t].in.type)
<1>1. /\ Going(t) /\ req[t].in.op = "delete"
      /\ Answer(t) \/ (i # 0 /\ Find(t, "edges", i))
  BY DEF DeleteFind, At, Reads, Going, Unsaved
<1>2. IsNode(i, Seen(t))
  BY ShapesOf, Founds
<1> HIDE DEF i
<1>3. CASE Answer(t)
  BY <1>1, <1>3, LooksAnswer DEF Going
<1>4. CASE i # 0 /\ Find(t, "edges", i)
  <2>1. ~ Unsaved("edges", req[t].in) /\ Flow(req[t].in, "edges", i, req[t].target)
        /\ Cleared(req[t].in, req[t].before, "edges", db)
    BY <1>1, <1>4 DEF Unsaved, Flow, Cleared, Upserts
  <2>2. QED
    BY <1>1, <1>2, <1>4, <2>1, Finds
<1>5. QED
  BY <1>1, <1>3, <1>4

LEMMA QueryNodesKeeps ==
  ASSUME Threads, NEW t \in Thread, QueryNodes(t)
  PROVE  Threads' /\ Evolves
<1> DEFINE S == {j \in DOMAIN Seen(t).node :
                   Lower[Seen(t).node[j].name] = Lower[req[t].in.name]}
           i == First(S)
<1>1. /\ Going(t) /\ req[t].in.op = "query"
      /\ Answer(t) \/ Find(t, "edges", i)
  BY DEF QueryNodes, At, Reads, Going, Unsaved
<1>2. S \subseteq DOMAIN Seen(t).node /\ S \subseteq Nat
  BY ShapesOf, Ids
<1> HIDE DEF S
<1>3. IsNode(i, Seen(t))
  <2>1. i \in S \cup {0}
    BY <1>2, FirstId
  <2> HIDE DEF i
  <2>2. QED
    BY <1>2, <2>1 DEF IsNode
<1> HIDE DEF i
<1>4. CASE Answer(t)
  BY <1>1, <1>4, LooksAnswer DEF Going
<1>5. CASE Find(t, "edges", i)
  <2>1. ~ Unsaved("edges", req[t].in) /\ Flow(req[t].in, "edges", i, req[t].target)
        /\ Cleared(req[t].in, req[t].before, "edges", db)
    BY <1>1 DEF Unsaved, Flow, Cleared, Upserts
  <2>2. QED
    BY <1>1, <1>3, <1>5, <2>1, Finds
<1>6. QED
  BY <1>1, <1>4, <1>5

LEMMA QueryEdgesKeeps ==
  ASSUME Threads, NEW t \in Thread, QueryEdges(t)
  PROVE  Threads' /\ Evolves
<1>1. Going(t) /\ Answer(t)
  BY DEF QueryEdges, At, Reads, Going, Unsaved
<1>2. QED
  BY <1>1, LooksAnswer DEF Going

-----------------------------------------------------------------------------
(* The statements of the graph's handlers *)

(* A statement in a fresh transaction of a request goes on to its commit. *)
LEMMA WritesGoto ==
  ASSUME Threads, NEW t \in Thread, NEW new, NEW changed \in BOOLEAN,
         NEW pc, Writes(t, new, changed, Goto(t, pc)), ~ changed => new = Seen(t),
         req[t].in # NoRequest, ~ Unsaved(req[t].pc, req[t].in), Unsaved(pc, req[t].in),
         Seen(t) = db /\ ~ conn[t].stale =>
           /\ TablesOK(new)
           /\ Flow(req[t].in, pc, req[t].id, req[t].target)
           /\ Cleared(req[t].in, req[t].before, pc, db)
           /\ Draft(req[t].in, req[t].before, pc, req[t].id, new, db)
  PROVE  Threads' /\ Evolves
<1>1. /\ req[t].id \in Nat /\ req[t].target \in Nat /\ req[t].keys \in SUBSET STRING
      /\ Goto(t, pc) => req' = [req EXCEPT ![t] =
           Moved(req[t], pc, req[t].id, req[t].target, req[t].keys)]
  BY ShapesOf, Moves
<1>2. ASSUME CanWrite(t)
      PROVE  /\ TablesOK(new)
             /\ Progress(req[t].in, req[t].before, pc, req[t].id, req[t].target, new, db, TRUE)
             /\ Draft(req[t].in, req[t].before, pc, req[t].id, new, db)
  <2>1. Seen(t) = db /\ ~ conn[t].stale
    BY <1>2, WritesSeen
  <2>2. Later(db, new) /\ TablesOK(new) /\ TablesOK(db)
    BY <2>1, ShapesOf DEF Draft
  <2>3. db.last <= new.last /\ db.last \in Nat /\ new.last \in Nat
    BY <2>2, Ids DEF Later, LaterNodes
  <2>4. Progress(req[t].in, req[t].before, req[t].pc, req[t].id, req[t].target, db, db, TRUE)
    BY <2>1, ShapesOf
  <2>5. req[t].id <= new.last /\ req[t].target <= new.last
    BY <1>1, <2>3, <2>4 DEF Progress
  <2>6. QED
    BY <2>1, <2>4, <2>5 DEF Progress
<1>3. /\ \/ /\ Execute(t, new, changed)
            /\ req' = [req EXCEPT ![t] = Moved(req[t], pc, req[t].id, req[t].target, req[t].keys)]
         \/ Locked(t) /\ Answer(t)
      /\ UNCHANGED db
  BY <1>1, Zenon DEF Writes
<1>4. QED
  BY <1>1, <1>2, <1>3, WritesOn

(* A request that writes no memories. *)
LEMMA GraphDraft ==
  ASSUME NEW in, in.op \in GraphOps, NEW before, NEW pc, pc # "node", NEW id, NEW v, NEW d,
         Later(d, v), Operation(d, v), v.edge \subseteq d.edge
  PROVE  Draft(in, before, pc, id, v, d)
BY DEF Draft, GraphOps, Upserts

LEMMA SameDraft ==
  ASSUME NEW in, in.op \in GraphOps, NEW before, NEW pc, pc # "node", NEW id, NEW d, TablesOK(d)
  PROVE  Draft(in, before, pc, id, d, d)
BY LaterSame, GraphDraft DEF Operation, SameGraph

(* A new node, whose id the request goes on with. *)
Inserting(t, row, pc, id, target, new) ==
  /\ ~ Taken(Seen(t), row.mind, row.name) /\ new = InsertNode(Seen(t), row)
  /\ req[t].in # NoRequest /\ req[t].in.op \in Upserts /\ ~ Unsaved(req[t].pc, req[t].in)
  /\ Unsaved(pc, req[t].in) /\ pc # "node"
  /\ id \in {req[t].id, Seen(t).last + 1} /\ target \in {req[t].target, Seen(t).last + 1}
  /\ UNCHANGED db
  /\ \/ /\ Execute(t, new, TRUE)
        /\ req' = [req EXCEPT ![t] = Moved(req[t], pc, id, target, req[t].keys)]
     \/ Locked(t) /\ Answer(t)
  /\ Flow(req[t].in, pc, id, target)
  /\ ~ conn[t].stale => Cleared(req[t].in, req[t].before, pc, db)

LEMMA Inserts ==
  ASSUME Threads, NEW t \in Thread, NEW row \in Rows, NEW pc, NEW id, NEW target, NEW new,
         Inserting(t, row, pc, id, target, new)
  PROVE  Threads' /\ Evolves
<1>1. TablesOK(Seen(t)) /\ Seen(t).last \in Nat /\ req[t].id \in Nat /\ req[t].target \in Nat
  BY ShapesOf, Moves, Ids
<1>2. id \in Nat /\ target \in Nat
  BY <1>1 DEF Inserting
<1>3. /\ TablesOK(new) /\ Later(Seen(t), new) /\ Created(Seen(t), new)
  BY <1>1, NodeInserted DEF Inserting
<1>4. ASSUME CanWrite(t)
      PROVE  /\ Progress(req[t].in, req[t].before, pc, id, target, new, db, TRUE)
             /\ Draft(req[t].in, req[t].before, pc, id, new, db)
  <2>1. Seen(t) = db /\ ~ conn[t].stale
    BY <1>4, WritesSeen DEF Inserting
  <2>2. Progress(req[t].in, req[t].before, req[t].pc, req[t].id, req[t].target, db, db, TRUE)
        /\ TablesOK(req[t].before) /\ Later(req[t].before, db)
    BY <2>1, ShapesOf DEF Inserting
  <2>3. new.last = db.last + 1 /\ db.last + 1 > req[t].before.last
    BY <1>1, <1>3, <2>1, <2>2, Ids DEF Created, Later, LaterNodes
  <2>4. id <= new.last /\ target <= new.last
    BY <1>1, <2>1, <2>2, <2>3 DEF Progress, Inserting
  <2>5. (id # 0 => Placed(req[t].before, id)) /\ (target # 0 => Placed(req[t].before, target))
    BY <2>1, <2>2, <2>3 DEF Progress, Placed, Inserting
  <2>6. Progress(req[t].in, req[t].before, pc, id, target, new, db, TRUE)
    BY <2>1, <2>4, <2>5 DEF Progress, Inserting
  <2>7. Operation(db, new) /\ new.edge \subseteq db.edge /\ req[t].in.op \in GraphOps
    BY <1>3, <2>1 DEF Operation, Created, GraphOps, Inserting
  <2>8. QED
    BY <1>3, <2>1, <2>6, <2>7, GraphDraft DEF Inserting
<1>5. QED
  BY <1>2, <1>3, <1>4, WritesOn DEF Inserting

LEMMA StringsOf ==
  ASSUME Threads, NEW t \in Thread, req[t].in # NoRequest, req[t].in.op \in GraphOps
  PROVE  /\ req[t].in.mind \in STRING /\ req[t].in.type \in STRING /\ req[t].in.name \in STRING
         /\ req[t].in.tname \in STRING /\ req[t].in.ttype \in STRING
         /\ Fields(req[t].in) \in SUBSET STRING
<1>1. Asked(req[t].in, db)
  BY ShapesOf
<1>2. QED
  BY <1>1, GraphTyped

LEMMA UpsertNodeKeeps ==
  ASSUME Threads, NEW t \in Thread, UpsertNode(t)
  PROVE  Threads' /\ Evolves
<1> DEFINE r == req[t].in
           v == Seen(t)
           i == req[t].id
           new == Node(r.mind, r.type, r.name, Fields(r))
           kept == [v.node[i] EXCEPT !.keys = new.keys, !.columns = @ \cup new.columns,
                                     !.by = r.mind]
<1>1. /\ r # NoRequest /\ r.op \in Upserts /\ req[t].pc = "node" /\ r.op \in GraphOps
      /\ ~ Unsaved(req[t].pc, r) /\ Unsaved("commit_node", r)
  BY DEF UpsertNode, At, Unsaved, Upserts, GraphOps
<1>2. /\ new \in Rows /\ new.mind = r.mind /\ new.type = r.type /\ new.name = r.name
      /\ new.columns \subseteq {"first_name", "last_name"} /\ new.keys \subseteq STRING
      /\ r.mind \in STRING
  <2>1. /\ r.mind \in STRING /\ r.type \in STRING /\ r.name \in STRING
        /\ Fields(r) \in SUBSET STRING
    BY <1>1, StringsOf
  <2> HIDE DEF r
  <2>2. QED
    BY <2>1 DEF Node, Rows
<1> HIDE DEF new
<1>3. TablesOK(v) /\ TablesOK(db)
  BY ShapesOf
<1>4. ~ conn[t].stale => Cleared(r, req[t].before, "commit_node", db)
  BY <1>1, StillCleared DEF Cleared, Upserts
<1>5. ASSUME i # 0 PROVE Flow(r, "commit_node", i, req[t].target)
  BY <1>1, <1>5 DEF Flow, Upserts
<1>6. CASE i # 0 /\ i \in DOMAIN v.node /\ Writes(t, UpdateNode(v, i, kept), TRUE, Goto(t, "commit_node"))
  <2>1. kept \in Rows /\ kept.mind = v.node[i].mind /\ kept.type = v.node[i].type
        /\ kept.name = v.node[i].name
    <3>1. v.node[i] \in Rows
      BY <1>3, <1>6, Ids
    <3>2. v.node[i].columns \cup new.columns \in SUBSET {"first_name", "last_name"}
      BY <1>2, <3>1 DEF Rows
    <3>3. kept = [v.node[i] EXCEPT !.keys = new.keys,
                                   !.columns = v.node[i].columns \cup new.columns, !.by = r.mind]
      OBVIOUS
    <3> DEFINE old == v.node[i]
               columns == old.columns \cup new.columns
    <3> HIDE DEF old, columns, kept
    <3>4. old \in Rows /\ columns \in SUBSET {"first_name", "last_name"}
          /\ kept = [old EXCEPT !.keys = new.keys, !.columns = columns, !.by = r.mind]
      BY <3>1, <3>2, <3>3 DEF old, columns
    <3>5. new.keys \in SUBSET STRING /\ r.mind \in STRING
      BY <1>2
    <3>6. kept \in Rows /\ kept.mind = old.mind /\ kept.type = old.type /\ kept.name = old.name
      BY <3>4, <3>5 DEF Rows
    <3>7. QED
      BY <3>6 DEF old
  <2> HIDE DEF kept
  <2> DEFINE w == UpdateNode(v, i, kept)
  <2>2. TablesOK(w) /\ Later(v, w) /\ Edited(v, w)
    BY <1>3, <1>6, <2>1, NodeUpdated
  <2>3. Writes(t, w, TRUE, Goto(t, "commit_node"))
    BY <1>6
  <2> HIDE DEF w
  <2>4. v = db => Draft(r, req[t].before, "commit_node", i, w, db)
    BY <1>1, <2>2, GraphDraft DEF Operation, Edited
  <2>5. QED
    BY <1>1, <1>4, <1>5, <1>6, <2>2, <2>3, <2>4, WritesGoto
<1>7. CASE i # 0 /\ i \notin DOMAIN v.node /\ Writes(t, v, FALSE, Goto(t, "commit_node"))
  <2>1. v = db => Draft(r, req[t].before, "commit_node", i, v, db)
    BY <1>1, <1>3, SameDraft
  <2>2. QED
    BY <1>1, <1>3, <1>4, <1>5, <1>7, <2>1, WritesGoto
<1>8. CASE i = 0 /\ ~ Taken(v, r.mind, r.name)
           /\ Writes(t, InsertNode(v, new), TRUE, Find(t, "commit_node", v.last + 1))
  <2>1. v.last \in Nat /\ v.last + 1 # 0
    BY <1>3, Ids
  <2>2. Flow(r, "commit_node", v.last + 1, req[t].target)
    BY <1>1, <2>1 DEF Flow, Upserts
  <2>3. Find(t, "commit_node", v.last + 1) =>
          req' = [req EXCEPT ![t] = Moved(req[t], "commit_node", v.last + 1, req[t].target, req[t].keys)]
    BY ShapesOf, Moves
  <2> DEFINE w == InsertNode(v, new)
  <2>4. /\ \/ /\ Execute(t, w, TRUE)
              /\ req' = [req EXCEPT ![t] =
                   Moved(req[t], "commit_node", v.last + 1, req[t].target, req[t].keys)]
           \/ Locked(t) /\ Answer(t)
        /\ UNCHANGED db
    BY <1>8, <2>3, Zenon DEF Writes
  <2>5. ~ Taken(v, new.mind, new.name) /\ new \in Rows
    BY <1>2, <1>8
  <2> DEFINE n == v.last + 1
  <2>6. /\ w = InsertNode(v, new) /\ n \in {req[t].id, Seen(t).last + 1}
        /\ req[t].target \in {req[t].target, Seen(t).last + 1} /\ "commit_node" # "node"
    OBVIOUS
  <2>7. /\ \/ /\ Execute(t, w, TRUE)
              /\ req' = [req EXCEPT ![t] = Moved(req[t], "commit_node", n, req[t].target, req[t].keys)]
           \/ Locked(t) /\ Answer(t)
        /\ UNCHANGED db /\ Flow(r, "commit_node", n, req[t].target)
    BY <2>2, <2>4
  <2>8. /\ ~ Taken(Seen(t), new.mind, new.name) /\ w = InsertNode(Seen(t), new)
        /\ req[t].in # NoRequest /\ req[t].in.op \in Upserts
        /\ ~ Unsaved(req[t].pc, req[t].in) /\ Unsaved("commit_node", req[t].in)
        /\ Flow(req[t].in, "commit_node", n, req[t].target)
        /\ ~ conn[t].stale => Cleared(req[t].in, req[t].before, "commit_node", db)
    BY <1>1, <1>4, <2>5, <2>6, <2>7
  <2> HIDE DEF w, n, r, v, i, kept
  <2>9. Inserting(t, new, "commit_node", n, req[t].target, w)
    BY <2>5, <2>6, <2>7, <2>8 DEF Inserting
  <2>10. QED
    BY <2>5, <2>9, Inserts
<1>9. CASE Breaks(t)
  BY <1>1, <1>9, BreaksEnd
<1>10. QED
  BY <1>6, <1>7, <1>8, <1>9 DEF UpsertNode, new

LEMMA UpsertCommitNodeKeeps ==
  ASSUME Threads, NEW t \in Thread, UpsertCommitNode(t)
  PROVE  Threads' /\ Evolves
<1> DEFINE r == req[t].in
<1>1. /\ r # NoRequest /\ r.op \in Upserts /\ req[t].pc = "commit_node" /\ Commit(t)
      /\ Answer(t) \/ Goto(t, "find_target")
      /\ Unsaved(req[t].pc, r) /\ req[t].pc # "node"
  BY DEF UpsertCommitNode, At, Commits, Unsaved
<1>2. CASE Answer(t)
  BY <1>1, <1>2, CommitsAnswer
<1>3. CASE Goto(t, "find_target")
  <2>1. ~ Unsaved("find_target", r)
    BY DEF Unsaved
  <2>2. Progress(r, req[t].before, req[t].pc, req[t].id, req[t].target, Seen(t), db, ~ conn[t].stale)
        /\ conn[t].tx = "write" /\ ~ conn[t].stale
    BY <1>1, ShapesOf DEF Sound, IsConn
  <2>3. Progress(r, req[t].before, "find_target", req[t].id, req[t].target, Seen(t), Seen(t), TRUE)
    BY <1>1, <2>2 DEF Progress, Flow, Cleared, Upserts
  <2>4. QED
    BY <1>1, <1>3, <2>1, <2>3, CommitsOn
<1>4. QED
  BY <1>1, <1>2, <1>3

LEMMA UpsertTargetKeeps ==
  ASSUME Threads, NEW t \in Thread, UpsertTarget(t)
  PROVE  Threads' /\ Evolves
<1> DEFINE r == req[t].in
           v == Seen(t)
           i == req[t].target
           new == Node(r.mind, IF r.ttype = "" THEN r.type ELSE r.ttype, r.tname, {})
<1>1. /\ r # NoRequest /\ r.op \in Upserts /\ req[t].pc = "target" /\ r.op \in GraphOps
      /\ ~ Unsaved(req[t].pc, r) /\ Unsaved("commit_target", r)
  BY DEF UpsertTarget, At, Unsaved, Upserts, GraphOps
<1>2. new \in Rows /\ new.mind = r.mind /\ new.name = r.tname
  <2>1. /\ r.mind \in STRING /\ r.tname \in STRING
        /\ (IF r.ttype = "" THEN r.type ELSE r.ttype) \in STRING
    BY <1>1, StringsOf
  <2> DEFINE type == IF r.ttype = "" THEN r.type ELSE r.ttype
  <2>2. type \in STRING /\ new = Node(r.mind, type, r.tname, {}) /\ {} \in SUBSET STRING
    BY <2>1
  <2> HIDE DEF type, new
  <2>3. QED
    BY <2>1, <2>2 DEF Node, Rows
<1> HIDE DEF new
<1>3. TablesOK(v) /\ TablesOK(db)
  BY ShapesOf
<1>4. Cleared(r, req[t].before, "commit_target", db)
  BY <1>1 DEF Cleared, Upserts
<1>5. req[t].id # 0
  BY <1>1, ShapesOf DEF Progress, Flow
<1>6. CASE i # 0 /\ Writes(t, v, i \in DOMAIN v.node, Goto(t, "commit_target"))
  <2>1. v = db => Draft(r, req[t].before, "commit_target", req[t].id, v, db)
    BY <1>1, <1>3, SameDraft
  <2>2. Flow(r, "commit_target", req[t].id, i)
    BY <1>1, <1>5, <1>6 DEF Flow, Upserts
  <2> DEFINE changed == i \in DOMAIN v.node
  <2>3. changed \in BOOLEAN /\ Writes(t, v, changed, Goto(t, "commit_target"))
    BY <1>6
  <2> HIDE DEF changed
  <2>4. QED
    BY <1>1, <1>3, <1>4, <2>1, <2>2, <2>3, WritesGoto
<1>7. CASE i = 0 /\ ~ Taken(v, r.mind, r.tname)
           /\ Writes(t, InsertNode(v, new), TRUE, Aim(t, "commit_target", v.last + 1))
  <2>1. v.last \in Nat /\ v.last + 1 # 0
    BY <1>3, Ids
  <2>2. Flow(r, "commit_target", req[t].id, v.last + 1)
    BY <1>1, <1>5, <2>1 DEF Flow, Upserts
  <2>3. Aim(t, "commit_target", v.last + 1) =>
          req' = [req EXCEPT ![t] = Moved(req[t], "commit_target", req[t].id, v.last + 1, req[t].keys)]
    BY ShapesOf, Moves
  <2> DEFINE w == InsertNode(v, new)
             n == v.last + 1
  <2>4. /\ \/ /\ Execute(t, w, TRUE)
              /\ req' = [req EXCEPT ![t] = Moved(req[t], "commit_target", req[t].id, n, req[t].keys)]
           \/ Locked(t) /\ Answer(t)
        /\ UNCHANGED db
    BY <1>7, <2>3, Zenon DEF Writes
  <2>5. Inserting(t, new, "commit_target", req[t].id, n, w)
    BY <1>1, <1>2, <1>4, <1>7, <2>2, <2>4 DEF Inserting
  <2> HIDE DEF w, n
  <2>6. QED
    BY <1>2, <2>5, Inserts
<1>8. CASE Breaks(t)
  BY <1>1, <1>8, BreaksEnd
<1>9. QED
  BY <1>6, <1>7, <1>8 DEF UpsertTarget, new

LEMMA UpsertCommitTargetKeeps ==
  ASSUME Threads, NEW t \in Thread, UpsertCommitTarget(t)
  PROVE  Threads' /\ Evolves
<1> DEFINE r == req[t].in
<1>1. /\ r # NoRequest /\ r.op \in Upserts /\ req[t].pc = "commit_target" /\ Commit(t)
      /\ Goto(t, "edge")
      /\ Unsaved(req[t].pc, r) /\ req[t].pc # "node" /\ ~ Unsaved("edge", r)
  BY DEF UpsertCommitTarget, At, Commits, Unsaved
<1>2. Progress(r, req[t].before, req[t].pc, req[t].id, req[t].target, Seen(t), db, ~ conn[t].stale)
      /\ conn[t].tx = "write" /\ ~ conn[t].stale
  BY <1>1, ShapesOf DEF Sound, IsConn
<1>3. Progress(r, req[t].before, "edge", req[t].id, req[t].target, Seen(t), Seen(t), TRUE)
  BY <1>1, <1>2 DEF Progress, Flow, Cleared, Upserts
<1>4. QED
  BY <1>1, <1>3, CommitsOn

LEMMA GraphCommitKeeps ==
  ASSUME Threads, NEW t \in Thread, GraphCommit(t)
  PROVE  Threads' /\ Evolves
<1>1. /\ req[t].pc = "commit" /\ Commit(t) /\ Answer(t)
      /\ Unsaved(req[t].pc, req[t].in) /\ req[t].pc # "node"
  BY DEF GraphCommit, At, Commits, Unsaved
<1>2. QED
  BY <1>1, CommitsAnswer

(* An edge between two nodes that the request found. *)
LEMMA LinkDraft ==
  ASSUME Threads, NEW t \in Thread, req[t].in # NoRequest, Seen(t) = db,
         req[t].id # 0, req[t].target # 0, NEW e, e.source = req[t].id, e.target = req[t].target
  PROVE  LET w == [db EXCEPT !.edge = @ \cup {e}]
         IN /\ TablesOK(w)
            /\ ~ conn[t].stale /\ req[t].in.op \in GraphOps =>
                 Draft(req[t].in, req[t].before, "commit", req[t].id, w, db)
<1> DEFINE w == [db EXCEPT !.edge = db.edge \cup {e}]
           r == req[t].in
<1>1. Progress(r, req[t].before, req[t].pc, req[t].id, req[t].target, db, db, ~ conn[t].stale)
      /\ TablesOK(db) /\ req[t].id \in Nat /\ req[t].target \in Nat /\ db.last \in Nat
  BY ShapesOf, Moves, Ids
<1>2. \A f \in db.edge \cup {e} : f.source \in 1..db.last /\ f.target \in 1..db.last
  BY <1>1 DEF Progress, TablesOK
<1>3. /\ TablesOK(w) /\ Later(db, w) /\ w.node = db.node /\ w.last = db.last
      /\ w.edge = db.edge \cup {e}
  BY <1>1, <1>2, EdgesSet
<1> HIDE DEF w
<1>4. Operation(db, w)
  BY <1>3 DEF Operation, Linked
<1>5. ASSUME ~ conn[t].stale, r.op \in GraphOps
      PROVE  Draft(r, req[t].before, "commit", req[t].id, w, db)
  <2>1. \A f \in w.edge \ db.edge : Placed(req[t].before, f.source) /\ Placed(req[t].before, f.target)
    BY <1>1, <1>3, <1>5 DEF Progress
  <2>2. r.op # "store" /\ r.op # "forget" /\ "commit" # "node"
    BY <1>5 DEF GraphOps, Upserts
  <2>3. QED
    BY <1>3, <1>4, <2>1, <2>2 DEF Draft
<1>6. QED
  BY <1>3, <1>5 DEF w

LEMMA UpsertEdgeKeeps ==
  ASSUME Threads, NEW t \in Thread, UpsertEdge(t)
  PROVE  Threads' /\ Evolves
<1> DEFINE r == req[t].in
           e == [source |-> req[t].id, target |-> req[t].target, rel |-> r.rel]
           w == [Seen(t) EXCEPT !.edge = @ \cup {e}]
<1>1. /\ r # NoRequest /\ r.op \in Upserts /\ req[t].pc = "edge" /\ r.op \in GraphOps
      /\ ~ Unsaved(req[t].pc, r) /\ Unsaved("commit", r) /\ Writes(t, w, TRUE, Goto(t, "commit"))
  BY DEF UpsertEdge, At, Unsaved, Upserts, GraphOps
<1>2. req[t].id # 0 /\ req[t].target # 0
  BY <1>1, ShapesOf DEF Progress, Flow
<1>3. e.source = req[t].id /\ e.target = req[t].target
  OBVIOUS
<1> HIDE DEF e
<1>4. ASSUME Seen(t) = db, ~ conn[t].stale
      PROVE  TablesOK(w) /\ Draft(r, req[t].before, "commit", req[t].id, w, db)
  BY <1>1, <1>2, <1>3, <1>4, LinkDraft
<1>5. Flow(r, "commit", req[t].id, req[t].target) /\ Cleared(r, req[t].before, "commit", db)
  BY <1>1, <1>2 DEF Flow, Cleared, Upserts
<1> HIDE DEF w
<1>6. QED
  BY <1>1, <1>4, <1>5, WritesGoto

LEMMA CreateInsertKeeps ==
  ASSUME Threads, NEW t \in Thread, CreateInsert(t)
  PROVE  Threads' /\ Evolves
<1> DEFINE r == req[t].in
           v == Seen(t)
           new == Node(r.mind, r.type, r.name, Fields(r))
           w == InsertNode(v, new)
<1>1. /\ r # NoRequest /\ r.op = "create" /\ r.op \in GraphOps /\ r.op \notin Upserts
      /\ ~ Unsaved(req[t].pc, r) /\ Unsaved("commit", r)
      /\ \/ Breaks(t)
         \/ ~ Taken(v, r.mind, r.name) /\ Writes(t, w, TRUE, Goto(t, "commit"))
  BY DEF CreateInsert, At, Unsaved, Upserts, GraphOps
<1>2. CASE Breaks(t)
  BY <1>1, <1>2, BreaksEnd
<1>3. CASE ~ Taken(v, r.mind, r.name) /\ Writes(t, w, TRUE, Goto(t, "commit"))
  <2>1. new \in Rows /\ new.mind = r.mind /\ new.name = r.name
    <3>1. r.mind \in STRING /\ r.type \in STRING /\ r.name \in STRING /\ Fields(r) \in SUBSET STRING
      BY <1>1, StringsOf
    <3>2. QED
      BY <3>1 DEF Node, Rows
  <2> HIDE DEF new
  <2>2. TablesOK(w) /\ Later(v, w) /\ Created(v, w)
    BY <1>3, <2>1, ShapesOf, NodeInserted
  <2> HIDE DEF w
  <2>3. v = db => Draft(r, req[t].before, "commit", req[t].id, w, db)
    BY <1>1, <2>2, GraphDraft DEF Operation, Created
  <2>4. Flow(r, "commit", req[t].id, req[t].target)
    BY <1>1 DEF Flow
  <2>5. ~ conn[t].stale => Cleared(r, req[t].before, "commit", db)
    BY <1>1, StillCleared DEF Cleared, CreateInsert, At
  <2>6. QED
    BY <1>1, <1>3, <2>2, <2>3, <2>4, <2>5, WritesGoto
<1>4. QED
  BY <1>1, <1>2, <1>3

LEMMA EditWriteKeeps ==
  ASSUME Threads, NEW t \in Thread, EditWrite(t)
  PROVE  Threads' /\ Evolves
<1> DEFINE r == req[t].in
           v == Seen(t)
           i == req[t].id
           given == Node(r.mind, r.type, r.name, Fields(r))
           row == IF r.op = "merge"
                  THEN [v.node[i] EXCEPT !.keys = req[t].keys \cup given.keys,
                                         !.columns = @ \cup given.columns]
                  ELSE [v.node[i] EXCEPT !.keys = req[t].keys \ given.keys,
                                         !.columns = @ \ given.columns]
           w == UpdateNode(v, i, row)
<1>1. /\ r # NoRequest /\ r.op \in {"merge", "remove"} /\ r.op \in GraphOps /\ r.op \notin Upserts
      /\ ~ Unsaved(req[t].pc, r) /\ Unsaved("commit", r)
      /\ \/ i \in DOMAIN v.node /\ Writes(t, w, TRUE, Goto(t, "commit"))
         \/ Writes(t, v, FALSE, Goto(t, "commit"))
  BY DEF EditWrite, At, Unsaved, Upserts, GraphOps
<1>2. Flow(r, "commit", req[t].id, req[t].target) /\ Cleared(r, req[t].before, "commit", db)
  BY <1>1 DEF Flow, Cleared
<1>3. TablesOK(v) /\ TablesOK(db) /\ req[t].keys \in SUBSET STRING
  BY ShapesOf, Moves
<1>4. CASE Writes(t, v, FALSE, Goto(t, "commit"))
  <2>1. v = db => Draft(r, req[t].before, "commit", req[t].id, v, db)
    BY <1>1, <1>3, SameDraft
  <2>2. QED
    BY <1>1, <1>2, <1>3, <1>4, <2>1, WritesGoto
<1>5. CASE i \in DOMAIN v.node /\ Writes(t, w, TRUE, Goto(t, "commit"))
  <2>1. given.columns \subseteq {"first_name", "last_name"} /\ given.keys \subseteq STRING
    BY <1>1, StringsOf DEF Node
  <2> HIDE DEF given
  <2>2. row \in Rows /\ row.mind = v.node[i].mind /\ row.type = v.node[i].type
        /\ row.name = v.node[i].name
    <3>1. v.node[i] \in Rows
      BY <1>3, <1>5, Ids
    <3>2. QED
      BY <1>3, <2>1, <3>1 DEF Rows
  <2> HIDE DEF row
  <2>3. TablesOK(w) /\ Later(v, w) /\ Edited(v, w)
    BY <1>3, <1>5, <2>2, NodeUpdated
  <2> HIDE DEF w
  <2>4. v = db => Draft(r, req[t].before, "commit", req[t].id, w, db)
    BY <1>1, <2>3, GraphDraft DEF Operation, Edited
  <2>5. QED
    BY <1>1, <1>2, <1>5, <2>3, <2>4, WritesGoto
<1>6. QED
  BY <1>1, <1>4, <1>5

LEMMA NamePersonsKeeps ==
  ASSUME Threads, NEW t \in Thread, NamePersons(t)
  PROVE  Threads' /\ Evolves
<1> DEFINE r == req[t].in
           v == Seen(t)
           S == Persons(v, r.mind, r.name)
           w == Renamed(v, S, Fields(r))
           changed == S # {}
<1>1. /\ r # NoRequest /\ r.op = "name" /\ r.op \in GraphOps /\ r.op \notin Upserts
      /\ ~ Unsaved(req[t].pc, r) /\ Unsaved("commit", r)
  BY DEF NamePersons, At, Unsaved, Upserts, GraphOps
<1>2. Writes(t, w, changed, Goto(t, "commit"))
  BY Zenon DEF NamePersons, Persons, Renamed
<1>3. Fields(r) \in SUBSET {"first_name", "last_name"}
  <2>1. Asked(r, db)
    BY <1>1, ShapesOf
  <2>2. QED
    BY <1>1, <2>1, GraphTyped
<1>4. TablesOK(w) /\ Later(v, w) /\ w.edge = v.edge /\ (SameGraph(v, w) \/ Edited(v, w))
      /\ (~ changed => w = v)
  BY <1>3, ShapesOf, PersonsNamed
<1>5. Flow(r, "commit", req[t].id, req[t].target) /\ Cleared(r, req[t].before, "commit", db)
  BY <1>1 DEF Flow, Cleared
<1>6. changed \in BOOLEAN
  OBVIOUS
<1> HIDE DEF w, changed
<1>7. v = db => Draft(r, req[t].before, "commit", req[t].id, w, db)
  BY <1>1, <1>4, GraphDraft DEF Operation
<1>8. QED
  BY <1>1, <1>2, <1>4, <1>5, <1>6, <1>7, WritesGoto

LEMMA EdgeWriteKeeps ==
  ASSUME Threads, NEW t \in Thread, EdgeWrite(t)
  PROVE  Threads' /\ Evolves
<1> DEFINE r == req[t].in
           v == Seen(t)
           e == [source |-> req[t].id, target |-> req[t].target, rel |-> r.rel]
           w == [v EXCEPT !.edge = @ \cup {e}]
           x == [v EXCEPT !.edge = @ \ {e}]
           changed == e \in v.edge
<1>1. /\ r # NoRequest /\ r.op \in {"link", "unlink"} /\ req[t].pc = "edge"
      /\ r.op \in GraphOps /\ r.op \notin Upserts
      /\ ~ Unsaved(req[t].pc, r) /\ Unsaved("commit", r)
      /\ \/ Breaks(t)
         \/ Writes(t, w, TRUE, Goto(t, "commit"))
         \/ Writes(t, x, changed, Goto(t, "commit"))
  BY DEF EdgeWrite, At, Unsaved, Upserts, GraphOps
<1>2. req[t].id # 0 /\ req[t].target # 0
  BY <1>1, ShapesOf DEF Progress, Flow
<1>3. e.source = req[t].id /\ e.target = req[t].target /\ changed \in BOOLEAN
  OBVIOUS
<1> HIDE DEF e
<1>4. Flow(r, "commit", req[t].id, req[t].target) /\ Cleared(r, req[t].before, "commit", db)
  BY <1>1, <1>2 DEF Flow, Cleared
<1>5. CASE Breaks(t)
  BY <1>1, <1>5, BreaksEnd
<1>6. CASE Writes(t, w, TRUE, Goto(t, "commit"))
  <2>1. ASSUME Seen(t) = db, ~ conn[t].stale
        PROVE  TablesOK(w) /\ Draft(r, req[t].before, "commit", req[t].id, w, db)
    BY <1>1, <1>2, <1>3, <2>1, LinkDraft
  <2> HIDE DEF w
  <2>2. QED
    BY <1>1, <1>4, <1>6, <2>1, WritesGoto
<1>7. CASE Writes(t, x, changed, Goto(t, "commit"))
  <2>1. TablesOK(v) /\ \A f \in v.edge \ {e} : f.source \in 1..v.last /\ f.target \in 1..v.last
    BY ShapesOf DEF TablesOK
  <2>2. TablesOK(x) /\ Later(v, x) /\ x.node = v.node /\ x.last = v.last /\ x.edge = v.edge \ {e}
    BY <2>1, EdgesSet
  <2>3. ~ changed => x = v
    BY <2>1 DEF TablesOK
  <2> HIDE DEF x
  <2>4. SameGraph(v, x) \/ Unlinked(v, x)
    BY <2>2, <2>3 DEF SameGraph, Unlinked
  <2> HIDE DEF changed
  <2>5. v = db => Draft(r, req[t].before, "commit", req[t].id, x, db)
    BY <1>1, <2>2, <2>4, GraphDraft DEF Operation
  <2>6. QED
    BY <1>1, <1>3, <1>4, <1>7, <2>2, <2>3, <2>5, WritesGoto
<1>8. QED
  BY <1>1, <1>5, <1>6, <1>7

LEMMA DeleteEdgesKeeps ==
  ASSUME Threads, NEW t \in Thread, DeleteEdges(t)
  PROVE  Threads' /\ Evolves
<1> DEFINE r == req[t].in
           v == Seen(t)
           i == req[t].id
           touching == Touching(v, i)
           w == [v EXCEPT !.edge = @ \ touching]
           changed == touching # {}
<1>1. /\ r # NoRequest /\ r.op = "delete" /\ req[t].pc = "edges"
      /\ r.op \in GraphOps /\ r.op \notin Upserts
      /\ ~ Unsaved(req[t].pc, r) /\ Unsaved("node", r)
      /\ Writes(t, w, changed, Goto(t, "node"))
  BY DEF DeleteEdges, At, Unsaved, Upserts, GraphOps
<1>2. i # 0 /\ i \in Nat /\ i <= v.last /\ v.last \in Nat /\ TablesOK(v)
  BY <1>1, ShapesOf, Moves, Ids DEF Progress, Flow
<1>3. Flow(r, "node", i, req[t].target) /\ Cleared(r, req[t].before, "node", db)
  BY <1>1, <1>2 DEF Flow, Cleared
<1>4. v.edge \ touching = {e \in v.edge : e.source # i /\ e.target # i}
  BY DEF Touching
<1>5. TablesOK(w) /\ Later(v, w) /\ w.node = v.node /\ w.last = v.last
      /\ w.edge = v.edge \ touching
  <2>1. \A f \in v.edge \ touching : f.source \in 1..v.last /\ f.target \in 1..v.last
    BY <1>2 DEF TablesOK
  <2>2. QED
    BY <1>2, <2>1, EdgesSet
<1>6. (~ changed => w = v) /\ changed \in BOOLEAN
  BY <1>2 DEF TablesOK
<1> HIDE DEF w, changed, touching
<1>7. Cut(i, v, w)
  BY <1>2, <1>4, <1>5 DEF Cut
<1>8. v = db => Draft(r, req[t].before, "node", i, w, db)
  BY <1>1, <1>5, <1>7 DEF Draft
<1>9. QED
  BY <1>1, <1>3, <1>5, <1>6, <1>8, WritesGoto

(* The node goes with the edges that were cut in the same transaction. *)
LEMMA DeleteNodeKeeps ==
  ASSUME Threads, NEW t \in Thread, DeleteNode(t)
  PROVE  Threads' /\ Evolves
<1> DEFINE r == req[t].in
           v == Seen(t)
           i == req[t].id
           w == [v EXCEPT !.node = Restrict(@, DOMAIN @ \ {i})]
           changed == i \in DOMAIN v.node
<1>1. /\ r # NoRequest /\ r.op = "delete" /\ req[t].pc = "node"
      /\ r.op \in GraphOps /\ r.op \notin Upserts
      /\ Unsaved(req[t].pc, r) /\ Unsaved("commit", r)
      /\ Writes(t, w, changed, Goto(t, "commit"))
  BY DEF DeleteNode, At, Unsaved, Upserts, GraphOps
<1>2. /\ TablesOK(db) /\ TablesOK(v) /\ Later(db, v) /\ Cut(i, db, v)
      /\ Progress(r, req[t].before, req[t].pc, i, req[t].target, v, db, ~ conn[t].stale)
  BY <1>1, ShapesOf DEF Knows, Drafted, Draft
<1>3. /\ TablesOK(w) /\ Later(v, w) /\ w.last = v.last /\ w.edge = v.edge
      /\ w.node = [j \in DOMAIN v.node \ {i} |-> v.node[j]]
      /\ ~ changed => w = v
  <2> HIDE DEF r, v, i
  <2>1. TablesOK(v)
    BY <1>2
  <2>2. QED
    BY <2>1, NodeRemoved, ZenonT(40)
<1>4. changed \in BOOLEAN
  OBVIOUS
<1> HIDE DEF w, changed
<1>5. Dropped(i, db, w) /\ w.edge \subseteq db.edge
  BY <1>2, <1>3 DEF Cut, Dropped
<1>6. Later(db, w)
  BY <1>2, <1>3, LaterChain
<1>7. Operation(db, w)
  BY <1>5 DEF Operation, Dropped
<1>8. Draft(r, req[t].before, "commit", i, w, db)
  BY <1>1, <1>5, <1>6, <1>7, GraphDraft
<1>9. Progress(r, req[t].before, "commit", i, req[t].target, w, db, ~ conn[t].stale)
  BY <1>1, <1>2, <1>3 DEF Progress, Flow, Cleared
<1>10. CanWrite(t) => ~ conn[t].stale
  BY DEF CanWrite
<1>11. /\ \/ /\ Execute(t, w, changed)
             /\ req' = [req EXCEPT ![t] = Moved(req[t], "commit", i, req[t].target, req[t].keys)]
          \/ Locked(t) /\ Answer(t)
       /\ UNCHANGED db
  <2>1. Goto(t, "commit") =>
          req' = [req EXCEPT ![t] = Moved(req[t], "commit", i, req[t].target, req[t].keys)]
    BY ShapesOf, Moves
  <2>2. QED
    BY <1>1, <2>1, Zenon DEF Writes
<1>12. i \in Nat /\ req[t].target \in Nat
  BY ShapesOf, Moves
<1>13. CanWrite(t) => /\ TablesOK(w)
                      /\ Progress(req[t].in, req[t].before, "commit", i, req[t].target, w, db, TRUE)
                      /\ Draft(req[t].in, req[t].before, "commit", i, w, db)
  BY <1>3, <1>8, <1>9, <1>10
<1>14. req[t].in # NoRequest /\ Unsaved("commit", req[t].in) /\ (~ changed => w = Seen(t))
  BY <1>1, <1>3
<1> HIDE DEF r, v
<1>15. QED
  BY <1>4, <1>11, <1>12, <1>13, <1>14, WritesOn

LEMMA AddTypeKeeps ==
  ASSUME Threads, NEW t \in Thread, AddType(t)
  PROVE  Threads' /\ Evolves
<1> DEFINE r == req[t].in
           v == Seen(t)
           w == [v EXCEPT !.types = @ \cup {r.type}]
<1>1. /\ r # NoRequest /\ r.op = "add_type" /\ r.op \in GraphOps /\ r.op \notin Upserts
      /\ ~ Unsaved(req[t].pc, r) /\ Unsaved("commit", r)
      /\ \/ Breaks(t)
         \/ ~ Registered(v, r.type) /\ Writes(t, w, TRUE, Goto(t, "commit"))
  BY DEF AddType, At, Unsaved, Upserts, GraphOps
<1>2. CASE Breaks(t)
  BY <1>1, <1>2, BreaksEnd
<1>3. CASE ~ Registered(v, r.type) /\ Writes(t, w, TRUE, Goto(t, "commit"))
  <2>1. Asked(r, db) /\ TablesOK(v)
    BY <1>1, ShapesOf
  <2>2. r.type \in DOMAIN AdminTypes
    BY <1>1, <1>3, <2>1, GraphTyped DEF Registered
  <2>3. w \in [node : {v.node}, edge : {v.edge}, last : {v.last}, types : SUBSET DOMAIN AdminTypes,
               relations : SUBSET DOMAIN AdminEdges, mem : {v.mem}, last_mem : {v.last_mem}]
    BY <2>1, <2>2 DEF TablesOK
  <2> HIDE DEF w
  <2>4. TablesOK(w) /\ Later(v, w) /\ SameGraph(v, w)
    BY <2>1, <2>3, SchemaGrown
  <2>5. Flow(r, "commit", req[t].id, req[t].target) /\ Cleared(r, req[t].before, "commit", db)
    BY <1>1 DEF Flow, Cleared
  <2>6. v = db => Draft(r, req[t].before, "commit", req[t].id, w, db)
    BY <1>1, <2>4, GraphDraft DEF Operation, SameGraph
  <2>7. QED
    BY <1>1, <1>3, <2>4, <2>5, <2>6, WritesGoto
<1>4. QED
  BY <1>1, <1>2, <1>3

LEMMA AddRelationKeeps ==
  ASSUME Threads, NEW t \in Thread, AddRelation(t)
  PROVE  Threads' /\ Evolves
<1> DEFINE r == req[t].in
           v == Seen(t)
           w == [v EXCEPT !.relations = @ \cup {r.rel}]
<1>1. /\ r # NoRequest /\ r.op = "add_relation" /\ r.op \in GraphOps /\ r.op \notin Upserts
      /\ ~ Unsaved(req[t].pc, r) /\ Unsaved("commit", r)
      /\ \/ Breaks(t)
         \/ ~ Related(v, r.rel) /\ Writes(t, w, TRUE, Goto(t, "commit"))
  BY DEF AddRelation, At, Unsaved, Upserts, GraphOps
<1>2. CASE Breaks(t)
  BY <1>1, <1>2, BreaksEnd
<1>3. CASE ~ Related(v, r.rel) /\ Writes(t, w, TRUE, Goto(t, "commit"))
  <2>1. Asked(r, db) /\ TablesOK(v)
    BY <1>1, ShapesOf
  <2>2. r.rel \in DOMAIN AdminEdges
    BY <1>1, <1>3, <2>1, GraphTyped DEF Related
  <2>3. w \in [node : {v.node}, edge : {v.edge}, last : {v.last}, types : SUBSET DOMAIN AdminTypes,
               relations : SUBSET DOMAIN AdminEdges, mem : {v.mem}, last_mem : {v.last_mem}]
    BY <2>1, <2>2 DEF TablesOK
  <2> HIDE DEF w
  <2>4. TablesOK(w) /\ Later(v, w) /\ SameGraph(v, w)
    BY <2>1, <2>3, SchemaGrown
  <2>5. Flow(r, "commit", req[t].id, req[t].target) /\ Cleared(r, req[t].before, "commit", db)
    BY <1>1 DEF Flow, Cleared
  <2>6. v = db => Draft(r, req[t].before, "commit", req[t].id, w, db)
    BY <1>1, <2>4, GraphDraft DEF Operation, SameGraph
  <2>7. QED
    BY <1>1, <1>3, <2>4, <2>5, <2>6, WritesGoto
<1>4. QED
  BY <1>1, <1>2, <1>3

-----------------------------------------------------------------------------
(* The handlers of the vector memory *)

LEMMA MemoryTyped ==
  ASSUME NEW in, NEW d, Asked(in, d)
  PROVE  /\ in.op = "store" => in.content \in STRING /\ in.ref \in BOOLEAN /\ in.expires \in Nat
         /\ in.op = "revise" => in.content \in STRING
<1>1. \A i : DeleteRequest(i).op = "forget"
  BY DEF DeleteRequest
<1>2. in.op \in {"store", "revise"} => in \in Request
  BY <1>1 DEF Asked
<1>3. QED
  BY <1>2, LucentAssumption, Zenon

(* A request that leaves the graph alone. *)
LEMMA MemoryDraft ==
  ASSUME NEW in, in.op \in {"store", "forget", "revise"}, NEW before, NEW id, NEW v, NEW d,
         Later(d, v), SameGraph(d, v),
         in.op = "store" => \A n \in DOMAIN v.mem \ DOMAIN d.mem :
           v.mem[n].content = in.content /\ v.mem[n].class = in.class,
         in.op = "forget" => DOMAIN d.mem \ DOMAIN v.mem \subseteq {in.id}
  PROVE  Draft(in, before, "commit", id, v, d)
BY DEF Draft, Operation, SameGraph, Upserts

LEMMA StoreEmbedKeeps ==
  ASSUME Threads, NEW t \in Thread, StoreEmbed(t)
  PROVE  Threads' /\ Evolves
<1>1. Going(t) /\ (Answer(t) \/ (Storable(req[t].in) /\ Goto(t, "nearest"))) /\ req[t].in.op = "store"
  BY DEF StoreEmbed, At, Going, Unsaved
<1>2. CASE Answer(t)
  BY <1>1, <1>2, LooksAnswer DEF Going
<1>3. CASE Storable(req[t].in) /\ Goto(t, "nearest")
  BY <1>1, <1>3, GoesOn DEF Unsaved, Flow, Cleared, Upserts
<1>4. QED
  BY <1>1, <1>2, <1>3

LEMMA StoreNearestKeeps ==
  ASSUME Threads, NEW t \in Thread, StoreNearest(t)
  PROVE  Threads' /\ Evolves
<1>1. /\ Going(t) /\ req[t].in # NoRequest /\ req[t].in.op = "store" /\ req[t].pc = "nearest"
      /\ Answer(t) \/ (~ Duplicate(Seen(t), req[t].in) /\ Goto(t, "insert"))
  BY DEF StoreNearest, At, Reads, Going, Unsaved
<1>2. CASE Answer(t)
  BY <1>1, <1>2, LooksAnswer DEF Going
<1>3. CASE ~ Duplicate(Seen(t), req[t].in) /\ Goto(t, "insert")
  <2>1. Storable(req[t].in)
    BY <1>1, ShapesOf DEF Progress, Flow
  <2>2. ~ Unsaved("insert", req[t].in) /\ Flow(req[t].in, "insert", req[t].id, req[t].target)
    BY <1>1, <2>1 DEF Unsaved, Flow, Upserts
  <2>3. Seen(t) = db => Cleared(req[t].in, req[t].before, "insert", db)
    BY <1>1, <1>3 DEF Cleared, Upserts, Novel, Duplicate
  <2>4. QED
    BY <1>1, <1>3, <2>2, <2>3, GoesOn
<1>4. QED
  BY <1>1, <1>2, <1>3

LEMMA StoreInsertKeeps ==
  ASSUME Threads, clock \in 0..MaxClock, NEW t \in Thread, StoreInsert(t)
  PROVE  Threads' /\ Evolves
<1> DEFINE r == req[t].in
           v == Seen(t)
           row == Memory(r)
           w == InsertMemory(v, row)
<1>1. /\ r # NoRequest /\ r.op = "store" /\ req[t].pc = "insert"
      /\ ~ Unsaved(req[t].pc, r) /\ Unsaved("commit", r)
      /\ Writes(t, w, TRUE, Goto(t, "commit"))
  BY DEF StoreInsert, At, Unsaved
<1>2. Asked(r, db) /\ Storable(r) /\ TablesOK(v)
  BY <1>1, ShapesOf DEF Progress, Flow
<1>3. row \in Memories /\ row.content = r.content /\ row.class = r.class
  <2>1. r.content \in STRING /\ r.ref \in BOOLEAN /\ r.expires \in Nat
    BY <1>1, <1>2, MemoryTyped
  <2>2. QED
    BY <1>2, <2>1 DEF Memory, Memories, Storable
<1> HIDE DEF row
<1>4. /\ TablesOK(w) /\ Later(v, w) /\ SameGraph(v, w)
      /\ \A n \in DOMAIN w.mem \ DOMAIN v.mem : w.mem[n] = row
  BY <1>2, <1>3, MemoryInserted
<1> HIDE DEF w
<1>5. v = db => Draft(r, req[t].before, "commit", req[t].id, w, db)
  BY <1>1, <1>3, <1>4, MemoryDraft
<1>6. Flow(r, "commit", req[t].id, req[t].target)
  BY <1>1 DEF Flow, Upserts
<1>7. ~ conn[t].stale => Cleared(r, req[t].before, "commit", db)
  BY <1>1, StillCleared DEF Cleared, Upserts
<1>8. QED
  BY <1>1, <1>4, <1>5, <1>6, <1>7, WritesGoto

LEMMA ForgetFindKeeps ==
  ASSUME Threads, NEW t \in Thread, ForgetFind(t)
  PROVE  Threads' /\ Evolves
<1>1. Going(t) /\ (Answer(t) \/ Goto(t, "delete")) /\ req[t].in.op = "forget"
  BY DEF ForgetFind, At, Reads, Going, Unsaved
<1>2. CASE Answer(t)
  BY <1>1, <1>2, LooksAnswer DEF Going
<1>3. CASE Goto(t, "delete")
  BY <1>1, <1>3, GoesOn DEF Unsaved, Flow, Cleared, Upserts
<1>4. QED
  BY <1>1, <1>2, <1>3

LEMMA ForgetDeleteKeeps ==
  ASSUME Threads, NEW t \in Thread, ForgetDelete(t)
  PROVE  Threads' /\ Evolves
<1> DEFINE r == req[t].in
           v == Seen(t)
           w == [v EXCEPT !.mem = Restrict(@, DOMAIN @ \ {r.id})]
           changed == r.id \in DOMAIN v.mem
<1>1. /\ r # NoRequest /\ r.op = "forget" /\ req[t].pc = "delete"
      /\ ~ Unsaved(req[t].pc, r) /\ Unsaved("commit", r)
      /\ Writes(t, w, changed, Goto(t, "commit"))
  BY DEF ForgetDelete, At, Unsaved
<1>2. TablesOK(v)
  BY ShapesOf
<1>3. /\ TablesOK(w) /\ Later(v, w) /\ SameGraph(v, w)
      /\ DOMAIN w.mem = DOMAIN v.mem \ {r.id}
      /\ ~ changed => w = v
  BY <1>2, MemoryRemoved
<1>4. changed \in BOOLEAN
  OBVIOUS
<1> HIDE DEF w, changed
<1>5. v = db => Draft(r, req[t].before, "commit", req[t].id, w, db)
  BY <1>1, <1>3, MemoryDraft
<1>6. Flow(r, "commit", req[t].id, req[t].target) /\ Cleared(r, req[t].before, "commit", db)
  BY <1>1 DEF Flow, Cleared, Upserts
<1>7. QED
  BY <1>1, <1>3, <1>4, <1>5, <1>6, WritesGoto

LEMMA ReviseEmbedKeeps ==
  ASSUME Threads, NEW t \in Thread, ReviseEmbed(t)
  PROVE  Threads' /\ Evolves
<1>1. /\ Going(t) /\ req[t].in.op = "revise"
      /\ Answer(t) \/ (req[t].in.class \in DataClass \cup {""} /\ Goto(t, "write"))
  BY DEF ReviseEmbed, At, Going, Unsaved
<1>2. CASE Answer(t)
  BY <1>1, <1>2, LooksAnswer DEF Going
<1>3. CASE req[t].in.class \in DataClass \cup {""} /\ Goto(t, "write")
  BY <1>1, <1>3, GoesOn DEF Unsaved, Flow, Cleared, Upserts
<1>4. QED
  BY <1>1, <1>2, <1>3

LEMMA ReviseWriteKeeps ==
  ASSUME Threads, NEW t \in Thread, ReviseWrite(t)
  PROVE  Threads' /\ Evolves
<1> DEFINE r == req[t].in
           v == Seen(t)
           w == [v EXCEPT !.mem[r.id] = Revised(@, r)]
<1>1. /\ r # NoRequest /\ r.op = "revise" /\ req[t].pc = "write"
      /\ ~ Unsaved(req[t].pc, r) /\ Unsaved("commit", r)
      /\ \/ r.id \in DOMAIN v.mem /\ Writes(t, w, TRUE, Goto(t, "commit"))
         \/ Writes(t, v, FALSE, Goto(t, "commit"))
  BY DEF ReviseWrite, At, Unsaved
<1>2. TablesOK(v) /\ Asked(r, db) /\ TablesOK(db)
  BY <1>1, ShapesOf
<1>3. Flow(r, "commit", req[t].id, req[t].target) /\ Cleared(r, req[t].before, "commit", db)
  BY <1>1 DEF Flow, Cleared, Upserts
<1>4. CASE r.id \in DOMAIN v.mem /\ Writes(t, w, TRUE, Goto(t, "commit"))
  <2>1. Revisable(r)
    <3>1. r.class \in DataClass \cup {""}
      BY <1>1, ShapesOf DEF Progress, Flow
    <3>2. r.content \in STRING
      BY <1>1, <1>2, MemoryTyped
    <3>3. QED
      BY <3>1, <3>2 DEF Revisable
  <2>2. TablesOK(w) /\ Later(v, w) /\ SameGraph(v, w) /\ DOMAIN w.mem = DOMAIN v.mem
    BY <1>2, <1>4, <2>1, MemoryRevised
  <2> HIDE DEF w
  <2>3. v = db => Draft(r, req[t].before, "commit", req[t].id, w, db)
    BY <1>1, <2>2, MemoryDraft
  <2>4. QED
    BY <1>1, <1>3, <1>4, <2>2, <2>3, WritesGoto
<1>5. CASE Writes(t, v, FALSE, Goto(t, "commit"))
  <2>1. v = db => Draft(r, req[t].before, "commit", req[t].id, v, db)
    BY <1>1, <1>2, LaterSame, MemoryDraft DEF SameGraph
  <2>2. QED
    BY <1>1, <1>2, <1>3, <1>5, <2>1, WritesGoto
<1>6. QED
  BY <1>1, <1>4, <1>5

LEMMA AnswersKeep ==
  ASSUME Threads, NEW t \in Thread, ReviseRead(t) \/ RecallSelect(t)
  PROVE  Threads' /\ Evolves
<1>1. Going(t) /\ Answer(t)
  BY DEF ReviseRead, RecallSelect, At, Reads, Going, Unsaved
<1>2. QED
  BY <1>1, LooksAnswer DEF Going

LEMMA RecallEmbedKeeps ==
  ASSUME Threads, NEW t \in Thread, RecallEmbed(t)
  PROVE  Threads' /\ Evolves
<1>1. Going(t) /\ (Answer(t) \/ Goto(t, "select")) /\ req[t].in.op = "recall"
  BY DEF RecallEmbed, At, Going, Unsaved
<1>2. CASE Answer(t)
  BY <1>1, <1>2, LooksAnswer DEF Going
<1>3. CASE Goto(t, "select")
  BY <1>1, <1>3, GoesOn DEF Unsaved, Flow, Cleared, Upserts
<1>4. QED
  BY <1>1, <1>2, <1>3

LEMMA MemoryCommitKeeps ==
  ASSUME Threads, NEW t \in Thread, MemoryCommit(t)
  PROVE  Threads' /\ Evolves
<1> DEFINE r == req[t].in
<1>1. /\ r # NoRequest /\ req[t].pc = "commit" /\ Commit(t)
      /\ Answer(t) \/ (r.op = "revise" /\ Goto(t, "reread"))
      /\ Unsaved(req[t].pc, r) /\ req[t].pc # "node"
  BY DEF MemoryCommit, At, Commits, Unsaved
<1>2. CASE Answer(t)
  BY <1>1, <1>2, CommitsAnswer
<1>3. CASE r.op = "revise" /\ Goto(t, "reread")
  <2>1. ~ Unsaved("reread", r)
    BY DEF Unsaved
  <2>2. Progress(r, req[t].before, req[t].pc, req[t].id, req[t].target, Seen(t), db, ~ conn[t].stale)
        /\ conn[t].tx = "write" /\ ~ conn[t].stale
    BY <1>1, ShapesOf DEF Sound, IsConn
  <2>3. Progress(r, req[t].before, "reread", req[t].id, req[t].target, Seen(t), Seen(t), TRUE)
    BY <1>1, <1>3, <2>2 DEF Progress, Flow, Cleared, Upserts
  <2>4. QED
    BY <1>1, <1>3, <2>1, <2>3, CommitsOn
<1>4. QED
  BY <1>1, <1>2, <1>3

-----------------------------------------------------------------------------
(* The pruner.  What it has picked and what it has yet to look at was      *)
(* contextual when it was read, and no revision makes it standing.         *)

PrunerInv ==
  /\ prune \in [pc : {prune.pc}, class : {prune.class}, now : {prune.now}, todo : {prune.todo},
                decay : {prune.decay}, pick : Nat, thread : {prune.thread}]
  /\ prune.pick # 0 => Contextual(db, prune.pick)
  /\ prune.pc = "delete" => prune.pick # 0
  /\ \A e \in prune.todo \cup prune.decay : Contextual(db, e.id)
  /\ clock \in 0..MaxClock

LEMMA PrunerKeeps ==
  ASSUME PrunerInv, TablesOK(db), TablesOK(db'), Later(db, db'), UNCHANGED pruner
  PROVE  PrunerInv'
<1>1. \A i : Contextual(db, i) => Contextual(db', i)
  BY ContextualLater
<1>2. QED
  BY <1>1 DEF PrunerInv, pruner

LEMMA NoPruneInv ==
  ASSUME prune' = NoPrune, clock' \in 0..MaxClock
  PROVE  PrunerInv'
BY DEF PrunerInv, NoPrune

LEMMA NextEntryIn ==
  ASSUME NEW S, S # {}, \A e \in S : e.id \in Nat
  PROVE  NextEntry(S) \in S
<1> DEFINE I == {e.id : e \in S}
<1>1. I \subseteq Nat /\ I # {}
  OBVIOUS
<1>2. Min(I) \in I /\ \A j \in I : Min(I) <= j
  <2> HIDE DEF I
  <2>1. QED
    BY <1>1, SmallestId
<1>3. \E e \in S : \A f \in S : e.id <= f.id
  BY <1>2
<1>4. QED
  BY <1>3 DEF NextEntry

LEMMA StoreStays ==
  ASSUME Threads, UNCHANGED store
  PROVE  Threads' /\ Evolves
<1>1. UNCHANGED <<db, conn, req>>
  BY DEF store
<1>2. StoreInv'
  BY <1>1, OtherStore DEF Threads
<1>3. \A t \in Thread : Knows(t)'
  BY <1>1, OthersKeep DEF Threads
<1>4. QED
  BY <1>1, <1>2, <1>3, Unpublished DEF Threads

LEMMA Entries ==
  ASSUME PrunerInv, NEW S, S \subseteq prune.todo \cup prune.decay, S # {}
  PROVE  NextEntry(S) \in S /\ Contextual(db, NextEntry(S).id) /\ NextEntry(S).id \in Nat
         /\ NextEntry(S).id # 0
<1>1. \A e \in S : Contextual(db, e.id) /\ e.id \in Nat /\ e.id # 0
  BY DEF PrunerInv, Contextual
<1>2. QED
  BY <1>1, NextEntryIn

(* A step of the pruner that only moves on. *)
LEMMA PrunerMoves ==
  ASSUME PrunerInv, UNCHANGED <<store, clock>>, NEW pc, NEW todo, NEW decay, NEW pick \in Nat,
         prune' \in [pc : {pc}, class : {prune'.class}, now : {prune'.now}, todo : {todo},
                    decay : {decay}, pick : {pick}, thread : {prune'.thread}],
         pick # 0 => Contextual(db, pick), pc = "delete" => pick # 0,
         \A e \in todo \cup decay : Contextual(db, e.id)
  PROVE  PrunerInv'
<1>1. prune'.pc = pc /\ prune'.todo = todo /\ prune'.decay = decay /\ prune'.pick = pick
  OBVIOUS
<1>2. UNCHANGED <<db, clock>>
  BY DEF store
<1>3. QED
  BY <1>1, <1>2 DEF PrunerInv

LEMMA PruneReadKeeps ==
  ASSUME PrunerInv, TablesOK(db), PruneRead
  PROVE  PrunerInv'
<1> DEFINE entries == {[id |-> i, row |-> db.mem[i]] : i \in ClassEntries(prune.class)}
           todo == IF prune.class = "feedback" THEN {} ELSE entries
           decay == IF prune.class = "feedback" THEN entries ELSE {}
<1>1. prune' = [prune EXCEPT !.pc = "scan", !.now = clock, !.todo = todo, !.decay = decay]
      /\ UNCHANGED <<store, clock>>
  BY DEF PruneRead
<1>2. \A i \in ClassEntries(prune.class) : Contextual(db, i)
  <2>1. \A i \in DOMAIN db.mem : i \in 1..db.last_mem /\ db.mem[i].tier \in Tiers
    BY DEF TablesOK, Memories
  <2>2. QED
    BY <2>1 DEF ClassEntries, Contextual, Tiers
<1>3. \A e \in todo \cup decay : Contextual(db, e.id)
  BY <1>2
<1> HIDE DEF entries, todo, decay
<1>4. /\ prune' \in [pc : {"scan"}, class : {prune'.class}, now : {prune'.now}, todo : {todo},
                     decay : {decay}, pick : {prune.pick}, thread : {prune'.thread}]
      /\ prune.pick \in Nat
      /\ prune.pick # 0 => Contextual(db, prune.pick)
  BY <1>1 DEF PrunerInv
<1>5. QED
  BY <1>1, <1>3, <1>4, PrunerMoves

LEMMA PruneScanKeeps ==
  ASSUME PrunerInv, PruneScan
  PROVE  PrunerInv'
<1> DEFINE e == NextEntry(prune.todo)
<1>1. prune.todo # {} /\ UNCHANGED <<store, clock>> /\ prune.pc = "scan"
  BY DEF PruneScan
<1>2. e \in prune.todo /\ Contextual(db, e.id) /\ e.id \in Nat /\ e.id # 0
  BY <1>1, Entries
<1>3. PICK v \in Verdicts(e) :
        prune' = [prune EXCEPT !.todo = @ \ {e},
                               !.pc = IF v = "delete" THEN "delete" ELSE @,
                               !.pick = IF v = "delete" THEN e.id ELSE @,
                               !.decay = IF v = "decay" THEN @ \cup {e} ELSE @]
  BY DEF PruneScan
<1> HIDE DEF e
<1> DEFINE pc == IF v = "delete" THEN "delete" ELSE prune.pc
           pick == IF v = "delete" THEN e.id ELSE prune.pick
           todo == prune.todo \ {e}
           decay == IF v = "decay" THEN prune.decay \cup {e} ELSE prune.decay
<1>4. /\ pick \in Nat
      /\ pick # 0 => Contextual(db, pick)
      /\ pc = "delete" => pick # 0
      /\ \A f \in todo \cup decay : Contextual(db, f.id)
  BY <1>1, <1>2 DEF PrunerInv
<1>5. prune' \in [pc : {pc}, class : {prune'.class}, now : {prune'.now}, todo : {todo},
                  decay : {decay}, pick : {pick}, thread : {prune'.thread}]
  BY <1>3 DEF PrunerInv
<1> HIDE DEF pc, pick, todo, decay
<1>6. QED
  BY <1>1, <1>4, <1>5, PrunerMoves

LEMMA PruneDecayKeeps ==
  ASSUME PrunerInv, PruneDecay
  PROVE  PrunerInv'
<1> DEFINE e == NextEntry(prune.decay)
           due == Decayed(e.row, prune.class, prune.now)
<1>1. prune.decay # {} /\ UNCHANGED <<store, clock>> /\ prune.pc = "scan"
  BY DEF PruneDecay
<1>2. e \in prune.decay /\ Contextual(db, e.id) /\ e.id \in Nat /\ e.id # 0
  BY <1>1, Entries
<1>3. prune' = [prune EXCEPT !.decay = @ \ {e},
                             !.pc = IF due THEN "delete" ELSE @,
                             !.pick = IF due THEN e.id ELSE @]
  BY DEF PruneDecay
<1> HIDE DEF e, due
<1> DEFINE pc == IF due THEN "delete" ELSE prune.pc
           pick == IF due THEN e.id ELSE prune.pick
           decay == prune.decay \ {e}
<1>4. /\ pick \in Nat
      /\ pick # 0 => Contextual(db, pick)
      /\ pc = "delete" => pick # 0
      /\ \A f \in prune.todo \cup decay : Contextual(db, f.id)
  BY <1>1, <1>2 DEF PrunerInv
<1>5. prune' \in [pc : {pc}, class : {prune'.class}, now : {prune'.now}, todo : {prune.todo},
                  decay : {decay}, pick : {pick}, thread : {prune'.thread}]
  BY <1>3 DEF PrunerInv
<1> HIDE DEF pc, pick, decay
<1>6. QED
  BY <1>1, <1>4, <1>5, PrunerMoves

LEMMA PruneGoesOn ==
  ASSUME PrunerInv, PruneStart \/ PruneNextClass \/ PruneAnswered \/ PruneTimeout
  PROVE  PrunerInv'
<1> USE DEF PrunerInv
<1>1. UNCHANGED <<store, clock>>
  BY DEF PruneStart, PruneNextClass, PruneAnswered, PruneTimeout
<1>2. CASE PruneStart
  <2>1. prune' \in [pc : {"read"}, class : {"current-state"}, now : {0}, todo : {{}}, decay : {{}},
                    pick : {0}, thread : {"none"}]
    BY <1>2 DEF PruneStart, NoPrune
  <2>2. QED
    BY <1>1, <2>1 DEF store
<1>3. CASE PruneNextClass
  <2>1. CASE prune' = NoPrune
    BY <1>1, <2>1, NoPruneInv
  <2>2. CASE prune' = [prune EXCEPT !.pc = "read", !.class = NextClass(@)]
    <3>1. prune' \in [pc : {"read"}, class : {NextClass(prune.class)}, now : {prune.now},
                      todo : {prune.todo}, decay : {prune.decay}, pick : {prune.pick},
                      thread : {prune.thread}]
      BY <2>2
    <3>2. QED
      BY <1>1, <3>1 DEF store
  <2>3. QED
    BY <1>3, <2>1, <2>2 DEF PruneNextClass
<1>4. CASE PruneAnswered \/ PruneTimeout
  <2>1. prune' \in [pc : {"scan"}, class : {prune.class}, now : {prune.now}, todo : {prune.todo},
                    decay : {prune.decay}, pick : {0}, thread : {"none"}]
    BY <1>4 DEF PruneAnswered, PruneTimeout
  <2>2. QED
    BY <1>1, <2>1 DEF store
<1>5. QED
  BY <1>2, <1>3, <1>4

-----------------------------------------------------------------------------
(* Every step *)

LEMMA GraphStepKeeps ==
  ASSUME Threads, NEW t \in Thread, GraphStep(t)
  PROVE  Threads' /\ Evolves
<1>1. CASE UpsertValidate(t) \/ UpsertSimilar(t) \/ UpsertGuard(t) \/ UpsertFind(t)
  BY <1>1, UpsertValidateKeeps, UpsertSimilarKeeps, UpsertGuardKeeps, UpsertFindKeeps, Zenon
<1>2. CASE UpsertNode(t) \/ UpsertCommitNode(t) \/ UpsertFindTarget(t) \/ UpsertTarget(t)
  BY <1>2, UpsertNodeKeeps, UpsertCommitNodeKeeps, UpsertFindTargetKeeps, UpsertTargetKeeps, Zenon
<1>3. CASE UpsertCommitTarget(t) \/ UpsertEdge(t)
  BY <1>3, UpsertCommitTargetKeeps, UpsertEdgeKeeps, Zenon
<1>4. CASE CreateFind(t) \/ CreateGuard(t) \/ CreateInsert(t)
  BY <1>4, CreateFindKeeps, CreateGuardKeeps, CreateInsertKeeps, Zenon
<1>5. CASE EditRead(t) \/ EditWrite(t) \/ NamePersons(t)
  BY <1>5, EditReadKeeps, EditWriteKeeps, NamePersonsKeeps, Zenon
<1>6. CASE EdgeSource(t) \/ EdgeTarget(t) \/ EdgeWrite(t)
  BY <1>6, EdgeSourceKeeps, EdgeTargetKeeps, EdgeWriteKeeps, Zenon
<1>7. CASE DeleteFind(t) \/ DeleteEdges(t) \/ DeleteNode(t)
  BY <1>7, DeleteFindKeeps, DeleteEdgesKeeps, DeleteNodeKeeps, Zenon
<1>8. CASE AddType(t) \/ AddRelation(t) \/ GraphCommit(t)
  BY <1>8, AddTypeKeeps, AddRelationKeeps, GraphCommitKeeps, Zenon
<1>9. CASE QueryNodes(t) \/ QueryEdges(t)
  BY <1>9, QueryNodesKeeps, QueryEdgesKeeps, Zenon
<1>10. QED
  BY <1>1, <1>2, <1>3, <1>4, <1>5, <1>6, <1>7, <1>8, <1>9, Zenon DEF GraphStep

LEMMA MemoryStepKeeps ==
  ASSUME Threads, clock \in 0..MaxClock, NEW t \in Thread, MemoryStep(t)
  PROVE  Threads' /\ Evolves
<1>1. CASE StoreEmbed(t) \/ StoreNearest(t) \/ StoreInsert(t)
  BY <1>1, StoreEmbedKeeps, StoreNearestKeeps, StoreInsertKeeps, Zenon
<1>2. CASE ForgetFind(t) \/ ForgetDelete(t)
  BY <1>2, ForgetFindKeeps, ForgetDeleteKeeps, Zenon
<1>3. CASE ReviseEmbed(t) \/ ReviseWrite(t) \/ MemoryCommit(t)
  BY <1>3, ReviseEmbedKeeps, ReviseWriteKeeps, MemoryCommitKeeps, Zenon
<1>4. CASE ReviseRead(t) \/ RecallEmbed(t) \/ RecallSelect(t)
  BY <1>4, AnswersKeep, RecallEmbedKeeps, Zenon
<1>5. QED
  BY <1>1, <1>2, <1>3, <1>4, Zenon DEF MemoryStep

LEMMA CallKeeps ==
  ASSUME Threads, NEW t \in Thread, NEW r \in Request, Call(t, r)
  PROVE  Threads' /\ Evolves /\ UNCHANGED pruner
<1>1. Asked(r, db)
  BY DEF Asked
<1>2. CASE GraphRequest(t, r) /\ UNCHANGED pruner
  <2>1. Begin(t, r, FirstStep(r.op)) /\ r.op \in GraphOps
    BY <1>2 DEF GraphRequest
  <2>2. /\ FirstStep(r.op) \in {"validate", "similar", "guard", "find", "read", "source", "nodes", "write"}
        /\ FirstStep(r.op) = "find" => r.op \notin Upserts
        /\ FirstStep(r.op) = "write" => r.op # "revise"
    BY <2>1 DEF FirstStep, GraphOps, Upserts
  <2>3. Threads' /\ Evolves
    BY <1>1, <2>1, <2>2, Begins
  <2>4. QED
    BY <1>2, <2>3
<1>3. CASE MemoryRequest(t, r)
  <2>1. PICK pc \in {"find", "embed"} : Begin(t, r, pc)
    BY <1>3 DEF MemoryRequest
  <2>2. r.op \notin Upserts /\ UNCHANGED pruner
    BY <1>3 DEF MemoryRequest, Upserts
  <2>3. Threads' /\ Evolves
    BY <1>1, <2>1, <2>2, Begins
  <2>4. QED
    BY <2>2, <2>3
<1>4. QED
  BY <1>2, <1>3 DEF Call

LInv == Threads /\ PrunerInv

LEMMA PruneDeleteKeeps ==
  ASSUME LInv, NEW t \in Thread, PruneDelete(t)
  PROVE  LInv' /\ Evolves
<1> DEFINE r == DeleteRequest(prune.pick)
<1>1. /\ Begin(t, r, "find") /\ UNCHANGED <<db, clock>>
      /\ prune' = [prune EXCEPT !.pc = "wait", !.thread = t]
  BY DEF PruneDelete, Begin
<1>2. Contextual(db, prune.pick)
  BY DEF LInv, PrunerInv, PruneDelete
<1>3. Asked(r, db) /\ r.op = "forget"
  BY <1>2 DEF Asked, Contextual, DeleteRequest
<1> HIDE DEF r
<1>4. r.op \notin Upserts
  BY <1>3 DEF Upserts
<1>5. Threads' /\ Evolves
  BY <1>1, <1>3, <1>4, Begins DEF LInv
<1>6. prune' \in [pc : {"wait"}, class : {prune.class}, now : {prune.now}, todo : {prune.todo},
                  decay : {prune.decay}, pick : {prune.pick}, thread : {t}]
  BY <1>1 DEF LInv, PrunerInv
<1>7. PrunerInv'
  BY <1>1, <1>2, <1>6 DEF LInv, PrunerInv
<1>8. QED
  BY <1>5, <1>7 DEF LInv

LEMMA Start == Init => LInv
<1> SUFFICES ASSUME Init PROVE LInv
  OBVIOUS
<1>1. /\ db = Initial /\ conn = [t \in Thread |-> Free] /\ req = [t \in Thread |-> Idle]
      /\ prune = NoPrune /\ clock = 0
  BY DEF Init, StoreInit, PrunerInit
<1>2. IsConn(Free) /\ IsReq(Idle) /\ ~ Unsaved(Idle.pc, Idle.in) /\ Free.tx = "none"
  BY IdleReq DEF IsConn, Free, Txs
<1>3. TablesOK(db) /\ MaxClock \in Nat
  BY <1>1, LucentAssumption
<1>4. Shapes
  BY <1>1, <1>2, <1>3 DEF Shapes
<1>5. StoreInv
  BY <1>1, <1>2, <1>4 DEF StoreInv, OneWriter, Sound
<1>6. \A t \in Thread : Knows(t)
  BY <1>1, IdleKnown DEF Knows
<1>7. PrunerInv
  BY <1>1, <1>3 DEF PrunerInv, NoPrune
<1>8. QED
  BY <1>5, <1>6, <1>7 DEF LInv, Threads

LEMMA TablesOf == ASSUME Threads PROVE TablesOK(db)
BY DEF Threads, StoreInv, Shapes

LEMMA StepsKeep ==
  ASSUME LInv, [Next]_vars
  PROVE  LInv' /\ Evolves
<1>1. Threads /\ PrunerInv /\ clock \in 0..MaxClock /\ TablesOK(db)
  BY TablesOf DEF LInv, PrunerInv
<1>2. ASSUME Threads', Evolves, UNCHANGED pruner
      PROVE  LInv' /\ Evolves
  <2>1. TablesOK(db')
    BY <1>2 DEF Threads, StoreInv, Shapes
  <2>2. PrunerInv'
    BY <1>1, <1>2, <2>1, PrunerKeeps DEF Evolves
  <2>3. QED
    BY <1>2, <2>2 DEF LInv
<1>3. ASSUME UNCHANGED store, PrunerInv'
      PROVE  LInv' /\ Evolves
  BY <1>1, <1>3, StoreStays DEF LInv
<1>4. ASSUME NEW t \in Thread, Step(t)
      PROVE  LInv' /\ Evolves
  <2>1. Threads' /\ Evolves
    BY <1>1, <1>4, GraphStepKeeps, MemoryStepKeeps, Zenon DEF Step
  <2>2. UNCHANGED pruner
    BY <1>4 DEF Step, MemoryStep
  <2>3. QED
    BY <1>2, <2>1, <2>2
<1>5. ASSUME NEW t \in Thread, NEW r \in Request, Call(t, r)
      PROVE  LInv' /\ Evolves
  BY <1>1, <1>2, <1>5, CallKeeps
<1>6. CASE PruneStart \/ PruneTimeout \/ PruneAnswered \/ PruneNextClass
  <2>1. UNCHANGED store
    BY <1>6 DEF PruneStart, PruneTimeout, PruneAnswered, PruneNextClass
  <2>2. QED
    BY <1>1, <1>3, <1>6, <2>1, PruneGoesOn
<1>7. CASE PruneRead \/ PruneScan \/ PruneDecay
  <2>1. UNCHANGED store
    BY <1>7 DEF PruneRead, PruneScan, PruneDecay
  <2>2. QED
    BY <1>1, <1>3, <1>7, <2>1, PruneReadKeeps, PruneScanKeeps, PruneDecayKeeps
<1>8. ASSUME NEW t \in Thread, PruneDelete(t)
      PROVE  LInv' /\ Evolves
  BY <1>8, PruneDeleteKeeps
<1>9. CASE Tick \/ CodeVanishes
  <2>1. UNCHANGED <<store, prune>> /\ clock' \in 0..MaxClock
    BY <1>1, <1>9, LucentAssumption DEF Tick, CodeVanishes
  <2>2. PrunerInv'
    BY <1>1, <2>1 DEF PrunerInv, store
  <2>3. QED
    BY <1>3, <2>1, <2>2
<1>10. CASE Restart
  <2>1. Crash /\ prune' = NoPrune /\ clock' = clock
    BY <1>10 DEF Restart
  <2>2. QED
    BY <1>1, <2>1, Crashes, NoPruneInv DEF LInv
<1>11. CASE UNCHANGED vars
  <2>1. UNCHANGED store /\ UNCHANGED pruner
    BY <1>11 DEF vars
  <2>2. QED
    BY <1>1, <1>2, <2>1, StoreStays
<1>12. QED
  BY <1>4, <1>5, <1>6, <1>7, <1>8, <1>9, <1>10, <1>11, Zenon DEF Next, PruneStep

LEMMA Steps == LInv /\ [Next]_vars => LInv' /\ Evolves
BY StepsKeep

(* Every reachable state is one of what the handlers and the pruner know. *)
LEMMA Always == Spec => []LInv
BY Start, Steps, PTL DEF Spec

-----------------------------------------------------------------------------
(* The properties of Lucent *)

(* The tables, as published and as any transaction sees them, refer to     *)
(* ids that were handed out and keep UNIQUE(mind_id, name), and at most    *)
(* one connection holds SQLite's write lock.                               *)
THEOREM Types == Spec => []TypeOK
<1>1. LInv => TypeOK
  <2> SUFFICES ASSUME LInv PROVE TypeOK
    OBVIOUS
  <2>1. Threads /\ StoreInv /\ TablesOK(db)
    BY TablesOf DEF LInv, Threads
  <2>2. prune.pick \in 0..db.last_mem
    BY <2>1, Ids DEF LInv, PrunerInv, Contextual
  <2>3. ASSUME NEW t \in Thread
        PROVE  /\ conn[t].tx \in {"none", "begun", "read", "write"}
               /\ IF conn[t].tx \in {"read", "write"} THEN TablesOK(conn[t].view)
                  ELSE conn[t].view = NoDb
               /\ req[t].in \in Request \cup {NoRequest} \cup {DeleteRequest(i) : i \in 1..db.last_mem}
    <3>1. IsConn(conn[t]) /\ (req[t].in # NoRequest => Asked(req[t].in, db))
      BY <2>1, ShapesOf
    <3>2. req[t].in # NoRequest =>
            req[t].in \in Request \cup {DeleteRequest(i) : i \in 1..db.last_mem}
      BY <3>1 DEF Asked
    <3>3. QED
      BY <3>1, <3>2 DEF IsConn, Txs
  <2>4. QED
    BY <2>1, <2>2, <2>3 DEF TypeOK, StoreInv, OneWriter
<1>2. QED
  BY <1>1, Always, PTL

(* No handler rolls back, yet one that ends leaves nothing uncommitted in  *)
(* its thread's connection: whatever statement fails, it is one before     *)
(* which nothing was written since the last commit.                        *)
THEOREM NothingLeftPending == Spec => []NothingPending
<1>1. LInv => NothingPending
  BY ShapesOf DEF LInv, NothingPending, Unsaved, Sound
<1>2. QED
  BY <1>1, Always, PTL

(* What a pending request has written, and what it knows. *)
LEMMA PendingKnows ==
  ASSUME LInv, NEW t \in Thread, Pending(t), conn[t].view # db
  PROVE  /\ Draft(req[t].in, req[t].before, req[t].pc, req[t].id, conn[t].view, db)
         /\ Cleared(req[t].in, req[t].before, req[t].pc, db)
         /\ Asked(req[t].in, db)
<1>1. Threads /\ conn[t].tx = "write" /\ Seen(t) = conn[t].view
  BY DEF LInv, Pending, Seen
<1>2. Unsaved(req[t].pc, req[t].in) /\ ~ conn[t].stale
  BY <1>1, ShapesOf DEF Sound, IsConn
<1>3. Draft(req[t].in, req[t].before, req[t].pc, req[t].id, Seen(t), db)
  BY <1>1, <1>2, ShapesOf DEF Knows, Drafted
<1>4. req[t] # Idle
  BY IdleReq DEF Pending, Idle
<1>5. Asked(req[t].in, db) /\ Cleared(req[t].in, req[t].before, req[t].pc, db)
  BY <1>1, <1>2, <1>4, ShapesOf DEF Knows, Known, Progress
<1>6. QED
  BY <1>1, <1>3, <1>5

(* An edge is only ever stored between nodes that were there when its      *)
(* request began or that are younger: the ids the handler read may be of a *)
(* pinned snapshot, but one that is dead cannot be written from.           *)
THEOREM NoEdgeTooLate == Spec => []NoLateEdge
<1>1. LInv => NoLateEdge
  <2> SUFFICES ASSUME LInv, NEW t \in Thread, Pending(t), NEW e \in conn[t].view.edge \ db.edge
               PROVE  \A i \in {e.source, e.target} : Placed(req[t].before, i)
    BY DEF NoLateEdge, Placed
  <2>1. Draft(req[t].in, req[t].before, req[t].pc, req[t].id, conn[t].view, db)
    BY PendingKnows
  <2>2. QED
    BY <2>1 DEF Draft
<1>2. QED
  BY <1>1, Always, PTL

(* The identity guard reads before the write, in another transaction: of   *)
(* an identity node that was there when the request began, what it found   *)
(* still holds when the node is committed, also for an upsert or creation  *)
(* on a pinned snapshot.  (Of one made in between it does not.)            *)
THEOREM IdentityGuarded == Spec => []IdentityKept
<1>1. LInv => IdentityKept
  <2> SUFFICES ASSUME LInv, NEW t \in Thread, Pending(t), Written(t),
                      NamedAlike(req[t].in, req[t].before) \cap DOMAIN db.node # {}
               PROVE  \E j \in NamedAlike(req[t].in, req[t].before) :
                        req[t].before.node[j].mind = req[t].in.mind
    BY DEF IdentityKept
  <2>1. req[t].in # NoRequest /\ Unsaved(req[t].pc, req[t].in)
    BY DEF Written, At, Unsaved, Upserts
  <2>2. Threads /\ conn[t].tx = "write" /\ ~ conn[t].stale
    BY ShapesOf DEF LInv, Pending, Sound, IsConn
  <2>3. Cleared(req[t].in, req[t].before, req[t].pc, db)
    BY <2>1, <2>2, StillCleared
  <2>4. Owned(req[t].in, req[t].before, db)
    BY <2>3 DEF Cleared, Written, At
  <2>5. QED
    BY <2>4 DEF Owned
<1>2. QED
  BY <1>1, Always, PTL

(* Dedup looks for a close entry before it inserts, and misses none that   *)
(* was there when the request began and has not been revised.              *)
THEOREM SettledDeduplicated == Spec => []DedupOfSettled
<1>1. LInv => DedupOfSettled
  <2> SUFFICES ASSUME LInv, NEW t \in Thread, Pending(t), req[t].in.op = "store",
                      NEW n \in DOMAIN conn[t].view.mem \ DOMAIN db.mem,
                      NEW i \in DOMAIN db.mem \cap DOMAIN req[t].before.mem,
                      db.mem[i] = req[t].before.mem[i],
                      db.mem[i].class = conn[t].view.mem[n].class
               PROVE  <<db.mem[i].content, conn[t].view.mem[n].content>> \notin Close
    BY DEF DedupOfSettled
  <2>1. /\ Draft(req[t].in, req[t].before, req[t].pc, req[t].id, conn[t].view, db)
        /\ Cleared(req[t].in, req[t].before, req[t].pc, db)
    BY PendingKnows
  <2>2. /\ req[t].pc = "commit"
        /\ conn[t].view.mem[n].content = req[t].in.content
        /\ conn[t].view.mem[n].class = req[t].in.class
    BY <2>1 DEF Draft
  <2>3. Novel(req[t].in, req[t].before, db)
    BY <2>1, <2>2 DEF Cleared
  <2>4. QED
    BY <2>2, <2>3 DEF Novel
<1>2. QED
  BY <1>1, Always, PTL

(* The pruner decides on rows it read earlier, through another connection, *)
(* and deletes through the API: what it deletes is contextual all the same *)
(* (no class of DATA_CLASS_REGISTRY makes an entry standing, and ids are   *)
(* not reused).                                                            *)
THEOREM StandingExempt == Spec => []StandingSpared
<1>1. LInv => StandingSpared
  <2> SUFFICES ASSUME LInv, NEW t \in Thread, Pending(t), req[t].in.op = "forget",
                      req[t].in.origin = "pruner",
                      NEW i \in DOMAIN db.mem \ DOMAIN conn[t].view.mem
               PROVE  db.mem[i].tier = "contextual"
    BY DEF StandingSpared
  <2>1. /\ Draft(req[t].in, req[t].before, req[t].pc, req[t].id, conn[t].view, db)
        /\ Asked(req[t].in, db)
    BY PendingKnows
  <2>2. i = req[t].in.id
    BY <2>1 DEF Draft
  <2>3. req[t].in \notin Request
    BY LucentAssumption
  <2>4. PICK j \in 1..db.last_mem : req[t].in = DeleteRequest(j) /\ Contextual(db, j)
    BY <2>1, <2>3 DEF Asked
  <2>5. i = j
    BY <2>2, <2>4 DEF DeleteRequest
  <2>6. QED
    BY <2>4, <2>5 DEF Contextual
<1>2. QED
  BY <1>1, Always, PTL

-----------------------------------------------------------------------------
(* Refinement of GraphStore *)

LEMMA AbstractStart == Init => Abstract!Init
<1> SUFFICES ASSUME Init PROVE Abstract!Init
  OBVIOUS
<1>1. /\ TablesOK(db)
      /\ \A e \in db.edge : {e.source, e.target} \subseteq DOMAIN db.node
  BY LucentAssumption DEF Init, StoreInit
<1>2. DOMAIN db.node \subseteq 1..db.last
  BY <1>1 DEF TablesOK
<1>3. QED
  BY <1>1, <1>2 DEF Abstract!Init

AbstractVars == <<[i \in DOMAIN db.node |-> <<db.node[i].mind, db.node[i].type, db.node[i].name>>],
                  [i \in DOMAIN db.node |-> <<db.node[i].columns, db.node[i].keys, db.node[i].by>>],
                  db.edge, db.last>>

LEMMA AbstractStep ==
  ASSUME TablesOK(db), TablesOK(db'), Operation(db, db')
  PROVE  Abstract!Next \/ UNCHANGED AbstractVars
<1> DEFINE node == [i \in DOMAIN db.node |-> Identity(db.node[i])]
           body == [i \in DOMAIN db.node |-> Body(db.node[i])]
<1>1. db.last \in Nat /\ db'.last \in Nat /\ \A i \in DOMAIN db.node : i \in 1..db.last
  BY Ids
<1>2. CASE SameGraph(db, db')
  BY <1>2 DEF SameGraph, AbstractVars
<1>3. CASE Created(db, db')
  <2>1. Abstract!Create
    BY <1>1, <1>3 DEF Created, Abstract!Create
  <2>2. QED
    BY <2>1 DEF Abstract!Next
<1>4. CASE Edited(db, db')
  <2>1. PICK i \in DOMAIN db.node : \A j \in DOMAIN db.node \ {i} : db'.node[j] = db.node[j]
    BY <1>4 DEF Edited
  <2>2. DOMAIN db'.node = DOMAIN db.node /\ db'.last = db.last /\ db'.edge = db.edge
    BY <1>4 DEF Edited
  <2>3. \A j \in DOMAIN db.node : Identity(db'.node[j]) = Identity(db.node[j])
    BY <1>4 DEF Edited
  <2>4. Abstract!Edit(i)
    BY <2>1, <2>2, <2>3 DEF Abstract!Edit, Identity
  <2>5. QED
    BY <2>1, <2>4 DEF Abstract!Next
<1>5. CASE Linked(db, db')
  <2>1. \A e \in db'.edge : e.source \in 1..db.last /\ e.target \in 1..db.last
    BY <1>5 DEF Linked, TablesOK
  <2>2. Abstract!Link
    BY <1>5, <2>1 DEF Linked, Abstract!Link
  <2>3. QED
    BY <2>2 DEF Abstract!Next
<1>6. CASE Unlinked(db, db')
  <2>1. Abstract!Unlink
    BY <1>6 DEF Unlinked, Abstract!Unlink
  <2>2. QED
    BY <2>1 DEF Abstract!Next
<1>7. ASSUME NEW i \in 1..db.last, Dropped(i, db, db')
      PROVE  Abstract!Next
  <2>1. /\ DOMAIN db'.node = DOMAIN db.node \ {i}
        /\ \A j \in DOMAIN db.node \ {i} : db'.node[j] = db.node[j]
        /\ db'.last = db.last /\ db'.edge = {e \in db.edge : e.source # i /\ e.target # i}
    BY <1>7 DEF Dropped
  <2>2. Abstract!Drop(i)
    BY <2>1 DEF Abstract!Drop
  <2>3. QED
    BY <2>2 DEF Abstract!Next
<1>8. QED
  BY <1>2, <1>3, <1>4, <1>5, <1>6, <1>7 DEF Operation

(* Whatever requests, restarts and the pruner do at the same time, and     *)
(* although no handler rolls back, each change of the published graph is   *)
(* one whole operation of GraphStore or none.                              *)
THEOREM Implements == Spec => WholeOperations
<1>1. LInv /\ LInv' /\ Evolves => Abstract!Next \/ UNCHANGED AbstractVars
  <2> SUFFICES ASSUME LInv, LInv', Evolves
               PROVE  Abstract!Next \/ UNCHANGED AbstractVars
    OBVIOUS
  <2>1. TablesOK(db) /\ TablesOK(db')
    BY DEF LInv, Threads, StoreInv, Shapes
  <2>2. QED
    BY <2>1, AbstractStep DEF Evolves
<1>2. LInv /\ [Next]_vars => [Abstract!Next]_AbstractVars
  BY <1>1, Steps
<1>3. QED
  BY <1>2, Always, AbstractStart, PTL DEF Spec, WholeOperations, Abstract!Spec, AbstractVars
=============================================================================
