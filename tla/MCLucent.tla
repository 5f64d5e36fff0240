------------------------------ MODULE MCLucent ------------------------------
(* Small instances of Lucent: names, and the requests that meet in them.   *)
EXTENDS Lucent, TLC

(* "Ada" and "ada" are one name to the guards; "Ada B" contains both. *)
LowerOf == [n \in {"Ada", "ada", "Ada B", "Bo"} |->
              CASE n \in {"Ada", "ada"} -> "ada" [] n = "Ada B" -> "ada b" [] n = "Bo" -> "bo"]
ContainsPairs ==
  {p \in (DOMAIN LowerOf) \X (DOMAIN LowerOf) :
     LowerOf[p[1]] = LowerOf[p[2]] \/ ("Ada B" \in {p[1], p[2]} /\ "Bo" \notin {p[1], p[2]})}
ThreadSymmetry == Permutations(Thread)
Relations == {"FRIEND_OF", "PARENT_OF", "KNOWS"}
AdminType == [Topic |-> Type({"name"}, {}, NoEnums)]
AdminEdge == [KNOWS |-> Edge("Person", "Person", {})]

N(op, mind, type, name, props) ==
  [op |-> op, mind |-> mind, type |-> type, name |-> name, props |-> props,
   rel |-> "", tname |-> "", ttype |-> "", attrs |-> <<>>]
L(r, rel, ttype, tname) == [r EXCEPT !.rel = rel, !.ttype = ttype, !.tname = tname]

Aliases == [aliases |-> "x"]
Title == [title |-> "x"]
FirstName == [first_name |-> "x"]
NoProps == <<>>

Befriend(op, mind, props) ==
  L(N(op, mind, "Person", "Ada B", props), "FRIEND_OF", "Person", "Bo")

(* Two people that are friends, and the Mind node of m1. *)
Row(mind, type, name) == Node(mind, type, name, {"role"})
Peopled ==
  [EmptyDb EXCEPT !.last = 3,
     !.node = <<Row("m1", "Person", "Bo"), Row("m1", "Person", "Ada B"), Row("m1", "Mind", "Ada")>>,
     !.edge = {[source |-> 2, target |-> 1, rel |-> "FRIEND_OF"]}]

(* Among them, two minds after identity nodes that only differ in case. *)
GraphRequests == {
  Befriend("upsert", "m1", Aliases),
  L(N("upsert_backup", "m1", "Person", "Bo", Title), "knows", "Person", "Ada B"),
  N("upsert_direct", "m1", "Mind", "Ada", Aliases),
  N("upsert_direct", "m2", "Mind", "Ada", Title),
  N("upsert_direct", "m2", "Mind", "ada", Title),
  N("create", "m2", "Mind", "ada", NoProps),
  N("delete", "m1", "Mind", "Ada", NoProps),
  N("create", "m2", "Person", "Bo", Title),
  N("merge", "m1", "Person", "Bo", Title),
  N("remove", "m1", "Person", "Bo", [role |-> "x"]),
  Befriend("link", "m1", NoProps),
  Befriend("unlink", "m1", NoProps),
  N("delete", "m1", "Person", "Bo", NoProps),
  N("query", "m1", "Person", "Bo", NoProps)}

OtherRequests == {
  Befriend("upsert", "m2", [role |-> "x"]),
  N("create", "m2", "Mind", "Ada", NoProps),
  N("name", "m1", "Person", "Bo", FirstName),
  N("add_type", "m1", "Topic", "", NoProps),
  L(N("add_relation", "m1", "", "", NoProps), "KNOWS", "", "")}

(* Contents that differ in wording count as the same. *)
Rewordings == {"sky is blue", "sky looks blue"} \X {"sky is blue", "sky looks blue"}

M(content, class, tier, origin) ==
  [op |-> "store", content |-> content, class |-> class, tier |-> tier, origin |-> origin,
   ref |-> FALSE, expires |-> NoExpiry]
Forget(i) == [op |-> "forget", id |-> i, origin |-> "client"]
Revise(i, content, class) == [op |-> "revise", id |-> i, content |-> content, class |-> class]
Recall == [op |-> "recall"]

(* Two entries alike, with and without an anchor, a standing one, and a    *)
(* type that exists, which leaves its thread holding the write lock.       *)
Leaking == N("add_type", "m1", "Person", "", NoProps)
MemoryRequests == OtherRequests \cup {
  M("sky is blue", "feedback", "contextual", "client"),
  M("sky looks blue", "feedback", "contextual", "client"),
  M("sky is blue", "feedback", "standing", "always-remember"),
  M("sky is blue", "feedback", "standing", "client"),
  [M("sky is blue", "current-state", "contextual", "client") EXCEPT !.ref = TRUE],
  [M("sky looks blue", "current-state", "contextual", "client") EXCEPT !.expires = 1],
  M("sky is blue", "future-state", "contextual", "client"),
  Revise(1, "sky looks blue", ""),
  Revise(1, "", "feedback"),
  Forget(1), Recall, Leaking}

PruningRequests == {
  M("sky is blue", "feedback", "contextual", "client"),
  Leaking}
=============================================================================
