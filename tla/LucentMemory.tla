---------------------------- MODULE LucentMemory ----------------------------
(***************************************************************************)
(* The vector memory (lucent_api/lucent_memory.py, routers/memory.py and   *)
(* the data classes of core/memory_schema.py) and the nightly pruner       *)
(* (core/prune_memory.py, started by server.py), which reads the file      *)
(* through a connection of its own and deletes through the HTTP API.       *)
(*                                                                         *)
(* Contents are compared by Close, the pairs whose cosine similarity       *)
(* reaches DEDUP_THRESHOLD.  Time passes in units of the age at which the  *)
(* decay score of a 90 day half-life falls below the threshold; the class  *)
(* with 180 days needs two.                                                *)
(*                                                                         *)
(* Left out: ranking, tags, minds, and the warning about standing entries. *)
(***************************************************************************)
EXTENDS LucentStore

CONSTANTS
  Close,      \* pairs of contents that count as the same
  MaxClock,   \* bound on the time that passes
  Pruning     \* whether the pruner runs

VARIABLES
  prune,     \* the pruner
  clock,
  vanished   \* whether the code that codebase_ref entries name is gone

pruner == <<prune, clock, vanished>>

DataClass == {"ephemeral", "current-state", "future-state", "feedback"}

(* DATA_CLASS_REGISTRY: every class is contextual. *)
TierOf(class) == "contextual"

Tiers == {"contextual", "standing"}

NoExpiry == 0
Unreadable == MaxClock + 1  \* a date that does not parse: it never passes

NoMemories == [mem |-> <<>>, last_mem |-> 0]

NoPrune == [pc |-> "off", class |-> "none", now |-> 0, todo |-> {}, decay |-> {},
            pick |-> 0, thread |-> "none"]

(* edits is not in the code: it counts the revisions, so that a property   *)
(* can tell a row that nobody revised from one that was revised back.      *)
Memory(r) == [content |-> r.content, class |-> r.class, tier |-> r.tier, ref |-> r.ref,
              expires |-> r.expires, born |-> clock, edits |-> 0]

-----------------------------------------------------------------------------
(* memory_store_direct *)

(* Standing entries come from /always-remember alone. *)
Storable(r) ==
  /\ r.class \in DataClass /\ r.tier \in Tiers
  /\ r.tier = "standing" => r.origin = "always-remember"

(* A request that may not be stored is refused; Ollama embeds the content  *)
(* of the others, or does not answer.                                      *)
StoreEmbed(t) ==
  /\ At(t, {"store"}, "embed")
  /\ (Storable(req[t].in) /\ Goto(t, "nearest")) \/ Answer(t)
  /\ UNCHANGED <<db, conn, served, crashes>>

(* A variant that compares the words. *)
SameWords(v, r) ==
  \E i \in DOMAIN v.mem : v.mem[i].class = r.class /\ v.mem[i].content = r.content

(* _nearest_neighbour compares with the entries of the class. *)
Duplicate(v, r) ==
  \E i \in DOMAIN v.mem : /\ v.mem[i].class = r.class
                          /\ <<v.mem[i].content, r.content>> \in Close

StoreNearest(t) ==
  /\ At(t, {"store"}, "nearest")
  /\ Reads(t, IF Duplicate(Seen(t), req[t].in) THEN Answer(t)
              ELSE Goto(t, "insert"))

InsertMemory(v, row) ==
  [v EXCEPT !.last_mem = @ + 1,
            !.mem = [i \in DOMAIN @ \cup {v.last_mem + 1} |->
                       IF i \in DOMAIN @ THEN @[i] ELSE row]]

StoreInsert(t) ==
  /\ At(t, {"store"}, "insert")
  /\ Writes(t, InsertMemory(Seen(t), Memory(req[t].in)), TRUE, Goto(t, "commit"))

-----------------------------------------------------------------------------
(* memory_delete *)

ForgetFind(t) ==
  /\ At(t, {"forget"}, "find")
  /\ Reads(t, IF req[t].in.id \in DOMAIN Seen(t).mem THEN Goto(t, "delete")
              ELSE Answer(t))

ForgetDelete(t) ==
  LET v == Seen(t)
      i == req[t].in.id
  IN /\ At(t, {"forget"}, "delete")
     /\ Writes(t, [v EXCEPT !.mem = Restrict(@, DOMAIN @ \ {i})], i \in DOMAIN v.mem,
               Goto(t, "commit"))

-----------------------------------------------------------------------------
(* memory_update: new content is embedded again, but not compared; a new   *)
(* class must be known and brings its tier.                                *)

ReviseEmbed(t) ==
  LET known == req[t].in.class \in DataClass \cup {""}
  IN /\ At(t, {"revise"}, "embed")
     /\ \/ known /\ Goto(t, "write")
        \/ (~ known \/ req[t].in.content # "") /\ Answer(t)
     /\ UNCHANGED <<db, conn, served, crashes>>

Revised(row, r) ==
  [row EXCEPT !.content = IF r.content = "" THEN @ ELSE r.content,
              !.class = IF r.class = "" THEN @ ELSE r.class,
              !.tier = IF r.class = "" THEN @ ELSE TierOf(r.class),
              !.edits = @ + 1]

ReviseWrite(t) ==
  LET v == Seen(t)
      r == req[t].in
  IN /\ At(t, {"revise"}, "write")
     /\ IF r.id \in DOMAIN v.mem
        THEN Writes(t, [v EXCEPT !.mem[r.id] = Revised(@, r)], TRUE,
                    Goto(t, "commit"))
        ELSE Writes(t, v, FALSE, Goto(t, "commit"))

(* The row is read again for the answer. *)
ReviseRead(t) ==
  /\ At(t, {"revise"}, "reread")
  /\ Reads(t, Answer(t))

MemoryCommit(t) ==
  /\ At(t, {"store", "forget", "revise"}, "commit")
  /\ Commits(t, IF req[t].in.op = "revise" /\ req[t].in.id \in DOMAIN Seen(t).mem
                THEN Goto(t, "reread") ELSE Answer(t))

(* memory_retrieve: the query is embedded, then every row is read. *)
RecallEmbed(t) ==
  /\ At(t, {"recall"}, "embed")
  /\ (Goto(t, "select") \/ Answer(t))
  /\ UNCHANGED <<db, conn, served, crashes>>

RecallSelect(t) ==
  /\ At(t, {"recall"}, "select")
  /\ Reads(t, Answer(t))

MemoryRequest(t, r) ==
  /\ r.op \in {"store", "forget", "revise", "recall"}
  /\ served < MaxRequests
  /\ served' = served + 1
  /\ Begin(t, r, IF r.op = "forget" THEN "find" ELSE "embed")
  /\ UNCHANGED pruner

MemoryStep(t) ==
  /\ \/ StoreEmbed(t) \/ StoreNearest(t) \/ StoreInsert(t)
     \/ ForgetFind(t) \/ ForgetDelete(t)
     \/ ReviseEmbed(t) \/ ReviseWrite(t) \/ ReviseRead(t)
     \/ RecallEmbed(t) \/ RecallSelect(t) \/ MemoryCommit(t)
  /\ UNCHANGED pruner

-----------------------------------------------------------------------------
(* The pruner.  run_all goes through the classes; ephemeral entries are    *)
(* left alone.                                                             *)

(* A variant that forgets a class. *)
NextAnchored(class) == IF class = "current-state" THEN "future-state" ELSE "none"

NextClass(class) ==
  CASE class = "current-state" -> "future-state"
    [] class = "future-state" -> "feedback"
    [] class = "feedback" -> "none"

PruneStart ==
  /\ prune.pc = "off" /\ Pruning
  /\ prune' = [NoPrune EXCEPT !.pc = "read", !.class = "current-state"]
  /\ UNCHANGED <<store, clock, vanished>>

(* A variant that reads them all. *)
EveryEntry(class) == {i \in DOMAIN db.mem : db.mem[i].class = class}

(* _read_class_entries leaves standing entries out. *)
ClassEntries(class) ==
  {i \in DOMAIN db.mem : db.mem[i].class = class /\ db.mem[i].tier # "standing"}

PruneRead ==
  LET entries == {[id |-> i, row |-> db.mem[i]] : i \in ClassEntries(prune.class)}
  IN /\ prune.pc = "read"
     /\ prune' = [prune EXCEPT !.pc = "scan", !.now = clock,
                    !.todo = IF prune.class = "feedback" THEN {} ELSE entries,
                    !.decay = IF prune.class = "feedback" THEN entries ELSE {}]
     /\ UNCHANGED <<store, clock, vanished>>

NextEntry(S) == CHOOSE e \in S : \A f \in S : e.id <= f.id

(* What becomes of an entry that is looked at: deleted, kept, or left to   *)
(* the decay pass.  A plan has shipped if the model says so; no answer of  *)
(* the model counts as no.                                                 *)
Verdicts(e) ==
  IF prune.class = "future-state" THEN {"delete", "decay"}
  ELSE IF e.row.ref THEN {IF vanished THEN "delete" ELSE "keep"}
  ELSE IF e.row.expires # NoExpiry
       THEN {IF e.row.expires < prune.now THEN "delete" ELSE "keep"}
  ELSE {"decay"}

PruneScan ==
  LET e == NextEntry(prune.todo)
  IN /\ prune.pc = "scan" /\ prune.todo # {}
     /\ \E v \in Verdicts(e) :
          prune' = [prune EXCEPT !.todo = @ \ {e},
                                 !.pc = IF v = "delete" THEN "delete" ELSE @,
                                 !.pick = IF v = "delete" THEN e.id ELSE @,
                                 !.decay = IF v = "decay" THEN @ \cup {e} ELSE @]
     /\ UNCHANGED <<store, clock, vanished>>

(* _decay_pass; an age below zero counts as zero. *)
Limit(class) == IF class = "current-state" THEN 2 ELSE 1

Decayed(row, class, now) == now >= row.born + Limit(class)

PruneDecay ==
  LET e == NextEntry(prune.decay)
      due == Decayed(e.row, prune.class, prune.now)
  IN /\ prune.pc = "scan" /\ prune.todo = {} /\ prune.decay # {}
     /\ prune' = [prune EXCEPT !.decay = @ \ {e},
                               !.pc = IF due THEN "delete" ELSE @,
                               !.pick = IF due THEN e.id ELSE @]
     /\ UNCHANGED <<store, clock, vanished>>

PruneNextClass ==
  /\ prune.pc = "scan" /\ prune.todo = {} /\ prune.decay = {}
  /\ prune' = IF NextClass(prune.class) = "none" THEN NoPrune
              ELSE [prune EXCEPT !.pc = "read", !.class = NextClass(@)]
  /\ UNCHANGED <<store, clock, vanished>>

(* _delete_entry: a request like any other, to whichever thread is free.   *)
DeleteRequest(i) == [op |-> "forget", id |-> i, origin |-> "pruner"]

PruneDelete(t) ==
  /\ prune.pc = "delete"
  /\ Begin(t, DeleteRequest(prune.pick), "find")
  /\ prune' = [prune EXCEPT !.pc = "wait", !.thread = t]
  /\ UNCHANGED <<served, clock, vanished>>

(* Every answer has status 200, so every answer counts as a deletion, even *)
(* one that says the entry is not there or the file is locked ...          *)
PruneAnswered ==
  /\ prune.pc = "wait"
  /\ req[prune.thread].in # DeleteRequest(prune.pick)
  /\ prune' = [prune EXCEPT !.pc = "scan", !.thread = "none", !.pick = 0]
  /\ UNCHANGED <<store, clock, vanished>>

(* ... and no answer within 30 s does not. *)
PruneTimeout ==
  /\ prune.pc = "wait"
  /\ req[prune.thread].in = DeleteRequest(prune.pick)
  /\ prune' = [prune EXCEPT !.pc = "scan", !.thread = "none", !.pick = 0]
  /\ UNCHANGED <<store, clock, vanished>>

PruneStep ==
  \/ PruneRead \/ PruneScan \/ PruneDecay \/ PruneNextClass
  \/ \E t \in Thread : PruneDelete(t)
  \/ PruneAnswered

Tick ==
  /\ clock < MaxClock
  /\ clock' = clock + 1
  /\ UNCHANGED <<store, prune, vanished>>

(* It matters only to an entry that names it. *)
CodeVanishes ==
  /\ ~ vanished /\ Pruning
  /\ \E i \in DOMAIN db.mem : db.mem[i].ref
  /\ vanished' = TRUE
  /\ UNCHANGED <<store, prune, clock>>

PrunerInit ==
  /\ prune = NoPrune /\ clock = 0 /\ vanished = FALSE
=============================================================================
