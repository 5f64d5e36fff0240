----------------------------- MODULE LucentStore -----------------------------
(***************************************************************************)
(* What the knowledge graph and the vector memory share: one SQLite file,  *)
(* a connection per worker thread (lucent_api/lucent.py) and the requests  *)
(* the threads serve.                                                      *)
(*                                                                         *)
(* db is the file as last committed.  A connection is in WAL mode and in   *)
(* Python's default transaction mode: BEGIN (deferred) precedes the first  *)
(* INSERT, UPDATE or DELETE, and no handler ever rolls back.  So           *)
(*  - a statement waits 5 s for another connection's transaction, then     *)
(*    fails and leaves its own transaction begun ("begun");                *)
(*  - a SELECT in a begun transaction pins the committed state it sees     *)
(*    ("read"), and once somebody else commits, no statement of that       *)
(*    connection can ever be written (stale);                              *)
(*  - a statement that breaks a constraint leaves its transaction open     *)
(*    and holding the write lock ("write").                                *)
(*                                                                         *)
(* Left out: authentication (routers run after it) and what requests       *)
(* return; a request that is refused or fails is one that ends early.      *)
(***************************************************************************)
EXTENDS Naturals, FiniteSets, FiniteSetsExt, Functions

CONSTANTS
  Thread,       \* worker threads
  Request,      \* the requests clients may make
  MaxRequests,  \* bound on the number of requests
  MaxCrashes,   \* bound on the number of restarts of the service
  NoRequest, NoDb

ASSUME StoreAssumption ==
  /\ MaxRequests \in Nat /\ MaxCrashes \in Nat
  /\ NoRequest \notin Request

VARIABLES
  db,      \* the tables as last committed
  conn,    \* the connection of each thread
  req,     \* the request each thread serves
  served,  \* how many requests have been made
  crashes

store == <<db, conn, req, served, crashes>>

Free == [tx |-> "none", view |-> NoDb, stale |-> FALSE, dirty |-> FALSE]

(* id, target and keys are the handlers' locals; before is not in the      *)
(* code: the tables as they were when the request began.                   *)
Idle == [pc |-> "idle", in |-> NoRequest, id |-> 0, target |-> 0, keys |-> {},
         before |-> NoDb]

-----------------------------------------------------------------------------
(* Statements of thread t *)

Seen(t) == IF conn[t].tx \in {"read", "write"} THEN conn[t].view ELSE db

Select(t) ==
  conn' = IF conn[t].tx = "begun"
          THEN [conn EXCEPT ![t] = [Free EXCEPT !.tx = "read", !.view = db]]
          ELSE conn

CanWrite(t) ==
  /\ \A u \in Thread \ {t} : conn[u].tx # "write"
  /\ ~ conn[t].stale

(* A statement that turns what t sees into new; changed says whether it    *)
(* touched a row.                                                          *)
Execute(t, new, changed) ==
  /\ CanWrite(t)
  /\ conn' = [conn EXCEPT ![t] = [tx |-> "write", view |-> new, stale |-> FALSE,
                                  dirty |-> @.dirty \/ changed]]

(* A variant with no timeout. *)
LockedForever(t) ==
  ~ CanWrite(t) /\ conn[t].tx # "none" /\ conn' = conn

(* "database is locked", after 5 s or, in a transaction that reads, at once. *)
Locked(t) ==
  /\ ~ CanWrite(t)
  /\ conn' = [conn EXCEPT ![t].tx = IF @ = "none" THEN "begun" ELSE @]

Commit(t) ==
  /\ db' = IF conn[t].tx = "write" THEN conn[t].view ELSE db
  /\ conn' = [u \in Thread |->
               IF u = t THEN Free
               ELSE IF conn[t].dirty /\ conn[u].tx = "read"
                    THEN [conn[u] EXCEPT !.stale = TRUE] ELSE conn[u]]

-----------------------------------------------------------------------------
(* Steps of a handler *)

At(t, op, pc) == req[t].in # NoRequest /\ req[t].in.op \in op /\ req[t].pc = pc

Goto(t, pc) == req' = [req EXCEPT ![t].pc = pc]

(* Go on with the id of a node, found or just made. *)
Find(t, pc, i) == req' = [req EXCEPT ![t] = [@ EXCEPT !.pc = pc, !.id = i]]
Aim(t, pc, i) == req' = [req EXCEPT ![t] = [@ EXCEPT !.pc = pc, !.target = i]]

Answer(t) == req' = [req EXCEPT ![t] = Idle]

(* A SELECT after which the handler goes on, or answers. *)
Reads(t, next) == Select(t) /\ next /\ UNCHANGED <<db, served, crashes>>

(* An INSERT, UPDATE or DELETE; an exception ends the request as it is. *)
Writes(t, new, changed, next) ==
  /\ \/ Execute(t, new, changed) /\ next
     \/ Locked(t) /\ Answer(t)
  /\ UNCHANGED <<db, served, crashes>>

(* A statement that breaks a constraint. *)
Breaks(t) == Writes(t, Seen(t), FALSE, Answer(t))

Commits(t, next) == Commit(t) /\ next /\ UNCHANGED <<served, crashes>>

Begin(t, r, pc) ==
  /\ req[t].pc = "idle"
  /\ req' = [req EXCEPT ![t] = [Idle EXCEPT !.pc = pc, !.in = r, !.before = db]]
  /\ UNCHANGED <<db, conn, crashes>>

(* The container dies with its connections; what was committed stays. *)
Crash ==
  /\ crashes < MaxCrashes
  /\ crashes' = crashes + 1
  /\ conn' = [t \in Thread |-> Free]
  /\ req' = [t \in Thread |-> Idle]
  /\ UNCHANGED <<db, served>>

StoreInit(tables) ==
  /\ db = tables
  /\ conn = [t \in Thread |-> Free]
  /\ req = [t \in Thread |-> Idle]
  /\ served = 0
  /\ crashes = 0
=============================================================================
