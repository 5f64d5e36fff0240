------------------------------- MODULE Broker -------------------------------
(***************************************************************************)
(* The inter-mind message broker: comms/broker.py, and the handlers of     *)
(* comms/server.py that feed it (POST /broker/messages, POST /sms/inbound, *)
(* the startup recovery in lifespan).                                      *)
(*                                                                         *)
(* A request handler stores a message and starts a wakeup task; the task   *)
(* marks the message dispatched, creates a callee session, sends it the    *)
(* prompt, stores the reply and settles the message.  All of them are      *)
(* coroutines of one event loop, so they interleave at their awaits, and   *)
(* all of them share ONE SQLite connection, so a commit by one of them     *)
(* commits what the others have executed (messages is what the connection  *)
(* sees, durable what a crash leaves).                                     *)
(*                                                                         *)
(* Left out: the conversations table (its rows are exactly the             *)
(* conversations of the stored messages), the texts, the 404 answer for an *)
(* unknown mind (it changes nothing), SQLite errors.                       *)
(*                                                                         *)
(* Two fields of a callee are history, read by no action: how often the    *)
(* mind has taken up the wakeup prompt (heard), and that create_session    *)
(* raised after it had inserted the row (lost).                            *)
(***************************************************************************)
EXTENDS Naturals, FiniteSets, FiniteSetsExt, Functions

CONSTANTS
  MsgId,       \* message ids the clients use (given, or minted per request)
  ReplyId,     \* uuid4 ids minted for replies
  Conv,        \* conversation ids
  ConvOf,      \* the conversation of each message
  Req,         \* requests (first posts and retries), each made at most once
  Task,        \* slots for wakeup tasks
  Session,     \* callee session ids
  MaxCrashes,  \* bound on the number of crashes of the gateway
  NoMsg, NoSession

ASSUME ConstantsAssumption ==
  /\ ConvOf \in [MsgId -> Conv]
  /\ MsgId \cap ReplyId = {}
  /\ NoMsg \notin MsgId
  /\ NoSession \notin Session
  /\ MaxCrashes \in Nat

VARIABLES
  messages,  \* the messages table as the shared connection sees it
  durable,   \* the messages table as last committed
  callee,    \* the callee sessions (SessionManager's rows of owner "broker")
  task,      \* the wakeup_and_collect tasks
  req,       \* the HTTP handlers
  gateway,   \* "up", or where the restart has got to
  crashes

db == <<messages, durable>>
vars == <<messages, durable, callee, task, req, gateway, crashes>>

Id == MsgId \cup ReplyId
Terminal == {"completed", "timed_out", "failed"}
Status == {"absent", "pending", "dispatched"} \cup Terminal

Row == [status : Status, number : Nat, of : MsgId \cup {NoMsg}]
NoRow == [status |-> "absent", number |-> 0, of |-> NoMsg]

NoTask == [pc |-> "free", msg |-> NoMsg, session |-> NoSession,
           number |-> 0, outcome |-> "pending"]
NewTask(m) == [NoTask EXCEPT !.pc = "dispatch", !.msg = m]

-----------------------------------------------------------------------------
(* The table *)

Stored(i) == messages[i].status # "absent"

(* A reply goes to the conversation of the message it answers. *)
ConvOfRow(i, of) == IF of = NoMsg THEN ConvOf[i] ELSE ConvOf[of]

RowsOf(c) == {i \in Id : Stored(i) /\ ConvOfRow(i, messages[i].of) = c}

(* SELECT COALESCE(MAX(message_number), 0) + 1 *)
NextNumber(c) == Max({0} \cup {messages[i].number : i \in RowsOf(c)}) + 1

(* Variants of the table without one of its constraints. *)
InsertableByNumber(i, n, of) == \A j \in RowsOf(ConvOfRow(i, of)) : messages[j].number # n
InsertableById(i, n, of) == ~ Stored(i)

(* The two constraints INSERT OR IGNORE checks: the primary key and        *)
(* UNIQUE(conversation_id, message_number).                                *)
Insertable(i, n, of) ==
  /\ ~ Stored(i)
  /\ \A j \in RowsOf(ConvOfRow(i, of)) : messages[j].number # n

InsertOrIgnore(i, row) ==
  messages' = IF Insertable(i, row.number, row.of)
              THEN [messages EXCEPT ![i] = row] ELSE messages

SetStatus(m, s) == messages' = [messages EXCEPT ![m].status = s]

Commit == durable' = messages

-----------------------------------------------------------------------------
(* The request handlers *)

Post(r, m) ==
  /\ gateway = "up"
  /\ req[r].pc = "idle"
  /\ req' = [req EXCEPT ![r] = [@ EXCEPT !.pc = "number", !.msg = m]]
  /\ UNCHANGED <<messages, durable, callee, task, gateway, crashes>>

PostNumber(r) ==
  /\ req[r].pc = "number"
  /\ req' = [req EXCEPT ![r] = [@ EXCEPT !.pc = "insert",
                                         !.number = NextNumber(ConvOf[req[r].msg])]]
  /\ UNCHANGED <<messages, durable, callee, task, gateway, crashes>>

PostInsert(r) ==
  LET m == req[r].msg
      n == req[r].number
  IN /\ req[r].pc = "insert"
     /\ InsertOrIgnore(m, [status |-> "pending", number |-> n, of |-> NoMsg])
     /\ req' = [req EXCEPT ![r] = [@ EXCEPT !.pc = "commit",
                                            !.inserted = Insertable(m, n, NoMsg)]]
     /\ UNCHANGED <<durable, callee, task, gateway, crashes>>

(* A variant that answers without a commit. *)
PostUncommitted(r) ==
  /\ req[r].pc = "commit"
  /\ req' = [req EXCEPT ![r].pc = "respond"]
  /\ UNCHANGED <<messages, durable, callee, task, gateway, crashes>>

PostCommit(r) ==
  /\ req[r].pc = "commit"
  /\ Commit
  /\ req' = [req EXCEPT ![r].pc = "respond"]
  /\ UNCHANGED <<messages, callee, task, gateway, crashes>>

(* A variant that starts a wakeup task for a duplicate too. *)
PostAlwaysWakes(r) ==
  /\ req[r].pc = "respond"
  /\ \E t \in Task :
       /\ task[t].pc = "free"
       /\ task' = [task EXCEPT ![t] = NewTask(req[r].msg)]
  /\ req' = [req EXCEPT ![r] = [@ EXCEPT !.pc = "done", !.response = "dispatched"]]
  /\ UNCHANGED <<messages, durable, callee, gateway, crashes>>

(* A new message starts a wakeup task; anything else is reported as one    *)
(* the broker already has.                                                 *)
PostRespond(r) ==
  /\ req[r].pc = "respond"
  /\ \/ /\ req[r].inserted
        /\ \E t \in Task :
             /\ task[t].pc = "free"
             /\ task' = [task EXCEPT ![t] = NewTask(req[r].msg)]
        /\ req' = [req EXCEPT ![r] = [@ EXCEPT !.pc = "done", !.response = "dispatched"]]
     \/ /\ ~ req[r].inserted
        /\ req' = [req EXCEPT ![r] = [@ EXCEPT !.pc = "done", !.response = "exists"]]
        /\ UNCHANGED task
  /\ UNCHANGED <<messages, durable, callee, gateway, crashes>>

-----------------------------------------------------------------------------
(* The wakeup tasks: wakeup_and_collect *)

At(t, pc) == task[t].pc = pc
Goto(t, pc) == task' = [task EXCEPT ![t].pc = pc]

(* A variant that writes a status nothing else knows. *)
SettleMisnamed(t, outcome) ==
  LET misnamed == IF outcome = "timed_out" THEN "timeout" ELSE outcome
  IN task' = [task EXCEPT ![t] = [@ EXCEPT !.pc = "settle", !.outcome = misnamed]]

(* The except branches and the end of the try block write the outcome.     *)
SettleWith(t, outcome) ==
  task' = [task EXCEPT ![t] = [@ EXCEPT !.pc = "settle", !.outcome = outcome]]

Dispatch(t) ==
  /\ At(t, "dispatch")
  /\ SetStatus(task[t].msg, "dispatched")
  /\ Goto(t, "dispatchCommit")
  /\ UNCHANGED <<durable, callee, req, gateway, crashes>>

DispatchCommit(t) ==
  /\ At(t, "dispatchCommit")
  /\ Commit
  /\ Goto(t, "create")
  /\ UNCHANGED <<messages, callee, req, gateway, crashes>>

NoCallee == [state |-> "none", msg |-> NoMsg, heard |-> 0, lost |-> FALSE]
NewCallee(m, lost) == [state |-> "running", msg |-> m, heard |-> 0, lost |-> lost]

CreateCallee(t) ==
  /\ At(t, "create")
  /\ \E s \in Session :
       /\ callee[s].state = "none"
       /\ callee' = [callee EXCEPT ![s] = NewCallee(task[t].msg, FALSE)]
       /\ task' = [task EXCEPT ![t] = [@ EXCEPT !.pc = "record", !.session = s]]
  /\ UNCHANGED <<messages, durable, req, gateway, crashes>>

(* create_session raises before it has inserted a row: unknown mind. *)
CreateRefused(t) ==
  /\ At(t, "create")
  /\ SettleWith(t, "failed")
  /\ UNCHANGED <<messages, durable, callee, req, gateway, crashes>>

(* The mind does not start the process: create_session raises after it has *)
(* inserted and bound its row; session_id stays None.  A spawn that takes  *)
(* too long raises the TimeoutError of the first except branch.            *)
SpawnFails(t) ==
  /\ At(t, "create")
  /\ \E s \in Session :
       /\ callee[s].state = "none"
       /\ callee' = [callee EXCEPT ![s] = NewCallee(task[t].msg, TRUE)]
  /\ \E outcome \in {"failed", "timed_out"} : SettleWith(t, outcome)
  /\ UNCHANGED <<messages, durable, req, gateway, crashes>>

(* recipient_session_id is written with the status it already has. *)
Record(t) ==
  /\ At(t, "record")
  /\ SetStatus(task[t].msg, "dispatched")
  /\ Goto(t, "recordCommit")
  /\ UNCHANGED <<durable, callee, req, gateway, crashes>>

RecordCommit(t) ==
  /\ At(t, "recordCommit")
  /\ Commit
  /\ Goto(t, "prompt")
  /\ UNCHANGED <<messages, callee, req, gateway, crashes>>

(* send_message posts the wakeup prompt, for the first or the second time. *)
Posting(t) == task[t].pc \in {"prompt", "reprompt"}

(* The mind takes the prompt up: it answers 200 and streams its turn. *)
Prompt(t) ==
  /\ Posting(t)
  /\ callee' = [callee EXCEPT ![task[t].session].heard = @ + 1]
  /\ Goto(t, "collect")
  /\ UNCHANGED <<messages, durable, req, gateway, crashes>>

(* The mind does not have the session (404): send_message respawns it and  *)
(* posts the same prompt again, once.                                      *)
Repost(t) ==
  /\ At(t, "prompt")
  /\ Goto(t, "reprompt")
  /\ UNCHANGED <<messages, durable, callee, req, gateway, crashes>>

(* The mind is unreachable, answers with an error, or cannot resume the    *)
(* conversation: send_message does not raise but ends its stream, with an  *)
(* error for a result or with nothing, and that text is the reply.         *)
Unanswered(t) ==
  /\ Posting(t)
  /\ Goto(t, "number")
  /\ UNCHANGED <<messages, durable, callee, req, gateway, crashes>>

(* A variant that posts the prompt again when the stream breaks off. *)
CollectOrRepost(t) ==
  /\ At(t, "collect")
  /\ Goto(t, "number") \/ Goto(t, "reprompt")
  /\ UNCHANGED <<messages, durable, callee, req, gateway, crashes>>

(* The stream of a prompt that was taken up ends, with the mind's result   *)
(* or because the connection breaks: _collect_response returns.            *)
Collect(t) ==
  /\ At(t, "collect")
  /\ Goto(t, "number")
  /\ UNCHANGED <<messages, durable, callee, req, gateway, crashes>>

(* wait_for gives up after the backstop, or send_message raises (no row,   *)
(* closed, 404 twice, a respawn that fails), before or after the prompt    *)
(* was taken up.                                                           *)
GiveUp(t) ==
  /\ Posting(t) \/ At(t, "collect")
  /\ \E outcome \in {"failed", "timed_out"} : SettleWith(t, outcome)
  /\ UNCHANGED <<messages, durable, callee, req, gateway, crashes>>

ReplyNumber(t) ==
  /\ At(t, "number")
  /\ task' = [task EXCEPT ![t] = [@ EXCEPT !.pc = "insert",
                                           !.number = NextNumber(ConvOf[task[t].msg])]]
  /\ UNCHANGED <<messages, durable, callee, req, gateway, crashes>>

(* The result of insert_message is not looked at. *)
ReplyInsert(t) ==
  /\ At(t, "insert")
  /\ \E i \in ReplyId :
       /\ ~ Stored(i)
       /\ InsertOrIgnore(i, [status |-> "completed", number |-> task[t].number,
                             of |-> task[t].msg])
  /\ Goto(t, "insertCommit")
  /\ UNCHANGED <<durable, callee, req, gateway, crashes>>

ReplyCommit(t) ==
  /\ At(t, "insertCommit")
  /\ Commit
  /\ SettleWith(t, "completed")
  /\ UNCHANGED <<messages, callee, req, gateway, crashes>>

Settle(t) ==
  /\ At(t, "settle")
  /\ SetStatus(task[t].msg, task[t].outcome)
  /\ Goto(t, "settleCommit")
  /\ UNCHANGED <<durable, callee, req, gateway, crashes>>

SettleCommit(t) ==
  /\ At(t, "settleCommit")
  /\ Commit
  /\ Goto(t, "kill")
  /\ UNCHANGED <<messages, callee, req, gateway, crashes>>

(* A variant that cleans up only when all went well. *)
KillIfCompleted(t) ==
  /\ At(t, "kill")
  /\ callee' = [s \in Session |->
                  IF s = task[t].session /\ task[t].outcome = "completed"
                  THEN [callee[s] EXCEPT !.state = "closed"] ELSE callee[s]]
  /\ task' = [task EXCEPT ![t] = NoTask]
  /\ UNCHANGED <<messages, durable, req, gateway, crashes>>

(* finally: kill_session, when there is a session to kill. *)
KillCallee(t) ==
  /\ At(t, "kill")
  /\ callee' = [s \in Session |->
                  IF s = task[t].session THEN [callee[s] EXCEPT !.state = "closed"]
                                         ELSE callee[s]]
  /\ task' = [task EXCEPT ![t] = NoTask]
  /\ UNCHANGED <<messages, durable, req, gateway, crashes>>

-----------------------------------------------------------------------------
(* Crash and restart *)

(* The process dies: coroutines and uncommitted writes are gone. *)
Crash ==
  /\ gateway # "down"
  /\ crashes < MaxCrashes
  /\ crashes' = crashes + 1
  /\ gateway' = "down"
  /\ messages' = durable
  /\ task' = [t \in Task |-> NoTask]
  /\ req' = [r \in Req |->
               IF req[r].pc \in {"idle", "done"} THEN req[r]
                                                 ELSE [req[r] EXCEPT !.pc = "done"]]
  /\ UNCHANGED <<durable, callee>>

(* A variant that trusts the rows of before the crash. *)
StartAsIs ==
  /\ gateway = "down"
  /\ gateway' = "started"
  /\ UNCHANGED <<messages, durable, callee, task, req, crashes>>

(* SessionManager.start: a running session's process is taken for dead. *)
StartSessions ==
  /\ gateway = "down"
  /\ gateway' = "started"
  /\ callee' = [s \in Session |->
                  IF callee[s].state = "running" THEN [callee[s] EXCEPT !.state = "idle"]
                                                 ELSE callee[s]]
  /\ UNCHANGED <<messages, durable, task, req, crashes>>

(* recover_stranded_messages: one UPDATE and its commit, with no other     *)
(* coroutine about.                                                        *)
FailDispatched ==
  /\ gateway = "started"
  /\ gateway' = "recovered"
  /\ messages' = [i \in Id |->
                    IF messages[i].status = "dispatched"
                    THEN [messages[i] EXCEPT !.status = "failed"] ELSE messages[i]]
  /\ durable' = messages'
  /\ UNCHANGED <<callee, task, req, crashes>>

(* A variant that takes up the wrong rows. *)
DispatchedRows == {i \in Id : messages[i].status = "dispatched"}

PendingRows == {i \in Id : messages[i].status = "pending"}

(* A task for every message still pending; then requests are accepted. *)
Redispatch ==
  /\ gateway = "recovered"
  /\ gateway' = "up"
  /\ \E a \in Injection(PendingRows, Task) :
       task' = [t \in Task |-> IF t \in Range(a)
                               THEN NewTask(CHOOSE m \in PendingRows : a[m] = t)
                               ELSE NoTask]
  /\ UNCHANGED <<messages, durable, callee, req, crashes>>

(* reap_stale_sessions: an idle session past the cutoff is closed. *)
ReapCallee(s) ==
  /\ gateway # "down"
  /\ callee[s].state = "idle"
  /\ callee' = [callee EXCEPT ![s].state = "closed"]
  /\ UNCHANGED <<messages, durable, task, req, gateway, crashes>>

-----------------------------------------------------------------------------
Init ==
  /\ messages = [i \in Id |-> NoRow]
  /\ durable = messages
  /\ callee = [s \in Session |-> NoCallee]
  /\ task = [t \in Task |-> NoTask]
  /\ req = [r \in Req |-> [pc |-> "idle", msg |-> NoMsg, number |-> 0,
                           inserted |-> FALSE, response |-> "none"]]
  /\ gateway = "up"
  /\ crashes = 0

Handler(r) ==
  PostNumber(r) \/ PostInsert(r) \/ PostCommit(r) \/ PostRespond(r)

Wakeup(t) ==
  \/ Dispatch(t) \/ DispatchCommit(t)
  \/ CreateCallee(t) \/ CreateRefused(t) \/ SpawnFails(t)
  \/ Record(t) \/ RecordCommit(t)
  \/ Prompt(t) \/ Repost(t) \/ Unanswered(t) \/ Collect(t) \/ GiveUp(t)
  \/ ReplyNumber(t) \/ ReplyInsert(t) \/ ReplyCommit(t)
  \/ Settle(t) \/ SettleCommit(t) \/ KillCallee(t)

Restart == StartSessions \/ FailDispatched \/ Redispatch

Next ==
  \/ \E r \in Req, m \in MsgId : Post(r, m)
  \/ \E r \in Req : Handler(r)
  \/ \E t \in Task : Wakeup(t)
  \/ Crash \/ Restart
  \/ \E s \in Session : ReapCallee(s)

Spec == Init /\ [][Next]_vars

(* Coroutines that can run do run, the supervisor restarts the gateway,    *)
(* the reaper loops for ever.  No client has to post.                      *)
Fairness ==
  /\ \A r \in Req : WF_vars(Handler(r))
  /\ \A t \in Task : WF_vars(Wakeup(t))
  /\ WF_vars(Restart)
  /\ \A s \in Session : WF_vars(ReapCallee(s))

FairSpec == Spec /\ Fairness

-----------------------------------------------------------------------------
TaskPc == {"free", "dispatch", "dispatchCommit", "create", "record", "recordCommit",
           "prompt", "reprompt", "collect", "number", "insert", "insertCommit",
           "settle", "settleCommit", "kill"}

CalleeType == [state : {"none", "running", "idle", "closed"},
               msg : MsgId \cup {NoMsg}, heard : Nat, lost : BOOLEAN]

TaskType == [pc : TaskPc, msg : MsgId \cup {NoMsg}, session : Session \cup {NoSession},
             number : Nat, outcome : Terminal \cup {"pending"}]

ReqType == [pc : {"idle", "number", "insert", "commit", "respond", "done"},
            msg : MsgId \cup {NoMsg}, number : Nat, inserted : BOOLEAN,
            response : {"none", "dispatched", "exists"}]

(* The shape of the tables, the coroutines and the sessions. *)
TypeOK ==
  /\ messages \in [Id -> Row]
  /\ durable \in [Id -> Row]
  /\ callee \in [Session -> CalleeType]
  /\ task \in [Task -> TaskType]
  /\ req \in [Req -> ReqType]
  /\ gateway \in {"up", "down", "started", "recovered"}
  /\ crashes \in 0..MaxCrashes

(* However often a message is posted, retried or recovered after a crash,  *)
(* wakeup_and_collect creates at most one callee session for it: the mind  *)
(* is woken once.                                                          *)
AtMostOneCallee ==
  \A s1, s2 \in Session :
    callee[s1].msg # NoMsg /\ callee[s1].msg = callee[s2].msg => s1 = s2

(* Two coroutines never work on the wakeup of one message (a retry posted  *)
(* while the first is in flight, a redispatch by the recovery).            *)
OneTaskPerMessage ==
  \A t1, t2 \in Task :
    task[t1].msg # NoMsg /\ task[t1].msg = task[t2].msg => t1 = t2

(* The messages of a conversation, replies included, are numbered 1..n     *)
(* without gap or repetition, though get_next_message_number and           *)
(* insert_message are two awaits apart: a stale number always collides.    *)
NumbersContiguous ==
  \A c \in Conv :
    LET N == {messages[i].number : i \in RowsOf(c)}
    IN N = 1..Cardinality(RowsOf(c))

(* A client that was told "dispatched" has its message on disk, whatever   *)
(* crash follows.                                                          *)
AcknowledgedIsDurable ==
  \A r \in Req :
    req[r].response = "dispatched" => durable[req[r].msg].status # "absent"

(* While the gateway is up, a running callee session belongs to a wakeup   *)
(* task that will kill it, or its creation failed halfway: no other path   *)
(* through wakeup_and_collect, no crash and no restart leaves one behind.  *)
CalleeWatched ==
  \A s \in Session :
    callee[s].state = "running" /\ gateway = "up" =>
      callee[s].lost \/ \E t \in Task : task[t].session = s

(* What a crash would leave of a message and of the replies to it, and how *)
(* often a mind has taken up its prompt, follow the promise of             *)
(* BrokerDelivery.                                                         *)
Hearings(m) ==
  UNION {{s} \X (1..callee[s].heard) : s \in {x \in Session : callee[x].msg = m}}

SavedReplies(m) == {i \in ReplyId : durable[i].status # "absent" /\ durable[i].of = m}

Promise == INSTANCE BrokerDelivery WITH
  status <- [m \in MsgId |-> durable[m].status],
  delivered <- [m \in MsgId |-> Cardinality(Hearings(m))],
  answers <- [m \in MsgId |-> Cardinality(SavedReplies(m))]

KeepsPromise == Promise!Spec

(* Every stored message reaches a terminal status: the backstop bounds the *)
(* wait and the recovery takes over what a crash interrupts.               *)
EveryMessageSettles ==
  \A m \in MsgId : durable[m].status # "absent" ~> durable[m].status \in Terminal

(* Every callee session whose creation came to an end is closed: killed by *)
(* its task, or reaped after a restart.                                    *)
EveryCalleeCloses ==
  \A s \in Session :
    callee[s].state # "none" ~> callee[s].state = "closed" \/ callee[s].lost

-----------------------------------------------------------------------------
(* What the docstring of wakeup_and_collect says and the code does not do  *)

(* "6. Kill callee session": while the gateway is up, every running callee *)
(* session belongs to a wakeup task that will kill it.                     *)
NoOrphanCallee ==
  \A s \in Session :
    callee[s].state = "running" /\ gateway = "up" => \E t \in Task : task[t].session = s

(* "3. Send wakeup prompt and collect SSE response" ... "5. Update original *)
(* message to completed": a completed message has reached its mind.        *)
CompletedWasHeard ==
  \A m \in MsgId :
    messages[m].status = "completed" =>
      \E s \in Session : callee[s].msg = m /\ callee[s].heard > 0

(* "4. Write response as new message", "5. Update original message to      *)
(* completed": a completed message has its reply in the table.             *)
CompletedHasReply ==
  \A m \in MsgId :
    messages[m].status = "completed" =>
      \E i \in ReplyId : Stored(i) /\ messages[i].of = m

-----------------------------------------------------------------------------
(* What the docstring of insert_message says and the code does not do      *)

(* "Idempotent on message_id - returns existing row if duplicate": a       *)
(* client that is told "exists" has its message in the table.              *)
ExistsIsStored ==
  \A r \in Req : req[r].response = "exists" => Stored(req[r].msg)
=============================================================================
