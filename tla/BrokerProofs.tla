---------------------------- MODULE BrokerProofs ----------------------------
(***************************************************************************)
(* Proofs about Broker, for every set of messages, requests, tasks and     *)
(* conversations: the table and the coroutines that work on it.            *)
(*                                                                         *)
(* A message has at most one owner, the request that inserted it or the    *)
(* task that delivers it, and only its owner writes its status.  Commits   *)
(* are anybody's, so what is known of the durable row is how far behind    *)
(* the other it may be at each step of the owner (Rows).                   *)
(***************************************************************************)
EXTENDS Broker, FiniteSetTheorems, TLAPS

(* The request that has inserted its message and has yet to wake the mind. *)
Accepting(r) == req[r].inserted /\ req[r].pc \in {"commit", "respond"}

(* The steps of a task between the commits of its first and last status.   *)
Working == {"create", "record", "recordCommit", "prompt", "reprompt", "collect",
            "number", "insert", "insertCommit", "settle"}

ReqShape == \A r \in Req : req[r].pc # "idle" => req[r].msg \in MsgId

Shape(t) ==
  /\ task[t].pc = "free" => task[t] = NoTask
  /\ task[t].pc # "free" => task[t].msg \in MsgId
  /\ task[t].pc \in {"settle", "settleCommit", "kill"} => task[t].outcome \in Terminal

TaskShape == \A t \in Task : Shape(t)

(* Only while the gateway is up is anything in progress. *)
Quiet ==
  gateway # "up" =>
    /\ \A t \in Task : task[t] = NoTask
    /\ \A r \in Req : req[r].pc \in {"idle", "done"}
    /\ messages = durable

OneOwner ==
  /\ \A r1, r2 \in Req :
       Accepting(r1) /\ Accepting(r2) /\ req[r1].msg = req[r2].msg => r1 = r2
  /\ \A r \in Req, t \in Task : Accepting(r) => task[t].msg # req[r].msg
  /\ OneTaskPerMessage

Now(m) == messages[m].status
Saved(m) == durable[m].status

AcceptRow(r) ==
  Accepting(r) =>
    /\ Now(req[r].msg) = "pending"
    /\ Saved(req[r].msg) \in {"absent", "pending"}
    /\ req[r].pc = "respond" => Saved(req[r].msg) = "pending"

TaskRow(t) ==
  LET m == task[t].msg
  IN /\ task[t].pc = "dispatch" => Now(m) = "pending" /\ Saved(m) = "pending"
     /\ task[t].pc = "dispatchCommit" =>
          Now(m) = "dispatched" /\ Saved(m) \in {"pending", "dispatched"}
     /\ task[t].pc \in Working => Now(m) = "dispatched" /\ Saved(m) = "dispatched"
     /\ task[t].pc = "settleCommit" =>
          Now(m) = task[t].outcome /\ Saved(m) \in {"dispatched", task[t].outcome}
     /\ task[t].pc = "kill" => Now(m) = task[t].outcome

Rows == (\A r \in Req : AcceptRow(r)) /\ (\A t \in Task : TaskRow(t))

(* A crash takes a message back by one step at most. *)
OneBehind(m) ==
  \/ Saved(m) = Now(m)
  \/ Saved(m) = "absent" /\ Now(m) = "pending"
  \/ Saved(m) = "pending" /\ Now(m) = "dispatched"
  \/ Saved(m) = "dispatched" /\ Now(m) \in Terminal

Behind == \A m \in MsgId : OneBehind(m)

Replies == \A i \in ReplyId : {Now(i), Saved(i)} \subseteq {"absent", "completed"}

Acknowledged ==
  \A r \in Req :
    req[r].response = "dispatched" => req[r].pc = "done" /\ Saved(req[r].msg) # "absent"

Owners ==
  /\ ReqShape /\ TaskShape /\ Quiet /\ OneOwner /\ Rows /\ Behind /\ Replies
  /\ Acknowledged

(* NumbersContiguous of a table, which is also why there is a greatest     *)
(* number.                                                                 *)
RowsIn(table, c) ==
  {i \in Id : table[i].status # "absent" /\ ConvOfRow(i, table[i].of) = c}

Numbered(table) ==
  \A c \in Conv :
    /\ IsFiniteSet(RowsIn(table, c))
    /\ {table[i].number : i \in RowsIn(table, c)} = 1..Cardinality(RowsIn(table, c))

(* A number that was read is taken by now, or is still the next. *)
Read(n, c) == n \in 1..(Cardinality(RowsIn(messages, c)) + 1)

Numbers ==
  /\ Numbered(messages) /\ Numbered(durable)
  /\ \A r \in Req : req[r].pc = "insert" => Read(req[r].number, ConvOf[req[r].msg])
  /\ \A t \in Task : task[t].pc = "insert" => Read(task[t].number, ConvOf[task[t].msg])
  /\ \A i \in ReplyId :
       /\ messages[i].status # "absent" => messages[i].of \in MsgId
       /\ durable[i].status # "absent" => durable[i].of \in MsgId
  /\ \A i \in MsgId : messages[i].of = NoMsg /\ durable[i].of = NoMsg

IInv == TypeOK /\ Owners /\ Numbers
-----------------------------------------------------------------------------
(* What the steps are made of *)

LEMMA NextIs ==
  ASSUME IInv, NEW c \in Conv
  PROVE  NextNumber(c) = Cardinality(RowsIn(messages, c)) + 1 /\ NextNumber(c) \in Nat
<1> DEFINE n == Cardinality(RowsIn(messages, c))
           S == {0} \cup {messages[i].number : i \in RowsOf(c)}
<1>1. RowsOf(c) = RowsIn(messages, c)
  BY DEF RowsOf, RowsIn, Stored
<1>2. n \in Nat
  BY FS_CardinalityType DEF IInv, Numbers, Numbered
<1>3. S = 0..n
  <2>1. S = {0} \cup 1..n
    BY <1>1 DEF IInv, Numbers, Numbered
  <2>2. QED
    BY <1>2, <2>1
<1>4. n \in S /\ \A y \in S : n >= y
  BY <1>2, <1>3
<1>5. \A x \in S : (\A y \in S : x >= y) => x = n
  BY <1>2, <1>3, <1>4
<1>6. Max(S) = n
  BY <1>4, <1>5 DEF Max
<1>7. QED
  BY <1>2, <1>6 DEF NextNumber

-----------------------------------------------------------------------------
(* Types *)

LEMMA TypeInit == Init => TypeOK
BY ConstantsAssumption
DEF Init, TypeOK, NoRow, Row, Status, NoTask, TaskPc, Id, TaskType, ReqType, CalleeType,
    NoCallee

LEMMA StatusTyped ==
  ASSUME TypeOK, NEW m \in MsgId, NEW s \in Status, SetStatus(m, s)
  PROVE  messages' \in [Id -> Row]
BY DEF TypeOK, SetStatus, Id, Row

LEMMA TaskTyped ==
  ASSUME TypeOK, NEW t \in Task, NEW r \in TaskType, task' = [task EXCEPT ![t] = r]
  PROVE  task' \in [Task -> TaskType]
BY DEF TypeOK

LEMMA ReqTyped ==
  ASSUME TypeOK, NEW r \in Req, NEW x \in ReqType, req' = [req EXCEPT ![r] = x]
  PROVE  req' \in [Req -> ReqType]
BY DEF TypeOK

LEMMA GotoTyped ==
  ASSUME TypeOK, NEW t \in Task, NEW pc \in TaskPc, Goto(t, pc)
  PROVE  task' \in [Task -> TaskType]
BY DEF TypeOK, Goto, TaskType

LEMMA SettleTyped ==
  ASSUME TypeOK, NEW t \in Task, NEW outcome \in Terminal, SettleWith(t, outcome)
  PROVE  task' \in [Task -> TaskType]
<1>1. [task[t] EXCEPT !.pc = "settle", !.outcome = outcome] \in TaskType
  BY DEF TypeOK, TaskType, TaskPc
<1>2. QED
  BY <1>1, TaskTyped DEF SettleWith

LEMMA NewTaskTyped == ASSUME NEW m \in MsgId PROVE NewTask(m) \in TaskType /\ NoTask \in TaskType
BY DEF NewTask, NoTask, TaskType, TaskPc

LEMMA PostTyped == ASSUME IInv, NEW r \in Req, NEW m \in MsgId, Post(r, m) PROVE TypeOK'
<1>1. [req[r] EXCEPT !.pc = "number", !.msg = m] \in ReqType
  BY DEF IInv, TypeOK, ReqType
<1>2. req' \in [Req -> ReqType]
  BY <1>1, ReqTyped DEF Post, IInv
<1>3. QED
  BY <1>2 DEF IInv, TypeOK, Post

LEMMA PostNumberTyped == ASSUME IInv, NEW r \in Req, PostNumber(r) PROVE TypeOK'
<1> DEFINE n == NextNumber(ConvOf[req[r].msg])
<1>1. n \in Nat
  BY NextIs, ConstantsAssumption DEF PostNumber, IInv, Owners, ReqShape
<1> HIDE DEF n
<1>2. [req[r] EXCEPT !.pc = "insert", !.number = n] \in ReqType
  BY <1>1 DEF IInv, TypeOK, ReqType
<1>3. req' \in [Req -> ReqType]
  BY <1>2, ReqTyped DEF PostNumber, IInv, n
<1>4. QED
  BY <1>3 DEF IInv, TypeOK, PostNumber

LEMMA PostInsertTyped == ASSUME IInv, NEW r \in Req, PostInsert(r) PROVE TypeOK'
<1> DEFINE b == Insertable(req[r].msg, req[r].number, NoMsg)
<1>1. messages' \in [Id -> Row]
  <2>1. [status |-> "pending", number |-> req[r].number, of |-> NoMsg] \in Row
    BY DEF IInv, TypeOK, Row, Status, ReqType
  <2>2. QED
    BY <2>1 DEF IInv, TypeOK, PostInsert, InsertOrIgnore
<1>2. b \in BOOLEAN
  BY DEF Insertable, Stored
<1> HIDE DEF b
<1>3. [req[r] EXCEPT !.pc = "commit", !.inserted = b] \in ReqType
  BY <1>2 DEF IInv, TypeOK, ReqType
<1>4. req' \in [Req -> ReqType]
  BY <1>3, ReqTyped DEF PostInsert, IInv, b
<1>5. QED
  BY <1>1, <1>4 DEF IInv, TypeOK, PostInsert

LEMMA PostCommitTyped == ASSUME IInv, NEW r \in Req, PostCommit(r) PROVE TypeOK'
BY DEF IInv, TypeOK, PostCommit, Commit, ReqType

LEMMA PostRespondTyped == ASSUME IInv, NEW r \in Req, PostRespond(r) PROVE TypeOK'
<1>1. \A a \in {"dispatched", "exists"} :
        [req[r] EXCEPT !.pc = "done", !.response = a] \in ReqType
  BY DEF IInv, TypeOK, ReqType
<1>2. req' \in [Req -> ReqType]
  BY <1>1, ReqTyped DEF PostRespond, IInv
<1>3. task' \in [Task -> TaskType]
  BY NewTaskTyped, TaskTyped DEF PostRespond, IInv, Owners, ReqShape, TypeOK
<1>4. QED
  BY <1>2, <1>3 DEF IInv, TypeOK, PostRespond

LEMMA DispatchTyped == ASSUME IInv, NEW t \in Task, Dispatch(t) \/ Record(t) PROVE TypeOK'
<1>1. messages' \in [Id -> Row]
  BY StatusTyped DEF Dispatch, Record, At, IInv, Owners, TaskShape, Shape, Status
<1>2. QED
  BY <1>1, GotoTyped DEF IInv, TypeOK, Dispatch, Record, TaskPc

LEMMA SettleStepTyped == ASSUME IInv, NEW t \in Task, Settle(t) PROVE TypeOK'
<1>1. messages' \in [Id -> Row]
  BY StatusTyped DEF Settle, At, IInv, Owners, TaskShape, Shape, Status
<1>2. QED
  BY <1>1, GotoTyped DEF IInv, TypeOK, Settle, TaskPc

LEMMA CommitTyped ==
  ASSUME IInv, NEW t \in Task, DispatchCommit(t) \/ RecordCommit(t) \/ SettleCommit(t)
  PROVE  TypeOK'
BY GotoTyped DEF IInv, TypeOK, DispatchCommit, RecordCommit, SettleCommit, Commit, TaskPc

LEMMA ReplyCommitTyped == ASSUME IInv, NEW t \in Task, ReplyCommit(t) PROVE TypeOK'
BY SettleTyped DEF IInv, TypeOK, ReplyCommit, Commit, Terminal

LEMMA NewCalleeTyped ==
  ASSUME IInv, NEW t \in Task, NEW s \in Session, NEW b \in BOOLEAN,
         callee' = [callee EXCEPT ![s] = NewCallee(task[t].msg, b)]
  PROVE  callee' \in [Session -> CalleeType]
<1>1. NewCallee(task[t].msg, b) \in CalleeType
  BY DEF IInv, TypeOK, NewCallee, TaskType, CalleeType
<1>2. QED
  BY <1>1 DEF IInv, TypeOK

LEMMA CreateTyped == ASSUME IInv, NEW t \in Task, CreateCallee(t) PROVE TypeOK'
<1>1. \A s \in Session : [task[t] EXCEPT !.pc = "record", !.session = s] \in TaskType
  BY DEF IInv, TypeOK, TaskType, TaskPc
<1>2. task' \in [Task -> TaskType]
  BY <1>1, TaskTyped DEF CreateCallee, IInv
<1>3. callee' \in [Session -> CalleeType]
  BY NewCalleeTyped DEF CreateCallee
<1>4. QED
  BY <1>2, <1>3 DEF IInv, TypeOK, CreateCallee

LEMMA FailTyped ==
  ASSUME IInv, NEW t \in Task, CreateRefused(t) \/ SpawnFails(t) \/ GiveUp(t) PROVE TypeOK'
<1>1. {"failed", "timed_out"} \subseteq Terminal
  BY DEF Terminal
<1>2. task' \in [Task -> TaskType]
  BY <1>1, SettleTyped DEF IInv, CreateRefused, SpawnFails, GiveUp
<1>3. callee' \in [Session -> CalleeType]
  BY NewCalleeTyped DEF IInv, TypeOK, CreateRefused, SpawnFails, GiveUp
<1>4. QED
  BY <1>2, <1>3 DEF IInv, TypeOK, CreateRefused, SpawnFails, GiveUp

LEMMA PromptTyped ==
  ASSUME IInv, NEW t \in Task, Prompt(t) \/ Repost(t) \/ Unanswered(t) \/ Collect(t)
  PROVE  TypeOK'
<1>1. task' \in [Task -> TaskType]
  BY GotoTyped DEF IInv, Prompt, Repost, Unanswered, Collect, TaskPc
<1>2. callee' \in [Session -> CalleeType]
  <2>1. CASE Prompt(t)
    <3>1. callee' = [callee EXCEPT ![task[t].session]
                       = [callee[task[t].session] EXCEPT !.heard = @ + 1]]
      BY <2>1 DEF Prompt
    <3>2. \A s \in Session :
             callee[s] \in CalleeType /\ [callee[s] EXCEPT !.heard = @ + 1] \in CalleeType
      BY DEF IInv, TypeOK, CalleeType
    <3>3. QED
      BY <3>1, <3>2 DEF IInv, TypeOK
  <2>2. CASE UNCHANGED callee
    BY <2>2 DEF IInv, TypeOK
  <2>3. QED
    BY <2>1, <2>2 DEF Repost, Unanswered, Collect
<1>3. QED
  BY <1>1, <1>2 DEF IInv, TypeOK, Prompt, Repost, Unanswered, Collect

LEMMA ReplyNumberTyped == ASSUME IInv, NEW t \in Task, ReplyNumber(t) PROVE TypeOK'
<1> DEFINE n == NextNumber(ConvOf[task[t].msg])
<1>1. n \in Nat
  BY NextIs, ConstantsAssumption DEF ReplyNumber, At, IInv, Owners, TaskShape, Shape
<1> HIDE DEF n
<1>2. [task[t] EXCEPT !.pc = "insert", !.number = n] \in TaskType
  BY <1>1 DEF IInv, TypeOK, TaskType, TaskPc
<1>3. task' \in [Task -> TaskType]
  BY <1>2, TaskTyped DEF ReplyNumber, IInv, n
<1>4. QED
  BY <1>3 DEF IInv, TypeOK, ReplyNumber

LEMMA ReplyInsertTyped == ASSUME IInv, NEW t \in Task, ReplyInsert(t) PROVE TypeOK'
<1>1. [status |-> "completed", number |-> task[t].number, of |-> task[t].msg] \in Row
  BY DEF IInv, TypeOK, Row, Status, Terminal, TaskType
<1>2. messages' \in [Id -> Row]
  BY <1>1 DEF IInv, TypeOK, ReplyInsert, InsertOrIgnore
<1>3. QED
  BY <1>2, GotoTyped DEF IInv, TypeOK, ReplyInsert, TaskPc

LEMMA KillTyped == ASSUME IInv, NEW t \in Task, KillCallee(t) PROVE TypeOK'
<1>1. NoTask \in TaskType
  BY DEF NoTask, TaskType, TaskPc
<1>2. task' \in [Task -> TaskType]
  BY <1>1, TaskTyped DEF KillCallee, IInv
<1>3. callee' \in [Session -> CalleeType]
  BY DEF KillCallee, IInv, TypeOK, CalleeType
<1>4. QED
  BY <1>2, <1>3 DEF IInv, TypeOK, KillCallee

LEMMA CrashTyped == ASSUME IInv, Crash PROVE TypeOK'
<1>1. task' \in [Task -> TaskType]
  BY DEF Crash, NoTask, TaskType, TaskPc
<1>2. req' \in [Req -> ReqType]
  BY SMTT(30) DEF Crash, IInv, TypeOK, ReqType
<1>3. QED
  BY <1>1, <1>2, ConstantsAssumption DEF IInv, TypeOK, Crash

LEMMA RestartTyped == ASSUME IInv, StartSessions \/ FailDispatched PROVE TypeOK'
<1>1. CASE StartSessions
  <2>1. callee' \in [Session -> CalleeType]
    BY <1>1 DEF StartSessions, IInv, TypeOK, CalleeType
  <2>2. QED
    BY <1>1, <2>1 DEF IInv, TypeOK, StartSessions
<1>2. CASE FailDispatched
  <2>1. messages' \in [Id -> Row]
    <3>1. \A i \in Id : messages[i] \in Row /\ [messages[i] EXCEPT !.status = "failed"] \in Row
      BY DEF IInv, TypeOK, Row, Status, Terminal
    <3>2. QED
      BY <1>2, <3>1 DEF FailDispatched
  <2>2. QED
    BY <1>2, <2>1 DEF IInv, TypeOK, FailDispatched
<1>3. QED
  BY <1>1, <1>2

LEMMA MsgInId == MsgId \subseteq Id /\ ReplyId \subseteq Id
BY DEF Id

LEMMA PendingAreMessages == ASSUME IInv PROVE PendingRows \subseteq MsgId
BY DEF IInv, Owners, Replies, PendingRows, Now, Id

(* The task of a message that is taken up again is its own. *)
LEMMA Redispatched ==
  ASSUME IInv, Redispatch
  PROVE  \E a \in Injection(PendingRows, Task) :
           /\ \A m \in PendingRows : task'[a[m]] = NewTask(m)
           /\ \A t \in Task : \/ task'[t] = NoTask
                              \/ \E m \in PendingRows : t = a[m]
<1>1. PICK a \in Injection(PendingRows, Task) :
        task' = [t \in Task |-> IF t \in Range(a)
                                THEN NewTask(CHOOSE m \in PendingRows : a[m] = t)
                                ELSE NoTask]
  BY DEF Redispatch
<1>2. a \in [PendingRows -> Task] /\ \A m, n \in PendingRows : a[m] = a[n] => m = n
  BY DEF Injection, IsInjective
<1>3. ASSUME NEW m \in PendingRows PROVE task'[a[m]] = NewTask(m)
  <2>1. a[m] \in Range(a) /\ a[m] \in Task
    BY <1>2, <1>3 DEF Range
  <2>2. (CHOOSE n \in PendingRows : a[n] = a[m]) = m
    BY <1>2, <1>3
  <2>3. QED
    BY <1>1, <2>1, <2>2
<1>4. ASSUME NEW t \in Task PROVE task'[t] = NoTask \/ \E m \in PendingRows : t = a[m]
  BY <1>1, <1>2, <1>4 DEF Range
<1>5. QED
  BY <1>3, <1>4

LEMMA RedispatchTyped == ASSUME IInv, Redispatch PROVE TypeOK'
<1>1. \A t \in Task : task'[t] = NoTask \/ \E m \in MsgId : task'[t] = NewTask(m)
  BY Redispatched, PendingAreMessages
<1>2. NoTask \in TaskType
  BY DEF NoTask, TaskType, TaskPc
<1>3. task' \in [Task -> TaskType]
  <2>1. task' = [t \in Task |-> task'[t]]
    BY DEF Redispatch
  <2>2. \A t \in Task : task'[t] \in TaskType
    BY <1>1, <1>2, NewTaskTyped
  <2>3. QED
    BY <2>1, <2>2
<1>4. QED
  BY <1>3 DEF IInv, TypeOK, Redispatch

LEMMA ReapTyped == ASSUME IInv, NEW s \in Session, ReapCallee(s) PROVE TypeOK'
BY DEF IInv, TypeOK, ReapCallee, CalleeType

LEMMA TypeStep == ASSUME IInv, [Next]_vars PROVE TypeOK'
<1>1. ASSUME NEW r \in Req, Handler(r) PROVE TypeOK'
  BY <1>1, PostNumberTyped, PostInsertTyped, PostCommitTyped, PostRespondTyped DEF Handler
<1>2. ASSUME NEW t \in Task, Wakeup(t) PROVE TypeOK'
  BY <1>2, DispatchTyped, CommitTyped, CreateTyped, FailTyped, PromptTyped,
     ReplyNumberTyped, ReplyInsertTyped, ReplyCommitTyped, SettleStepTyped, KillTyped
  DEF Wakeup
<1>3. CASE UNCHANGED vars
  BY <1>3 DEF vars, IInv, TypeOK
<1>4. QED
  BY <1>1, <1>2, <1>3, PostTyped, CrashTyped, RestartTyped, RedispatchTyped, ReapTyped
  DEF Next, Restart

-----------------------------------------------------------------------------
(* Owners *)

LEMMA GotoFields ==
  ASSUME IInv, NEW t \in Task, NEW pc, Goto(t, pc)
  PROVE  /\ task'[t].pc = pc /\ task'[t].msg = task[t].msg
         /\ task'[t].session = task[t].session /\ task'[t].outcome = task[t].outcome
         /\ task'[t].number = task[t].number
         /\ \A u \in Task \ {t} : task'[u] = task[u]
BY DEF IInv, TypeOK, TaskType, Goto

LEMMA SettleFields ==
  ASSUME IInv, NEW t \in Task, NEW outcome, SettleWith(t, outcome)
  PROVE  /\ task'[t].pc = "settle" /\ task'[t].msg = task[t].msg
         /\ task'[t].session = task[t].session /\ task'[t].outcome = outcome
         /\ \A u \in Task \ {t} : task'[u] = task[u]
<1>1. task'[t] = [task[t] EXCEPT !.pc = "settle", !.outcome = outcome]
  BY DEF IInv, TypeOK, SettleWith
<1>2. \A u \in Task \ {t} : task'[u] = task[u]
  BY DEF IInv, TypeOK, SettleWith
<1>3. QED
  BY <1>1, <1>2 DEF IInv, TypeOK, TaskType

LEMMA OwnersSame ==
  ASSUME IInv, UNCHANGED <<messages, durable, task, req, gateway>> PROVE Owners'
BY DEF IInv, Owners, ReqShape, TaskShape, Shape, Quiet, OneOwner, OneTaskPerMessage, Accepting,
       Rows, AcceptRow, TaskRow, Behind, OneBehind, Replies, Acknowledged, Now, Saved

(* A task works on its own message; replies may be added, and anything     *)
(* may be committed.                                                       *)
LEMMA TaskWorks ==
  ASSUME IInv, NEW t \in Task, task[t].pc # "free",
         NEW n \in MsgId, n = task[t].msg,
         UNCHANGED <<req, gateway>>,
         \A u \in Task \ {t} : task'[u] = task[u],
         task'[t].msg = task[t].msg \/ task'[t] = NoTask,
         Shape(t)', TaskRow(t)', OneBehind(n)',
         \A m \in MsgId \ {n} : Now(m)' = Now(m),
         \A i \in ReplyId : Now(i)' \in {Now(i), "completed"},
         durable' \in {durable, messages}
  PROVE  Owners'
<1> USE DEF IInv, Owners
<1>1. task[t].msg \in MsgId
  BY DEF TaskShape, Shape
<1>2. ReqShape' /\ TaskShape'
  BY DEF ReqShape, TaskShape, Shape
<1>3. Quiet'
  BY DEF Quiet, NoTask
<1>4. OneOwner'
  BY <1>1, ConstantsAssumption DEF OneOwner, OneTaskPerMessage, Accepting, NoTask, ReqShape
<1>5. \A m \in Id : Saved(m)' \in {Saved(m), Now(m)}
  BY DEF Saved, Now
<1>6. \A r \in Req : AcceptRow(r)'
  <2> SUFFICES ASSUME NEW r \in Req, Accepting(r) PROVE AcceptRow(r)'
    BY DEF AcceptRow, Accepting
  <2>1. req[r].msg \in MsgId \ {task[t].msg}
    BY DEF Accepting, ReqShape, OneOwner
  <2>2. Now(req[r].msg)' = Now(req[r].msg)
    BY <2>1
  <2>3. QED
    BY <1>5, <2>1, <2>2, MsgInId DEF AcceptRow, Rows
<1>7. \A u \in Task \ {t} : TaskRow(u)'
  <2> SUFFICES ASSUME NEW u \in Task \ {t}, task[u].pc # "free" PROVE TaskRow(u)'
    BY DEF TaskRow, Working
  <2>1. task[u].msg \in MsgId \ {task[t].msg}
    BY <1>1, ConstantsAssumption DEF TaskShape, Shape, OneOwner, OneTaskPerMessage
  <2>2. Now(task[u].msg)' = Now(task[u].msg)
    BY <2>1
  <2>3. QED
    BY <1>5, <2>1, <2>2, MsgInId DEF TaskRow, Rows
<1>8. Behind'
  <2> SUFFICES ASSUME NEW m \in MsgId \ {task[t].msg} PROVE OneBehind(m)'
    BY DEF Behind
  <2>1. QED
    BY <1>5, MsgInId DEF Behind, OneBehind
<1>9. Replies'
  BY <1>5, MsgInId DEF Replies
<1>10. Acknowledged'
  <2> SUFFICES ASSUME NEW r \in Req, req[r].response = "dispatched"
               PROVE  Saved(req[r].msg)' # "absent"
    BY DEF Acknowledged
  <2>1. req[r].msg \in MsgId /\ Saved(req[r].msg) # "absent"
    BY DEF Acknowledged, ReqShape
  <2>2. Now(req[r].msg) # "absent"
    BY <2>1 DEF Behind, OneBehind, Terminal
  <2>3. QED
    BY <1>5, <2>1, <2>2, MsgInId
<1>11. QED
  BY <1>2, <1>3, <1>4, <1>6, <1>7, <1>8, <1>9, <1>10 DEF Rows

(* Nothing happens to the rows. *)
LEMMA TaskGoesOn ==
  ASSUME IInv, NEW t \in Task, task[t].pc # "free",
         UNCHANGED <<messages, req, gateway>>,
         \A u \in Task \ {t} : task'[u] = task[u],
         task'[t].msg = task[t].msg \/ task'[t] = NoTask,
         durable' = durable \/ durable' = messages,
         \/ task[t].pc \in Working /\ task'[t].pc \in Working /\ Shape(t)'
         \/ task[t].pc = "dispatchCommit" /\ task'[t].pc \in Working /\ Shape(t)' /\ durable' = messages
         \/ task'[t] = NoTask
         \/ /\ task[t].pc = "settleCommit" /\ task'[t].pc = "kill"
            /\ task'[t].outcome = task[t].outcome /\ Shape(t)'
  PROVE  Owners'
<1>1. PICK n \in MsgId : n = task[t].msg
  BY DEF IInv, Owners, TaskShape, Shape
<1>2. Shape(t)'
  BY DEF Shape, NoTask
<1>3. Now(n)' = Now(n) /\ Saved(n)' \in {Saved(n), Now(n)}
  BY DEF Now, Saved
<1>4. OneBehind(n)'
  BY <1>1, <1>3 DEF IInv, Owners, Behind, OneBehind
<1>5. TaskRow(t)'
  BY <1>1, <1>3 DEF IInv, Owners, Rows, TaskRow, Working, NoTask, Now, Saved
<1>6. (\A m \in MsgId : Now(m)' = Now(m)) /\ (\A i \in ReplyId : Now(i)' = Now(i))
  BY DEF Now
<1>7. QED
  BY <1>1, <1>2, <1>4, <1>5, <1>6, TaskWorks

LEMMA StatusFields ==
  ASSUME IInv, NEW m \in MsgId, NEW s, SetStatus(m, s)
  PROVE  /\ Now(m)' = s
         /\ \A i \in Id \ {m} : messages'[i] = messages[i]
         /\ messages'[m].number = messages[m].number /\ messages'[m].of = messages[m].of
BY MsgInId DEF IInv, TypeOK, SetStatus, Now, Row

(* The owner writes the next status. *)
LEMMA TaskWrites ==
  ASSUME IInv, NEW t \in Task, NEW s, NEW pc, SetStatus(task[t].msg, s), Goto(t, pc),
         UNCHANGED <<durable, req, gateway>>,
         \/ task[t].pc = "dispatch" /\ s = "dispatched" /\ pc = "dispatchCommit"
         \/ task[t].pc = "record" /\ s = "dispatched" /\ pc = "recordCommit"
         \/ task[t].pc = "settle" /\ s = task[t].outcome /\ pc = "settleCommit"
  PROVE  Owners'
<1>1. PICK n \in MsgId : n = task[t].msg
  BY DEF IInv, Owners, TaskShape, Shape
<1>2. /\ Now(n)' = s /\ Saved(n)' = Saved(n)
      /\ \A i \in Id \ {n} : messages'[i] = messages[i]
  BY <1>1, StatusFields DEF Saved
<1>3. Shape(t)'
  BY GotoFields DEF Shape, IInv, Owners, TaskShape
<1>4. TaskRow(t)
  BY DEF IInv, Owners, Rows
<1>5. TaskRow(t)'
  BY <1>1, <1>2, <1>4, GotoFields DEF TaskRow, Working, Now, Saved
<1>6. OneBehind(n)'
  BY <1>1, <1>2, <1>4 DEF OneBehind, TaskRow, Working, IInv, Owners, TaskShape, Shape
<1>7. /\ \A m \in MsgId \ {n} : Now(m)' = Now(m)
      /\ \A i \in ReplyId : Now(i)' = Now(i)
  BY <1>2, MsgInId, ConstantsAssumption DEF Now
<1>8. QED
  BY <1>1, <1>3, <1>5, <1>6, <1>7, GotoFields, TaskWorks

LEMMA WriteOwners ==
  ASSUME IInv, NEW t \in Task, Dispatch(t) \/ Record(t) \/ Settle(t) PROVE Owners'
BY TaskWrites DEF Dispatch, Record, Settle, At

LEMMA CommitOwners ==
  ASSUME IInv, NEW t \in Task, DispatchCommit(t) \/ RecordCommit(t) PROVE Owners'
<1>1. PICK pc \in {"create", "prompt"} : Goto(t, pc)
  BY DEF DispatchCommit, RecordCommit
<1>2. Shape(t)'
  BY <1>1, GotoFields DEF DispatchCommit, RecordCommit, At, Shape, IInv, Owners, TaskShape
<1>3. QED
  BY <1>1, <1>2, GotoFields, TaskGoesOn DEF DispatchCommit, RecordCommit, Commit, At, Working

LEMMA SettledOwners == ASSUME IInv, NEW t \in Task, SettleCommit(t) PROVE Owners'
<1>1. Shape(t)'
  BY GotoFields DEF SettleCommit, At, Shape, IInv, Owners, TaskShape
<1>2. QED
  BY <1>1, GotoFields, TaskGoesOn DEF SettleCommit, Commit, At

LEMMA SettleWithOwners ==
  ASSUME IInv, NEW t \in Task, NEW outcome \in Terminal, task[t].pc \in Working,
         SettleWith(t, outcome), UNCHANGED <<messages, req, gateway>>,
         durable' = durable \/ durable' = messages
  PROVE  Owners'
<1>1. Shape(t)'
  BY SettleFields DEF Shape, Working, IInv, Owners, TaskShape
<1>2. task[t].pc # "free" /\ "settle" \in Working
  BY DEF Working
<1>3. QED
  BY <1>1, <1>2, SettleFields, TaskGoesOn

LEMMA EndOwners ==
  ASSUME IInv, NEW t \in Task,
         CreateRefused(t) \/ SpawnFails(t) \/ GiveUp(t) \/ ReplyCommit(t)
  PROVE  Owners'
<1>1. {"failed", "timed_out", "completed"} \subseteq Terminal
  BY DEF Terminal
<1>2. QED
  BY <1>1, SettleWithOwners
  DEF CreateRefused, SpawnFails, GiveUp, Posting, ReplyCommit, Commit, At, Working

LEMMA WorkOwners ==
  ASSUME IInv, NEW t \in Task,
         \/ CreateCallee(t) \/ ReplyNumber(t)
         \/ Prompt(t) \/ Repost(t) \/ Unanswered(t) \/ Collect(t)
  PROVE  Owners'
<1>1. /\ task[t].pc \in Working /\ task'[t].pc \in Working \ {"settle"}
      /\ task'[t].msg = task[t].msg
      /\ \A u \in Task \ {t} : task'[u] = task[u]
  <2>1. CASE CreateCallee(t)
    BY <2>1, ZenonT(30) DEF CreateCallee, At, Working, IInv, TypeOK, TaskType
  <2>2. CASE Prompt(t) \/ Repost(t) \/ Unanswered(t) \/ Collect(t)
    BY <2>2, GotoFields DEF Prompt, Repost, Unanswered, Collect, Posting, At, Working
  <2>3. CASE ReplyNumber(t)
    <3> DEFINE n == NextNumber(ConvOf[task[t].msg])
    <3>1. task' = [task EXCEPT ![t] = [task[t] EXCEPT !.pc = "insert", !.number = n]]
      BY <2>3 DEF ReplyNumber
    <3> HIDE DEF n
    <3>2. QED
      BY <2>3, <3>1 DEF ReplyNumber, At, Working, IInv, TypeOK, TaskType
  <2>4. QED
    BY <2>1, <2>2, <2>3
<1>2. Shape(t)'
  BY <1>1 DEF Shape, Working, IInv, Owners, TaskShape
<1>3. UNCHANGED <<messages, durable, req, gateway>>
  BY DEF CreateCallee, Prompt, Repost, Unanswered, Collect, ReplyNumber
<1>4. task[t].pc # "free"
  BY <1>1 DEF Working
<1>5. QED
  BY <1>1, <1>2, <1>3, <1>4, TaskGoesOn

LEMMA KillOwners == ASSUME IInv, NEW t \in Task, KillCallee(t) PROVE Owners'
<1>1. /\ task'[t] = NoTask /\ task[t].pc # "free"
      /\ \A u \in Task \ {t} : task'[u] = task[u]
  BY DEF KillCallee, IInv, TypeOK, At
<1>2. QED
  BY <1>1, TaskGoesOn DEF KillCallee

LEMMA ReplyInsertOwners == ASSUME IInv, NEW t \in Task, ReplyInsert(t) PROVE Owners'
<1>1. PICK n \in MsgId : n = task[t].msg
  BY DEF IInv, Owners, TaskShape, Shape, ReplyInsert, At
<1>2. PICK i \in ReplyId :
        InsertOrIgnore(i, [status |-> "completed", number |-> task[t].number, of |-> task[t].msg])
  BY DEF ReplyInsert
<1>3. /\ Now(i)' \in {Now(i), "completed"}
      /\ \A j \in Id \ {i} : messages'[j] = messages[j]
  BY <1>2, MsgInId DEF InsertOrIgnore, Now, IInv, TypeOK
<1>4. /\ \A m \in MsgId : Now(m)' = Now(m)
      /\ \A j \in ReplyId : Now(j)' \in {Now(j), "completed"}
  BY <1>3, MsgInId, ConstantsAssumption DEF Now
<1>5. Shape(t)'
  BY GotoFields DEF ReplyInsert, At, Shape, IInv, Owners, TaskShape
<1>6. TaskRow(t)'
  BY <1>1, <1>4, GotoFields DEF ReplyInsert, At, TaskRow, Working, IInv, Owners, Rows, Now, Saved
<1>7. OneBehind(n)'
  BY <1>4 DEF ReplyInsert, OneBehind, IInv, Owners, Behind, Saved
<1>8. QED
  BY <1>1, <1>4, <1>5, <1>6, <1>7, GotoFields, TaskWorks DEF ReplyInsert, At

LEMMA WakeupOwners == ASSUME IInv, NEW t \in Task, Wakeup(t) PROVE Owners'
BY WriteOwners, CommitOwners, SettledOwners, EndOwners, WorkOwners, KillOwners,
   ReplyInsertOwners
DEF Wakeup

(* A request in progress finds its gateway up. *)
LEMMA ReqUp == ASSUME IInv, NEW r \in Req, req[r].pc \notin {"idle", "done"} PROVE gateway = "up"
BY DEF IInv, Owners, Quiet

(* A request goes on and writes nothing, though it may commit. *)
LEMMA ReqGoesOn ==
  ASSUME IInv, NEW r \in Req, gateway = "up", req[r].pc # "done",
         UNCHANGED <<messages, task, gateway>>,
         \A q \in Req \ {r} : req'[q] = req[q],
         req'[r].msg \in MsgId, req'[r].response = req[r].response,
         Accepting(r)' =>
           /\ Accepting(r) /\ req'[r].msg = req[r].msg
           /\ req'[r].pc = "respond" => durable' = messages,
         durable' = durable \/ durable' = messages
  PROVE  Owners'
<1> USE DEF IInv, Owners
<1>1. ReqShape' /\ TaskShape' /\ Quiet'
  BY DEF ReqShape, TaskShape, Shape, Quiet
<1>2. OneOwner'
  <2>1. \A q \in Req : Accepting(q)' => Accepting(q) /\ req'[q].msg = req[q].msg
    BY DEF Accepting
  <2>2. QED
    BY <2>1 DEF OneOwner, OneTaskPerMessage
<1>3. \A m \in Id : Now(m)' = Now(m) /\ Saved(m)' \in {Saved(m), Now(m)}
  BY DEF Saved, Now
<1>4. \A q \in Req : AcceptRow(q)'
  <2>1. ASSUME NEW q \in Req \ {r} PROVE AcceptRow(q)'
    BY <1>3, MsgInId DEF AcceptRow, Accepting, Rows, ReqShape
  <2>2. AcceptRow(r)'
    <3> SUFFICES ASSUME Accepting(r)' PROVE AcceptRow(r)'
      BY DEF AcceptRow
    <3>1. req'[r].pc \in {"commit", "respond"} /\ AcceptRow(r) /\ Accepting(r)
      BY DEF Accepting, Rows
    <3>2. QED
      BY <1>3, <3>1, MsgInId DEF AcceptRow, Now, Saved
  <2>3. QED
    BY <2>1, <2>2
<1>5. \A t \in Task : TaskRow(t)'
  <2> SUFFICES ASSUME NEW t \in Task, task[t].pc # "free" PROVE TaskRow(t)'
    BY DEF TaskRow, Working
  <2>1. task[t].msg \in Id
    BY MsgInId DEF TaskShape, Shape
  <2>2. QED
    BY <1>3, <2>1 DEF TaskRow, Rows
<1>6. Behind' /\ Replies'
  BY <1>3, MsgInId DEF Behind, OneBehind, Replies
<1>7. Acknowledged'
  <2> SUFFICES ASSUME NEW q \in Req \ {r}, req[q].response = "dispatched"
               PROVE  Saved(req[q].msg)' # "absent"
    BY DEF Acknowledged
  <2>1. req[q].msg \in MsgId /\ Saved(req[q].msg) # "absent"
    BY DEF Acknowledged, ReqShape
  <2>2. Now(req[q].msg) # "absent"
    BY <2>1 DEF Behind, OneBehind, Terminal
  <2>3. QED
    BY <1>3, <2>1, <2>2, MsgInId
<1>8. QED
  BY <1>1, <1>2, <1>4, <1>5, <1>6, <1>7 DEF Rows

LEMMA PostOwners == ASSUME IInv, NEW r \in Req, NEW m \in MsgId, Post(r, m) PROVE Owners'
<1>1. /\ req'[r].pc = "number" /\ req'[r].msg = m /\ req'[r].response = req[r].response
      /\ \A q \in Req \ {r} : req'[q] = req[q]
  BY DEF Post, IInv, TypeOK, ReqType
<1>2. QED
  BY <1>1, ReqGoesOn DEF Post, Accepting

LEMMA PostNumberOwners == ASSUME IInv, NEW r \in Req, PostNumber(r) PROVE Owners'
<1> DEFINE n == NextNumber(ConvOf[req[r].msg])
<1>1. req' = [req EXCEPT ![r] = [req[r] EXCEPT !.pc = "insert", !.number = n]]
  BY DEF PostNumber
<1> HIDE DEF n
<1>2. /\ req'[r].pc = "insert" /\ req'[r].msg = req[r].msg
      /\ req'[r].response = req[r].response
      /\ \A q \in Req \ {r} : req'[q] = req[q]
  BY <1>1 DEF IInv, TypeOK, ReqType
<1>3. req[r].msg \in MsgId
  BY DEF PostNumber, IInv, Owners, ReqShape
<1>4. QED
  BY <1>2, <1>3, ReqUp, ReqGoesOn DEF PostNumber, Accepting

LEMMA PostCommitOwners == ASSUME IInv, NEW r \in Req, PostCommit(r) PROVE Owners'
<1>1. /\ req'[r].pc = "respond" /\ req'[r].msg = req[r].msg
      /\ req'[r].response = req[r].response /\ req'[r].inserted = req[r].inserted
      /\ \A q \in Req \ {r} : req'[q] = req[q]
  BY DEF PostCommit, IInv, TypeOK, ReqType
<1>2. req[r].msg \in MsgId
  BY DEF PostCommit, IInv, Owners, ReqShape
<1>3. QED
  BY <1>1, <1>2, ReqUp, ReqGoesOn DEF PostCommit, Commit, Accepting

(* A message that is inserted has no owner yet. *)
LEMMA PostInsertOwners == ASSUME IInv, NEW r \in Req, PostInsert(r) PROVE Owners'
<1> DEFINE b == Insertable(req[r].msg, req[r].number, NoMsg)
<1>1. req' = [req EXCEPT ![r] = [req[r] EXCEPT !.pc = "commit", !.inserted = b]]
  BY DEF PostInsert
<1>2. PICK n \in MsgId : n = req[r].msg
  BY DEF PostInsert, IInv, Owners, ReqShape
<1>3. IF b THEN /\ Now(n)' = "pending" /\ Now(n) = "absent"
               /\ \A i \in Id \ {n} : Now(i)' = Now(i)
          ELSE messages' = messages
  BY <1>2, MsgInId
  DEF PostInsert, InsertOrIgnore, Insertable, Stored, Now, IInv, TypeOK
<1>4. b \in BOOLEAN
  BY DEF Insertable, Stored
<1> HIDE DEF b
<1>5. /\ req'[r].pc = "commit" /\ req'[r].msg = n /\ req'[r].inserted = b
      /\ req'[r].response = req[r].response
      /\ \A q \in Req \ {r} : req'[q] = req[q]
  BY <1>1, <1>2, <1>4 DEF IInv, TypeOK, ReqType
<1>6. gateway = "up" /\ req[r].pc = "insert" /\ UNCHANGED <<durable, task, gateway>>
  BY ReqUp DEF PostInsert
<1>7. CASE ~ b
  BY <1>3, <1>5, <1>6, <1>7, ReqGoesOn DEF Accepting
<1>8. CASE b
  <2> USE DEF IInv, Owners
  <2>1. ReqShape' /\ TaskShape' /\ Quiet'
    BY <1>5, <1>6 DEF ReqShape, TaskShape, Shape, Quiet
  <2>2. \A q \in Req : Accepting(q) => req[q].msg # n
    BY <1>3, <1>8 DEF Rows, AcceptRow
  <2>3. \A t \in Task : task[t].msg # n
    <3> SUFFICES ASSUME NEW t \in Task, task[t].msg = n PROVE FALSE
      OBVIOUS
    <3>1. TaskRow(t) /\ Shape(t) /\ task[t].pc \in TaskPc
      BY DEF Rows, TaskShape, TypeOK, TaskType
    <3>2. task[t].pc # "free" => Now(n) # "absent"
      BY <3>1 DEF TaskRow, Shape, Terminal, Working, TaskPc
    <3>3. task[t].pc # "free"
      BY <1>2, <3>1, ConstantsAssumption DEF Shape, NoTask
    <3>4. QED
      BY <1>3, <1>8, <3>2, <3>3
  <2>4. OneOwner'
    BY <1>5, <1>6, <2>2, <2>3 DEF OneOwner, OneTaskPerMessage, Accepting
  <2>5. \A m \in MsgId : Saved(m)' = Saved(m) /\ (m # n => Now(m)' = Now(m))
    BY <1>3, <1>6, <1>8, MsgInId DEF Saved
  <2>6. Saved(n) = "absent"
    BY <1>3, <1>8 DEF Behind, OneBehind, Terminal
  <2>7. \A q \in Req : AcceptRow(q)'
    <3>1. AcceptRow(r)'
      BY <1>3, <1>5, <1>8, <2>5, <2>6 DEF AcceptRow
    <3>2. ASSUME NEW q \in Req \ {r} PROVE AcceptRow(q)'
      BY <1>5, <2>2, <2>5 DEF AcceptRow, Accepting, Rows, ReqShape
    <3>3. QED
      BY <3>1, <3>2
  <2>8. \A t \in Task : TaskRow(t)'
    <3> SUFFICES ASSUME NEW t \in Task, task[t].pc # "free" PROVE TaskRow(t)'
      BY <1>6 DEF TaskRow, Working
    <3>1. task[t].msg \in MsgId \ {n}
      BY <2>3 DEF TaskShape, Shape
    <3>2. QED
      BY <1>6, <2>5, <3>1 DEF TaskRow, Rows
  <2>9. Behind' /\ Replies'
    <3>1. \A i \in ReplyId : Now(i)' = Now(i) /\ Saved(i)' = Saved(i)
      BY <1>3, <1>6, <1>8, MsgInId, ConstantsAssumption DEF Saved
    <3>2. QED
      BY <1>3, <1>8, <2>5, <2>6, <3>1 DEF Behind, OneBehind, Replies
  <2>10. Acknowledged'
    BY <1>5, <1>6 DEF Acknowledged, Saved
  <2>11. QED
    BY <2>1, <2>4, <2>7, <2>8, <2>9, <2>10 DEF Rows
<1>9. QED
  BY <1>4, <1>7, <1>8

(* Ownership passes from the request to the task. *)
LEMMA PostRespondOwners == ASSUME IInv, NEW r \in Req, PostRespond(r) PROVE Owners'
<1>1. PICK n \in MsgId : n = req[r].msg
  BY DEF PostRespond, IInv, Owners, ReqShape
<1>2. /\ req'[r].pc = "done" /\ req'[r].msg = n
      /\ \A q \in Req \ {r} : req'[q] = req[q]
      /\ req'[r].response \in {"dispatched", "exists"}
      /\ req'[r].response = "dispatched" => req[r].inserted
  <2>1. PICK x \in {"dispatched", "exists"} :
          /\ req' = [req EXCEPT ![r] = [req[r] EXCEPT !.pc = "done", !.response = x]]
          /\ x = "dispatched" => req[r].inserted
    BY DEF PostRespond
  <2>2. req'[r].msg = req[r].msg /\ req'[r].pc = "done" /\ req'[r].response = x
    BY <2>1 DEF IInv, TypeOK, ReqType
  <2>3. \A q \in Req \ {r} : req'[q] = req[q]
    BY <2>1 DEF IInv, TypeOK
  <2>4. QED
    BY <1>1, <2>1, <2>2, <2>3
<1>3. \/ task' = task
      \/ req[r].inserted /\ \E t \in Task : /\ task[t].pc = "free" /\ task'[t] = NewTask(n)
                                            /\ \A u \in Task \ {t} : task'[u] = task[u]
  BY <1>1 DEF PostRespond, IInv, TypeOK
<1>4. gateway = "up" /\ req[r].pc = "respond" /\ UNCHANGED <<messages, durable, gateway>>
  BY ReqUp DEF PostRespond
<1> USE DEF IInv, Owners
<1>5. req[r].inserted =>
        /\ Accepting(r) /\ Now(n) = "pending" /\ Saved(n) = "pending"
        /\ \A q \in Req \ {r} : Accepting(q) => req[q].msg # n
        /\ \A t \in Task : task[t].msg # n
  BY <1>1, <1>4 DEF Accepting, Rows, AcceptRow, OneOwner
<1>6. ReqShape' /\ Quiet'
  BY <1>2, <1>4 DEF ReqShape, Quiet
<1>7. /\ NewTask(n).pc = "dispatch" /\ NewTask(n).msg = n
  BY DEF NewTask, NoTask
<1>8. TaskShape'
  BY <1>3, <1>7 DEF TaskShape, Shape
<1>9. \A q \in Req : Accepting(q)' => q # r /\ Accepting(q) /\ req'[q] = req[q]
  BY <1>2 DEF Accepting
<1>10. OneOwner'
  BY <1>3, <1>5, <1>7, <1>9, <1>1, ConstantsAssumption DEF OneOwner, OneTaskPerMessage
<1>11. Rows'
  <2>1. \A q \in Req : AcceptRow(q)'
    BY <1>4, <1>9 DEF Rows, AcceptRow, Now, Saved
  <2>2. \A t \in Task : TaskRow(t)'
    BY <1>3, <1>4, <1>5, <1>7 DEF Rows, TaskRow, Now, Saved, Working
  <2>3. QED
    BY <2>1, <2>2 DEF Rows
<1>12. Behind' /\ Replies'
  BY <1>4 DEF Behind, OneBehind, Replies, Now, Saved
<1>13. Acknowledged'
  BY <1>2, <1>4, <1>5 DEF Acknowledged, Saved
<1>14. QED
  BY <1>6, <1>8, <1>10, <1>11, <1>12, <1>13

-----------------------------------------------------------------------------
(* Crash and restart *)

(* Nothing is in progress. *)
LEMMA QuietOwners ==
  ASSUME IInv, \A t \in Task : task'[t] = NoTask, messages' = durable',
         \A r \in Req : /\ req'[r].pc \in {"idle", "done"}
                        /\ req'[r].pc = "done" <=> req[r].pc # "idle"
                        /\ req'[r].msg = req[r].msg /\ req'[r].response = req[r].response,
         \A i \in Id : Saved(i)' # "absent" <=> Saved(i) # "absent",
         \A i \in ReplyId : Saved(i)' = Saved(i)
  PROVE  Owners'
<1> USE DEF IInv, Owners
<1>1. ReqShape' /\ TaskShape' /\ Quiet'
  BY DEF ReqShape, TaskShape, Shape, Quiet, NoTask
<1>2. OneOwner' /\ Rows'
  BY DEF OneOwner, OneTaskPerMessage, Accepting, NoTask, Rows, AcceptRow, TaskRow, Working
<1>3. Behind' /\ Replies'
  BY DEF Behind, OneBehind, Replies, Now, Saved
<1>4. Acknowledged'
  BY MsgInId DEF Acknowledged, ReqShape
<1>5. QED
  BY <1>1, <1>2, <1>3, <1>4

LEMMA CrashOwners == ASSUME IInv, Crash PROVE Owners'
<1>1. \A r \in Req : /\ req'[r].pc \in {"idle", "done"}
                     /\ req'[r].pc = "done" <=> req[r].pc # "idle"
                     /\ req'[r].msg = req[r].msg /\ req'[r].response = req[r].response
  BY DEF Crash, IInv, TypeOK, ReqType
<1>2. QED
  BY <1>1, QuietOwners DEF Crash, Saved

LEMMA RestartOwners == ASSUME IInv, StartSessions \/ FailDispatched PROVE Owners'
<1>1. /\ \A t \in Task : task'[t] = NoTask
      /\ req' = req /\ \A r \in Req : req[r].pc \in {"idle", "done"}
      /\ messages = durable
  BY DEF StartSessions, FailDispatched, IInv, Owners, Quiet
<1>2. CASE StartSessions
  BY <1>1, <1>2, QuietOwners DEF StartSessions, Saved
<1>3. CASE FailDispatched
  <2>1. \A i \in Id : durable'[i] = IF durable[i].status = "dispatched"
                                    THEN [durable[i] EXCEPT !.status = "failed"] ELSE durable[i]
    BY <1>1, <1>3 DEF FailDispatched
  <2>2. /\ \A i \in Id : Saved(i)' # "absent" <=> Saved(i) # "absent"
        /\ \A i \in ReplyId : Saved(i)' = Saved(i)
    BY <2>1, MsgInId DEF Saved, IInv, Owners, Replies, TypeOK, Row
  <2>3. messages' = durable'
    BY <1>3 DEF FailDispatched
  <2>4. QED
    BY <1>1, <2>2, <2>3, QuietOwners
<1>4. QED
  BY <1>2, <1>3

(* A message taken up again gets the one task it has. *)
LEMMA RedispatchOwners == ASSUME IInv, Redispatch PROVE Owners'
<1>1. PICK a \in Injection(PendingRows, Task) :
        /\ \A m \in PendingRows : task'[a[m]] = NewTask(m)
        /\ \A t \in Task : \/ task'[t] = NoTask
                           \/ \E m \in PendingRows : t = a[m]
  BY Redispatched
<1>2. /\ \A r \in Req : req[r].pc \in {"idle", "done"}
      /\ messages = durable /\ gateway' = "up" /\ UNCHANGED <<messages, durable, req>>
  BY DEF Redispatch, IInv, Owners, Quiet
<1>3. \A m \in PendingRows : /\ m \in MsgId /\ Now(m) = "pending" /\ Saved(m) = "pending"
                             /\ NewTask(m).pc = "dispatch" /\ NewTask(m).msg = m
  BY <1>2, PendingAreMessages DEF PendingRows, Now, Saved, NewTask, NoTask
<1>4. \A t \in Task : \/ task'[t] = NoTask
                      \/ \E m \in PendingRows : t = a[m] /\ task'[t] = NewTask(m)
  BY <1>1
<1> USE DEF IInv, Owners
<1>5. ReqShape' /\ TaskShape' /\ Quiet'
  BY <1>2, <1>3, <1>4 DEF ReqShape, TaskShape, Shape, Quiet, NoTask
<1>6. OneOwner'
  <2>1. OneTaskPerMessage'
    BY <1>3, <1>4 DEF OneTaskPerMessage, NoTask
  <2>2. QED
    BY <1>2, <2>1 DEF OneOwner, Accepting
<1>7. Rows'
  BY <1>2, <1>3, <1>4 DEF Rows, AcceptRow, TaskRow, Accepting, Now, Saved, Working, NoTask
<1>8. Behind' /\ Replies' /\ Acknowledged'
  BY <1>2 DEF Behind, OneBehind, Replies, Acknowledged, Now, Saved
<1>9. QED
  BY <1>5, <1>6, <1>7, <1>8

LEMMA OwnersInit == Init => Owners
BY ConstantsAssumption
DEF Init, Owners, ReqShape, TaskShape, Shape, Quiet, OneOwner, OneTaskPerMessage, Accepting,
    Rows, AcceptRow, TaskRow, Behind, OneBehind, Replies, Acknowledged, Now, Saved, NoTask,
    NoRow, Working, Id

LEMMA OwnersStep == ASSUME IInv, [Next]_vars PROVE Owners'
<1>1. ASSUME NEW r \in Req, Handler(r) PROVE Owners'
  BY <1>1, PostNumberOwners, PostInsertOwners, PostCommitOwners, PostRespondOwners DEF Handler
<1>2. CASE UNCHANGED vars
  BY <1>2, OwnersSame DEF vars
<1>3. ASSUME NEW s \in Session, ReapCallee(s) PROVE Owners'
  BY <1>3, OwnersSame DEF ReapCallee
<1>4. QED
  BY <1>1, <1>2, <1>3, PostOwners, WakeupOwners, CrashOwners, RestartOwners, RedispatchOwners
  DEF Next, Restart

-----------------------------------------------------------------------------
(* Numbers *)

(* A status changes neither which rows there are nor their numbers. *)
SameRows(T, U) ==
  \A i \in Id : /\ T[i].status = "absent" <=> U[i].status = "absent"
                /\ T[i].number = U[i].number /\ T[i].of = U[i].of

LEMMA SameRowsIn ==
  ASSUME NEW T, NEW U, SameRows(T, U), NEW c
  PROVE  /\ RowsIn(T, c) = RowsIn(U, c)
         /\ {T[i].number : i \in RowsIn(T, c)} = {U[i].number : i \in RowsIn(U, c)}
<1>1. RowsIn(T, c) = RowsIn(U, c)
  BY DEF SameRows, RowsIn
<1>2. \A i \in RowsIn(U, c) : T[i].number = U[i].number
  BY DEF SameRows, RowsIn
<1>3. QED
  BY <1>1, <1>2

LEMMA SameNumbered == ASSUME NEW T, NEW U, SameRows(T, U), Numbered(U) PROVE Numbered(T)
BY SameRowsIn, ZenonT(30) DEF Numbered

LEMMA RowsNow == ASSUME NEW c PROVE RowsOf(c) = RowsIn(messages, c)
BY DEF RowsOf, RowsIn, Stored

LEMMA ConvOfMsg == \A m \in MsgId : ConvOf[m] \in Conv
BY ConstantsAssumption

(* What was just read is the next number. *)
LEMMA NextRead ==
  ASSUME IInv, NEW c \in Conv PROVE Read(NextNumber(c), c)
<1>1. Cardinality(RowsIn(messages, c)) \in Nat
  BY FS_CardinalityType DEF IInv, Numbers, Numbered
<1>2. QED
  BY <1>1, NextIs DEF Read

LEMMA NumbersGoOn ==
  ASSUME IInv, SameRows(messages', messages),
         SameRows(durable', durable) \/ SameRows(durable', messages),
         \A r \in Req : req'[r].pc = "insert" =>
           \/ req[r].pc = "insert" /\ req'[r].msg = req[r].msg /\ req'[r].number = req[r].number
           \/ req'[r].msg \in MsgId /\ req'[r].number = NextNumber(ConvOf[req'[r].msg]),
         \A t \in Task : task'[t].pc = "insert" =>
           \/ task[t].pc = "insert" /\ task'[t].msg = task[t].msg /\ task'[t].number = task[t].number
           \/ task'[t].msg \in MsgId /\ task'[t].number = NextNumber(ConvOf[task'[t].msg])
  PROVE  Numbers'
<1> USE DEF IInv
<1>1. Numbered(messages)' /\ Numbered(durable)'
  BY SameNumbered DEF Numbers
<1>2. \A n, c : Read(n, c) => Read(n, c)'
  BY SameRowsIn DEF Read
<1>3. \A r \in Req : req'[r].pc = "insert" => Read(req[r].number, ConvOf[req[r].msg])'
  BY <1>2, NextRead, ConvOfMsg DEF Numbers
<1>4. \A t \in Task : task'[t].pc = "insert" => Read(task[t].number, ConvOf[task[t].msg])'
  BY <1>2, NextRead, ConvOfMsg DEF Numbers
<1>5. /\ \A i \in ReplyId :
           /\ messages'[i].status # "absent" => messages'[i].of \in MsgId
           /\ durable'[i].status # "absent" => durable'[i].of \in MsgId
      /\ \A i \in MsgId : messages'[i].of = NoMsg /\ durable'[i].of = NoMsg
  BY MsgInId DEF Numbers, SameRows
<1>6. QED
  BY <1>1, <1>3, <1>4, <1>5 DEF Numbers

(* INSERT OR IGNORE leaves no gap, whatever number it was called with. *)
LEMMA Inserting ==
  ASSUME IInv, NEW i \in Id, NEW row \in Row, row.status # "absent",
         ConvOfRow(i, row.of) \in Conv, Read(row.number, ConvOfRow(i, row.of)),
         InsertOrIgnore(i, row)
  PROVE  /\ Numbered(messages)'
         /\ \A c \in Conv : \A n : Read(n, c) => Read(n, c)'
<1>1. CASE messages' = messages
  <2>1. SameRows(messages', messages)
    BY <1>1 DEF SameRows
  <2>2. QED
    BY <2>1, SameNumbered, SameRowsIn DEF IInv, Numbers, Read
<1>2. CASE messages' # messages
  <2> DEFINE d == ConvOfRow(i, row.of)
             R == RowsIn(messages, d)
             k == Cardinality(R)
  <2>1. /\ Insertable(i, row.number, row.of)
        /\ messages' = [messages EXCEPT ![i] = row]
    BY <1>2 DEF InsertOrIgnore
  <2>2. messages'[i] = row /\ \A j \in Id \ {i} : messages'[j] = messages[j]
    BY <2>1 DEF IInv, TypeOK
  <2>3. i \notin R /\ messages[i].status = "absent"
    BY <2>1 DEF Insertable, Stored, RowsIn
  <2>4. IsFiniteSet(R) /\ k \in Nat /\ {messages[j].number : j \in R} = 1..k
    BY FS_CardinalityType DEF IInv, Numbers, Numbered
  <2>5. row.number = k + 1
    <3>1. \A j \in R : messages[j].number # row.number
      BY <2>1, RowsNow DEF Insertable
    <3>2. row.number \notin 1..k
      BY <2>4, <3>1
    <3>3. row.number \in 1..(k + 1)
      BY DEF Read
    <3>4. QED
      BY <2>4, <3>2, <3>3
  <2>6. RowsIn(messages', d) = R \cup {i}
    BY <2>2, <2>3 DEF RowsIn
  <2>7. IsFiniteSet(RowsIn(messages', d)) /\ Cardinality(RowsIn(messages', d)) = k + 1
    BY <2>3, <2>4, <2>6, FS_AddElement
  <2>8. {messages'[j].number : j \in RowsIn(messages', d)} = 1..(k + 1)
    <3>1. {messages'[j].number : j \in R \cup {i}} = {messages[j].number : j \in R} \cup {k + 1}
      <4>1. \A j \in R : messages'[j].number = messages[j].number
        BY <2>2, <2>3 DEF RowsIn
      <4>2. messages'[i].number = k + 1
        BY <2>2, <2>5
      <4>3. QED
        BY <4>1, <4>2
    <3>2. QED
      BY <2>4, <2>6, <3>1
  <2>9. ASSUME NEW c \in Conv, c # d
        PROVE  /\ RowsIn(messages', c) = RowsIn(messages, c)
               /\ {messages'[j].number : j \in RowsIn(messages', c)}
                    = {messages[j].number : j \in RowsIn(messages, c)}
    <3>1. RowsIn(messages', c) = RowsIn(messages, c)
      BY <2>2, <2>3, <2>9 DEF RowsIn
    <3>2. \A j \in RowsIn(messages, c) : messages'[j] = messages[j]
      BY <2>2, <2>3 DEF RowsIn
    <3>3. QED
      BY <3>1, <3>2
  <2>10. Numbered(messages')
    BY <2>7, <2>8, <2>9 DEF Numbered, IInv, Numbers
  <2>11. \A c \in Conv : \A n : Read(n, c) => n \in 1..(Cardinality(RowsIn(messages', c)) + 1)
    BY <2>4, <2>7, <2>9 DEF Read
  <2>12. QED
    BY <2>10, <2>11 DEF Numbered, Read, RowsIn
<1>3. QED
  BY <1>1, <1>2

LEMMA Itself == ASSUME IInv PROVE SameRows(messages, messages) /\ SameRows(durable, durable)
BY DEF SameRows

(* UPDATE ... SET status of a row that is there. *)
LEMMA WriteRows ==
  ASSUME IInv, NEW t \in Task, NEW s, s # "absent", SetStatus(task[t].msg, s),
         task[t].pc \in {"dispatch", "record", "settle"}
  PROVE  SameRows(messages', messages)
<1>1. PICK n \in MsgId : n = task[t].msg
  BY DEF IInv, Owners, TaskShape, Shape
<1>2. messages[n].status # "absent"
  BY <1>1 DEF IInv, Owners, Rows, TaskRow, Working, Now
<1>3. /\ messages'[n].status = s
      /\ messages'[n].number = messages[n].number /\ messages'[n].of = messages[n].of
      /\ \A i \in Id \ {n} : messages'[i] = messages[i]
  BY <1>1, StatusFields DEF Now
<1>4. QED
  BY <1>2, <1>3 DEF SameRows

LEMMA WriteNumbers ==
  ASSUME IInv, NEW t \in Task, Dispatch(t) \/ Record(t) \/ Settle(t) PROVE Numbers'
<1>1. PICK s, pc :
        /\ s # "absent" /\ pc # "insert"
        /\ SetStatus(task[t].msg, s) /\ Goto(t, pc)
        /\ task[t].pc \in {"dispatch", "record", "settle"}
        /\ UNCHANGED <<durable, req>>
  BY DEF Dispatch, Record, Settle, At, IInv, Owners, TaskShape, Shape, Terminal
<1>2. SameRows(messages', messages)
  BY <1>1, WriteRows
<1>3. \A u \in Task : task'[u].pc = "insert" => task'[u] = task[u]
  BY <1>1, GotoFields
<1>4. QED
  BY <1>1, <1>2, <1>3, Itself, NumbersGoOn

(* Steps of tasks that write no row. *)
LEMMA TaskNumbers ==
  ASSUME IInv, NEW t \in Task, UNCHANGED <<messages, req>>,
         durable' = durable \/ durable' = messages,
         \A u \in Task \ {t} : task'[u] = task[u],
         task'[t].pc # "insert"
  PROVE  Numbers'
<1>1. \A u \in Task : task'[u].pc = "insert" => task'[u] = task[u]
  OBVIOUS
<1>2. QED
  BY <1>1, Itself, NumbersGoOn

LEMMA WakeupNumbers ==
  ASSUME IInv, NEW t \in Task, Wakeup(t), ~ ReplyInsert(t), ~ ReplyNumber(t) PROVE Numbers'
<1>1. CASE Dispatch(t) \/ Record(t) \/ Settle(t)
  BY <1>1, WriteNumbers
<1>2. CASE \/ DispatchCommit(t) \/ RecordCommit(t) \/ SettleCommit(t)
           \/ Prompt(t) \/ Repost(t) \/ Unanswered(t) \/ Collect(t)
  <2>1. PICK pc : pc # "insert" /\ Goto(t, pc)
    BY <1>2
    DEF DispatchCommit, RecordCommit, SettleCommit, Prompt, Repost, Unanswered, Collect
  <2>2. QED
    BY <1>2, <2>1, GotoFields, TaskNumbers
    DEF DispatchCommit, RecordCommit, SettleCommit, Prompt, Repost, Unanswered, Collect, Commit
<1>3. CASE CreateRefused(t) \/ SpawnFails(t) \/ GiveUp(t) \/ ReplyCommit(t)
  <2>1. PICK outcome : SettleWith(t, outcome)
    BY <1>3 DEF CreateRefused, SpawnFails, GiveUp, ReplyCommit
  <2>2. QED
    BY <1>3, <2>1, SettleFields, TaskNumbers
    DEF CreateRefused, SpawnFails, GiveUp, ReplyCommit, Commit
<1>4. CASE CreateCallee(t)
  <2>1. task'[t].pc = "record" /\ \A u \in Task \ {t} : task'[u] = task[u]
    BY <1>4 DEF CreateCallee, IInv, TypeOK, TaskType
  <2>2. QED
    BY <1>4, <2>1, TaskNumbers DEF CreateCallee
<1>5. CASE KillCallee(t)
  <2>1. task'[t].pc = "free" /\ \A u \in Task \ {t} : task'[u] = task[u]
    BY <1>5 DEF KillCallee, IInv, TypeOK, NoTask
  <2>2. QED
    BY <1>5, <2>1, TaskNumbers DEF KillCallee
<1>6. QED
  BY <1>1, <1>2, <1>3, <1>4, <1>5 DEF Wakeup

LEMMA ReplyNumberNumbers == ASSUME IInv, NEW t \in Task, ReplyNumber(t) PROVE Numbers'
<1>1. /\ task'[t].msg \in MsgId /\ task'[t].number = NextNumber(ConvOf[task'[t].msg])
      /\ \A u \in Task \ {t} : task'[u] = task[u]
  <2> DEFINE n == NextNumber(ConvOf[task[t].msg])
  <2>1. task' = [task EXCEPT ![t] = [task[t] EXCEPT !.pc = "insert", !.number = n]]
    BY DEF ReplyNumber
  <2>2. task[t].msg \in MsgId
    BY DEF ReplyNumber, At, IInv, Owners, TaskShape, Shape
  <2> HIDE DEF n
  <2>3. task'[t].msg = task[t].msg /\ task'[t].number = n
    BY <2>1 DEF IInv, TypeOK, TaskType
  <2>4. \A u \in Task \ {t} : task'[u] = task[u]
    BY <2>1 DEF IInv, TypeOK
  <2>5. QED
    BY <2>2, <2>3, <2>4 DEF n
<1>2. QED
  BY <1>1, Itself, NumbersGoOn DEF ReplyNumber

LEMMA ReadsKept ==
  ASSUME IInv, \A c \in Conv : \A n : Read(n, c) => Read(n, c)',
         \A r \in Req : req'[r].pc = "insert" => req'[r] = req[r],
         \A t \in Task : task'[t].pc = "insert" => task'[t] = task[t]
  PROVE  /\ \A r \in Req : req'[r].pc = "insert" => Read(req[r].number, ConvOf[req[r].msg])'
         /\ \A t \in Task : task'[t].pc = "insert" => Read(task[t].number, ConvOf[task[t].msg])'
<1>1. ASSUME NEW r \in Req, req'[r].pc = "insert"
      PROVE  Read(req[r].number, ConvOf[req[r].msg])'
  <2>1. req'[r] = req[r] /\ ConvOf[req[r].msg] \in Conv
    BY <1>1, ConvOfMsg DEF IInv, Owners, ReqShape
  <2>2. Read(req[r].number, ConvOf[req[r].msg])
    BY <1>1, <2>1 DEF IInv, Numbers
  <2>3. QED
    BY <2>1, <2>2
<1>2. ASSUME NEW t \in Task, task'[t].pc = "insert"
      PROVE  Read(task[t].number, ConvOf[task[t].msg])'
  <2>1. task'[t] = task[t] /\ ConvOf[task[t].msg] \in Conv
    BY <1>2, ConvOfMsg DEF IInv, Owners, TaskShape, Shape
  <2>2. Read(task[t].number, ConvOf[task[t].msg])
    BY <1>2, <2>1 DEF IInv, Numbers
  <2>3. QED
    BY <2>1, <2>2
<1>3. QED
  BY <1>1, <1>2

LEMMA ReplyInsertNumbers == ASSUME IInv, NEW t \in Task, ReplyInsert(t) PROVE Numbers'
<1>1. PICK i \in ReplyId : InsertOrIgnore(i, [status |-> "completed", number |-> task[t].number,
                                              of |-> task[t].msg])
  BY DEF ReplyInsert
<1> DEFINE row == [status |-> "completed", number |-> task[t].number, of |-> task[t].msg]
<1>2. row \in Row /\ row.status # "absent" /\ row.of = task[t].msg /\ row.number = task[t].number
  BY DEF IInv, TypeOK, Row, Status, Terminal, TaskType
<1>3. task[t].msg \in MsgId
  BY DEF ReplyInsert, At, IInv, Owners, TaskShape, Shape
<1>4. /\ ConvOfRow(i, row.of) = ConvOf[task[t].msg] /\ ConvOf[task[t].msg] \in Conv
  BY <1>2, <1>3, ConstantsAssumption DEF ConvOfRow
<1>5. Read(row.number, ConvOfRow(i, row.of))
  BY <1>2, <1>4 DEF ReplyInsert, At, IInv, Numbers
<1> HIDE DEF row
<1>6. Numbered(messages)' /\ \A c \in Conv : \A n : Read(n, c) => Read(n, c)'
  BY <1>1, <1>2, <1>4, <1>5, MsgInId, Inserting DEF row
<1>7. \A u \in Task : task'[u].pc = "insert" => task'[u] = task[u]
  BY GotoFields DEF ReplyInsert
<1>8. /\ \A r \in Req : req'[r].pc = "insert" => Read(req[r].number, ConvOf[req[r].msg])'
      /\ \A u \in Task : task'[u].pc = "insert" => Read(task[u].number, ConvOf[task[u].msg])'
  <2>1. req' = req
    BY DEF ReplyInsert
  <2>2. QED
    BY <1>6, <1>7, <2>1, ReadsKept
<1>9. \A j \in Id : messages'[j] = messages[j] \/ (j = i /\ messages'[j] = row)
  BY <1>1, MsgInId DEF InsertOrIgnore, IInv, TypeOK, row
<1>10. \A j \in ReplyId : messages'[j].status # "absent" => messages'[j].of \in MsgId
  BY <1>2, <1>3, <1>9, MsgInId DEF IInv, Numbers
<1>11. \A j \in MsgId : messages'[j].of = NoMsg
  BY <1>9, MsgInId, ConstantsAssumption DEF IInv, Numbers
<1>12. QED
  BY <1>6, <1>7, <1>8, <1>10, <1>11 DEF ReplyInsert, IInv, Numbers

LEMMA PostInsertNumbers == ASSUME IInv, NEW r \in Req, PostInsert(r) PROVE Numbers'
<1> DEFINE row == [status |-> "pending", number |-> req[r].number, of |-> NoMsg]
<1>1. PICK i \in MsgId : i = req[r].msg
  BY DEF PostInsert, IInv, Owners, ReqShape
<1>2. InsertOrIgnore(i, row)
  BY <1>1 DEF PostInsert
<1>3. row \in Row /\ row.status # "absent" /\ row.of = NoMsg /\ row.number = req[r].number
  BY DEF IInv, TypeOK, Row, Status, ReqType
<1>4. /\ ConvOfRow(i, row.of) = ConvOf[i] /\ ConvOf[i] \in Conv
  BY <1>3, ConstantsAssumption DEF ConvOfRow
<1>5. Read(row.number, ConvOfRow(i, row.of))
  BY <1>1, <1>3, <1>4 DEF PostInsert, IInv, Numbers
<1> HIDE DEF row
<1>6. Numbered(messages)' /\ \A c \in Conv : \A n : Read(n, c) => Read(n, c)'
  BY <1>2, <1>3, <1>4, <1>5, MsgInId, Inserting
<1>7. \A q \in Req : req'[q].pc = "insert" => req'[q] = req[q]
  BY DEF PostInsert, IInv, TypeOK, ReqType
<1>8. /\ \A q \in Req : req'[q].pc = "insert" => Read(req[q].number, ConvOf[req[q].msg])'
      /\ \A u \in Task : task'[u].pc = "insert" => Read(task[u].number, ConvOf[task[u].msg])'
  <2>1. task' = task
    BY DEF PostInsert
  <2>2. QED
    BY <1>6, <1>7, <2>1, ReadsKept
<1>9. \A j \in Id : messages'[j] = messages[j] \/ (j = i /\ messages'[j] = row)
  BY <1>2, MsgInId DEF InsertOrIgnore, IInv, TypeOK
<1>10. \A j \in ReplyId : messages'[j].status # "absent" => messages'[j].of \in MsgId
  BY <1>9, MsgInId, ConstantsAssumption DEF IInv, Numbers
<1>11. \A j \in MsgId : messages'[j].of = NoMsg
  BY <1>3, <1>9, MsgInId DEF IInv, Numbers
<1>12. QED
  BY <1>6, <1>7, <1>8, <1>10, <1>11 DEF PostInsert, IInv, Numbers

LEMMA PostNumbers ==
  ASSUME IInv, NEW r \in Req,
         (\E m \in MsgId : Post(r, m)) \/ PostCommit(r) \/ PostRespond(r)
  PROVE  Numbers'
<1>1. \A q \in Req : req'[q].pc = "insert" => req'[q] = req[q]
  <2>1. PICK x : x.pc # "insert" /\ req' = [req EXCEPT ![r] = x]
    <3>1. ASSUME NEW m \in MsgId, Post(r, m) PROVE \E x : x.pc # "insert" /\ req' = [req EXCEPT ![r] = x]
      <4>1. [req[r] EXCEPT !.pc = "number", !.msg = m].pc # "insert"
        BY DEF IInv, TypeOK, ReqType
      <4>2. QED
        BY <3>1, <4>1 DEF Post
    <3>2. CASE PostCommit(r)
      <4>1. [req[r] EXCEPT !.pc = "respond"].pc # "insert"
        BY DEF IInv, TypeOK, ReqType
      <4>2. QED
        BY <3>2, <4>1 DEF PostCommit
    <3>3. CASE PostRespond(r)
      <4>1. \A a : [req[r] EXCEPT !.pc = "done", !.response = a].pc # "insert"
        BY DEF IInv, TypeOK, ReqType
      <4>2. QED
        BY <3>3, <4>1 DEF PostRespond
    <3>4. QED
      BY <3>1, <3>2, <3>3
  <2>2. QED
    BY <2>1 DEF IInv, TypeOK
<1>2. \A t \in Task : task'[t].pc = "insert" => task'[t] = task[t]
  BY DEF Post, PostCommit, PostRespond, IInv, TypeOK, NewTask, NoTask
<1>3. UNCHANGED messages /\ (durable' = durable \/ durable' = messages)
  BY DEF Post, PostCommit, PostRespond, Commit
<1>4. QED
  BY <1>1, <1>2, <1>3, Itself, NumbersGoOn

LEMMA PostNumberNumbers == ASSUME IInv, NEW r \in Req, PostNumber(r) PROVE Numbers'
<1>1. /\ req'[r].msg \in MsgId /\ req'[r].number = NextNumber(ConvOf[req'[r].msg])
      /\ \A q \in Req \ {r} : req'[q] = req[q]
  <2> DEFINE n == NextNumber(ConvOf[req[r].msg])
  <2>1. req' = [req EXCEPT ![r] = [req[r] EXCEPT !.pc = "insert", !.number = n]]
    BY DEF PostNumber
  <2>2. req[r].msg \in MsgId
    BY DEF PostNumber, IInv, Owners, ReqShape
  <2> HIDE DEF n
  <2>3. req'[r].msg = req[r].msg /\ req'[r].number = n
    BY <2>1 DEF IInv, TypeOK, ReqType
  <2>4. \A q \in Req \ {r} : req'[q] = req[q]
    BY <2>1 DEF IInv, TypeOK
  <2>5. QED
    BY <2>2, <2>3, <2>4 DEF n
<1>2. QED
  BY <1>1, Itself, NumbersGoOn DEF PostNumber

(* What a crash leaves was numbered without gaps when it was committed. *)
LEMMA CrashNumbers == ASSUME IInv, Crash PROVE Numbers'
<1>1. /\ messages' = durable /\ durable' = durable
      /\ \A t \in Task : task'[t].pc # "insert"
      /\ \A r \in Req : req'[r].pc # "insert"
  BY DEF Crash, NoTask, IInv, TypeOK, ReqType
<1>2. SameRows(messages', durable) /\ SameRows(durable', durable)
  BY <1>1 DEF SameRows
<1>3. Numbered(messages)' /\ Numbered(durable)'
  BY <1>2, SameNumbered DEF IInv, Numbers
<1>4. QED
  BY <1>1, <1>3 DEF IInv, Numbers

LEMMA RestartNumbers == ASSUME IInv, Restart PROVE Numbers'
<1>1. /\ \A r \in Req : req'[r] = req[r]
      /\ \A t \in Task : task'[t].pc # "insert"
  <2>1. CASE Redispatch
    <3>1. \A t \in Task : task'[t] = NoTask \/ \E m \in MsgId : task'[t] = NewTask(m)
      BY <2>1, Redispatched, PendingAreMessages
    <3>2. QED
      <4>1. NoTask.pc = "free" /\ \A m \in MsgId : NewTask(m).pc = "dispatch"
        BY DEF NewTask, NoTask
      <4>2. QED
        BY <2>1, <3>1, <4>1 DEF Redispatch
  <2>2. CASE StartSessions \/ FailDispatched
    BY <2>2 DEF StartSessions, FailDispatched, IInv, Owners, Quiet, NoTask
  <2>3. QED
    BY <2>1, <2>2 DEF Restart
<1>2. SameRows(messages', messages) /\ (durable' = durable \/ durable' = messages')
  <2>1. CASE FailDispatched
    BY <2>1 DEF FailDispatched, SameRows, IInv, TypeOK, Row
  <2>2. CASE StartSessions \/ Redispatch
    BY <2>2, Itself DEF StartSessions, Redispatch
  <2>3. QED
    BY <2>1, <2>2 DEF Restart
<1>3. QED
  BY <1>1, <1>2, Itself, NumbersGoOn

LEMMA NumbersInit == Init => Numbers
<1> SUFFICES ASSUME Init PROVE Numbers
  OBVIOUS
<1>1. \A c : RowsIn(messages, c) = {} /\ RowsIn(durable, c) = {}
  BY DEF Init, RowsIn, NoRow
<1>2. \A i \in Id : messages[i] = NoRow /\ durable[i] = NoRow
  BY DEF Init
<1>3. Numbered(messages) /\ Numbered(durable)
  <2>1. IsFiniteSet({}) /\ Cardinality({}) = 0 /\ 1..0 = {}
    BY FS_EmptySet
  <2>2. QED
    BY <1>1, <2>1 DEF Numbered
<1>4. QED
  BY <1>2, <1>3, MsgInId DEF Init, Numbers, NoRow, NoTask

LEMMA NumbersStep == ASSUME IInv, [Next]_vars PROVE Numbers'
<1>1. ASSUME NEW r \in Req, Handler(r) PROVE Numbers'
  BY <1>1, PostNumberNumbers, PostInsertNumbers, PostNumbers DEF Handler
<1>2. ASSUME NEW t \in Task, Wakeup(t) PROVE Numbers'
  BY <1>2, WakeupNumbers, ReplyNumberNumbers, ReplyInsertNumbers
<1>3. CASE UNCHANGED vars \/ \E s \in Session : ReapCallee(s)
  <2>1. UNCHANGED <<messages, durable, task, req>>
    BY <1>3 DEF vars, ReapCallee
  <2>2. QED
    BY <2>1, Itself, NumbersGoOn
<1>4. QED
  BY <1>1, <1>2, <1>3, PostNumbers, CrashNumbers, RestartNumbers DEF Next

-----------------------------------------------------------------------------
LEMMA IInvInit == Init => IInv
BY TypeInit, OwnersInit, NumbersInit DEF IInv

LEMMA IInvStep == IInv /\ [Next]_vars => IInv'
BY TypeStep, OwnersStep, NumbersStep DEF IInv

LEMMA IInvAlways == Spec => []IInv
BY IInvInit, IInvStep, PTL DEF Spec

(* The tables, the tasks and the requests are what they should be.         *)
THEOREM BrokerTypes == Spec => []TypeOK
BY IInvAlways, PTL DEF IInv

(* However often a message is posted, and whatever is recovered after a    *)
(* crash, one task at most works on it.                                    *)
THEOREM WokenOnce == Spec => []OneTaskPerMessage
<1>1. IInv => OneTaskPerMessage
  BY DEF IInv, Owners, OneOwner
<1>2. QED
  BY <1>1, IInvAlways, PTL

(* A message that was answered with "dispatched" survives every crash.     *)
THEOREM AcknowledgedSurvives == Spec => []AcknowledgedIsDurable
<1>1. IInv => AcknowledgedIsDurable
  BY DEF IInv, Owners, Acknowledged, AcknowledgedIsDurable, Saved
<1>2. QED
  BY <1>1, IInvAlways, PTL

(* Messages and replies of a conversation are numbered 1..n, however the   *)
(* awaits between reading a number and using it interleave.                *)
THEOREM NoGaps == Spec => []NumbersContiguous
<1>1. IInv => NumbersContiguous
  BY RowsNow DEF IInv, Numbers, Numbered, NumbersContiguous
<1>2. QED
  BY <1>1, IInvAlways, PTL
=============================================================================
