------------------------ MODULE BrokerDeliveryProofs ------------------------
(***************************************************************************)
(* The broker keeps its promise: Broker implements BrokerDelivery, for     *)
(* every set of messages, requests, tasks and sessions and any number of   *)
(* crashes.                                                                *)
(*                                                                         *)
(* What the promise needs beyond BrokerProofs is what is known of the      *)
(* callee sessions, that a message has one only once its dispatch is saved,*)
(* which no crash takes back, and that a task which has yet to create one  *)
(* finds none (Callees); and what is known of the replies, that there is   *)
(* none before its task has stored one and none to a message that timed    *)
(* out (Answers).                                                          *)
(***************************************************************************)
EXTENDS BrokerProofs

Dispatched == {"dispatched"} \cup Terminal

CalleeRow(s) ==
  /\ callee[s].state = "none" <=> callee[s].msg = NoMsg
  /\ callee[s].heard \in {0, 1}
  /\ callee[s].msg = NoMsg => callee[s].heard = 0
  /\ callee[s].msg # NoMsg => Saved(callee[s].msg) \in Dispatched

(* The steps before there is a callee, with it before the prompt is taken  *)
(* up, and after the prompt.                                               *)
Early == {"dispatch", "dispatchCommit", "create"}
Created == {"record", "recordCommit", "prompt", "reprompt"}
Prompted == {"collect", "number", "insert", "insertCommit"}
Ending == {"settle", "settleCommit", "kill"}

TaskCallee(t) ==
  LET m == task[t].msg
      s == task[t].session
  IN /\ task[t].pc \in Early \cup {"free"} => s = NoSession
     /\ task[t].pc \in Early => \A x \in Session : callee[x].msg # m
     /\ task[t].pc \in Created \cup Prompted => s \in Session
     /\ s \in Session => callee[s].msg = m
     /\ task[t].pc \in Created => callee[s].heard = 0

Callees ==
  /\ \A s \in Session : CalleeRow(s)
  /\ AtMostOneCallee
  /\ \A t \in Task : TaskCallee(t)

DInv == IInv /\ Callees

(* Who will kill a running callee. *)
Watched ==
  /\ gateway \in {"started", "recovered"} => \A s \in Session : callee[s].state # "running"
  /\ CalleeWatched

WInv == DInv /\ Watched

-----------------------------------------------------------------------------
(* Steps that leave the callees what they are *)

SameCallees ==
  \A s \in Session : /\ callee'[s].msg = callee[s].msg
                     /\ callee'[s].heard = callee[s].heard
                     /\ callee'[s].state = "none" <=> callee[s].state = "none"

(* A dispatch that is saved stays so. *)
RowsOnward == \A m \in MsgId : Saved(m) \in Dispatched => Saved(m)' \in Dispatched

LEMMA StepKept ==
  ASSUME DInv, SameCallees, RowsOnward,
         \A t \in Task : task'[t] = task[t] \/ TaskCallee(t)'
  PROVE  Callees'
<1> USE DEF DInv, Callees
<1>2. \A s \in Session : CalleeRow(s)'
  <2> SUFFICES ASSUME NEW s \in Session PROVE CalleeRow(s)'
    OBVIOUS
  <2>1. callee[s].msg \in MsgId \cup {NoMsg}
    BY DEF IInv, TypeOK, CalleeType
  <2>2. QED
    BY <2>1 DEF CalleeRow, SameCallees, RowsOnward
<1>3. AtMostOneCallee'
  BY DEF AtMostOneCallee, SameCallees
<1>4. \A t \in Task : TaskCallee(t)'
  BY DEF TaskCallee, SameCallees
<1>5. QED
  BY <1>2, <1>3, <1>4

LEMMA TaskOnward ==
  ASSUME DInv, SameCallees, NEW t \in Task,
         \/ task'[t] = NoTask
         \/ /\ task'[t].msg = task[t].msg /\ task'[t].session = task[t].session
            /\ \/ {task[t].pc, task'[t].pc} \subseteq Early
               \/ {task[t].pc, task'[t].pc} \subseteq Created
               \/ task[t].pc \in Created \cup Prompted /\ task'[t].pc \in Prompted
               \/ task'[t].pc \in Ending
  PROVE  TaskCallee(t)'
<1>1. CASE task'[t] = NoTask
  BY <1>1, ConstantsAssumption DEF TaskCallee, NoTask, Early, Created, Prompted, Ending
<1>2. CASE task'[t] # NoTask
  BY <1>2 DEF DInv, Callees, TaskCallee, SameCallees, Early, Created, Prompted, Ending
<1>3. QED
  BY <1>1, <1>2

LEMMA StillRows == ASSUME IInv, UNCHANGED <<messages, durable>> PROVE RowsOnward
BY DEF RowsOnward, Saved

LEMMA CommitRows == ASSUME IInv, Commit, UNCHANGED messages PROVE RowsOnward
<1>1. \A m \in MsgId : Now(m)' = Now(m) /\ Saved(m)' = Now(m)
  BY DEF Commit, Now, Saved
<1>2. QED
  BY <1>1 DEF IInv, Owners, Behind, OneBehind, RowsOnward, Dispatched, Terminal

LEMMA Untouched == ASSUME UNCHANGED callee PROVE SameCallees
BY DEF SameCallees

(* The steps of a task that neither create nor prompt. *)
LEMMA GotoCallees ==
  ASSUME DInv, NEW t \in Task, NEW pc, Goto(t, pc), UNCHANGED callee, RowsOnward,
         \/ {task[t].pc, pc} \subseteq Early \/ {task[t].pc, pc} \subseteq Created
         \/ task[t].pc \in Created \cup Prompted /\ pc \in Prompted
         \/ pc \in Ending
  PROVE  Callees'
<1>1. TaskCallee(t)'
  BY GotoFields, TaskOnward, Untouched DEF DInv
<1>2. QED
  BY <1>1, GotoFields, StepKept, Untouched DEF DInv

LEMMA SettleCallees ==
  ASSUME DInv, NEW t \in Task, NEW outcome, SettleWith(t, outcome), UNCHANGED callee,
         RowsOnward
  PROVE  Callees'
<1>1. TaskCallee(t)'
  <2>1. "settle" \in Ending
    BY DEF Ending
  <2>2. QED
    BY <2>1, SettleFields, TaskOnward, Untouched DEF DInv
<1>2. QED
  BY <1>1, SettleFields, StepKept, Untouched DEF DInv

LEMMA DispatchCallees == ASSUME DInv, NEW t \in Task, Dispatch(t) \/ Record(t) PROVE Callees'
<1>1. RowsOnward
  BY DEF RowsOnward, Dispatch, Record, Saved
<1>2. QED
  BY <1>1, GotoCallees DEF Dispatch, Record, At, Early, Created

LEMMA SettleStepCallees == ASSUME DInv, NEW t \in Task, Settle(t) PROVE Callees'
<1>1. RowsOnward
  BY DEF RowsOnward, Settle, Saved
<1>2. QED
  BY <1>1, GotoCallees DEF Settle, At, Ending

LEMMA CommitCallees ==
  ASSUME DInv, NEW t \in Task, DispatchCommit(t) \/ RecordCommit(t) \/ SettleCommit(t)
  PROVE  Callees'
<1>1. RowsOnward
  BY CommitRows DEF DInv, DispatchCommit, RecordCommit, SettleCommit
<1>2. QED
  BY <1>1, GotoCallees
  DEF DispatchCommit, RecordCommit, SettleCommit, At, Early, Created, Ending

LEMMA MoveCallees ==
  ASSUME DInv, NEW t \in Task,
         \/ Repost(t) \/ Unanswered(t) \/ Collect(t)
         \/ CreateRefused(t) \/ GiveUp(t) \/ ReplyCommit(t)
  PROVE  Callees'
<1>1. CASE Repost(t) \/ Unanswered(t) \/ Collect(t)
  BY <1>1, StillRows, GotoCallees
  DEF DInv, Repost, Unanswered, Collect, Posting, At, Created, Prompted
<1>2. CASE CreateRefused(t) \/ GiveUp(t)
  BY <1>2, StillRows, SettleCallees DEF DInv, CreateRefused, GiveUp
<1>3. CASE ReplyCommit(t)
  BY <1>3, CommitRows, SettleCallees DEF DInv, ReplyCommit
<1>4. QED
  BY <1>1, <1>2, <1>3

LEMMA ReplyNumberCallees == ASSUME DInv, NEW t \in Task, ReplyNumber(t) PROVE Callees'
<1>1. /\ task'[t].pc = "insert" /\ task'[t].msg = task[t].msg
      /\ task'[t].session = task[t].session
      /\ \A u \in Task \ {t} : task'[u] = task[u]
  <2> DEFINE n == NextNumber(ConvOf[task[t].msg])
  <2>1. task' = [task EXCEPT ![t] = [task[t] EXCEPT !.pc = "insert", !.number = n]]
    BY DEF ReplyNumber
  <2> HIDE DEF n
  <2>2. QED
    BY <2>1 DEF DInv, IInv, TypeOK, TaskType
<1>2. TaskCallee(t)'
  BY <1>1, TaskOnward, Untouched DEF ReplyNumber, At, Prompted
<1>3. QED
  BY <1>1, <1>2, StillRows, StepKept, Untouched DEF DInv, ReplyNumber

LEMMA ReplyInsertCallees == ASSUME DInv, NEW t \in Task, ReplyInsert(t) PROVE Callees'
<1>1. RowsOnward
  BY DEF RowsOnward, ReplyInsert, Saved
<1>2. QED
  BY <1>1, GotoCallees DEF ReplyInsert, At, Prompted

LEMMA KillCallees == ASSUME DInv, NEW t \in Task, KillCallee(t) PROVE Callees'
<1>1. /\ task'[t] = NoTask /\ \A u \in Task \ {t} : task'[u] = task[u]
  BY DEF KillCallee, DInv, IInv, TypeOK
<1>2. SameCallees
  <2> SUFFICES ASSUME NEW s \in Session
               PROVE  /\ callee'[s].msg = callee[s].msg
                      /\ callee'[s].heard = callee[s].heard
                      /\ callee'[s].state = "none" <=> callee[s].state = "none"
    BY DEF SameCallees
  <2>1. CASE s = task[t].session
    <3>1. callee'[s] = [callee[s] EXCEPT !.state = "closed"]
      BY <2>1 DEF KillCallee
    <3>2. callee[s].msg \in MsgId
      BY <2>1 DEF KillCallee, At, DInv, IInv, Owners, TaskShape, Shape, Callees, TaskCallee
    <3>3. callee[s].state # "none"
      BY <3>2, ConstantsAssumption DEF DInv, Callees, CalleeRow
    <3>4. QED
      BY <3>1, <3>3 DEF DInv, IInv, TypeOK, CalleeType
  <2>2. CASE s # task[t].session
    BY <2>2 DEF KillCallee
  <2>3. QED
    BY <2>1, <2>2
<1>3. QED
  BY <1>1, <1>2, TaskOnward, StillRows, StepKept DEF DInv, KillCallee

-----------------------------------------------------------------------------
(* Creating a callee and prompting it *)

(* Both steps of create_session leave a session for the message.           *)
LEMMA CreateStep ==
  ASSUME DInv, NEW t \in Task, At(t, "create"), UNCHANGED <<messages, durable>>,
         NEW s \in Session, callee[s].state = "none", NEW lost \in BOOLEAN,
         callee' = [callee EXCEPT ![s] = NewCallee(task[t].msg, lost)],
         task'[t].msg = task[t].msg,
         \/ task'[t].pc = "record" /\ task'[t].session = s
         \/ task'[t].pc = "settle" /\ task'[t].session = NoSession,
         \A u \in Task \ {t} : task'[u] = task[u]
  PROVE  Callees'
<1>1. PICK n \in MsgId : n = task[t].msg
  BY DEF DInv, IInv, Owners, TaskShape, Shape, At
<1> USE DEF DInv, Callees
<1>2. /\ callee'[s].state = "running" /\ callee'[s].msg = n /\ callee'[s].heard = 0
      /\ \A x \in Session \ {s} : callee'[x] = callee[x]
  BY <1>1 DEF NewCallee, IInv, TypeOK
<1>3. callee[s].msg = NoMsg
  BY DEF CalleeRow
<1>4. /\ \A x \in Session : callee[x].msg # n
      /\ Saved(n) = "dispatched"
  BY <1>1 DEF TaskCallee, At, Early, IInv, Owners, Rows, TaskRow, Working
<1>6. \A x \in Session : CalleeRow(x)'
  BY <1>1, <1>2, <1>4, ConstantsAssumption DEF CalleeRow, Saved, Dispatched
<1>7. AtMostOneCallee'
  BY <1>2, <1>4 DEF AtMostOneCallee
<1>8. TaskCallee(t)'
  BY <1>1, <1>2, ConstantsAssumption DEF TaskCallee, Early, Created, Prompted, Ending
<1>9. ASSUME NEW u \in Task \ {t} PROVE TaskCallee(u)'
  <2>1. task'[u] = task[u] /\ TaskCallee(u) /\ task[u].msg # n
    BY <1>1, ConstantsAssumption DEF IInv, Owners, OneOwner, OneTaskPerMessage
  <2>2. task[u].session # s
    <3>1. CASE task[u].pc = "free"
      BY <2>1, <3>1, ConstantsAssumption DEF TaskCallee
    <3>2. CASE task[u].pc # "free"
      BY <1>3, <2>1, <3>2, ConstantsAssumption DEF TaskCallee, IInv, Owners, TaskShape, Shape
    <3>3. QED
      BY <3>1, <3>2
  <2>3. QED
    BY <1>2, <2>1, <2>2 DEF TaskCallee
<1>10. QED
  BY <1>6, <1>7, <1>8, <1>9

LEMMA CreateCallees ==
  ASSUME DInv, NEW t \in Task, CreateCallee(t) \/ SpawnFails(t) PROVE Callees'
<1>1. CASE CreateCallee(t)
  <2>1. PICK s \in Session :
          /\ callee[s].state = "none"
          /\ callee' = [callee EXCEPT ![s] = NewCallee(task[t].msg, FALSE)]
          /\ task' = [task EXCEPT ![t] = [task[t] EXCEPT !.pc = "record", !.session = s]]
    BY <1>1 DEF CreateCallee
  <2>2. task'[t].msg = task[t].msg /\ task'[t].pc = "record" /\ task'[t].session = s
    BY <2>1 DEF DInv, IInv, TypeOK, TaskType
  <2>3. \A u \in Task \ {t} : task'[u] = task[u]
    BY <2>1 DEF DInv, IInv, TypeOK
  <2>4. QED
    BY <1>1, <2>1, <2>2, <2>3, CreateStep DEF CreateCallee
<1>2. CASE SpawnFails(t)
  <2>1. PICK s \in Session, outcome \in {"failed", "timed_out"} :
          /\ callee[s].state = "none"
          /\ callee' = [callee EXCEPT ![s] = NewCallee(task[t].msg, TRUE)]
          /\ SettleWith(t, outcome)
    BY <1>2 DEF SpawnFails
  <2>2. task[t].session = NoSession
    BY <1>2 DEF SpawnFails, At, DInv, Callees, TaskCallee, Early
  <2>3. QED
    BY <1>2, <2>1, <2>2, SettleFields, CreateStep DEF SpawnFails, DInv
<1>3. QED
  BY <1>1, <1>2

(* The one callee of the message gets its prompt. *)
LEMMA PromptFields ==
  ASSUME DInv, NEW t \in Task, Prompt(t)
  PROVE  \E n \in MsgId, s \in Session :
           /\ task[t].msg = n /\ task[t].session = s
           /\ callee[s].msg = n /\ callee[s].heard = 0
           /\ callee'[s].msg = n /\ callee'[s].heard = 1 /\ callee'[s].state = callee[s].state
           /\ \A x \in Session \ {s} : callee'[x] = callee[x]
           /\ Saved(n) = "dispatched" /\ Now(n) = "dispatched"
<1>1. task[t].msg \in MsgId /\ task[t].session \in Session /\ TaskCallee(t) /\ TaskRow(t)
  BY DEF Prompt, Posting, DInv, IInv, Owners, TaskShape, Shape, Rows, Callees, TaskCallee,
         Created
<1>2. callee' = [callee EXCEPT ![task[t].session]
                   = [callee[task[t].session] EXCEPT !.heard = @ + 1]]
  BY DEF Prompt
<1>3. QED
  BY <1>1, <1>2
  DEF Prompt, Posting, TaskCallee, TaskRow, Working, Created, DInv, IInv, TypeOK, CalleeType

LEMMA PromptCallees == ASSUME DInv, NEW t \in Task, Prompt(t) PROVE Callees'
<1>1. PICK n \in MsgId, s \in Session :
        /\ task[t].msg = n /\ task[t].session = s
        /\ callee[s].msg = n /\ callee[s].heard = 0
        /\ callee'[s].msg = n /\ callee'[s].heard = 1 /\ callee'[s].state = callee[s].state
        /\ \A x \in Session \ {s} : callee'[x] = callee[x]
        /\ Saved(n) = "dispatched" /\ Now(n) = "dispatched"
  BY PromptFields
<1> USE DEF DInv, Callees
<1>3. UNCHANGED <<messages, durable>> /\ Goto(t, "collect") /\ task[t].pc \in Created
  BY DEF Prompt, Posting, Created
<1>4. \A x \in Session : CalleeRow(x)'
  BY <1>1, <1>3, ConstantsAssumption DEF CalleeRow, Saved
<1>5. AtMostOneCallee'
  BY <1>1 DEF AtMostOneCallee
<1>6. TaskCallee(t)'
  BY <1>1, <1>3, GotoFields DEF TaskCallee, Early, Created, Prompted, Ending
<1>7. ASSUME NEW u \in Task \ {t} PROVE TaskCallee(u)'
  <2>1. task'[u] = task[u] /\ TaskCallee(u) /\ task[u].msg # n
    BY <1>1, <1>3, GotoFields, ConstantsAssumption DEF IInv, Owners, OneOwner, OneTaskPerMessage
  <2>2. task[u].session # s
    BY <1>1, <2>1 DEF TaskCallee
  <2>3. QED
    BY <1>1, <2>1, <2>2 DEF TaskCallee, Created, Prompted
<1>9. QED
  BY <1>4, <1>5, <1>6, <1>7

LEMMA WakeupCallees == ASSUME DInv, NEW t \in Task, Wakeup(t) PROVE Callees'
BY DispatchCallees, SettleStepCallees, CommitCallees, MoveCallees, ReplyNumberCallees,
   ReplyInsertCallees, KillCallees, CreateCallees, PromptCallees
DEF Wakeup

-----------------------------------------------------------------------------
(* Requests, crash and restart *)

LEMMA PostInsertCallees == ASSUME DInv, NEW r \in Req, PostInsert(r) PROVE Callees'
<1>1. RowsOnward
  BY DEF RowsOnward, PostInsert, Saved
<1>2. QED
  BY <1>1, StepKept, Untouched DEF PostInsert

(* The task of a message that is pending on disk finds no callee for it.   *)
LEMMA NewTaskCallee ==
  ASSUME DInv, NEW t \in Task, NEW m \in MsgId, Saved(m) = "pending", UNCHANGED callee,
         task'[t] = NewTask(m)
  PROVE  TaskCallee(t)'
<1>1. \A x \in Session : callee[x].msg # m
  BY ConstantsAssumption DEF DInv, Callees, CalleeRow, Dispatched, Terminal
<1>2. task'[t].pc = "dispatch" /\ task'[t].msg = m /\ task'[t].session = NoSession
  BY DEF NewTask, NoTask
<1>3. QED
  BY <1>1, <1>2, ConstantsAssumption DEF TaskCallee, Early, Created, Prompted, Ending

LEMMA PostRespondCallees == ASSUME DInv, NEW r \in Req, PostRespond(r) PROVE Callees'
<1>1. PICK n \in MsgId : n = req[r].msg
  BY DEF PostRespond, DInv, IInv, Owners, ReqShape
<1>2. req[r].inserted => Saved(n) = "pending"
  BY <1>1 DEF PostRespond, DInv, IInv, Owners, Rows, AcceptRow, Accepting
<1>3. \A t \in Task : task'[t] = task[t] \/ TaskCallee(t)'
  <2>1. CASE task' = task
    BY <2>1
  <2>2. CASE task' # task
    <3>1. PICK t \in Task : req[r].inserted /\ task' = [task EXCEPT ![t] = NewTask(n)]
      BY <1>1, <2>2 DEF PostRespond
    <3>2. task'[t] = NewTask(n) /\ \A u \in Task \ {t} : task'[u] = task[u]
      BY <3>1 DEF DInv, IInv, TypeOK
    <3>3. QED
      BY <1>2, <3>1, <3>2, NewTaskCallee DEF PostRespond
  <2>3. QED
    BY <2>1, <2>2
<1>4. QED
  BY <1>3, StillRows, StepKept, Untouched DEF DInv, PostRespond

LEMMA HandlerCallees ==
  ASSUME DInv, NEW r \in Req, Handler(r) \/ \E m \in MsgId : Post(r, m) PROVE Callees'
<1>1. CASE PostCommit(r)
  BY <1>1, CommitRows, StepKept, Untouched DEF DInv, PostCommit
<1>2. CASE PostNumber(r) \/ \E m \in MsgId : Post(r, m)
  BY <1>2, StillRows, StepKept, Untouched DEF DInv, PostNumber, Post
<1>3. QED
  BY <1>1, <1>2, PostInsertCallees, PostRespondCallees DEF Handler

LEMMA CrashCallees == ASSUME DInv, Crash PROVE Callees'
<1>1. \A m \in MsgId : Now(m)' = Saved(m) /\ Saved(m)' = Saved(m)
  BY MsgInId DEF Crash, Now, Saved
<1>2. RowsOnward
  BY <1>1 DEF RowsOnward
<1>3. \A t \in Task : TaskCallee(t)'
  BY TaskOnward, Untouched DEF Crash
<1>4. QED
  BY <1>2, <1>3, StepKept, Untouched DEF Crash

LEMMA RestartCallees == ASSUME DInv, Restart PROVE Callees'
<1>1. CASE StartSessions
  <2>1. SameCallees
    BY <1>1 DEF SameCallees, StartSessions, DInv, IInv, TypeOK, CalleeType
  <2>2. QED
    BY <1>1, <2>1, StillRows, StepKept DEF DInv, StartSessions
<1>2. CASE FailDispatched
  <2>1. messages = durable
    BY <1>2 DEF FailDispatched, DInv, IInv, Owners, Quiet
  <2>2. \A m \in MsgId : /\ Now(m)' = IF Now(m) = "dispatched" THEN "failed" ELSE Now(m)
                         /\ Saved(m)' = Now(m)' /\ Saved(m) = Now(m)
    BY <1>2, <2>1, MsgInId DEF FailDispatched, Now, Saved, DInv, IInv, TypeOK, Row
  <2>3. RowsOnward
    BY <2>2 DEF RowsOnward, Dispatched, Terminal
  <2>4. QED
    BY <1>2, <2>3, StepKept, Untouched DEF FailDispatched
<1>3. CASE Redispatch
  <2>1. \A m \in PendingRows : m \in MsgId /\ Saved(m) = "pending"
    BY <1>3, PendingAreMessages DEF PendingRows, Redispatch, DInv, IInv, Owners, Quiet, Saved
  <2>2. \A t \in Task : TaskCallee(t)'
    <3> SUFFICES ASSUME NEW t \in Task PROVE TaskCallee(t)'
      OBVIOUS
    <3>1. task'[t] = NoTask \/ \E m \in PendingRows : task'[t] = NewTask(m)
      BY <1>3, Redispatched DEF DInv
    <3>2. QED
      BY <1>3, <2>1, <3>1, TaskOnward, NewTaskCallee, Untouched DEF Redispatch
  <2>3. QED
    BY <1>3, <2>2, StillRows, StepKept, Untouched DEF DInv, Redispatch
<1>4. QED
  BY <1>1, <1>2, <1>3 DEF Restart

LEMMA ReapCallees == ASSUME DInv, NEW s \in Session, ReapCallee(s) PROVE Callees'
<1>1. SameCallees
  BY DEF SameCallees, ReapCallee, DInv, IInv, TypeOK, CalleeType
<1>2. QED
  BY <1>1, StillRows, StepKept DEF DInv, ReapCallee

LEMMA CalleesInit == Init => Callees
BY ConstantsAssumption
DEF Init, Callees, CalleeRow, AtMostOneCallee, TaskCallee, Saved, NoTask, NoRow, NoCallee,
    Early, Created, Prompted, Ending, Id

LEMMA CalleesStep == ASSUME DInv, [Next]_vars PROVE Callees'
<1>1. CASE UNCHANGED vars
  BY <1>1, StillRows, StepKept, Untouched DEF DInv, vars
<1>2. QED
  BY <1>1, HandlerCallees, WakeupCallees, CrashCallees, RestartCallees, ReapCallees DEF Next

LEMMA DInvAlways == Spec => []DInv
<1>1. Init => DInv
  BY IInvInit, CalleesInit DEF DInv
<1>2. DInv /\ [Next]_vars => DInv'
  BY IInvStep, CalleesStep DEF DInv
<1>3. QED
  BY <1>1, <1>2, PTL DEF Spec

(* However often a message is posted, retried or recovered, and however    *)
(* the gateway crashes, it is given at most one callee session.            *)
THEOREM OneCallee == Spec => []AtMostOneCallee
BY DInvAlways, PTL DEF DInv, Callees

-----------------------------------------------------------------------------
(* Replies *)

Answered(m) == \E i \in ReplyId : Stored(i) /\ messages[i].of = m

(* A reply that is not saved yet has a task that is about to commit it. *)
ReplyRow(i) ==
  /\ durable[i].status # "absent" => Stored(i) /\ durable[i].of = messages[i].of
  /\ Stored(i) => Saved(messages[i].of) \in Dispatched
  /\ Stored(i) /\ durable[i].status = "absent" =>
       \E t \in Task : At(t, "insertCommit") /\ task[t].msg = messages[i].of

OneReply ==
  \A i, j \in ReplyId :
    Stored(i) /\ Stored(j) /\ messages[i].of = messages[j].of => i = j

Unreplied == Early \cup Created \cup {"collect", "number", "insert"}

Unanswerable(t) ==
  \/ task[t].pc \in Unreplied
  \/ task[t].pc \in Ending /\ task[t].outcome = "timed_out"

TaskReply(t) == Unanswerable(t) => ~ Answered(task[t].msg)

TimedOut == \A m \in MsgId : Now(m) = "timed_out" => ~ Answered(m)

Answers ==
  /\ \A i \in ReplyId : ReplyRow(i)
  /\ OneReply
  /\ \A t \in Task : TaskReply(t)
  /\ TimedOut

AInv == DInv /\ Answers

LEMMA ReplyOf ==
  ASSUME DInv, NEW i \in ReplyId, Stored(i)
  PROVE  messages[i].of \in MsgId
BY DEF DInv, IInv, Numbers, Stored

(* Steps that store no reply. *)
LEMMA AnswersKept ==
  ASSUME AInv, RowsOnward, \A i \in ReplyId : messages'[i] = messages[i],
         \/ UNCHANGED durable \/ durable' = messages
         \/ messages = durable /\ \A i \in ReplyId : durable'[i] = durable[i],
         \A m \in MsgId : Now(m)' = "timed_out" => ~ Answered(m),
         \A t \in Task :
           \/ task'[t] = task[t]
           \/ /\ task[t].pc = "insertCommit" => durable' = messages
              /\ TaskReply(t)'
  PROVE  Answers'
<1> USE DEF AInv, Answers
<1>1. /\ \A i \in ReplyId : Stored(i)' <=> Stored(i)
      /\ \A m : Answered(m)' <=> Answered(m)
  BY DEF Stored, Answered
<1>2. ASSUME NEW i \in ReplyId PROVE ReplyRow(i)'
  <2>1. messages'[i] = messages[i] /\ (Stored(i)' <=> Stored(i)) /\ ReplyRow(i)
    BY <1>1
  <2>2. Stored(i) => messages[i].of \in MsgId
    BY ReplyOf
  <2>3. Stored(i)' => durable'[messages'[i].of].status \in Dispatched
    BY <2>1, <2>2 DEF ReplyRow, RowsOnward, Saved
  <2>4. durable'[i].status # "absent" => Stored(i)' /\ durable'[i].of = messages'[i].of
    BY <2>1 DEF ReplyRow, Stored
  <2>5. Stored(i)' /\ durable'[i].status = "absent" =>
          \E t \in Task : task'[t].pc = "insertCommit" /\ task'[t].msg = messages'[i].of
    BY <2>1 DEF ReplyRow, Stored, At
  <2>6. QED
    BY <2>3, <2>4, <2>5 DEF ReplyRow, At, Saved
<1>3. OneReply'
  BY <1>1 DEF OneReply
<1>4. \A t \in Task : TaskReply(t)'
  BY <1>1 DEF TaskReply, Unanswerable
<1>5. TimedOut'
  BY <1>1 DEF TimedOut
<1>6. QED
  BY <1>2, <1>3, <1>4, <1>5

(* A task that goes on to a step that claims no more. *)
LEMMA TaskReplies ==
  ASSUME AInv, NEW t \in Task, \A i \in ReplyId : messages'[i] = messages[i],
         \/ task'[t] = NoTask
         \/ /\ task'[t].msg = task[t].msg
            /\ \/ task[t].pc \in Unreplied
               \/ task'[t].pc = "insertCommit"
               \/ task'[t].pc \in Ending /\ task'[t].outcome # "timed_out"
               \/ /\ {task[t].pc, task'[t].pc} \subseteq Ending
                  /\ task'[t].outcome = task[t].outcome
  PROVE  TaskReply(t)'
<1>1. \A m : Answered(m)' <=> Answered(m)
  BY DEF Answered, Stored
<1>2. CASE task'[t] = NoTask
  BY <1>2 DEF TaskReply, Unanswerable, NoTask, Unreplied, Early, Created, Ending
<1>3. CASE task'[t] # NoTask
  BY <1>1, <1>3
  DEF AInv, Answers, TaskReply, Unanswerable, Unreplied, Early, Created, Ending
<1>4. QED
  BY <1>2, <1>3

(* The steps of a task that store no reply. *)
LEMMA GotoAnswers ==
  ASSUME AInv, NEW t \in Task, NEW pc, Goto(t, pc), RowsOnward,
         \A i \in ReplyId : messages'[i] = messages[i],
         \A m \in MsgId : Now(m)' = "timed_out" => ~ Answered(m),
         UNCHANGED durable \/ durable' = messages,
         task[t].pc \in Unreplied \/ {task[t].pc, pc} \subseteq Ending
  PROVE  Answers'
<1>1. TaskReply(t)' /\ task[t].pc # "insertCommit"
  BY GotoFields, TaskReplies DEF AInv, DInv, Unreplied, Early, Created, Ending
<1>2. QED
  BY <1>1, GotoFields, AnswersKept DEF AInv, DInv

LEMMA SettleAnswers ==
  ASSUME AInv, NEW t \in Task, NEW outcome, SettleWith(t, outcome), RowsOnward,
         UNCHANGED messages,
         \/ task[t].pc \in Unreplied /\ UNCHANGED durable
         \/ outcome # "timed_out" /\ Commit
  PROVE  Answers'
<1>1. TaskReply(t)'
  BY SettleFields, TaskReplies DEF AInv, DInv, Ending
<1>2. task[t].pc = "insertCommit" => durable' = messages
  BY DEF Commit, Unreplied, Early, Created
<1>3. \A m \in MsgId : Now(m)' = "timed_out" => ~ Answered(m)
  BY DEF AInv, Answers, TimedOut, Now
<1>4. QED
  BY <1>1, <1>2, <1>3, SettleFields, AnswersKept DEF AInv, DInv, Commit

LEMMA StatusAnswers ==
  ASSUME AInv, NEW t \in Task, Dispatch(t) \/ Record(t) \/ Settle(t) PROVE Answers'
<1>1. PICK n \in MsgId : n = task[t].msg
  BY DEF AInv, DInv, IInv, Owners, TaskShape, Shape, Dispatch, Record, Settle, At
<1>2. PICK st :
        /\ messages' = [messages EXCEPT ![n].status = st]
        /\ st = "dispatched" \/ (st = task[t].outcome /\ Settle(t))
  <2>1. CASE Dispatch(t) \/ Record(t)
    <3>1. messages' = [messages EXCEPT ![n].status = "dispatched"]
      BY <1>1, <2>1 DEF Dispatch, Record, SetStatus
    <3>2. QED
      BY <3>1
  <2>2. CASE Settle(t)
    <3>1. messages' = [messages EXCEPT ![n].status = task[t].outcome]
      BY <1>1, <2>2 DEF Settle, SetStatus
    <3>2. QED
      BY <2>2, <3>1
  <2>3. QED
    BY <2>1, <2>2
<1>3. /\ \A i \in ReplyId : messages'[i] = messages[i]
      /\ \A m \in MsgId : Now(m)' = IF m = n THEN st ELSE Now(m)
  BY <1>2, MsgInId, ConstantsAssumption DEF AInv, DInv, IInv, TypeOK, Row, Now
<1>4. Settle(t) /\ st = "timed_out" /\ st = task[t].outcome => ~ Answered(n)
  BY <1>1 DEF AInv, Answers, TaskReply, Unanswerable, Settle, At, Ending
<1>5. \A m \in MsgId : Now(m)' = "timed_out" => ~ Answered(m)
  BY <1>2, <1>3, <1>4 DEF AInv, Answers, TimedOut
<1>6. RowsOnward
  BY DEF RowsOnward, Dispatch, Record, Settle, Saved
<1>7. PICK pc : Goto(t, pc) /\ (task[t].pc \in Unreplied \/ {task[t].pc, pc} \subseteq Ending)
  BY DEF Dispatch, Record, Settle, At, Unreplied, Early, Created, Ending
<1>8. QED
  BY <1>3, <1>5, <1>6, <1>7, GotoAnswers DEF Dispatch, Record, Settle

LEMMA StillTimedOut ==
  ASSUME AInv, UNCHANGED messages
  PROVE  \A m \in MsgId : Now(m)' = "timed_out" => ~ Answered(m)
BY DEF AInv, Answers, TimedOut, Now

LEMMA CommitAnswers ==
  ASSUME AInv, NEW t \in Task, DispatchCommit(t) \/ RecordCommit(t) \/ SettleCommit(t)
  PROVE  Answers'
<1>1. RowsOnward /\ durable' = messages /\ UNCHANGED messages
  BY CommitRows DEF AInv, DInv, DispatchCommit, RecordCommit, SettleCommit, Commit
<1>2. PICK pc : Goto(t, pc) /\ (task[t].pc \in Unreplied \/ {task[t].pc, pc} \subseteq Ending)
  BY DEF DispatchCommit, RecordCommit, SettleCommit, At, Unreplied, Early, Created, Ending
<1>3. QED
  BY <1>1, <1>2, StillTimedOut, GotoAnswers

LEMMA TalkAnswers ==
  ASSUME AInv, NEW t \in Task, Prompt(t) \/ Repost(t) \/ Unanswered(t) \/ Collect(t)
  PROVE  Answers'
<1>1. UNCHANGED <<messages, durable>> /\ RowsOnward
  BY StillRows DEF AInv, DInv, Prompt, Repost, Unanswered, Collect
<1>2. PICK pc : Goto(t, pc) /\ task[t].pc \in Unreplied
  BY DEF Prompt, Repost, Unanswered, Collect, Posting, At, Unreplied, Early, Created
<1>3. QED
  BY <1>1, <1>2, StillTimedOut, GotoAnswers

LEMMA EndAnswers ==
  ASSUME AInv, NEW t \in Task,
         CreateRefused(t) \/ SpawnFails(t) \/ GiveUp(t) \/ ReplyCommit(t)
  PROVE  Answers'
<1>1. CASE CreateRefused(t) \/ SpawnFails(t) \/ GiveUp(t)
  <2>1. UNCHANGED <<messages, durable>> /\ RowsOnward
    BY <1>1, StillRows DEF AInv, DInv, CreateRefused, SpawnFails, GiveUp
  <2>2. PICK outcome : SettleWith(t, outcome)
    BY <1>1 DEF CreateRefused, SpawnFails, GiveUp
  <2>3. task[t].pc \in Unreplied
    BY <1>1 DEF CreateRefused, SpawnFails, GiveUp, Posting, At, Unreplied, Early, Created
  <2>4. QED
    BY <2>1, <2>2, <2>3, SettleAnswers
<1>2. CASE ReplyCommit(t)
  BY <1>2, CommitRows, SettleAnswers DEF AInv, DInv, ReplyCommit
<1>3. QED
  BY <1>1, <1>2

LEMMA StepAnswers ==
  ASSUME AInv, NEW t \in Task, CreateCallee(t) \/ ReplyNumber(t) \/ KillCallee(t)
  PROVE  Answers'
<1>1. UNCHANGED <<messages, durable>> /\ RowsOnward
  BY StillRows DEF AInv, DInv, CreateCallee, ReplyNumber, KillCallee
<1>2. /\ task[t].pc # "insertCommit" /\ \A u \in Task \ {t} : task'[u] = task[u]
      /\ \/ task'[t] = NoTask
         \/ task'[t].msg = task[t].msg /\ task[t].pc \in Unreplied
  <2>1. CASE CreateCallee(t)
    BY <2>1, ZenonT(30) DEF CreateCallee, At, Unreplied, Early, AInv, DInv, IInv, TypeOK, TaskType
  <2>2. CASE ReplyNumber(t)
    <3> DEFINE n == NextNumber(ConvOf[task[t].msg])
    <3>1. task' = [task EXCEPT ![t] = [task[t] EXCEPT !.pc = "insert", !.number = n]]
      BY <2>2 DEF ReplyNumber
    <3> HIDE DEF n
    <3>2. QED
      BY <2>2, <3>1 DEF ReplyNumber, At, Unreplied, AInv, DInv, IInv, TypeOK, TaskType
  <2>3. CASE KillCallee(t)
    BY <2>3 DEF KillCallee, At, AInv, DInv, IInv, TypeOK
  <2>4. QED
    BY <2>1, <2>2, <2>3
<1>3. TaskReply(t)'
  BY <1>1, <1>2, TaskReplies
<1>4. QED
  BY <1>1, <1>2, <1>3, StillTimedOut, AnswersKept

(* The one reply of a message is stored by its task. *)
LEMMA ReplyInsertAnswers == ASSUME AInv, NEW t \in Task, ReplyInsert(t) PROVE Answers'
<1> USE DEF AInv, Answers
<1>1. PICK n \in MsgId : n = task[t].msg
  BY DEF DInv, IInv, Owners, TaskShape, Shape, ReplyInsert, At
<1>2. /\ Goto(t, "insertCommit") /\ UNCHANGED durable /\ task[t].pc = "insert"
      /\ \A m \in MsgId : Now(m)' = Now(m) /\ Saved(m)' = Saved(m)
  BY MsgInId, ConstantsAssumption
  DEF ReplyInsert, At, InsertOrIgnore, DInv, IInv, TypeOK, Now, Saved
<1>3. RowsOnward
  BY <1>2 DEF RowsOnward
<1>4. PICK i \in ReplyId :
        /\ ~ Stored(i)
        /\ InsertOrIgnore(i, [status |-> "completed", number |-> task[t].number, of |-> n])
  BY <1>1 DEF ReplyInsert
<1>5. CASE messages' = messages
  <2>1. TaskReply(t)'
    BY <1>2, <1>5, GotoFields, TaskReplies DEF DInv, Unreplied
  <2>2. QED
    BY <1>2, <1>3, <1>5, <2>1, GotoFields, StillTimedOut, AnswersKept DEF DInv
<1>6. CASE messages' # messages
  <2>1. /\ messages'[i].status = "completed" /\ messages'[i].of = n
        /\ \A j \in ReplyId \ {i} : messages'[j] = messages[j]
    BY <1>4, <1>6 DEF InsertOrIgnore, DInv, IInv, TypeOK, Id
  <2>2. ~ Answered(n) /\ durable[i].status = "absent" /\ Saved(n) = "dispatched"
          /\ Now(n) = "dispatched"
    BY <1>1, <1>2, <1>4
    DEF TaskReply, Unanswerable, Unreplied, ReplyRow, DInv, IInv, Owners, Rows, TaskRow, Working
  <2>3. /\ \A j \in ReplyId : Stored(j)' <=> Stored(j) \/ j = i
        /\ \A m : m # n => (Answered(m)' <=> Answered(m))
    BY <1>4, <2>1 DEF Stored, Answered
  <2>4. /\ task'[t].pc = "insertCommit" /\ task'[t].msg = n
        /\ \A u \in Task \ {t} : task'[u] = task[u]
    BY <1>1, <1>2, GotoFields DEF DInv
  <2>5. ASSUME NEW j \in ReplyId PROVE ReplyRow(j)'
    <3>1. CASE j = i
      <4>1. durable'[messages'[j].of].status \in Dispatched
        BY <1>2, <2>1, <2>2, <3>1 DEF Dispatched, Saved
      <4>2. \E u \in Task : task'[u].pc = "insertCommit" /\ task'[u].msg = messages'[j].of
        BY <2>1, <2>4, <3>1
      <4>3. durable'[j].status = "absent"
        BY <1>2, <2>2, <3>1
      <4>4. QED
        BY <4>1, <4>2, <4>3 DEF ReplyRow, At, Saved
    <3>2. CASE j # i
      <4>1. messages'[j] = messages[j] /\ durable'[j] = durable[j] /\ ReplyRow(j)
        BY <1>2, <2>1, <3>2
      <4>2. Stored(j)' <=> Stored(j)
        BY <2>3, <3>2
      <4>3. Stored(j) => messages[j].of \in MsgId
        BY ReplyOf
      <4>4. Stored(j)' => durable'[messages'[j].of].status \in Dispatched
        BY <1>2, <4>1, <4>2, <4>3 DEF ReplyRow, Saved
      <4>5. \A u \in Task : task[u].pc = "insertCommit" => task'[u] = task[u]
        BY <1>2, <2>4
      <4>6. Stored(j)' /\ durable'[j].status = "absent" =>
              \E u \in Task : task'[u].pc = "insertCommit" /\ task'[u].msg = messages'[j].of
        BY <4>1, <4>2, <4>5 DEF ReplyRow, At
      <4>7. QED
        BY <4>1, <4>2, <4>4, <4>6 DEF ReplyRow, At, Saved
    <3>3. QED
      BY <3>1, <3>2
  <2>6. OneReply'
    BY <2>1, <2>2, <2>3 DEF OneReply, Answered
  <2>7. ASSUME NEW u \in Task PROVE TaskReply(u)'
    <3>1. CASE u = t
      BY <2>4, <3>1 DEF TaskReply, Unanswerable, Unreplied, Early, Created, Ending
    <3>2. CASE u # t
      <4>1. task'[u] = task[u] /\ task[u].msg # n
        BY <1>1, <2>4, <3>2, ConstantsAssumption
        DEF DInv, IInv, Owners, OneOwner, OneTaskPerMessage
      <4>2. QED
        BY <2>3, <4>1 DEF TaskReply, Unanswerable
    <3>3. QED
      BY <3>1, <3>2
  <2>8. TimedOut'
    BY <1>2, <2>2, <2>3 DEF TimedOut
  <2>9. QED
    BY <2>5, <2>6, <2>7, <2>8
<1>7. QED
  BY <1>5, <1>6

LEMMA WakeupAnswers == ASSUME AInv, NEW t \in Task, Wakeup(t) PROVE Answers'
BY StatusAnswers, CommitAnswers, TalkAnswers, EndAnswers, StepAnswers, ReplyInsertAnswers
DEF Wakeup

(* A message that is pending on disk has no reply. *)
LEMMA NewTaskReply ==
  ASSUME AInv, NEW t \in Task, NEW m \in MsgId, Saved(m) = "pending", UNCHANGED messages,
         task'[t] = NewTask(m)
  PROVE  TaskReply(t)'
<1>1. ~ Answered(m)
  BY DEF AInv, Answers, Answered, ReplyRow, Dispatched, Terminal
<1>2. ~ Answered(m)' /\ task'[t].msg = m
  BY <1>1 DEF Answered, Stored, NewTask, NoTask
<1>3. QED
  BY <1>2 DEF TaskReply, Unanswerable

LEMMA HandlerAnswers ==
  ASSUME AInv, NEW r \in Req, Handler(r) \/ \E m \in MsgId : Post(r, m) PROVE Answers'
<1>1. CASE PostInsert(r)
  <2>1. PICK n \in MsgId : n = req[r].msg
    BY <1>1 DEF PostInsert, AInv, DInv, IInv, Owners, ReqShape
  <2>2. /\ \A i \in ReplyId : messages'[i] = messages[i]
        /\ \A m \in MsgId : Now(m)' \in {Now(m), "pending"}
    BY <1>1, <2>1, MsgInId, ConstantsAssumption
    DEF PostInsert, InsertOrIgnore, AInv, DInv, IInv, TypeOK, Now
  <2>3. \A m \in MsgId : Now(m)' = "timed_out" => ~ Answered(m)
    BY <2>2 DEF AInv, Answers, TimedOut
  <2>4. RowsOnward
    BY <1>1 DEF PostInsert, RowsOnward, Saved
  <2>5. QED
    BY <1>1, <2>2, <2>3, <2>4, AnswersKept DEF PostInsert
<1>2. CASE PostRespond(r)
  <2>1. PICK n \in MsgId : n = req[r].msg
    BY <1>2 DEF PostRespond, AInv, DInv, IInv, Owners, ReqShape
  <2>2. req[r].inserted => Saved(n) = "pending"
    BY <1>2, <2>1 DEF PostRespond, AInv, DInv, IInv, Owners, Rows, AcceptRow, Accepting
  <2>3. \A u \in Task : task'[u] = task[u] \/ (task[u].pc = "free" /\ TaskReply(u)')
    <3> SUFFICES ASSUME NEW u \in Task
                 PROVE  task'[u] = task[u] \/ (task[u].pc = "free" /\ TaskReply(u)')
      OBVIOUS
    <3>1. CASE task'[u] = task[u]
      BY <3>1
    <3>2. CASE task'[u] # task[u]
      <4>1. PICK t \in Task :
              req[r].inserted /\ task[t].pc = "free" /\ task' = [task EXCEPT ![t] = NewTask(n)]
        BY <1>2, <2>1, <3>2 DEF PostRespond
      <4>2. u = t /\ task'[u] = NewTask(n)
        BY <3>2, <4>1 DEF AInv, DInv, IInv, TypeOK
      <4>3. TaskReply(u)'
        BY <1>2, <2>2, <4>1, <4>2, NewTaskReply DEF PostRespond
      <4>4. QED
        BY <4>1, <4>2, <4>3
    <3>3. QED
      BY <3>1, <3>2
  <2>4. QED
    BY <1>2, <2>3, StillRows, StillTimedOut, AnswersKept DEF AInv, DInv, PostRespond
<1>3. CASE PostCommit(r)
  BY <1>3, CommitRows, StillTimedOut, AnswersKept DEF AInv, DInv, PostCommit, Commit
<1>4. CASE PostNumber(r) \/ \E m \in MsgId : Post(r, m)
  BY <1>4, StillRows, StillTimedOut, AnswersKept DEF AInv, DInv, PostNumber, Post
<1>5. QED
  BY <1>1, <1>2, <1>3, <1>4 DEF Handler

LEMMA CrashAnswers == ASSUME AInv, Crash PROVE Answers'
<1> USE DEF AInv, Answers
<1>1. messages' = durable /\ durable' = durable /\ \A t \in Task : task'[t] = NoTask
  BY DEF Crash
<1>2. \A i \in ReplyId : Stored(i)' => Stored(i) /\ messages'[i].of = messages[i].of
  BY <1>1 DEF Stored, ReplyRow
<1>3. \A m : Answered(m)' => Answered(m)
  BY <1>2 DEF Answered
<1>4. \A i \in ReplyId : ReplyRow(i)'
  BY <1>1, <1>2 DEF ReplyRow, Stored, Saved
<1>5. OneReply'
  BY <1>2 DEF OneReply
<1>6. \A t \in Task : TaskReply(t)'
  BY <1>1 DEF TaskReply, Unanswerable, NoTask, Unreplied, Early, Created, Ending
<1>7. TimedOut'
  <2>1. \A m \in MsgId : Now(m)' = "timed_out" => Now(m) = "timed_out"
    BY <1>1 DEF Now, Saved, DInv, IInv, Owners, Behind, OneBehind
  <2>2. QED
    BY <1>3, <2>1 DEF TimedOut
<1>8. QED
  BY <1>4, <1>5, <1>6, <1>7

LEMMA RestartAnswers == ASSUME AInv, Restart PROVE Answers'
<1>1. CASE StartSessions
  BY <1>1, StillRows, StillTimedOut, AnswersKept DEF AInv, DInv, StartSessions
<1>2. CASE FailDispatched
  <2>1. messages = durable
    BY <1>2 DEF FailDispatched, AInv, DInv, IInv, Owners, Quiet
  <2>2. \A m \in MsgId : /\ Now(m)' = IF Now(m) = "dispatched" THEN "failed" ELSE Now(m)
                         /\ Saved(m)' = Now(m)' /\ Saved(m) = Now(m)
    BY <1>2, <2>1, MsgInId DEF FailDispatched, Now, Saved, AInv, DInv, IInv, TypeOK, Row
  <2>3. RowsOnward
    BY <2>2 DEF RowsOnward, Dispatched, Terminal
  <2>4. \A i \in ReplyId : messages'[i] = messages[i] /\ durable'[i] = durable[i]
    BY <1>2, <2>1 DEF FailDispatched, AInv, DInv, IInv, Owners, Replies, Now, Id
  <2>5. \A m \in MsgId : Now(m)' = "timed_out" => ~ Answered(m)
    BY <2>2 DEF AInv, Answers, TimedOut
  <2>6. QED
    BY <1>2, <2>1, <2>3, <2>4, <2>5, AnswersKept DEF FailDispatched
<1>3. CASE Redispatch
  <2>1. \A m \in PendingRows : m \in MsgId /\ Saved(m) = "pending"
    BY <1>3, PendingAreMessages DEF PendingRows, Redispatch, AInv, DInv, IInv, Owners, Quiet, Saved
  <2>2. \A t \in Task : task[t].pc # "insertCommit" /\ TaskReply(t)'
    <3> SUFFICES ASSUME NEW t \in Task PROVE task[t].pc # "insertCommit" /\ TaskReply(t)'
      OBVIOUS
    <3>1. task[t].pc # "insertCommit"
      BY <1>3 DEF Redispatch, AInv, DInv, IInv, Owners, Quiet, NoTask
    <3>2. task'[t] = NoTask \/ \E m \in PendingRows : task'[t] = NewTask(m)
      BY <1>3, Redispatched DEF AInv, DInv
    <3>3. TaskReply(t)'
      BY <1>3, <2>1, <3>2, TaskReplies, NewTaskReply DEF Redispatch
    <3>4. QED
      BY <3>1, <3>3
  <2>3. QED
    BY <1>3, <2>2, StillRows, StillTimedOut, AnswersKept DEF AInv, DInv, Redispatch
<1>4. QED
  BY <1>1, <1>2, <1>3 DEF Restart

LEMMA AnswersInit == Init => Answers
BY ConstantsAssumption
DEF Init, Answers, ReplyRow, OneReply, TaskReply, Unanswerable, TimedOut, Stored, Now,
    NoTask, NoRow, Unreplied, Early, Created, Ending, Id

LEMMA AnswersStep == ASSUME AInv, [Next]_vars PROVE Answers'
<1>1. CASE UNCHANGED vars \/ \E s \in Session : ReapCallee(s)
  BY <1>1, StillRows, StillTimedOut, AnswersKept DEF AInv, DInv, vars, ReapCallee
<1>2. QED
  BY <1>1, HandlerAnswers, WakeupAnswers, CrashAnswers, RestartAnswers DEF Next

LEMMA AInvAlways == Spec => []AInv
<1>1. Init => Answers
  BY AnswersInit
<1>2. DInv /\ Answers /\ [Next]_vars => Answers'
  BY AnswersStep DEF AInv
<1>3. QED
  BY <1>1, <1>2, DInvAlways, PTL DEF Spec, AInv

-----------------------------------------------------------------------------
(* Refinement *)

LEMMA NoneAndOne ==
  /\ Cardinality({}) = 0
  /\ \A x : Cardinality({x}) = 1
BY FS_EmptySet, FS_Singleton

LEMMA Heard ==
  ASSUME NEW m, \A s \in Session : callee[s].msg = m => callee[s].heard = 0
  PROVE  Hearings(m) = {}
BY DEF Hearings

(* A message has been heard of by its one callee, or not at all. *)
LEMMA HeardOnce ==
  ASSUME NEW m, NEW s \in Session, \A x \in Session : callee[x].msg = m <=> x = s,
         callee[s].heard = 1
  PROVE  Hearings(m) = {<<s, 1>>}
<1>1. {x \in Session : callee[x].msg = m} = {s}
  OBVIOUS
<1>2. {{x} \X (1..callee[x].heard) : x \in {x \in Session : callee[x].msg = m}}
        = {{s} \X (1..1)}
  BY <1>1
<1>3. UNION {{s} \X (1..1)} = {<<s, 1>>}
  OBVIOUS
<1>4. QED
  BY <1>2, <1>3 DEF Hearings

(* The replies to a message that a crash would leave. *)
LEMMA SavedOnce ==
  ASSUME AInv, NEW m \in MsgId
  PROVE  \/ SavedReplies(m) = {} /\ Cardinality(SavedReplies(m)) = 0
         \/ \E i \in ReplyId : SavedReplies(m) = {i} /\ Cardinality(SavedReplies(m)) = 1
<1>1. \A i, j \in SavedReplies(m) : i = j
  BY DEF SavedReplies, AInv, Answers, ReplyRow, OneReply
<1>2. SavedReplies(m) = {} \/ \E i \in ReplyId : SavedReplies(m) = {i}
  BY <1>1 DEF SavedReplies
<1>3. QED
  BY <1>2, NoneAndOne

LEMMA PromiseInit == Init => Promise!Init
<1> SUFFICES ASSUME Init PROVE Promise!Init
  OBVIOUS
<1>1. \A m \in MsgId : durable[m].status = "absent"
  BY MsgInId DEF Init, NoRow
<1>2. \A m \in MsgId : Cardinality(Hearings(m)) = 0
  BY Heard, NoneAndOne DEF Init, NoCallee
<1>3. \A m \in MsgId : Cardinality(SavedReplies(m)) = 0
  BY NoneAndOne DEF Init, SavedReplies, NoRow, Id
<1>4. QED
  BY <1>1, <1>2, <1>3 DEF Promise!Init

(* Steps nobody notices. *)
SameHearings ==
  \A s \in Session : /\ callee'[s].heard = callee[s].heard
                     /\ callee'[s].msg = callee[s].msg \/ callee[s].heard = 0

LEMMA HearingsKept ==
  ASSUME SameHearings, NEW m
  PROVE  Hearings(m)' = Hearings(m)
<1>1. \A s \in Session : /\ callee'[s].heard = callee[s].heard
                         /\ callee'[s].msg = callee[s].msg \/ callee[s].heard = 0
  BY DEF SameHearings
<1>2. \A p : p \in Hearings(m)' <=>
         \E s \in Session : callee'[s].msg = m /\ p \in {s} \X (1..callee'[s].heard)
  BY DEF Hearings
<1>3. \A p : p \in Hearings(m) <=>
         \E s \in Session : callee[s].msg = m /\ p \in {s} \X (1..callee[s].heard)
  BY DEF Hearings
<1>4. \A s \in Session : \A p : callee[s].heard = 0 => p \notin {s} \X (1..callee[s].heard)
  OBVIOUS
<1>5. \A p : p \in Hearings(m)' <=> p \in Hearings(m)
  BY <1>1, <1>2, <1>3, <1>4
<1>6. QED
  BY <1>5 DEF Hearings

LEMMA PromiseStutters ==
  ASSUME SameHearings, UNCHANGED durable
  PROVE  UNCHANGED Promise!dvars
<1>1. \A m \in MsgId : /\ Cardinality(Hearings(m))' = Cardinality(Hearings(m))
                       /\ Cardinality(SavedReplies(m))' = Cardinality(SavedReplies(m))
                       /\ durable'[m].status = durable[m].status
  BY HearingsKept DEF SavedReplies
<1>2. QED
  BY <1>1 DEF Promise!dvars

(* What a commit or the recovery records. *)
LEMMA PromiseRecords ==
  ASSUME AInv, AInv', UNCHANGED callee,
         \A m \in MsgId :
           \/ Saved(m)' = Saved(m) /\ SavedReplies(m)' = SavedReplies(m)
           \/ /\ SavedReplies(m)' = SavedReplies(m)
              /\ \/ Saved(m) = "absent" /\ Saved(m)' = "pending"
                 \/ Saved(m) = "pending" /\ Saved(m)' = "dispatched"
                 \/ /\ Saved(m) = "dispatched" /\ Saved(m)' \in Terminal
                    /\ Saved(m)' = "timed_out" => SavedReplies(m) = {}
           \/ /\ Saved(m) = "dispatched" /\ Saved(m)' = "dispatched"
              /\ SavedReplies(m) = {} /\ SavedReplies(m)' # {}
  PROVE  Promise!Record
<1> DEFINE status == [m \in MsgId |-> durable[m].status]
           statusN == [m \in MsgId |-> durable'[m].status]
           answers == [m \in MsgId |-> Cardinality(SavedReplies(m))]
           answersN == [m \in MsgId |-> Cardinality(SavedReplies(m)')]
<1>1. \A m \in MsgId : status[m] = Saved(m) /\ statusN[m] = Saved(m)'
  BY DEF Saved
<1>2. \A m \in MsgId : /\ SavedReplies(m) = {} => answers[m] = 0
                       /\ SavedReplies(m)' # {} => answersN[m] = 1
                       /\ SavedReplies(m)' = SavedReplies(m) => answersN[m] = answers[m]
                       /\ answersN[m] \in Nat
  <2> SUFFICES ASSUME NEW m \in MsgId
               PROVE  /\ SavedReplies(m) = {} => answers[m] = 0
                      /\ SavedReplies(m)' # {} => answersN[m] = 1
                      /\ SavedReplies(m)' = SavedReplies(m) => answersN[m] = answers[m]
                      /\ answersN[m] \in Nat
    OBVIOUS
  <2>1. \/ SavedReplies(m)' = {} /\ answersN[m] = 0
        \/ SavedReplies(m)' # {} /\ answersN[m] = 1
    <3>1. \/ SavedReplies(m) = {} /\ Cardinality(SavedReplies(m)) = 0
          \/ SavedReplies(m) # {} /\ Cardinality(SavedReplies(m)) = 1
      BY SavedOnce
    <3>2. \/ SavedReplies(m)' = {} /\ Cardinality(SavedReplies(m)') = 0
          \/ \E i \in ReplyId : SavedReplies(m)' = {i} /\ Cardinality(SavedReplies(m)') = 1
      <4>1. \A i, j \in SavedReplies(m)' : i = j
        BY DEF SavedReplies, AInv, Answers, ReplyRow, OneReply
      <4>2. SavedReplies(m)' = {} \/ \E i \in ReplyId : SavedReplies(m)' = {i}
        BY <4>1 DEF SavedReplies
      <4>3. QED
        BY <4>2, NoneAndOne
    <3>3. QED
      BY <3>2
  <2>2. SavedReplies(m) = {} => answers[m] = 0
    BY SavedOnce, NoneAndOne
  <2>3. QED
    BY <2>1, <2>2
<1>3. statusN \in [MsgId -> Promise!Status] /\ answersN \in [MsgId -> Nat]
  <2>1. \A m \in MsgId : durable'[m].status \in Promise!Status
    BY MsgInId DEF AInv, DInv, IInv, TypeOK, Row, Status, Terminal, Promise!Status, Promise!Settled
  <2>2. QED
    BY <1>2, <2>1
<1>4. \A m \in MsgId : Promise!Forward(m) \/ Promise!Answer(m) \/ Promise!Still(m)
  <2> SUFFICES ASSUME NEW m \in MsgId
               PROVE  Promise!Forward(m) \/ Promise!Answer(m) \/ Promise!Still(m)
    OBVIOUS
  <2>1. /\ status[m] = Saved(m) /\ statusN[m] = Saved(m)'
        /\ SavedReplies(m) = {} => answers[m] = 0
        /\ SavedReplies(m)' # {} => answersN[m] = 1
        /\ SavedReplies(m)' = SavedReplies(m) => answersN[m] = answers[m]
    BY <1>1, <1>2
  <2> HIDE DEF status, statusN, answers, answersN
  <2>2. \/ statusN[m] = status[m] /\ answersN[m] = answers[m]
        \/ /\ answersN[m] = answers[m]
           /\ \/ status[m] = "absent" /\ statusN[m] = "pending"
              \/ status[m] = "pending" /\ statusN[m] = "dispatched"
              \/ status[m] = "dispatched" /\ statusN[m] \in Terminal \ {"timed_out"}
              \/ status[m] = "dispatched" /\ statusN[m] = "timed_out" /\ answers[m] = 0
        \/ /\ status[m] = "dispatched" /\ answers[m] = 0
           /\ statusN[m] = status[m] /\ answersN[m] = answers[m] + 1
    BY <2>1
  <2>3. QED
    BY <2>2
    DEF Promise!Forward, Promise!Answer, Promise!Still, Promise!Settled, Terminal,
        status, statusN, answers, answersN
<1>5. \A m \in MsgId : Hearings(m)' = Hearings(m)
  BY DEF Hearings
<1>6. QED
  BY <1>3, <1>4, <1>5 DEF Promise!Record

(* A commit by anybody saves a step of a message, or its reply, not both. *)
LEMMA PromiseCommits ==
  ASSUME AInv, AInv', Commit, UNCHANGED <<callee, messages>> PROVE Promise!Record
<1>1. \A m \in MsgId : Saved(m)' = Now(m)
  BY DEF Commit, Now, Saved
<1>2. ASSUME NEW m \in MsgId
      PROVE  \/ SavedReplies(m)' = SavedReplies(m)
             \/ /\ Saved(m) = "dispatched" /\ Now(m) = "dispatched"
                /\ SavedReplies(m) = {} /\ SavedReplies(m)' # {}
  <2>1. SavedReplies(m)' = {i \in ReplyId : Stored(i) /\ messages[i].of = m}
    BY DEF Commit, SavedReplies, Stored
  <2>2. SavedReplies(m) \subseteq SavedReplies(m)'
    BY <2>1 DEF SavedReplies, AInv, Answers, ReplyRow
  <2>3. CASE SavedReplies(m)' # SavedReplies(m)
    <3>1. PICK i \in ReplyId : /\ i \in SavedReplies(m)' /\ i \notin SavedReplies(m)
      BY <2>2, <2>3 DEF SavedReplies
    <3>2. Stored(i) /\ messages[i].of = m /\ durable[i].status = "absent"
      BY <2>1, <3>1 DEF SavedReplies, AInv, Answers, ReplyRow
    <3>3. PICK t \in Task : At(t, "insertCommit") /\ task[t].msg = m
      BY <3>2 DEF AInv, Answers, ReplyRow
    <3>4. Saved(m) = "dispatched" /\ Now(m) = "dispatched"
      BY <3>3 DEF At, AInv, DInv, IInv, Owners, Rows, TaskRow, Working
    <3>5. SavedReplies(m) = {}
      BY <2>1, <2>2, <3>1, <3>2 DEF AInv, Answers, OneReply
    <3>6. QED
      BY <3>1, <3>4, <3>5
  <2>4. QED
    BY <2>3
<1>3. \A m \in MsgId : Now(m) = "timed_out" => SavedReplies(m) = {}
  BY DEF AInv, Answers, TimedOut, Answered, ReplyRow, SavedReplies
<1>4. QED
  BY <1>1, <1>2, <1>3, PromiseRecords DEF AInv, DInv, IInv, Owners, Behind, OneBehind

(* The recovery settles what no coroutine will. *)
LEMMA PromiseRecovers == ASSUME AInv, AInv', FailDispatched PROVE Promise!Record
<1>1. messages = durable
  BY DEF FailDispatched, AInv, DInv, IInv, Owners, Quiet
<1>2. \A m \in MsgId : Saved(m)' = IF Saved(m) = "dispatched" THEN "failed" ELSE Saved(m)
  BY <1>1, MsgInId DEF FailDispatched, Saved, AInv, DInv, IInv, TypeOK, Row
<1>3. \A i \in ReplyId : durable'[i] = durable[i]
  BY <1>1 DEF FailDispatched, AInv, DInv, IInv, Owners, Replies, Now, Id
<1>4. \A m \in MsgId : SavedReplies(m)' = SavedReplies(m)
  BY <1>3 DEF SavedReplies
<1>5. QED
  BY <1>2, <1>4, PromiseRecords DEF FailDispatched, Terminal

(* A prompt is the delivery of a message that had none. *)
LEMMA PromiseDelivers ==
  ASSUME DInv, NEW t \in Task, Prompt(t) PROVE \E m \in MsgId : Promise!Deliver(m)
<1>1. PICK n \in MsgId, s \in Session :
        /\ task[t].msg = n /\ task[t].session = s
        /\ callee[s].msg = n /\ callee[s].heard = 0
        /\ callee'[s].msg = n /\ callee'[s].heard = 1 /\ callee'[s].state = callee[s].state
        /\ \A x \in Session \ {s} : callee'[x] = callee[x]
        /\ Saved(n) = "dispatched" /\ Now(n) = "dispatched"
  BY PromptFields
<1>2. \A x \in Session : callee[x].msg = n <=> x = s
  BY <1>1, ConstantsAssumption DEF DInv, Callees, AtMostOneCallee
<1>3. Hearings(n) = {} /\ Cardinality(Hearings(n)) = 0
  BY <1>1, <1>2, Heard, NoneAndOne
<1>4. Hearings(n)' = {<<s, 1>>} /\ Cardinality(Hearings(n)') = 1
  <2>1. {x \in Session : callee'[x].msg = n} = {s}
    BY <1>1, <1>2
  <2>2. {{x} \X (1..callee'[x].heard) : x \in {x \in Session : callee'[x].msg = n}}
          = {{s} \X (1..1)}
    BY <1>1, <2>1
  <2>3. UNION {{s} \X (1..1)} = {<<s, 1>>}
    OBVIOUS
  <2>4. Hearings(n)' = {<<s, 1>>}
    BY <2>2, <2>3 DEF Hearings
  <2>5. QED
    BY <2>4, NoneAndOne
<1>5. \A m \in MsgId \ {n} : Hearings(m)' = Hearings(m)
  <2> SUFFICES ASSUME NEW m \in MsgId \ {n} PROVE Hearings(m)' = Hearings(m)
    OBVIOUS
  <2>1. {x \in Session : callee'[x].msg = m} = {x \in Session : callee[x].msg = m}
    BY <1>1
  <2>2. \A x \in {x \in Session : callee[x].msg = m} : callee'[x] = callee[x]
    BY <1>1
  <2>3. QED
    BY <2>1, <2>2 DEF Hearings
<1>6. durable[n].status = "dispatched" /\ UNCHANGED durable
  BY <1>1 DEF Saved, Prompt
<1>7. \A m \in MsgId : SavedReplies(m)' = SavedReplies(m)
  BY <1>6 DEF SavedReplies
<1>8. Promise!Deliver(n)
  <2> DEFINE delivered == [m \in MsgId |-> Cardinality(Hearings(m))]
             deliveredN == [m \in MsgId |-> Cardinality(Hearings(m)')]
  <2>1. delivered[n] = 0 /\ deliveredN[n] = 1
    BY <1>3, <1>4
  <2>2. \A m \in MsgId \ {n} : deliveredN[m] = delivered[m]
    BY <1>5
  <2>3. deliveredN = [delivered EXCEPT ![n] = @ + 1]
    <3> HIDE DEF delivered, deliveredN
    <3>1. delivered = [m \in MsgId |-> delivered[m]] /\ deliveredN = [m \in MsgId |-> deliveredN[m]]
      BY DEF delivered, deliveredN
    <3>2. QED
      BY <2>1, <2>2, <3>1
  <2>4. [m \in MsgId |-> Cardinality(SavedReplies(m)')]
          = [m \in MsgId |-> Cardinality(SavedReplies(m))]
    BY <1>7
  <2>5. QED
    BY <1>6, <2>1, <2>3, <2>4 DEF Promise!Deliver
<1>9. QED
  BY <1>8

(* A session that has heard nothing may be given a message: only a prompt  *)
(* delivers it.                                                            *)
LEMMA PromiseIgnores ==
  ASSUME DInv, UNCHANGED durable,
         \/ UNCHANGED callee
         \/ \E t \in Task : CreateCallee(t) \/ SpawnFails(t) \/ KillCallee(t)
         \/ StartSessions
         \/ \E s \in Session : ReapCallee(s)
  PROVE  UNCHANGED Promise!dvars
<1>1. \A s \in Session : callee[s].state = "none" => callee[s].heard = 0
  BY DEF DInv, Callees, CalleeRow
<1>2. SameHearings
  <2> USE DEF SameHearings
  <2>1. CASE UNCHANGED callee
    BY <2>1
  <2>2. CASE \E t \in Task : CreateCallee(t) \/ SpawnFails(t)
    <3>1. PICK n, x, lost :
            /\ x \in Session /\ callee[x].state = "none"
            /\ callee' = [callee EXCEPT ![x] = NewCallee(n, lost)]
      BY <2>2 DEF CreateCallee, SpawnFails
    <3>2. NewCallee(n, lost).heard = 0
      BY DEF NewCallee
    <3>3. /\ callee'[x].heard = 0 /\ callee[x].heard = 0
          /\ \A s \in Session \ {x} : callee'[s] = callee[s]
      BY <1>1, <3>1, <3>2 DEF DInv, IInv, TypeOK, CalleeType
    <3>4. QED
      BY <3>3
  <2>3. CASE \E t \in Task : KillCallee(t)
    BY <2>3 DEF KillCallee, DInv, IInv, TypeOK, CalleeType
  <2>4. CASE StartSessions
    BY <2>4 DEF StartSessions, DInv, IInv, TypeOK, CalleeType
  <2>5. CASE \E s \in Session : ReapCallee(s)
    BY <2>5 DEF ReapCallee, DInv, IInv, TypeOK, CalleeType
  <2>6. QED
    BY <2>1, <2>2, <2>3, <2>4, <2>5
<1>3. QED
  BY <1>2, PromiseStutters

LEMMA PromiseWakeup ==
  ASSUME AInv, AInv', NEW t \in Task, Wakeup(t) PROVE [Promise!Next]_(Promise!dvars)
<1> USE DEF AInv
<1>1. CASE DispatchCommit(t) \/ RecordCommit(t) \/ ReplyCommit(t) \/ SettleCommit(t)
  BY <1>1, PromiseCommits
  DEF DispatchCommit, RecordCommit, ReplyCommit, SettleCommit, Promise!Next
<1>2. CASE Prompt(t)
  BY <1>2, PromiseDelivers DEF Promise!Next
<1>3. CASE CreateCallee(t) \/ SpawnFails(t) \/ KillCallee(t)
  BY <1>3, PromiseIgnores DEF CreateCallee, SpawnFails, KillCallee
<1>4. CASE \/ Dispatch(t) \/ Record(t) \/ Settle(t) \/ ReplyInsert(t) \/ CreateRefused(t)
           \/ Repost(t) \/ Unanswered(t) \/ Collect(t) \/ GiveUp(t) \/ ReplyNumber(t)
  BY <1>4, PromiseIgnores
  DEF Dispatch, Record, Settle, ReplyInsert, CreateRefused, Repost, Unanswered, Collect,
      GiveUp, ReplyNumber
<1>5. QED
  BY <1>1, <1>2, <1>3, <1>4 DEF Wakeup

LEMMA PromiseStep == AInv /\ AInv' /\ [Next]_vars => [Promise!Next]_(Promise!dvars)
<1> SUFFICES ASSUME AInv, AInv', [Next]_vars PROVE [Promise!Next]_(Promise!dvars)
  OBVIOUS
<1>1. CASE \E r \in Req : PostCommit(r)
  BY <1>1, PromiseCommits DEF PostCommit, Promise!Next
<1>2. CASE \/ \E r \in Req, m \in MsgId : Post(r, m)
           \/ \E r \in Req : PostNumber(r) \/ PostInsert(r) \/ PostRespond(r)
           \/ Crash \/ Redispatch \/ UNCHANGED vars
  BY <1>2, PromiseIgnores
  DEF AInv, Post, PostNumber, PostInsert, PostRespond, Crash, Redispatch, vars
<1>3. CASE FailDispatched
  BY <1>3, PromiseRecovers DEF Promise!Next
<1>4. CASE StartSessions \/ \E s \in Session : ReapCallee(s)
  BY <1>4, PromiseIgnores DEF AInv, StartSessions, ReapCallee
<1>5. QED
  BY <1>1, <1>2, <1>3, <1>4, PromiseWakeup DEF Next, Handler, Restart

(* The broker implements the promise of BrokerDelivery: what a crash would *)
(* leave of a message only moves forward; while its dispatch is on disk and *)
(* it is not settled, its mind takes the prompt up at most once, though it *)
(* may be posted twice, and at most one reply to it is saved, none when it *)
(* timed out.  That a completed message was taken up, or has its reply, is *)
(* not promised.                                                           *)
THEOREM PromiseKept == Spec => KeepsPromise
<1>1. AInv /\ AInv' /\ [Next]_vars => [Promise!Next]_(Promise!dvars)
  BY PromiseStep
<1>2. QED
  BY <1>1, AInvAlways, PromiseInit, PTL DEF Spec, KeepsPromise, Promise!Spec
-----------------------------------------------------------------------------
(* Who closes a running callee *)

LEMMA WatchedKept ==
  ASSUME WInv, UNCHANGED gateway,
         \A s \in Session : callee'[s].state = "running" =>
                             callee[s].state = "running" /\ callee'[s].lost = callee[s].lost,
         \A t \in Task : task'[t].session = task[t].session \/ task[t].session = NoSession
  PROVE  Watched'
BY ConstantsAssumption DEF WInv, Watched, CalleeWatched

LEMMA TaskUp == ASSUME DInv, NEW t \in Task, task[t].pc # "free" PROVE gateway = "up"
BY DEF DInv, IInv, Owners, Quiet, NoTask

LEMMA CreateWatched == ASSUME WInv, NEW t \in Task, CreateCallee(t) PROVE Watched'
<1>1. PICK s \in Session :
        /\ callee' = [callee EXCEPT ![s] = NewCallee(task[t].msg, FALSE)]
        /\ task' = [task EXCEPT ![t] = [task[t] EXCEPT !.pc = "record", !.session = s]]
  BY DEF CreateCallee
<1>2. /\ task'[t].session = s /\ \A u \in Task \ {t} : task'[u] = task[u]
      /\ \A x \in Session \ {s} : callee'[x] = callee[x]
  BY <1>1 DEF WInv, DInv, IInv, TypeOK, TaskType
<1>3. task[t].session = NoSession
  BY DEF WInv, DInv, Callees, TaskCallee, CreateCallee, At, Early
<1>4. gateway = "up" /\ gateway' = "up"
  BY TaskUp DEF WInv, CreateCallee, At
<1>5. QED
  BY <1>2, <1>3, <1>4, ConstantsAssumption DEF WInv, Watched, CalleeWatched

LEMMA KillWatched == ASSUME WInv, NEW t \in Task, KillCallee(t) PROVE Watched'
<1>1. \A u \in Task \ {t} : task'[u] = task[u]
  BY DEF KillCallee, WInv, DInv, IInv, TypeOK
<1>2. \A s \in Session : IF s = task[t].session THEN callee'[s].state = "closed"
                                                ELSE callee'[s] = callee[s]
  BY DEF KillCallee, WInv, DInv, IInv, TypeOK, CalleeType
<1>3. gateway = "up" /\ gateway' = "up"
  BY TaskUp DEF WInv, KillCallee, At
<1>4. QED
  BY <1>1, <1>2, <1>3 DEF WInv, Watched, CalleeWatched

(* The one step that leaves a callee to nobody. *)
LEMMA SpawnWatched == ASSUME WInv, NEW t \in Task, SpawnFails(t) PROVE Watched'
<1>1. PICK s \in Session, outcome \in {"failed", "timed_out"} :
        /\ callee' = [callee EXCEPT ![s] = NewCallee(task[t].msg, TRUE)]
        /\ SettleWith(t, outcome)
  BY DEF SpawnFails
<1>2. callee'[s].lost /\ \A x \in Session \ {s} : callee'[x] = callee[x]
  BY <1>1 DEF NewCallee, WInv, DInv, IInv, TypeOK
<1>3. \A u \in Task : task'[u].session = task[u].session
  BY <1>1, SettleFields DEF WInv, DInv
<1>4. gateway = "up" /\ gateway' = "up"
  BY TaskUp DEF WInv, SpawnFails, At
<1>5. QED
  BY <1>2, <1>3, <1>4 DEF WInv, Watched, CalleeWatched

LEMMA WakeupWatched ==
  ASSUME WInv, NEW t \in Task, Wakeup(t) PROVE Watched'
<1> USE DEF WInv
<1>1. CASE \E pc : Goto(t, pc) /\ UNCHANGED <<callee, gateway>>
  BY <1>1, GotoFields, WatchedKept DEF DInv
<1>2. CASE \E outcome : SettleWith(t, outcome) /\ UNCHANGED <<callee, gateway>>
  BY <1>2, SettleFields, WatchedKept DEF DInv
<1>3. CASE ReplyNumber(t)
  <2> DEFINE n == NextNumber(ConvOf[task[t].msg])
  <2>1. task' = [task EXCEPT ![t] = [task[t] EXCEPT !.pc = "insert", !.number = n]]
    BY <1>3 DEF ReplyNumber
  <2> HIDE DEF n
  <2>2. \A u \in Task : task'[u].session = task[u].session
    BY <2>1 DEF DInv, IInv, TypeOK, TaskType
  <2>3. QED
    BY <1>3, <2>2, WatchedKept DEF ReplyNumber
<1>4. CASE Prompt(t)
  <2>1. \A u \in Task : task'[u].session = task[u].session
    BY <1>4, GotoFields DEF Prompt, DInv
  <2>2. \A s \in Session : callee'[s].state = callee[s].state /\ callee'[s].lost = callee[s].lost
    BY <1>4 DEF Prompt, DInv, IInv, TypeOK, CalleeType
  <2>3. QED
    BY <1>4, <2>1, <2>2, WatchedKept DEF Prompt
<1>6. CASE \/ Dispatch(t) \/ DispatchCommit(t) \/ Record(t) \/ RecordCommit(t)
           \/ Repost(t) \/ Unanswered(t) \/ Collect(t)
           \/ ReplyInsert(t) \/ Settle(t) \/ SettleCommit(t)
  BY <1>1, <1>6
  DEF Dispatch, DispatchCommit, Record, RecordCommit, Repost, Unanswered, Collect,
      ReplyInsert, Settle, SettleCommit
<1>7. CASE CreateRefused(t) \/ GiveUp(t) \/ ReplyCommit(t)
  BY <1>2, <1>7 DEF CreateRefused, GiveUp, ReplyCommit
<1>8. QED
  BY <1>3, <1>4, <1>6, <1>7, CreateWatched, SpawnWatched, KillWatched DEF Wakeup

LEMMA HandlerWatched ==
  ASSUME WInv, NEW r \in Req, Handler(r) \/ \E m \in MsgId : Post(r, m) PROVE Watched'
<1>1. CASE PostRespond(r)
  <2>1. \A t \in Task : task'[t] = task[t] \/ task[t].pc = "free"
    BY <1>1 DEF PostRespond, WInv, DInv, IInv, TypeOK
  <2>2. \A t \in Task : task[t].pc = "free" => task[t].session = NoSession
    BY DEF WInv, DInv, IInv, Owners, TaskShape, Shape, NoTask
  <2>3. QED
    BY <1>1, <2>1, <2>2, WatchedKept DEF PostRespond
<1>2. CASE UNCHANGED <<callee, task, gateway>>
  BY <1>2, WatchedKept
<1>3. QED
  BY <1>1, <1>2 DEF Handler, Post, PostNumber, PostInsert, PostCommit

LEMMA RestartWatched == ASSUME WInv, Crash \/ Restart PROVE Watched'
<1>1. CASE Crash
  BY <1>1 DEF Crash, Watched, CalleeWatched
<1>2. CASE StartSessions
  <2>1. \A s \in Session : callee'[s].state # "running"
    BY <1>2 DEF StartSessions, WInv, DInv, IInv, TypeOK, CalleeType
  <2>2. QED
    BY <2>1 DEF Watched, CalleeWatched
<1>3. CASE FailDispatched \/ Redispatch
  BY <1>3 DEF FailDispatched, Redispatch, WInv, Watched, CalleeWatched
<1>4. QED
  BY <1>1, <1>2, <1>3 DEF Restart

LEMMA ReapWatched == ASSUME WInv, NEW s \in Session, ReapCallee(s) PROVE Watched'
<1>1. \A x \in Session : callee'[x].state = "running" =>
                             callee[x].state = "running" /\ callee'[x].lost = callee[x].lost
  BY DEF ReapCallee, WInv, DInv, IInv, TypeOK, CalleeType
<1>2. QED
  BY <1>1, WatchedKept DEF ReapCallee

LEMMA WatchedStep == ASSUME WInv, [Next]_vars PROVE Watched'
<1>1. CASE UNCHANGED vars
  BY <1>1, WatchedKept DEF vars
<1>2. QED
  BY <1>1, HandlerWatched, WakeupWatched, RestartWatched, ReapWatched DEF Next

(* While the gateway is up, a running callee session has the task that     *)
(* will kill it: step 6 of wakeup_and_collect, start and the reaper leave  *)
(* none behind, whatever fails and whenever the gateway crashes, with one  *)
(* exception, a callee of which create_session raised after its INSERT.    *)
THEOREM NoOrphans == Spec => []CalleeWatched
<1>1. Init => Watched
  BY DEF Init, Watched, CalleeWatched, NoCallee
<1>2. DInv /\ Watched /\ [Next]_vars => Watched'
  BY WatchedStep DEF WInv
<1>3. Watched => CalleeWatched
  BY DEF Watched
<1>4. QED
  BY <1>1, <1>2, <1>3, DInvAlways, PTL DEF Spec
=============================================================================
