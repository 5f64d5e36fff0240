SPECIFICATION Spec
CONSTANTS
  c1 = c1
  MsgId = {m1, m2}
  ReplyId = {a1, a2}
  Conv = {c1}
  ConvOf <- OneConversation
  Req = {r1, r2, r3}
  Task = {t1, t2}
  Session = {s1, s2}
  MaxCrashes = 1
  NoMsg = NoMsg
  NoSession = NoSession
SYMMETRY Symmetric
CHECK_DEADLOCK FALSE
INVARIANTS
  TypeOK
  AtMostOneCallee
  OneTaskPerMessage
  NumbersContiguous
  AcknowledgedIsDurable
  CalleeWatched
PROPERTY
  KeepsPromise
