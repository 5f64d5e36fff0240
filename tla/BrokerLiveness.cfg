SPECIFICATION FairSpec
CONSTANTS
  c1 = c1
  MsgId = {m1}
  ReplyId = {a1, a2}
  Conv = {c1}
  ConvOf <- OneConversation
  Req = {r1, r2}
  Task = {t1, t2}
  Session = {s1, s2}
  MaxCrashes = 2
  NoMsg = NoMsg
  NoSession = NoSession
CHECK_DEADLOCK FALSE
PROPERTIES
  EveryMessageSettles
  EveryCalleeCloses
