SPECIFICATION FairSpec
CONSTANTS
  Sid = {s1}
  Client = {c1, c2}
  Scheduler = {}
  Op = {o1}
  Calls = {"create", "send", "kill", "adopt", "respawn", "reap"}
  Faults = {"refuse", "drop", "stale", "cancel"}
  MaxConv = 1
  MaxCrashes = 1
  NoSid = NoSid
  NoClient = NoClient
  Free = Free
CHECK_DEADLOCK FALSE
INVARIANTS
  
  ConversationPinned
  ConversationRecorded
PROPERTY
  AbandonedIsReaped
