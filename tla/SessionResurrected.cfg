SPECIFICATION Spec
CONSTANTS
  Sid = {s1}
  Client = {c1}
  Scheduler = {}
  Op = {o1, o2}
  Calls = {"create", "send", "kill"}
  Faults = {}
  MaxConv = 0
  MaxCrashes = 0
  NoSid = NoSid
  NoClient = NoClient
  Free = Free
CHECK_DEADLOCK FALSE
PROPERTY ClosedNotResurrected
