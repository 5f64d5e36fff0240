SPECIFICATION AtWorkSpec
CONSTANTS
  Sid = {s1, s2, s3}
  Client = {c1}
  Scheduler = {}
  Op = {o1, o2}
  Calls = {"send", "arm"}
  Faults = {"refuse", "delete"}
  MaxConv = 0
  MaxCrashes = 0
  NoSid = NoSid
  NoClient = NoClient
  Free = Free
CHECK_DEADLOCK FALSE
PROPERTIES
  EveryCallEnds
