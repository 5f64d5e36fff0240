SPECIFICATION Spec
CONSTANTS
  Sid = {s1, s2, s3}
  Client = {c1}
  Scheduler = {}
  Op = {o1, o2}
  Calls = {"create", "send", "arm"}
  Faults = {"refuse"}
  MaxConv = 0
  MaxCrashes = 1
  NoSid = NoSid
  NoClient = NoClient
  Free = Free
CHECK_DEADLOCK FALSE
SYMMETRY Symmetric
PROPERTY
  KeepsLifecycle
