SPECIFICATION Spec
CONSTANTS
  Sid = {s1, s2}
  Client = {c1}
  Scheduler = {c1}
  Op = {o1, o2}
  Calls = {"new", "send", "kill", "activate", "interrupt", "arm"}
  Faults = {"drop"}
  MaxConv = 0
  MaxCrashes = 0
  NoSid = NoSid
  NoClient = NoClient
  Free = Free
CHECK_DEADLOCK FALSE
SYMMETRY Symmetric
INVARIANTS
  TypeOK
  OneTurnPerSession
  LocksReleased
  NothingDangles
