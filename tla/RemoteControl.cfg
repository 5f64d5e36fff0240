SPECIFICATION Spec
CONSTANTS
  Proc = {p1, p2, p3}
  Call = {c1, c2, c3}
  MaxSpawns = 1
  NoProc = NoProc
CHECK_DEADLOCK FALSE
INVARIANTS
  TypeOK
  
 
