SPECIFICATION Spec
CONSTANTS
  Observer = {o1}
  Tile = {a1}
  QueueMax = 2
  MaxEvents = 4
  MaxCloses = 2
CHECK_DEADLOCK FALSE
INVARIANTS
  NewestKept
  NoDeafWatcher
  TypeOK
PROPERTIES
  EvictedStandsDown
  KillEndsBridge
