SPECIFICATION MemorySpec
CONSTANTS
  MaxNodes = 2
  Owners = {u2}
  Readers = {u1}
  NoOne = NoOne
  Callers = {r1}
  Reflector = Reflector
  Starter = Starter
  Timers = {}
  Buffer = 1
  Batch = 1
  MinThreshold = 1
  MaxThreshold = 2
  Scale = 4
  MinCluster = 1
  RegenThreshold = 1
  MaxChanges = 2
  Seeded = 1
  Subscribers = {"consolidator"}
  Operations = {"create", "save", "trigger", "show", "pin", "delete", "reflect", "link", "reembed", "dedup"}
INVARIANTS
  CacheHidesPrivate
  EdgesFollowNodes
CHECK_DEADLOCK FALSE
