SPECIFICATION FairMemorySpec
CONSTANTS
  MaxNodes = 2
  Owners = {}
  Readers = {}
  NoOne = NoOne
  Callers = {r1}
  Reflector = Reflector
  Starter = Starter
  Timers = {t1}
  Buffer = 1
  Batch = 1
  MinThreshold = 1
  MaxThreshold = 2
  Scale = 4
  MinCluster = 1
  RegenThreshold = 1
  MaxChanges = 1
  Seeded = 2
  Subscribers = {"enricher", "profiler"}
  Operations = {"start", "restart", "trigger"}
INVARIANTS
  MemoryTypeOK
PROPERTIES
  PendingIsReached
CHECK_DEADLOCK FALSE
