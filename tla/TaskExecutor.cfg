\* Two calls of Execute on one task, one concurrent request, one failing write.
CONSTANTS
  Tasks = {t1}
  Runs = {r1, r2}
  Clients = {c1}
  NoTask = NoTask
  ManualTasks = {t1}
  MaxFaults = 1
SPECIFICATION Spec
INVARIANTS TypeOK RunningRowHasOwner ActiveRunsExact EventMatchesRow
PROPERTIES LifecycleSpec EveryRunSettles
