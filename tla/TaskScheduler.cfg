\* Two tasks, two concurrent writers, two writes, a buffer of one event and a
\* read of the table that fails.
CONSTANTS
  Tasks = {t1, t2}
  Users = {admin, user}
  Admin = admin
  Bodies = {b1}
  CronBodies = {b1}
  Editors = {e1, e2}
  Capacity = 1
  MaxEdits = 2
  MaxFaults = 1
SPECIFICATION Spec
INVARIANTS TypeOK NoChangeLost
PROPERTIES ChangesReachSchedule OwnerNeverReverts
