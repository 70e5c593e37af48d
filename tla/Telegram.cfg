SPECIFICATION Spec
CONSTANTS
  Settings = {s1, s2}
  Loops = {l1, l2}
  Restarters = {r1, r2}
  MaxUpdates = 2
  None = None
INVARIANTS
  TypeOK
  NoUpdateLost
  RestartReplaces
SYMMETRY Symmetry
