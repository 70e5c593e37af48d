SPECIFICATION Spec
CONSTANTS
  Users = {u1}
  c1 = c1
  Calendars = {c1, c2}
  Selections <- MCSelections
  Handlers = {h1, h2}
  Savers = {s1}
  Backends = {"keychain", "file"}
  LegacyUsers = {u1}
  MaxTokens = 2
  MaxFlows = 1
  MaxFaults = 1
  None = None
SYMMETRY Symmetry
INVARIANTS
  TypeOK
  StoreFollowsMemory
  SelectionKept
