SPECIFICATION DeliverySpec
CONSTANTS
  Users = {u1, u2}
  Devices = {d1}
  Results <- Tasks
  Numbers = {n1, n2}
  Capacity = 1
  Nobody = Nobody
INVARIANTS
  DeliveryTypeOK
  NothingVanishes
  BadgeCountsMessage
SYMMETRY Symmetry
