\* Two handlers at a time, two accounts, one code, two sign-ins, one identity. Ids
\* are drawn until none is left: the instance may really stop.
SPECIFICATION Spec
CONSTANTS
  Requests = {r1, r2}
  Users = {u1, u2}
  Codes = {c1}
  Tokens = {t1, t2}
  Providers = {google}
  Subjects = {s1}
  Roles = {"admin", "user"}
  None = None
SYMMETRY Symmetry
INVARIANTS TypeOK NoDanglingRows RefusedSignUpsLeaveNothing
CHECK_DEADLOCK FALSE
