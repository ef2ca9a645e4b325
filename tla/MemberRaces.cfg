SPECIFICATION Spec
CONSTANTS
  Users = {u1, u2}
  Ids = {i1, i2, i3, i4}
  Clients = {p1, p2}
  None = None
  Ops = {"join", "invite", "role", "status", "resend", "remove"}
PROPERTIES LastOwnerGoesStale
SYMMETRY Symmetry
CHECK_DEADLOCK FALSE
