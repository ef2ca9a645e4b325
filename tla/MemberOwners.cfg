SPECIFICATION Spec
CONSTANTS
  Users = {u1, u2}
  Ids = {i1, i2}
  Clients = {p1, p2}
  None = None
  Ops = {"join", "invite", "rejoin", "role", "status", "resend"}
INVARIANTS TypeOK NoRequestFails
PROPERTIES OwnersComeFromOwners
SYMMETRY Symmetry
CHECK_DEADLOCK FALSE
