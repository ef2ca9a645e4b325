SPECIFICATION OwnedSpec
CONSTANTS
  Users = {u1, u2}
  Ids = {i1, i2}
  Clients = {p1, p2}
  None = None
  Ops = {"role"}
PROPERTIES AnOwnerRemains
SYMMETRY Symmetry
CHECK_DEADLOCK FALSE
