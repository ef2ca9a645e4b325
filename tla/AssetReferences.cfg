SPECIFICATION Spec
CONSTANTS
  Assets = {a1, a2}
  Parts = {stem}
  Layouts = {layout}
  Clients = {p1, p2}
  None = None
  Faults = {"store", "db", "restart"}
INVARIANTS TypeOK NoDanglingReference UploadsAreWhole ObjectsGoFirst
PROPERTIES YoungAssetsStay
SYMMETRY Symmetry
CHECK_DEADLOCK FALSE
