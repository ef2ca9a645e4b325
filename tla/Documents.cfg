SPECIFICATION Spec
CONSTANTS
  Docs = {paper, handout}
  Papers = {paper}
  Items = {i1, i2, i3}
  Questions = {q1}
  Layouts = {l1}
  Clients = {p1, p2}
  None = None
  Ops = {"add", "reorder", "remove", "drop", "dropLayout"}
  Indexes = {0, 1}
  MaxNamed = 2
  MaxSparse = 0
  MaxIndex = 0
  MaxBulk = 2
  MaxOverlaps = 0
  Faults = {"db"}
INVARIANTS TypeOK Dense LayoutsKept NobodyIsStuck
PROPERTIES OnlyWhatWasAsked ImplementsOrder
SYMMETRY Symmetry
CHECK_DEADLOCK FALSE
