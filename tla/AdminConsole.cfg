SPECIFICATION Spec
CONSTANTS
  a = a
  b = b
  q1 = q1
  q2 = q2
  d1 = d1
  Tenants = {a, b}
  Questions = {q1, q2, q3}
  Documents = {d1, d2}
  Jobs = {j1, j2}
  Rows <- MCRows
  Handlers = {h1, h2}
  MaxPolls = 2
  MaxClicks = 2
  None = None
INVARIANTS TypeOK ShownIsSelected SentGoesHome
SYMMETRY Symmetry
CHECK_DEADLOCK FALSE
