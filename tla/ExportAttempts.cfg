SPECIFICATION Spec
CONSTANTS
  Jobs = {j1}
  Assets = {a1, a2, a3}
  Clients = {p1, p2}
  Slots = {s1, s2}
  None = None
  Ops = {"create", "cancel", "retry", "cleanup"}
  Faults = {"queue", "api", "db", "crash", "event"}
  MaxStalls = 1
INVARIANTS TypeOK SingleAttempt
PROPERTIES SuccessNotRerun CancelStopsWork
SYMMETRY Symmetry
CHECK_DEADLOCK FALSE
