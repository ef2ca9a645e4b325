SPECIFICATION FairSpec
CONSTANTS
  Jobs = {j1, j2}
  Assets = {a1, a2, a3}
  Clients = {p1}
  Slots = {s1, s2}
  None = None
  Ops = {"create", "retry"}
  Faults = {"db"}
  MaxStalls = 1
PROPERTIES ImplementsLifecycle
CHECK_DEADLOCK FALSE
