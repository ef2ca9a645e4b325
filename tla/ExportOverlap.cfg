SPECIFICATION Spec
CONSTANTS
  Jobs = {j1}
  Assets = {a1, a2, a3}
  Clients = {p1}
  Slots = {s1, s2}
  None = None
  Ops = {"create", "cancel", "retry", "cleanup", "removeAsset", "cleanupAssets"}
  Faults = {"queue", "api", "db", "crash", "lock", "event"}
  MaxStalls = 1
INVARIANTS AttemptOwnsAsset SucceededDownloadable
SYMMETRY Symmetry
CHECK_DEADLOCK FALSE
