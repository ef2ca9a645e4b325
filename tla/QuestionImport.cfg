SPECIFICATION Spec
CONSTANTS
  x = x
  y = y
  Tags = {x, y}
  Batches <- MCBatches
  Clients = {p1, p2, p3}
  PoolSize = 3
  MaxStored = 0
  None = None
INVARIANTS TypeOK TagsAreThere StallTakesThePool
PROPERTIES ImportIsAtomic EveryRequestAnswered
CHECK_DEADLOCK FALSE
