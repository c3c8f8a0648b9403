SPECIFICATION Spec
CONSTANTS
  Orders = {o1, o2, o3}
  NoOrder = NoOrder
  Workers = {w1, w2}
  Partitions = {p1, p2}
  NoWorker = NoWorker
  NoPartition = NoPartition
  ListCap = 2
  Budgets <- TwoRetries
SYMMETRY Symmetry
INVARIANTS RetryLeavesTrace
PROPERTIES FollowsLifecycle
