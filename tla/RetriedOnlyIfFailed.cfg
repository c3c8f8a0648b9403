SPECIFICATION Spec
CONSTANTS
  Orders = {o1, o2}
  NoOrder = NoOrder
  Workers = {w1, w2}
  Partitions = {p1}
  NoWorker = NoWorker
  NoPartition = NoPartition
  ListCap = 2
  Budgets <- FailedSend
INVARIANTS RetriedOnlyIfFailed
