SPECIFICATION Spec
CONSTANTS
  Orders = {o1, o2}
  NoOrder = NoOrder
  Workers = {w1, w2}
  Partitions = {p1}
  NoWorker = NoWorker
  NoPartition = NoPartition
  ListCap = 1
  Budgets <- AllFaults
SYMMETRY Symmetry
INVARIANTS TypeOK AtLeastOnce AcceptedNotLost PublishedOnce StatusJustified LinkPublished RecordConsistent Settled RecentBounded
