SPECIFICATION FairLoadSpec
CONSTANTS
  Orders = {o1, o2}
  NoOrder = NoOrder
  Workers = {w1}
  Partitions = {p1}
  NoWorker = NoWorker
  NoPartition = NoPartition
  ListCap = 2
  Budgets <- LateOrTwice
  ScanLimit = 2
  Concurrency = 2
INVARIANTS LoadTypeOK ReportIsTrue ZeroMeansServed TotalIsListed
PROPERTIES GeneratorEnds BacklogDrains
