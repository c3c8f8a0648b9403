SPECIFICATION FairSpec
CONSTANTS
  t1 = t1
  l1 = l1
  l2 = l2
  MaxOrders = 2
  ListLimit = 1
  BurstCount = 3
  Loops <- TwoLoops
  FreePolls <- OnePoll
  Clicks <- Pairs
  MaxFaults = 1
INVARIANTS TypeOK RetryGuarded BurstAccounted
PROPERTIES DetailAgrees HandlersEnd PageCatchesUp
