SPECIFICATION Spec
CONSTANTS
  t1 = t1
  l1 = l1
  l2 = l2
  MaxOrders = 3
  ListLimit = 2
  BurstCount = 2
  Loops <- TwoLoops
  FreePolls <- OnePoll
  Clicks <- All
  MaxFaults = 0
PROPERTIES RetriesShownOrder
