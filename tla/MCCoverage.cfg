\* A schedule and a load that a cycle can cover, two invocations, aborts.
CONSTANTS
  w1 = w1  w2 = w2
  Pollers = {w1, w2}
  EventLists <- RootsAndFarDeadlines
  Limit = 2
  Lookback = 1
  MaxGap = 1
  MaxLanded = 2
  Faults = {"abort"}
  MaxAborts = 1
  MaxSlot = 2
  MaxTxs = 3
SPECIFICATION FairSpec
CHECK_DEADLOCK FALSE
INVARIANTS TypeOK NothingMissed NothingRevertedPublished
PROPERTIES EveryEventPublished
