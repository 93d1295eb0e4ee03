\* The order submission: the key is the minute of the start.
CONSTANTS
  Workers = {w1, w2}
  Slots = {0}
  KeySpan = 1
  Lease = 9
  MaxTime = 2
  MaxRuns = 2
  MaxFaults = 0
SPECIFICATION FairSpec
INVARIANTS SlotSucceedsOnce
CHECK_DEADLOCK FALSE
