\* The same submit command twice, its first call timing out.
CONSTANTS
  Callers = {c1}
  Submitters = {c1}
  Orders = {1}
  Plans <- OnePlan
  SwitchKinds = {"manual"}
  MaxDay = 1
  MaxFaults = 1
  Interleaved = FALSE
SPECIFICATION FairSpec
INVARIANTS NoDuplicate
