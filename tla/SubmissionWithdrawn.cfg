\* A withdrawal whose list is read before the submission is recorded.
CONSTANTS
  Callers = {c1, c2}
  Submitters = {c1}
  Orders = {1}
  Plans <- OnePlan
  SwitchKinds = {"manual"}
  MaxDay = 1
  MaxFaults = 0
  Interleaved = FALSE
SPECIFICATION FairSpec
INVARIANTS EndedIsDead
