\* Two submitters of the same order, and faults, over two trading days.
CONSTANTS
  Callers = {c1, c2}
  Submitters = {c1, c2}
  Orders = {1}
  Plans <- OnePlan
  SwitchKinds = {"manual"}
  MaxDay = 2
  MaxFaults = 2
  Interleaved = FALSE
SPECIFICATION Spec
INVARIANTS TypeOK Accounted
PROPERTIES NumberIsKept SentOnlyOnOrder
SYMMETRY CallerSymmetry
