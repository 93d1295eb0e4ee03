\* Two orders and daily totals only, as in the paper environment.
CONSTANTS
  Orders = {o1, o2}
  Size = 1
  Settings <- PaperEarly
SPECIFICATION Spec
INVARIANTS TypeOK DayEndIsTrue
PROPERTIES DayEndIsNotSilent
SYMMETRY OrderSymmetry
\* After the last day nothing may be left to do.
CHECK_DEADLOCK FALSE
