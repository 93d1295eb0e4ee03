\* Two pollers, a backlog above the cap, and two mishaps of any kind.
CONSTANTS
  Events = {e1, e2}
  Pollers = {p1, p2}
  PollCap = 1
  ScanLimit = 2
  MaxAttempts = 2
  DayLength = 1
  MaxTime = 1
  MaxMishaps = 2
SPECIFICATION FairSpec
INVARIANTS TypeOK RowsTellTheTruth RepeatsArePaid
PROPERTIES NothingIsForgotten
