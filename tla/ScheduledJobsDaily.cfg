\* A job with one key a day: three workers, late and doubled messages, faults.
CONSTANTS
  Workers = {w1, w2, w3}
  Slots = {0, 2}
  KeySpan = 10
  Lease = 2
  MaxTime = 5
  MaxRuns = 4
  MaxFaults = 2
SPECIFICATION Spec
INVARIANTS TypeOK LeaseIsRespected
PROPERTIES KeepsLedger
SYMMETRY WorkerSymmetry
\* The clock and the messages end.
CHECK_DEADLOCK FALSE
