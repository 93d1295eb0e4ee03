\* One order of three shares, executed, cancelled and lost in every way,
\* in the paper environment and beside a report that lists the orders.
CONSTANTS
  Orders = {o1}
  Size = 3
  Settings <- PaperOrReal
SPECIFICATION FairSpec
INVARIANTS SilentMeansTrueButPartial
PROPERTIES StoreClaimsNoMore ListenerProblemStops
\* After the last day nothing may be left to do.
CHECK_DEADLOCK FALSE
