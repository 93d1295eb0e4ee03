\* An order executed in three parts, without a loss.
CONSTANTS
  Orders = {o1}
  Size = 3
  Settings <- PaperWithoutLoss
SPECIFICATION FairSpec
INVARIANTS SilentMeansTrue
CHECK_DEADLOCK FALSE
