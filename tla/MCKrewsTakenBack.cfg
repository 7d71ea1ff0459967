\* A request is taken back while it is accepted or answered by joining. Neither is kept: leave one in to see how.
SPECIFICATION Spec
CONSTANTS
  Accounts = {a1, a2}
  Threads = {1, 2}
  Explored <- TakingBack
INVARIANTS NeverEmpty
PROPERTIES NobodyForceAdded
CHECK_DEADLOCK FALSE
