\* None of these is kept: leave one in to see how.
CONSTANTS
  Mounts = {1, 2}
  MaxTyped = 2
  MaxAsked = 2
  MaxTroubles = 1
  Failures = {"signal"}
  Resuming = {TRUE, FALSE}
  None = None
SPECIFICATION Spec
INVARIANTS EmptiedGoes NothingLost NeverTwice GoneForGood
CHECK_DEADLOCK FALSE
