\* New is pressed twice.
CONSTANTS
  Mounts = {1}
  MaxTyped = 2
  MaxAsked = 2
  MaxTroubles = 1
  Failures = {}
  Resuming = {TRUE, FALSE}
  None = None
SPECIFICATION Spec
INVARIANT NeverTwice
CHECK_DEADLOCK FALSE
