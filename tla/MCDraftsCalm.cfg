\* Nothing goes wrong.
CONSTANTS
  Mounts = {1, 2}
  MaxTyped = 3
  MaxAsked = 1
  MaxTroubles = 1
  Failures = {}
  Resuming = {TRUE, FALSE}
  None = None
SPECIFICATION Spec
INVARIANTS TypeOK NothingLostUntroubled OnceUntroubled GoneUntroubled
PROPERTY OwnWork
CHECK_DEADLOCK FALSE
