\* A composer opened twice, and a request lost or the tab closed.
CONSTANTS
  Mounts = {1, 2}
  MaxTyped = 2
  MaxAsked = 1
  MaxTroubles = 1
  Failures = {"signal", "tab"}
  Resuming = {TRUE, FALSE}
  None = None
SPECIFICATION Spec
INVARIANTS NothingLostUntroubled OnceUntroubled GoneUntroubled
PROPERTY OwnWork
CHECK_DEADLOCK FALSE
