\* A stream lost twice, so that there may be two polling loops.
CONSTANTS
  MaxStatus = 4
  MaxDeleted = 0
  MaxDrops = 2
  Page = 2
  Full = 3
  Kept = 2
  Pending = FALSE
  Loops = {1, 2}
  Gap = Gap
  None = None
SPECIFICATION Spec
INVARIANTS TypeOK NothingTwice OtherHolesMarked
CHECK_DEADLOCK FALSE
