\* Four posts, a deletion, and a stream lost once.
CONSTANTS
  MaxStatus = 4
  MaxDeleted = 1
  MaxDrops = 1
  Page = 2
  Full = 3
  Kept = 2
  Pending = FALSE
  Loops = {1}
  Gap = Gap
  None = None
SPECIFICATION Spec
INVARIANTS NothingTwice OtherHolesMarked
CHECK_DEADLOCK FALSE
