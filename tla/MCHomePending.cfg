\* New posts wait in other timelines.
CONSTANTS
  MaxStatus = 4
  MaxDeleted = 0
  MaxDrops = 1
  Page = 2
  Full = 3
  Kept = 2
  Pending = TRUE
  Loops = {1}
  Gap = Gap
  None = None
SPECIFICATION Spec
INVARIANTS OtherHolesMarked
CHECK_DEADLOCK FALSE
