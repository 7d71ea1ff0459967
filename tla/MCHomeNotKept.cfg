\* None of these is kept: leave one in to see how.
CONSTANTS
  MaxStatus = 4
  MaxDeleted = 1
  MaxDrops = 2
  Page = 2
  Full = 3
  Kept = 2
  Pending = FALSE
  Loops = {1, 2}
  Gap = Gap
  None = None
SPECIFICATION Spec
INVARIANTS NoGhosts OnePoll EndIsEnd HolesMarked
CHECK_DEADLOCK FALSE
