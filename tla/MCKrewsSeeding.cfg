\* A projekt is seeded while people come and go. Neither is kept: leave one in to see how.
SPECIFICATION Spec
CONSTANTS
  Accounts = {a1, a2}
  Threads = {1, 2}
  Explored <- Seeding
INVARIANTS OnePeople
PROPERTIES NobodyForceAdded
CHECK_DEADLOCK FALSE
