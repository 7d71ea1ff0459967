\* One request at a time.
SPECIFICATION Spec
CONSTANTS
  Accounts = {a1, a2, a3}
  Threads = {1}
  Explored <- Requests
SYMMETRY AccountSymmetry
INVARIANTS SeatsCounted NeverEmpty RequestsAnswered OnePeople ChatOnlyMembers
PROPERTY NobodyForceAdded
CHECK_DEADLOCK FALSE
