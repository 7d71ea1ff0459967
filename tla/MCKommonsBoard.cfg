\* One proposal with a full crew, its tasks and its proposer's deletion.
SPECIFICATION Spec
CONSTANTS
  Accounts = {a1, a2, a3}
  Proposals = {p1}
  NoOne = NoOne
  Stewards = {a3}
  StartingBalance = 1
  Stakes = {1}
  MaxTasks = 2
  Leavers = {a1, a3}
INVARIANTS CrewConsistent
PROPERTIES CrewKept
CHECK_DEADLOCK FALSE
