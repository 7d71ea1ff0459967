\* Two closes with a backer and an author in common.
SPECIFICATION Spec
CONSTANTS
  Accounts = {1, 2}
  Proposals = {1, 2}
  Author <- OwnAuthor
  StartingBalance = 30
  Jobs <- CrossJobs
  Mortal = {}
  MaxCrashes = 0
INVARIANTS NoLockCycle
