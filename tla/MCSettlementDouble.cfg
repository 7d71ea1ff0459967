\* A close and its proposer's deletion.
SPECIFICATION Spec
CONSTANTS
  Accounts = {1, 2}
  Proposals = {1, 2}
  Author <- OneAuthor
  StartingBalance = 30
  Jobs <- LastCloseJobs
  Mortal = {}
  MaxCrashes = 0
INVARIANTS RefundedOnce
