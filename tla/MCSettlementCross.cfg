\* Two proposers back each other and close: deadlocks are broken.
SPECIFICATION FairSpec
CONSTANTS
  Accounts = {1, 2}
  Proposals = {1, 2}
  Author <- OwnAuthor
  StartingBalance = 30
  Jobs <- CrossJobs
  Mortal = {}
  MaxCrashes = 0
INVARIANTS TypeOK RefundedOnce
PROPERTIES EveryJobEnds
