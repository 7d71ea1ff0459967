\* Backings, two closes at once and an annul, which may deadlock; a close may be killed.
SPECIFICATION Spec
CONSTANTS
  Accounts = {1, 2}
  Proposals = {1, 2}
  Author <- OwnAuthor
  StartingBalance = 30
  Jobs <- RequestJobs
  Mortal = {"close"}
  MaxCrashes = 1
INVARIANTS Reconciles PaidOnce StakesComeHome
PROPERTIES ImplementsLedger
