\* A deletion settles what its account proposed, and is killed once at most.
SPECIFICATION FairSpec
CONSTANTS
  Accounts = {1, 2}
  Proposals = {1, 2}
  Author <- OneAuthor
  StartingBalance = 30
  Jobs <- DeletionJobs
  Mortal = {"back", "action", "annul", "delete"}
  MaxCrashes = 1
INVARIANTS NoneLockedBehindGone
PROPERTIES DeletionUnlocks
