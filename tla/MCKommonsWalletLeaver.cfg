\* A proposer of actioned work deletes their account.
SPECIFICATION Spec
CONSTANTS
  Accounts = {a1, a2}
  Proposals = {p1, p2}
  NoOne = NoOne
  Stewards = {}
  StartingBalance = 10
  Stakes = {5}
  MaxTasks = 0
  Leavers = {a1}
SYMMETRY ProposalSymmetry
INVARIANTS WalletTotalIsOwned
CHECK_DEADLOCK FALSE
