\* Two proposals, tokens and deletions; no tasks.
SPECIFICATION Spec
CONSTANTS
  Accounts = {a1, a2}
  Proposals = {p1, p2}
  NoOne = NoOne
  Stewards = {}
  StartingBalance = 10
  Stakes = {5}
  MaxTasks = 0
  Leavers = {a1}
SYMMETRY ProposalSymmetry
INVARIANTS TypeOK StakesComeHome RefundedOnce PaidOnClose NoneLockedBehindGone Reconciles
  WalletRightWhileAuthorsStay
PROPERTIES OnlyForward ImplementsLedger
CHECK_DEADLOCK FALSE
