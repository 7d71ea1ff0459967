\* Someone joins while the Krew is archived, or while they ask. Neither is kept: leave one in to see how.
SPECIFICATION Spec
CONSTANTS
  Accounts = {a1, a2}
  Threads = {1, 2}
  Explored <- Archiving
INVARIANTS RequestsAnswered
PROPERTIES ArchivedAlone
CHECK_DEADLOCK FALSE
