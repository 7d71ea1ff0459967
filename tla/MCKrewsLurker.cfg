\* The chat is opened while a member leaves.
SPECIFICATION Spec
CONSTANTS
  Accounts = {a1, a2}
  Threads = {1, 2}
  Explored <- Chatting
INVARIANTS ChatOnlyMembers
CHECK_DEADLOCK FALSE
