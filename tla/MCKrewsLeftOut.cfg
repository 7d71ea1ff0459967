\* Someone with an invite joins by the link.
SPECIFICATION Spec
CONSTANTS
  Accounts = {a1, a2}
  Threads = {1}
  Explored <- Inviting
INVARIANTS MembersInChat
CHECK_DEADLOCK FALSE
