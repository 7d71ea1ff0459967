\* The first task of a list is done when it is added.
SPECIFICATION HandoverSpec
CONSTANTS
  Tasks = {"t1"}
  Given = {}
  Proposer = "proposer"
  Requests <- DoneRequests
INVARIANTS FinishedByOthers
CHECK_DEADLOCK FALSE
