\* A task is added between the check and the action.
SPECIFICATION HandoverSpec
CONSTANTS
  Tasks = {"t1", "t3"}
  Given = {"t1"}
  Proposer = "proposer"
  Requests <- AddingRequests
PROPERTIES WorkFinishedWhenActioned
CHECK_DEADLOCK FALSE
