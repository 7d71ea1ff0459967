\* Everybody edits the list at once.
SPECIFICATION HandoverSpec
CONSTANTS
  Tasks = {"t1", "t2", "t3"}
  Given = {"t1", "t2"}
  Proposer = "proposer"
  Requests <- TeamRequests
INVARIANTS NoLostHandover ToldOnce
CHECK_DEADLOCK FALSE
