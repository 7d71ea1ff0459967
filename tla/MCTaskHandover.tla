---------------------------- MODULE MCTaskHandover ----------------------------
(* The requests of the runs of TaskHandover. *)
EXTENDS TaskHandover

Edit(kind, by, k, no) == [kind |-> kind, by |-> by, task |-> k, no |-> no]

\* Two stewards and the proposer work down one list; a task is reopened and one added,
\* to do or done.
TeamRequests ==
  {Edit("tick", "s1", "t1", 1), Edit("tick", "s2", "t2", 1), Edit("tick", "s2", "t1", 2),
   Edit("tick", "proposer", "t2", 2), Edit("reopen", "proposer", "t1", 1),
   Edit("add", "s1", "t3", 1), Edit("add done", "s1", "t3", 2)}

\* A steward ticks the last task while the proposer adds one.
AddingRequests == {Edit("tick", "s1", "t1", 1), Edit("add", "proposer", "t3", 1)}

\* A steward adds a task that is done.
DoneRequests == {Edit("add done", "s1", "t1", 1)}
================================================================================
